SPECIFICATION InformerSpec
CONSTANTS
  Keys = {k1}
  Listeners = {l1, l2}
  Resyncers = {l1}
  MaxVersion = 3
  MaxLists = 2
  MaxResyncs = 2
INVARIANTS
  InformerTypeOK
  HandlersInformed
  AddedFirst
  NoGhostObjects
CHECK_DEADLOCK FALSE
