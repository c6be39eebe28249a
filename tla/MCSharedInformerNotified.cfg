SPECIFICATION InformerFairSpec
CONSTANTS
  Keys = {k1}
  Listeners = {l1, l2}
  Resyncers = {l1}
  MaxVersion = 2
  MaxLists = 2
  MaxResyncs = 1
PROPERTIES
  ClientsNotified
CHECK_DEADLOCK FALSE
