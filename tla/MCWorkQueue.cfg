SPECIFICATION FairSpec
CONSTANTS
  Items = {i1, i2, i3, i4}
  Workers = {w1, w2, w3}
  NoItem = NoItem
INVARIANTS
  QueueConsistent
  Stingy
  EnoughAwake
  DrainedAtExit
PROPERTIES
  EventuallyProcessed
  KeepsPromise
CHECK_DEADLOCK FALSE
