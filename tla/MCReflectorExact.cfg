SPECIFICATION CacheFairSpec
CONSTANTS
  Keys = {k1}
  MaxVersion = 4
  MaxLists = 2
PROPERTIES
  ExactCopy
CHECK_DEADLOCK FALSE
