SPECIFICATION Spec
CONSTANTS
  Procs = {p1, p2}
  Nobody = Nobody
  LeaseDuration = 4
  RenewDeadline = 2
  RetryPeriod = 1
  RequestTimeout = 2
  ReleaseOnCancel = TRUE
  MaxTime = 6
SYMMETRY Symmetry
VIEW View
INVARIANTS AtMostOneLeader ElectionInv
PROPERTIES TakeoverWaits
CHECK_DEADLOCK FALSE
