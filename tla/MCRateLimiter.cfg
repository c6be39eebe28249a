SPECIFICATION Spec
CONSTANTS
  Items = {i1}
  Callers = {w1, w2, w3}
  limiters <- Limiters
  Width = 6
  BaseDelay = 3
  MaxDelay = 20
  FastDelay = 1
  SlowDelay = 15
  MaxFastAttempts = 2
  BucketDelays = {0, 8}
  MaxFailures = 7
INVARIANTS
  BackoffExact
  WorstCase
