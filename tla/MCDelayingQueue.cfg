SPECIFICATION DelayFairSpec
CONSTANTS
  Items = {i1, i2}
  Workers = {w1}
  Handlers = {h1}
  NoItem = NoItem
  NoEntry = NoEntry
  Delays = {0, 1}
  ChannelCap = 1
  MaxClock = 2
INVARIANTS
  DelayTypeOK
  TimerArmed
PROPERTIES
  KeepsDelayPromise
  CallersReleased
  DelayedHandedOut
CHECK_DEADLOCK FALSE
