SPECIFICATION Spec
CONSTANTS
  Counts = {1, 3}
  Interval = 3
  MaxSwitches = 8
INVARIANTS
  TypeOK
  OneTimerIsLive
  IntervalsAreKept
PROPERTY
  EveryIntervalIsCalled
CHECK_DEADLOCK FALSE
