SPECIFICATION Spec
CONSTANTS
  Count = 2
  WaitTimes = {5}
INVARIANT
  StatusIsOwn
CHECK_DEADLOCK FALSE
