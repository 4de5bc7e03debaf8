SPECIFICATION Spec
CONSTANTS
  Count = 1
  MaxStarts = 1
  MaxReinits = 0
INVARIANT NothingIsStranded
CHECK_DEADLOCK FALSE
