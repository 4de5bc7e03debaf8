SPECIFICATION Spec
CONSTANTS
  Count = 3
  MaxStarts = 2
  MaxReinits = 1
INVARIANTS
  TypeOK
  DrainSettlesInOrder
PROPERTIES
  IsOnceInvoker
  BufferedIsSettled
CHECK_DEADLOCK FALSE
