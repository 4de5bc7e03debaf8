SPECIFICATION Spec
CONSTANTS
  l1 = l1
  s1 = s1
  b1 = b1
  None = None
  Ops = {s1}
  Kind <- MCKind
  MaxEvents = 2
  MaxCalls = 1
  ShowFailures = {4}
  LoadFailures = {0}
INVARIANT
  NoConnectionIsTold
CHECK_DEADLOCK FALSE
