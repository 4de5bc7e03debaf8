SPECIFICATION Spec
CONSTANTS
  l1 = l1
  s1 = s1
  b1 = b1
  None = None
  Ops = {l1, s1, b1}
  Kind <- MCKind
  MaxEvents = 2
  MaxCalls = 2
  ShowFailures = {4}
  LoadFailures = {0}
INVARIANTS
  TypeOK
  AnsweredOnce
  AnsweredIsRemoved
  NoTimeoutOnceShowing
  EveryEndIsCounted
  InitFailureIsNamed
PROPERTY
  EveryCallIsSettled
CHECK_DEADLOCK FALSE
