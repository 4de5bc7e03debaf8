SPECIFICATION Spec
CONSTANTS
  r1 = r1
  r2 = r2
  Requests <- RequestSet
  Setups <- ProcessSetups
  MaxTokens = 2
INVARIANTS
  TypeOK
  LostTokensAreAccountedFor
  WaitingIsForAReason
  OldTokensGoToOldRequests
  SignalsMatchToken
PROPERTIES
  IsTokenPromise
  EveryRequestIsAnswered
CHECK_DEADLOCK FALSE
