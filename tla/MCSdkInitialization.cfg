SPECIFICATION Spec
CONSTANTS
  c1 = c1
  c2 = c2
  c3 = c3
  Calls <- CallSet
  Kinds <- CallKindSets
INVARIANTS
  TypeOK
  HeardOnce
  CompletedOnce
  HeardWhatHappened
  StatesAgree
PROPERTIES
  EveryCallIsTold
  EveryCompletionIsCalled
CHECK_DEADLOCK FALSE
