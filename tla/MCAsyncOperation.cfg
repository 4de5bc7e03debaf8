SPECIFICATION Spec
CONSTANTS
  Count = 3
  WaitTimes = {0, 5}
INVARIANTS
  TypeOK
  EachAnswerCountsOnce
PROPERTIES
  EveryOperationCompletes
  MainIsNeverStuck
CHECK_DEADLOCK FALSE
