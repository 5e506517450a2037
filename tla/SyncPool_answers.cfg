SPECIFICATION Spec
CONSTANTS
  Pools <- MCPools
  GlobalThreads = 2
  MinItems = 1
  Modulus = 2
  TS_NEVER = 9
  MaxTime = 2
INVARIANTS
  AnswerRight
PROPERTY Returns
CHECK_DEADLOCK FALSE
