SPECIFICATION Spec
CONSTANTS
  Kinds = {"validate", "job"}
  ThreadCounts = {1, 2}
  Names <- MCNames
  Options = {"run", "err", "exc"}
  Tested = 2
  Outcomes = {"success", "error", "signal", "denied"}
  Modulus = 2
INVARIANTS
  EachRunOnce
  NoFalseAlarm
  ExactAlone
  AllFailReported
PROPERTY Ends
CHECK_DEADLOCK FALSE
