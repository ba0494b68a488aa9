SPECIFICATION RunnerSpec
CHECK_DEADLOCK FALSE
CONSTANTS
  Declared <- MCDeclared
  Children <- MCChildren
INVARIANTS
  NothingLeftBehind
  VerdictTruthful
PROPERTIES
  AttemptEnds
