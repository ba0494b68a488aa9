SPECIFICATION LogSpec
CHECK_DEADLOCK FALSE
CONSTANTS
  MaxAppends = 7
  MaxKills = 4
INVARIANTS
  TraceRecovers
