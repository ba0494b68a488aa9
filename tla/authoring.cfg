SPECIFICATION IRSpec
CHECK_DEADLOCK FALSE
CONSTANTS
  Ids <- MCIds
  Definitions <- MCDefinitions
INVARIANTS
  OrderOrCycle
  AcceptedIsGraph
  PatternShape
