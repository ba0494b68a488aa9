SPECIFICATION RunSpec
CONSTANTS
  NoNode = NoNode
  Nodes <- GateNodes
  Needs <- GateNeeds
  Position <- GatePosition
  Dependents <- GateDependents
  Gates <- GateGates
  JoinAny <- GateJoinAny
  When <- GateWhen
  Retries <- GateRetries
  Concurrency = 1
  Outcomes = {"succeeded", "failed"}
  MaxSessions = 3
  MaxCrashes = 0
  HardKills = FALSE
INVARIANTS
  SkipNeverBreaches
