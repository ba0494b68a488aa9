SPECIFICATION RunSpec
CONSTANTS
  NoNode = NoNode
  Nodes <- GateNodes
  Needs <- GateNeeds
  Position <- GatePosition
  Dependents <- GateDependents
  Gates <- GateGates
  JoinAny <- GateJoinAny
  When <- GateWhen
  Retries <- GateRetries
  Concurrency = 1
  Outcomes = {"succeeded", "failed", "raised"}
  MaxSessions = 3
  MaxCrashes = 1
  HardKills = FALSE
INVARIANTS
  GatesTraced
  OutcomeHolds
  ResumedSessionSound
PROPERTIES
  RejectionStands
