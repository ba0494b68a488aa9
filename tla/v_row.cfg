SPECIFICATION SessionSpec
CONSTANTS
  NoNode = NoNode
  Nodes <- SessionNodes
  Needs <- SessionNeeds
  Position <- SessionPosition
  Dependents <- SessionDependents
  Gates <- SessionGates
  JoinAny <- SessionJoinAny
  When <- SessionWhen
  Retries <- SessionRetries
  Concurrency = 2
  Outcomes = {"succeeded", "timed_out", "errored", "raised"}
INVARIANTS
  NoRowLeftRunning
