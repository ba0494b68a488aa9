SPECIFICATION PersistentSpec
CONSTANTS
  NoNode = NoNode
  Nodes <- RecoverNodes
  Needs <- RecoverNeeds
  Position <- RecoverPosition
  Dependents <- RecoverDependents
  Gates <- RecoverGates
  JoinAny <- RecoverJoinAny
  When <- RecoverWhen
  Retries <- RecoverRetries
  Concurrency = 1
  Outcomes = {"succeeded", "failed"}
  MaxSessions = 4
  MaxCrashes = 2
  HardKills = TRUE
INVARIANTS
  SucceededIsBacked
  OutputsCurrent
  AttemptNumbersFree
PROPERTIES
  CompletedStays
  GatesHold
  SessionsEnd
  RefinesLifecycle
  EventuallySucceeds
