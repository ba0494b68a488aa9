SPECIFICATION GroupSpec
CONSTANTS
  Specs <- MCSpecs
  MaxKills = 2
INVARIANTS
  GroupTypeOK
  NoRoundOnUnfinished
  FedByPredecessor
  VerdictHeeded
  RunsBounded
PROPERTIES
  SettledStays
  RefinesGroupLifecycle
  GroupConcludes
