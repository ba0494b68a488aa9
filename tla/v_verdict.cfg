SPECIFICATION GroupSpec
CONSTANTS
  Specs <- Capped
  MaxKills = 1
INVARIANTS
  CapWithoutVerdict
