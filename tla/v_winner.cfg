SPECIFICATION GroupSpec
CONSTANTS
  Specs <- Tournaments
  MaxKills = 0
INVARIANTS
  CompleteHasWinner
