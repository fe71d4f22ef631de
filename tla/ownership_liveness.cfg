SPECIFICATION FairSpec
CONSTANTS
  Players = {p1, p2}
  NoPlayer = NoPlayer
  IsMount = FALSE
  EpochModulus = 10
  MaxEpoch = 9
  Load = 2
  Unload = 1
  Sweep = 1
  Roam = 0
  PartyMoves = 0
  Drop = 1
  Join = 0
  Kill = 1
  Budget <- MCBudget
PROPERTY OwnershipSettles
PROPERTY DeathSettles
CHECK_DEADLOCK FALSE
