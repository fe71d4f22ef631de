SPECIFICATION Spec
CONSTANTS
  Players = {p1, p2}
  NoPlayer = NoPlayer
  IsMount = TRUE
  EpochModulus = 64
  MaxEpoch = 63
  Load = 2
  Unload = 1
  Sweep = 1
  Roam = 1
  PartyMoves = 0
  Drop = 1
  Join = 1
  Kill = 0
  Budget <- MCBudget
SYMMETRY Interchangeable
INVARIANT OwnerConnected
CHECK_DEADLOCK FALSE
