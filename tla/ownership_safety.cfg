SPECIFICATION Spec
CONSTANTS
  Players = {p1, p2}
  NoPlayer = NoPlayer
  IsMount = FALSE
  EpochModulus = 64
  MaxEpoch = 63
  Load = 2
  Unload = 1
  Sweep = 1
  Roam = 0
  PartyMoves = 1
  Drop = 1
  Join = 1
  Kill = 1
  Budget <- MCBudget
SYMMETRY Interchangeable
INVARIANT OneAuthorityPerEpoch
INVARIANT AuthorityIsServers
INVARIANT OwnerNotRejected
PROPERTY NoTheft
PROPERTY ImplementsLease
CHECK_DEADLOCK FALSE
