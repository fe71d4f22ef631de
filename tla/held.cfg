SPECIFICATION FairSpec
CONSTANTS
  Clients = {c1, c2}
  Objects = {cup}
  None = None
  Spots = {1, 2}
  MaxTurns = 2
  MaxPending = 1
INVARIANT TypeOK
INVARIANT RestAgrees
INVARIANT PickupClears
PROPERTY ComesToRest
PROPERTY HoldShown
CHECK_DEADLOCK FALSE
