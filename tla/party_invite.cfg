SPECIFICATION AllArrivedSpec
CONSTANTS
  Players = {p1, p2, p3}
  NoPlayer = NoPlayer
  AutoJoin = FALSE
  InviteLife = 1
  MaxTick = 1
  MaxRequests = 4
SYMMETRY Interchangeable
INVARIANT Membership
INVARIANT ViewAgrees
PROPERTY NoPoaching
CHECK_DEADLOCK FALSE
