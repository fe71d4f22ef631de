SPECIFICATION FairSpec
CONSTANTS
  Players = {p1, p2}
  NoPlayer = NoPlayer
  AutoJoin = TRUE
  InviteLife = 1
  MaxTick = 2
  MaxRequests = 3
PROPERTY PartiesSettle
CHECK_DEADLOCK FALSE
