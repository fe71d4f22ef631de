SPECIFICATION FairSpec
CONSTANTS
  Players = {p1, p2}
  Stages = {10, 20}
  Shared = TRUE
  NoEntry = NoEntry
  MaxMoves = 4
  MaxChanges = 1
INVARIANT TypeOK
INVARIANT MembersAgree
INVARIANT LogFollows
PROPERTY EchoDies
PROPERTY StagesSpread
CHECK_DEADLOCK FALSE
