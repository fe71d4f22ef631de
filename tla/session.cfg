SPECIFICATION FairSpec
CONSTANTS
  Clients = {c1, c2}
  MaxConns = 2
  NoConn = NoConn
  Strings = {s1, s2}
  Empty = Empty
  MaxPlayers = 2
  MaxSays = 2
  MaxRestarts = 1
INVARIANT Contiguous
INVARIANT Decodable
INVARIANT RosterAgrees
PROPERTY ImplementsLog
PROPERTY LoginSettles
PROPERTY WordSpreads
CHECK_DEADLOCK FALSE
