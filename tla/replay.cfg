SPECIFICATION Spec
CONSTANTS
  Viewers = {v1}
  NoBody = NoBody
  CacheSize = 2
  MaxActions = 4
  MaxMoves = 2
  MaxRespawns = 1
INVARIANT TypeOK
INVARIANT PoseAgrees
INVARIANT ChainIsRecent
CHECK_DEADLOCK FALSE
