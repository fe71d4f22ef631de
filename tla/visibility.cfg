SPECIFICATION Spec
CONSTANTS
  Players = {p1, p2}
  Nobody = Nobody
  Exterior <- Road
  Interior = {inn}
  Start <- Origin
  Nowhere = Nowhere
  Reach = 1
  Slack = 1
  MaxTrips = 2
  MaxPending = 2
  ZeroTaken = FALSE
INVARIANT NoGhosts
INVARIANT Shown
CHECK_DEADLOCK FALSE
SYMMETRY Symmetry
