SPECIFICATION Spec
CONSTANTS
  chest = chest
  barrel = barrel
  inn = inn
  Players = {p1, p2}
  Objects = {chest, barrel}
  Exterior <- Road
  Interior = {inn}
  Nowhere = Nowhere
  Home <- AtHome
  Stock <- OneEach
  Reach = 1
  MaxIds = 3
  MaxTrips = 2
  MaxChanges = 2
  MaxJoins = 2
INVARIANT TypeOK
INVARIANT WatchersAgree
INVARIANT OneObjectPerId
SYMMETRY Symmetry
CHECK_DEADLOCK FALSE
