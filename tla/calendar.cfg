SPECIFICATION ClockSpec
CONSTANTS
  Clients = {p1, p2}
  SyncPlayerCalendar = TRUE
  Starts <- MCStarts
  Hours = {6}
  Dates <- MCDates
  Scales = {1, 2}
  Sleeps = {1, 8}
  MaxTick = 3
  MaxActs = 4
SYMMETRY Interchangeable
INVARIANT ClockTypes
INVARIANT InStep
PROPERTY ClockForward
PROPERTY ClockRuns
CHECK_DEADLOCK FALSE
