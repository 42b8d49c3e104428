SPECIFICATION MCSpec
CONSTANTS
  Workloads = {1}
  Names = {1, 2}
  Specs <- AllSpecs
  Bindings <- AllBindings
  Matches <- CronMatches
  ClockSteps <- AllSteps
  CLOCK_RESET = 2
  MAX_CATCH_UP = 2
  WALL_RESYNC = 2
  MaxMono = 9
  WallRange <- AllWall
  MaxSteps = 2
  MaxEpoch = 4
  MaxFirings = 4
INVARIANTS TypeOK NoOverlap BusyIsRunning RetryIsLatest EveryMarkAccounted HeldIsPermitted
PROPERTIES ImplementsContract AttemptsBounded ForecastHolds CronKeepsTime
CHECK_DEADLOCK FALSE
