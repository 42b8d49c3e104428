SPECIFICATION LoopSpec
CONSTANTS
  Workloads = {1}
  Names = {1}
  Specs <- LoopSpecs
  Bindings <- LoopBindings
  Matches <- LoopMatches
  ClockSteps <- ForwardSteps
  CLOCK_RESET = 2
  MAX_CATCH_UP = 2
  WALL_RESYNC = 2
  MIN_SLEEP = 1
  MaxMono = 5
  WallRange <- LoopWall
  MaxSteps = 1
  MaxEpoch = 2
  MaxFirings = 6
  CalendarsAsked <- Asked
  AskedAt <- Begins
  Offset <- Zones
  Horizon = 50
  MaxFollowed = 2
  Deployments <- Lots
  Crontabs <- Known
  NameOf <- NamesAsked
  NANOS_PER_MILLI = 1
  NANOS_PER_SEC = 1000
  U32Max = 100
  U64Max = 430000000
INVARIANTS CallsNeverOverlap TimerCoversDue SchedulesAreTaken
PROPERTIES AllIsServed FiresWhenMeant
CHECK_DEADLOCK FALSE
