SPECIFICATION Spec
CONSTANTS
  Turns = {1}
  Instances = {1}
  RunIds = {1}
  MaxCalls = 1
  MAX_STEPS = 2
  KEEP = 1
  TimeLimit = FALSE
  LostReplies = FALSE
  MaxFaults = 1
  MaxCrashes = 0
INVARIANTS StateCoversClosed
CHECK_DEADLOCK FALSE
