SPECIFICATION HistorySpec
CONSTANTS
  Turns = {1, 2, 3}
  Instances = {1}
  RunIds = {1, 2, 3}
  MaxCalls = 0
  MAX_STEPS = 1
  KEEP = 2
  TimeLimit = FALSE
  LostReplies = TRUE
  MaxFaults = 1
  MaxCrashes = 0
  MAX_TURNS = 8
  MAX_STATE_BYTES = 9
  Sizes = {1, 3}
  MaxRounds = 1
  Requests <- SomeRequests
  Completions <- SomeCompletions
  Returns <- SomeReturns
  DEFAULT_MAX_STEPS = 1
  MAX_STEPS_CAP = 2
  MAX_RUN_ID_BYTES = 124
  MaxRuns = 2
INVARIANTS ConversationIsHistory JournalIsTrue ConversationStaysWhole
PROPERTIES TurnsEnd
CHECK_DEADLOCK FALSE
