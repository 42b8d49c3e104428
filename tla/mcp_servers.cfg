SPECIFICATION ServersSpec
CONSTANTS
  Requests = {1, 2, 3}
  MaxFetches = 1
  MaxReports = 1
  MaxCancels = 1
  MaxKeeps = 1
  Texts <- SomeTexts
  MAX_INPUT_BYTES = 8
  Fetches <- SomeFetches
  MAX_BODY_BYTES = 9
  Lookups <- SomeLookups
  Versions <- SomeVersions
  MAX_DETAILS_BYTES = 4
  MAX_REFERENCES = 2
  MAX_RANGE_LINES = 3
  Passes <- SomePasses
  DAY = 2
  Branches = {1, 2}
  Issues <- SomeIssues
  Sizes = {2, 4}
  MAX_FILE_BYTES = 3
  PAGE = 2
  MaxChanges = 2
INVARIANTS ExchangesAreApart ToolsAreHeard RedactionIsAccounted ForgeIsToldTruly ToolsTellTheTruth
PROPERTIES ExchangesEnd
CHECK_DEADLOCK FALSE
