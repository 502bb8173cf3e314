SPECIFICATION UpdateSteps
CONSTANTS
  Releases <- MCVersions
  BrokenBuilds = {2}
  Depots = {d1}
  Unread = {}
  MaxClicks = 0
  MaxTrouble = 0
PROPERTIES
  FailedIsNotRetried
CHECK_DEADLOCK FALSE
