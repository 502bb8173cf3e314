SPECIFICATION SettingsSteps
CONSTANTS
  Settings = {s1, s2}
  Values = {w1, w2}
  Default = default
  Toggle = s1
  UrlKey = s2
  Threads = {"api", "url"}
  DiskFull = FALSE
  Broken = broken
  None = none
  Due = due
  MaxAsked = 2
INVARIANTS
  SettingsKept
CHECK_DEADLOCK FALSE
