SPECIFICATION LiveSpec
CONSTANTS
  Files = {f1, f2}
  Ids = {i1, i2}
  i1 = i1
  i2 = i2
  Gids = {}
  NoPin = nopin
  Gone = gone
  Scripts <- MCScripts
  MaxPending = 3
  MaxParses = 5
  MaxEdits = 3
  Worlds = {{"early"}}
  RefreshPinned = TRUE
  Bought = {i2}
  Installed = {}
INVARIANT UnloadedMeansUnlisted
CHECK_DEADLOCK FALSE
