SPECIFICATION LiveSpec
CONSTANTS
  Files = {f1, f2}
  Ids = {i1, i2}
  i1 = i1
  i2 = i2
  Gids = {}
  NoPin = nopin
  Gone = gone
  Scripts <- MCScripts
  MaxPending = 3
  MaxParses = 5
  MaxEdits = 3
  Worlds = {{}, {"reload"}, {"full"}, {"early"}}
  RefreshPinned = TRUE
  Bought = {i2}
  Installed = {}
INVARIANTS
  SteamFollowsTheFiles
PROPERTIES
  FilesArePickedUp
CHECK_DEADLOCK FALSE
