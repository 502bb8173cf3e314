SPECIFICATION MCSpec
CONSTANTS
  Files = {f1, f2, f3}
  LiveFiles = {f1, f2}
  Ids = {i1, i2}
  i1 = i1
  i2 = i2
  g1 = g1
  g2 = g2
  Gids = {g1, g2}
  NoPin = nopin
  Gone = gone
  Scripts <- MCScripts
  MaxPending = 3
  MaxParses = 5
  MaxEdits = 5
  Worlds = {{"early", "reload", "full"}}
  RefreshPinned = FALSE
  Bought = {i2}
  Installed = {}
INVARIANTS
  RefCounted
  LatestPinWins
  QueuesAccountForKeys
CHECK_DEADLOCK FALSE
