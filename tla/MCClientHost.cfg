SPECIFICATION MCSpec
CONSTANTS
  d1 = d1
  d2 = d2
  k1 = k1
  k2 = k2
  Unowned = {u1, u2}
  Owned = {o1}
  NoApp = none
  MaxStack = 3
  MaxBuild = 2
  Required = {f1}
  Optional = {f2}
  ChainLength = 2
  Generator = TRUE
  Builds = {b1, b2, b3}
  First = b1
  Short = short
  Absent = absent
  Mirrors <- MCMirrors
  MaxStarts = 4
  Releases <- MCReleases
  BrokenBuilds = {2}
  Depots = {m1, m2}
  Unread = {m2}
  MaxClicks = 1
  MaxTrouble = 1
  Pids = {1, 2}
  GameApps = {1, 2}
  Configured = {1, 2}
  OwnedApps = {2}
  Named = {1}
  Ticketed = {1}
  Dlls <- MCDlls
  kAppIdResolveRetries = 2
  MaxBirths = 2
  MaxHandles = 1
  MaxPipes = 2
  Callers = {t1, t2}
  OneShot = {s1}
  Persistent = {s2}
  MaxCalls = 4
  StatApps = {a1, a2}
  StatJobs = {j1, j2}
  Tokens = {a1}
  LuaFiles = {l1, l2}
  LuaDepots = {d1, d2}
  DepotKeys = {k1, k2}
  NoKey = nokey
  LuaTexts <- MCLuaTexts
  MaxMtime = 2
  MaxLoads = 4
  WatchedFiles = {w1, w2, w3}
  EventLimit = 2
  ReadLimit = 1
  MaxEdits = 1
  MaxRepaths = 1
  EarlyExit = FALSE
INVARIANTS
  ThreadsAreSafe
  PresenceOnItsWay
  StartIsWhole
  AWholeModuleIsLeft
  TrapsHold
  TablesFollowTheFiles
  PacketsNameTheirApp
PROPERTIES
  KeysStayWritten
  WatchersFinish
  PipesAreKnown
  UpdatesSettle
CHECK_DEADLOCK FALSE
