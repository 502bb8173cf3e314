SPECIFICATION MCSpec
CONSTANTS
  a = a
  b = b
  p = p
  x = x
  y = y
  Original = shipped
  Cut = cut
  Absent = absent
  GameNames = {a, b}
  Shipped = {a}
  PackNames = {p}
  Fixes <- MCFixes
  Packs <- MCPacks
  Apps = {a1, a2}
  Versions = {v1, v2}
  Nowhere = nowhere
  Settings = {s1, s2}
  Values = {w1, w2}
  Default = default
  Toggle = s1
  UrlKey = s2
  Threads = {"api"}
  DiskFull = TRUE
  Broken = broken
  None = none
  Due = due
  MaxAsked = 2
  MaxLines = 3
  History = 1
  MaxTokens = 4
  MaxLinks = 2
  Pages = {p1}
  Workshop = {}
  kUnlockerLease = 2
  MaxFaults = 3
  MaxFrames = 3
  Sizes = {0, 1, 2}
  Sections = {"cloud", "ui"}
  SettingKeys = {"enabled", "key"}
  Cloud = "cloud"
  Enabled = "enabled"
  MaxTextLines = 4
  MaxText = 4
  Items = {i1}
  Libs = {l1, l2}
  HubKeys = {h1, h2}
  GoodKeys = {h1}
  NoHubKey = nohubkey
INVARIANTS
  ShippedSurvives
  AnswerIsTrue
  ArchivesHold
  ShelfMatchesAnswers
  EachActivationOnce
  SessionIsKept
  FramesArrive
  EditsStayInPlace
  TextComesBack
PROPERTIES
  SettingsReachConfig
  StoreGoesBackToNormal
  ViewsAreServed
  CallsTellTheTruth
CHECK_DEADLOCK FALSE
