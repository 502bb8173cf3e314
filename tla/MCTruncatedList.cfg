SPECIFICATION SyncSpec
CONSTANTS
  Names = {n1, n2}
  NoRoot = noroot
  Roots = {noroot}
  Shas = {c1, c2}
  NoSha = nosha
  Absent = absent
  MaxCn = 4
  MaxListed = 1
  DiskFails = FALSE
  ForeignCn = 0
  LooseCommits = FALSE
  MaxPuts = 1
PROPERTIES OmissionMeansDeleted
