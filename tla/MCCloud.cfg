SPECIFICATION MCSpec
CONSTANTS
  Names = {n1, n2}
  NoRoot = noroot
  Roots = {noroot, r1}
  Shas = {c1, c2}
  NoSha = nosha
  Absent = absent
  MaxCn = 4
  MaxFreeCn = 3
  MaxListed = 2
  DiskFails = FALSE
  ForeignCn = 0
  LooseCommits = FALSE
  MaxPuts = 2
INVARIANTS
  TypeOK
  MemoryIsDurable
  SyncedMeansStored
  CommittedBytesArrived
  BatchKeepsItsNumber
PROPERTIES
  ImplementsCatalog
  OmissionMeansDeleted
SYMMETRY Symmetry
