SPECIFICATION MCSpec
CONSTANTS
  c1 = c1
  c2 = c2
  c3 = c3
  c4 = c4
  k1 = k1
  j1 = j1
  j2 = j2
  j3 = j3
  CloudJobs <- MCCloudJobs
  KeyJobs = {k1}
  Unanswered = {c4}
  QueueLimit = 2
  NoReply = noReply
  CodeJobs <- MCCodeJobs
  Managed = {j1, j2}
  kMaxWaitSeconds = 1
  Nobody = nobody
INVARIANTS
  AnsweredOnceInOrder
  OneAnswerer
PROPERTIES
  CodesAreUsed
  RepliesGetThrough
