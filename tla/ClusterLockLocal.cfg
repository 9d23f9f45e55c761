\* One process whose two cron goroutines contend for one task lock while
\* its ping goroutine renews and takes "cluster-gc"; any Redis command may
\* fail; the process may crash once and join again.
CONSTANTS
  Node = {n1}
  Worker = {w1, w2}
  JobLock = {job}
  GcLock = gc
  Ping = ping
  LockTTL = 2
  RedisFaults = TRUE
  MaxCrashes = 1
  NoThread = NoThread
  NoRecord = NoRecord

SPECIFICATION Spec
INVARIANT TypeOK
INVARIANT LocalExclusion
PROPERTY OrphanRecordExpires
