\* Two processes, one cron goroutine each, contending for one task lock;
\* Redis answers every command and no process crashes.
CONSTANTS
  Node = {n1, n2}
  Worker = {w1}
  JobLock = {job}
  GcLock = gc
  Ping = ping
  LockTTL = 2
  RedisFaults = FALSE
  MaxCrashes = 0
  NoThread = NoThread
  NoRecord = NoRecord

SPECIFICATION Spec
INVARIANT MutualExclusion
