\* One process with two overlapping cron firings, one task; Redis answers the lock, Join
\* may fail; one process may crash and start again; a failing job is
\* retried up to MaxRetry calls.
CONSTANTS
  Node = {n1}
  Worker = {w1, w2}
  JobLock = {job}
  Task = job
  GcLock = gc
  Ping = ping
  LockTTL = 2
  RedisFaults = FALSE
  JoinFaults = TRUE
  MaxRetry = 2
  MaxCrashes = 1
  NoThread = NoThread
  NoRecord = NoRecord
SPECIFICATION SchedSpec
INVARIANT SchedTypeOK
PROPERTY TaskKeepsRunning
