\* One node stays joined; a second joins, broadcasts and leaves.  Redis
\* answers every command.
CONSTANTS
  Node = {n1, n2}
  Stayer = {n1}
  PingTime = 1
  MaxBroadcasts = 1
  MaxFaults = 0
  Absent = Absent
  NoRecord = NoRecord

SPECIFICATION MSpec
INVARIANT MTypeOK
PROPERTY LeftNodeGone
PROPERTY BroadcastHandled
