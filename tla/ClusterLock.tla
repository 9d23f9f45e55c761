---------------------------- MODULE ClusterLock ----------------------------
(***************************************************************************)
(* Distributed locks of package cluster (src/cluster/cluster.go).         *)
(*                                                                         *)
(* Every process that joined the cluster owns one *Cluster, a process-wide *)
(* sync.Mutex and a slice activeLocks.  The lock itself is a Redis key     *)
(* cluster:{name}:locks:{x} written with TTL lockTTL.  Lock reads the key  *)
(* and writes it in two separate Redis round trips; the ping goroutine     *)
(* re-writes every entry of activeLocks each lockTTL and takes the lock    *)
(* "cluster-gc" to sweep the node table.                                   *)
(*                                                                         *)
(* activeLocks is a Go slice: its header (length) and a backing array   *)
(* with room past the length.  Lock appends in place while there is room *)
(* and moves to a new array of twice the capacity when there is none;    *)
(* Unlock shifts the entries after the removed one left, in place.  The  *)
(* renewal loop of ping copies the header once and then reads the array  *)
(* slot by slot without the mutex, so it sees those writes.              *)
(*                                                                         *)
(* Time is counted in ticks: a record holds the number of ticks it has     *)
(* left to live, and renewIn counts down to the next tick of the renewal   *)
(* ticker.  The node table (writeNodeInfo, the sweep itself) is not part   *)
(* of this module: nothing here reads it.                                  *)
(***************************************************************************)
EXTENDS Naturals, Sequences, SequencesExt, FiniteSets

CONSTANTS
  Node,         \* processes that joined the same cluster
  Worker,       \* goroutines of a process that call Lock/Unlock (cron firings)
  JobLock,      \* lock names the workers take (scheduler task names)
  GcLock,       \* the lock name "cluster-gc" taken by the ping goroutine
  Ping,         \* the ping goroutine of a process
  LockTTL,      \* lockTTL in ticks: record TTL and renewal ticker period
  RedisFaults,  \* TRUE: a Redis command may fail and report an error
  MaxCrashes,   \* bound on process crashes (0: none)
  NoThread,     \* nobody holds the process mutex
  NoRecord      \* the Redis key is absent

ASSUME LockTTL \in Nat \ {0}
ASSUME GcLock \notin JobLock /\ Ping \notin Worker
ASSUME RedisFaults \in BOOLEAN /\ MaxCrashes \in Nat

Thread   == Worker \cup {Ping}
LockName == JobLock \cup {GcLock}
Record   == [node : Node, ttl : 0..LockTTL]

(* The Name of the zero sharedLock, in slots nothing was written to.      *)
ZeroName == ""

Slot == LockName \cup {ZeroName}

(* An idle renewal loop.                                                   *)
NoLoop == [pos |-> 1, len |-> 0, live |-> TRUE, arr |-> <<>>]

VARIABLES
  rec,       \* rec[x]: the Redis record of lock x, or NoRecord
  mutex,     \* mutex[n]: goroutine of n inside the package mutex
  active,    \* active[n]: c.activeLocks of process n, a slice of names
  pc,        \* pc[n][t]: where goroutine t of process n is
  want,      \* want[n][t]: the name goroutine t locks or holds
  spare,     \* spare[n]: the slots of activeLocks' backing array past its length
  loop,      \* loop[n]: the renewal loop's copy of the header: the next slot,
             \* the length, and the array it ranges over once Lock moved the
             \* slice to a new one (live: still the current array)
  renewIn,   \* renewIn[n]: ticks until lockTimer of n fires
  renewDue,  \* renewDue[n]: lockTimer of n fired and is not yet served
  gcDue,     \* gcDue[n]: gcTimer of n fired and is not yet served
  crashes    \* number of process crashes so far

vars == <<rec, mutex, active, pc, want, spare, loop, renewIn, renewDue, gcDue, crashes>>

PcState == {"idle", "setting", "holding", "renewing"}

TypeOK ==
  /\ rec \in [LockName -> Record \cup {NoRecord}]
  /\ mutex \in [Node -> Thread \cup {NoThread}]
  /\ active \in [Node -> Seq(LockName)]
  /\ pc \in [Node -> [Thread -> PcState]]
  /\ want \in [Node -> [Thread -> LockName]]
  /\ spare \in [Node -> Seq(Slot)]
  /\ loop \in [Node -> [pos : Nat \ {0}, len : Nat, live : BOOLEAN, arr : Seq(Slot)]]
  /\ renewIn \in [Node -> 1..LockTTL]
  /\ renewDue \in [Node -> BOOLEAN]
  /\ gcDue \in [Node -> BOOLEAN]
  /\ crashes \in 0..MaxCrashes

(* A Redis command fails only when faults are enabled. *)
Outcomes == IF RedisFaults THEN BOOLEAN ELSE {TRUE}

(* Goroutine t of n returned nil from Lock(x) and has not unlocked yet.   *)
Holding(n, t, x) == pc[n][t] = "holding" /\ want[n][t] = x

(* Join: a fresh *Cluster with no locks, its ticker started at some       *)
(* phase; lock records of other processes may already exist.             *)
Init ==
  /\ rec = [x \in LockName |-> NoRecord]
  /\ mutex = [n \in Node |-> NoThread]
  /\ active = [n \in Node |-> <<>>]
  /\ pc = [n \in Node |-> [t \in Thread |-> "idle"]]
  /\ want = [n \in Node |-> [t \in Thread |-> IF t = Ping THEN GcLock
                                                ELSE CHOOSE x \in JobLock : TRUE]]
  /\ spare = [n \in Node |-> <<>>]
  /\ loop = [n \in Node |-> NoLoop]
  /\ renewIn \in [Node -> 1..LockTTL]
  /\ renewDue = [n \in Node |-> FALSE]
  /\ gcDue = [n \in Node |-> FALSE]
  /\ crashes = 0

(* Mutant: Lock without the check of activeLocks.                         *)
LockGetUnchecked(n, t, x) ==
  /\ pc[n][t] = "idle"
  /\ mutex[n] = NoThread
  /\ \E getOk \in Outcomes : ~getOk \/ rec[x] = NoRecord
  /\ mutex' = [mutex EXCEPT ![n] = t]
  /\ pc' = [pc EXCEPT ![n][t] = "setting"]
  /\ want' = [want EXCEPT ![n][t] = x]
  /\ UNCHANGED <<rec, active, spare, loop, renewIn, renewDue, crashes>>

(* Lock(x), first half: take the mutex, refuse a name already in          *)
(* activeLocks, GET the record.  A failed GET leaves the zero sharedLock  *)
(* and counts as "free".                                                   *)
LockGet(n, t, x) ==
  /\ pc[n][t] = "idle"
  /\ mutex[n] = NoThread
  /\ ~Contains(active[n], x)
  /\ \E getOk \in Outcomes : ~getOk \/ rec[x] = NoRecord
  /\ mutex' = [mutex EXCEPT ![n] = t]
  /\ pc' = [pc EXCEPT ![n][t] = "setting"]
  /\ want' = [want EXCEPT ![n][t] = x]
  /\ UNCHANGED <<rec, active, spare, loop, renewIn, renewDue, crashes>>

(* Lock(x) returns an error without changing anything: x is already in    *)
(* activeLocks, or the GET found a live record.                           *)
LockRefused(n, t, x) ==
  /\ pc[n][t] = "idle"
  /\ mutex[n] = NoThread
  /\ Contains(active[n], x) \/ rec[x] # NoRecord

(* append(c.activeLocks, lock): in place while the backing array has    *)
(* room, else into a new array of twice the capacity (one when empty),   *)
(* its slots past the length zero.  A renewal loop in progress keeps     *)
(* ranging over the old array.                                            *)
AppendLock(n, x) ==
  IF spare[n] # <<>>
    THEN /\ active' = [active EXCEPT ![n] = Append(@, x)]
         /\ spare' = [spare EXCEPT ![n] = Tail(@)]
         /\ UNCHANGED loop
    ELSE LET cap == Len(active[n]) IN
         /\ active' = [active EXCEPT ![n] = Append(@, x)]
         /\ spare' = [spare EXCEPT ![n] = [i \in 1..(IF cap = 0 THEN 0 ELSE cap - 1) |-> ZeroName]]
         /\ loop' = IF pc[n][Ping] = "renewing" /\ loop[n].live
                      THEN [loop EXCEPT ![n].live = FALSE, ![n].arr = active[n]]
                      ELSE loop

(* Mutant: the TTL passed as lockTTL * time.Second, lockTTL already being *)
(* a Duration: the record lives a thousand times too long.                *)
LockSetLongTTL(n, t) ==
  LET x == want[n][t] IN
  /\ pc[n][t] = "setting"
  /\ AppendLock(n, x)
  /\ mutex' = [mutex EXCEPT ![n] = NoThread]
  /\ rec' = [rec EXCEPT ![x] = [node |-> n, ttl |-> LockTTL * 1000]]
  /\ pc' = [pc EXCEPT ![n][t] = "holding"]
  /\ UNCHANGED <<want, renewIn, renewDue, gcDue, crashes>>

(* Lock(x), second half: append to activeLocks, then SET with lockTTL and *)
(* release the mutex.  A failed SET returns its error, but the name stays *)
(* in activeLocks.                                                         *)
LockSet(n, t) ==
  LET x == want[n][t] IN
  /\ pc[n][t] = "setting"
  /\ AppendLock(n, x)
  /\ mutex' = [mutex EXCEPT ![n] = NoThread]
  /\ \E setOk \in Outcomes :
       /\ rec' = IF setOk THEN [rec EXCEPT ![x] = [node |-> n, ttl |-> LockTTL]]
                          ELSE rec
       /\ pc' = [pc EXCEPT ![n][t] = IF setOk THEN "holding" ELSE "idle"]
  /\ UNCHANGED <<want, renewIn, renewDue, gcDue, crashes>>

(* Position of the first x in s (the loop of Unlock); 0 if absent.        *)
IndexOf(s, x) ==
  IF Contains(s, x) THEN CHOOSE i \in 1..Len(s) : s[i] = x /\ \A j \in 1..(i-1) : s[j] # x
                    ELSE 0

(* Mutant: the shift after the removed entry starts one slot late.       *)
RemoveLockSkip(s, idx) ==
  IF idx = Len(s) THEN SubSeq(s, 1, idx - 1)
  ELSE SubSeq(s, 1, idx) \o SubSeq(s, idx + 2, Len(s))

(* Remove the entry at idx from activeLocks: truncate when it is the      *)
(* last one, else append the tail after it to the head before it, which   *)
(* copies it one slot left within the same array.  Either way the slot    *)
(* past the new length keeps the old last entry.                          *)
RemoveLock(s, idx) ==
  IF idx = Len(s) THEN SubSeq(s, 1, idx - 1)
  ELSE SubSeq(s, 1, idx - 1) \o SubSeq(s, idx + 1, Len(s))

(* Unlock(x): under the mutex remove x from activeLocks and DEL the key,  *)
(* whoever the record names.  A failed DEL leaves the record to expire.   *)
(* A name not in activeLocks returns "no such lock" before the DEL.       *)
Unlock(n, t) ==
  LET x   == want[n][t]
      idx == IndexOf(active[n], x) IN
  /\ pc[n][t] = "holding"
  /\ mutex[n] = NoThread
  /\ pc' = [pc EXCEPT ![n][t] = "idle"]
  /\ IF idx = 0
       THEN UNCHANGED <<rec, active, spare>>
       ELSE /\ active' = [active EXCEPT ![n] = RemoveLock(@, idx)]
            /\ spare' = [spare EXCEPT ![n] = <<Last(active[n])>> \o @]
            /\ \E delOk \in Outcomes :
                 rec' = IF delOk THEN [rec EXCEPT ![x] = NoRecord] ELSE rec
  /\ UNCHANGED <<mutex, want, loop, renewIn, renewDue, gcDue, crashes>>

(* ping, lockTimer case: "for _, lock := range c.activeLocks" without the *)
(* mutex copies the slice header (its length) once ...                    *)
RenewStart(n) ==
  /\ pc[n][Ping] = "idle"
  /\ renewDue[n]
  /\ renewDue' = [renewDue EXCEPT ![n] = FALSE]
  /\ loop' = [loop EXCEPT ![n] = [NoLoop EXCEPT !.len = Len(active[n])]]
  /\ pc' = [pc EXCEPT ![n][Ping] = IF active[n] = <<>> THEN "idle" ELSE "renewing"]
  /\ UNCHANGED <<rec, mutex, active, want, spare, renewIn, gcDue, crashes>>

(* The slot the loop reads next: from the current backing array, or from  *)
(* the old one once Lock moved the slice.                                  *)
LoopEntry(n) ==
  LET arr == IF loop[n].live THEN active[n] \o spare[n] ELSE loop[n].arr
  IN arr[loop[n].pos]

(* Mutant: the renewal loop writes its current entry and never moves on.  *)
RenewStepStuck(n) ==
  LET x == LoopEntry(n) IN
  /\ pc[n][Ping] = "renewing"
  /\ rec' = [rec EXCEPT ![x] = [node |-> n, ttl |-> LockTTL]]
  /\ UNCHANGED <<pc, spare, loop, mutex, active, want, renewIn, renewDue, gcDue, crashes>>

(* ... then reads the array slot by slot and SETs each entry again with   *)
(* lockTTL, ignoring errors.  An Unlock meanwhile has shifted the slots   *)
(* in place: the loop may SET a name just unlocked, SET one name twice,   *)
(* or pass over one.                                                       *)
RenewStep(n) ==
  LET x == LoopEntry(n) IN
  /\ pc[n][Ping] = "renewing"
  /\ \E setOk \in Outcomes :
       rec' = IF setOk THEN [rec EXCEPT ![x] = [node |-> n, ttl |-> LockTTL]] ELSE rec
  /\ loop' = [loop EXCEPT ![n].pos = @ + 1]
  /\ pc' = [pc EXCEPT ![n][Ping] = IF loop[n].pos = loop[n].len THEN "idle" ELSE "renewing"]
  /\ UNCHANGED <<mutex, active, want, spare, renewIn, renewDue, gcDue, crashes>>

(* ping, gcTimer case: Lock("cluster-gc"); on an error continue.         *)
GcFire(n) ==
  /\ gcDue[n]
  /\ gcDue' = [gcDue EXCEPT ![n] = FALSE]
  /\ \/ LockGet(n, Ping, GcLock)
     \/ /\ LockRefused(n, Ping, GcLock)
        /\ UNCHANGED <<rec, mutex, active, pc, want, spare, loop, renewIn, renewDue, crashes>>

(* ping, gcTimer case after Lock("cluster-gc") succeeded: HGetAll the     *)
(* node table, HDel stale nodes, Unlock.  When HGetAll fails the loop     *)
(* continues without unlocking.                                           *)
GcSweep(n) ==
  /\ pc[n][Ping] = "holding"
  /\ \/ Unlock(n, Ping)
     \/ /\ RedisFaults
        /\ pc' = [pc EXCEPT ![n][Ping] = "idle"]
        /\ UNCHANGED <<rec, mutex, active, want, spare, loop, renewIn, renewDue, gcDue, crashes>>

(* One tick of time: record TTLs and the tickers count down.  A record    *)
(* whose TTL reached 0 at the previous tick is gone by now.  A fired       *)
(* timer is served before time moves on.  gcTimer (period 2*pingTime,     *)
(* far longer than lockTTL) may fire at any tick.                         *)
Tick ==
  /\ \A n \in Node : ~renewDue[n] /\ ~gcDue[n]
  /\ rec' = [x \in LockName |->
               IF rec[x] = NoRecord \/ rec[x].ttl = 0 THEN NoRecord
               ELSE [rec[x] EXCEPT !.ttl = @ - 1]]
  /\ renewDue' = [n \in Node |-> renewIn[n] = 1]
  /\ renewIn' = [n \in Node |-> IF renewIn[n] = 1 THEN LockTTL ELSE renewIn[n] - 1]
  /\ gcDue' \in [Node -> BOOLEAN]
  /\ UNCHANGED <<mutex, active, pc, want, spare, loop, crashes>>

(* Redis drops a record whose TTL ran out.  lockTimer fires lockTTL after *)
(* the previous renewal started, the record was written a little after   *)
(* that: which of the expiry and the next SET comes first depends on the  *)
(* latency of the two SETs, so the expiry races the steps of the tick.    *)
Expire(x) ==
  /\ rec[x] # NoRecord /\ rec[x].ttl = 0
  /\ rec' = [rec EXCEPT ![x] = NoRecord]
  /\ UNCHANGED <<mutex, active, pc, want, spare, loop, renewIn, renewDue, gcDue, crashes>>

(* A process dies with all its goroutines and joins again: a new         *)
(* *Cluster, an empty activeLocks, new tickers.  Its records stay in      *)
(* Redis until their TTL runs out.                                        *)
Crash(n) ==
  /\ crashes < MaxCrashes
  /\ crashes' = crashes + 1
  /\ mutex' = [mutex EXCEPT ![n] = NoThread]
  /\ active' = [active EXCEPT ![n] = <<>>]
  /\ pc' = [pc EXCEPT ![n] = [t \in Thread |-> "idle"]]
  /\ spare' = [spare EXCEPT ![n] = <<>>]
  /\ loop' = [loop EXCEPT ![n] = NoLoop]
  /\ renewDue' = [renewDue EXCEPT ![n] = FALSE]
  /\ gcDue' = [gcDue EXCEPT ![n] = FALSE]
  /\ \E r \in 1..LockTTL : renewIn' = [renewIn EXCEPT ![n] = r]
  /\ UNCHANGED <<rec, want>>

WorkerStep(n, w) ==
  \/ \E x \in JobLock : LockGet(n, w, x) /\ UNCHANGED gcDue
  \/ LockSet(n, w)
  \/ Unlock(n, w)

PingStep(n) ==
  \/ RenewStart(n)
  \/ RenewStep(n)
  \/ GcFire(n)
  \/ LockSet(n, Ping)
  \/ GcSweep(n)

Next ==
  \/ \E n \in Node : \E w \in Worker : WorkerStep(n, w)
  \/ \E n \in Node : PingStep(n)
  \/ \E n \in Node : Crash(n)
  \/ \E x \in LockName : Expire(x)
  \/ Tick

(* Goroutines are scheduled by the Go runtime, the select of ping picks   *)
(* among ready timers at random, and time advances.  sync.Mutex hands     *)
(* itself to a waiter that has waited over 1ms (starvation mode), so the  *)
(* ping goroutine waiting in Lock gets the mutex even if workers keep     *)
(* taking it: strong fairness on GcFire.  A worker is not obliged to call *)
(* Lock at all.                                                            *)
Fairness ==
  /\ \A n \in Node : \A w \in Worker : WF_vars(LockSet(n, w) \/ Unlock(n, w))
  /\ \A n \in Node : WF_vars(PingStep(n)) /\ SF_vars(GcFire(n))
  /\ WF_vars(Tick) /\ \A x \in LockName : WF_vars(Expire(x))

Spec == Init /\ [][Next]_vars /\ Fairness

-----------------------------------------------------------------------------
(* PROPERTIES *)

(* The lock's promise (spec 8.3, the README of package cluster): no two   *)
(* goroutines, of one process or of two, hold Lock(x) at the same time.   *)
MutualExclusion ==
  \A x \in LockName :
    Cardinality({nt \in Node \X Thread : Holding(nt[1], nt[2], x)}) <= 1

(* Inside one process two goroutines never both hold Lock(x): the check   *)
(* of activeLocks under the process mutex must keep a second caller out   *)
(* even when the record has just expired and not yet been renewed.        *)
LocalExclusion ==
  \A n \in Node, x \in LockName :
    Cardinality({t \in Thread : Holding(n, t, x)}) <= 1

(* activeLocks lists exactly the locks the process's goroutines hold,     *)
(* each once: a name left behind would be renewed forever and refuse      *)
(* every later Lock of that name.                                         *)
ActiveLocksMatchHolders ==
  \A n \in Node :
    /\ ToSet(active[n]) = {want[n][t] : t \in {u \in Thread : pc[n][u] = "holding"}}
    /\ Len(active[n]) = Cardinality(ToSet(active[n]))

(* Spec 3 (Shared Lock): a held lock is renewed before lockTTL elapses.   *)
(* While a goroutine holds Lock(x) the record of x exists and names its    *)
(* process, so no other process can take x.  The renewal ticker of ping   *)
(* has the period lockTTL itself.                                          *)
HeldRecordLive ==
  \A n \in Node, t \in Thread, x \in LockName :
    Holding(n, t, x) => rec[x] # NoRecord /\ rec[x].node = n

(* A record nobody holds any more (left behind by a renewal that read     *)
(* activeLocks before an Unlock, or by a dead process) eventually goes.   *)
Orphan(x) == rec[x] # NoRecord /\ \A n \in Node : ~Contains(active[n], x)

OrphanRecordExpires ==
  \A x \in LockName : Orphan(x) ~> (rec[x] = NoRecord \/ \E n \in Node : Contains(active[n], x))
=============================================================================
