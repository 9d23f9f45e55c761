----------------------------- MODULE Scheduler -----------------------------
(***************************************************************************)
(* Cluster-aware cron jobs of package scheduler (scheduler/scheduler.go)   *)
(* on top of the cluster locks of ClusterLock.                              *)
(*                                                                         *)
(* Each Worker of a process is a goroutine started by cron for one firing  *)
(* of the task.  The firing joins cluster "scheduler" the first time       *)
(* (task.Cluster is nil), then runs the job under Lock(task.Name) with     *)
(* runWithRetry and Unlocks.  When Join fails the firing runs the job with *)
(* retry and no lock.  Until a process joined, it has no ping goroutine.   *)
(***************************************************************************)
EXTENDS ClusterLock

CONSTANTS
  Task,        \* task.Name, the lock the firings take
  MaxRetry,    \* task.MaxRetry
  JoinFaults   \* TRUE: cluster.Join may fail (no Redis, Publish error)

ASSUME Task \in JobLock /\ MaxRetry \in Nat /\ JoinFaults \in BOOLEAN

VARIABLES
  spc,        \* spc[n][w]: where firing w of process n is in runJob
  joined,     \* joined[n]: task.Cluster # nil in process n
  onCluster,  \* onCluster[n][w]: the firing runs under the cluster lock
  attempts    \* attempts[n][w]: the attempts argument of runWithRetry

schedVars == <<spc, joined, onCluster, attempts>>
allVars == <<vars, schedVars>>

SPcState == {"idle", "lock", "locking", "run", "unlock"}

SchedTypeOK ==
  /\ TypeOK
  /\ spc \in [Node -> [Worker -> SPcState]]
  /\ joined \in [Node -> BOOLEAN]
  /\ onCluster \in [Node -> [Worker -> BOOLEAN]]
  \* every recursive call of runWithRetry has attempts > 0; the first has
  \* task.MaxRetry, which may be 0
  /\ attempts \in [Node -> [Worker -> IF MaxRetry = 0 THEN {0} ELSE 1..MaxRetry]]

JoinOutcomes == IF JoinFaults THEN BOOLEAN ELSE {TRUE}

SchedInit ==
  /\ Init
  /\ spc = [n \in Node |-> [w \in Worker |-> "idle"]]
  /\ joined = [n \in Node |-> FALSE]
  /\ onCluster = [n \in Node |-> [w \in Worker |-> FALSE]]
  /\ attempts = [n \in Node |-> [w \in Worker |-> MaxRetry]]

(* The cron entry fires: runJob.  With task.Cluster nil it calls Join:    *)
(* on success the handle is kept and runOnCluster follows, on failure     *)
(* runWithRetry runs without a lock.  Join starts the tickers of ping.    *)
Fire(n, w) ==
  /\ spc[n][w] = "idle"
  /\ IF joined[n]
       THEN /\ spc' = [spc EXCEPT ![n][w] = "lock"]
            /\ UNCHANGED <<joined, renewIn>>
       ELSE \E ok \in JoinOutcomes :
              /\ joined' = [joined EXCEPT ![n] = ok]
              /\ spc' = [spc EXCEPT ![n][w] = IF ok THEN "lock" ELSE "run"]
              /\ \E r \in 1..LockTTL : renewIn' = IF ok THEN [renewIn EXCEPT ![n] = r]
                                                      ELSE renewIn
  /\ UNCHANGED <<onCluster, attempts>>
  /\ UNCHANGED <<rec, mutex, active, pc, want, spare, loop, renewDue, gcDue, crashes>>

(* runOnCluster: Lock(task.Name) up to the GET ...                         *)
SchedLockGet(n, w) ==
  /\ spc[n][w] = "lock"
  /\ LockGet(n, w, Task)
  /\ spc' = [spc EXCEPT ![n][w] = "locking"]
  /\ UNCHANGED <<gcDue, joined, onCluster, attempts>>

(* ... an error from Lock: another holder runs the task, return nil.       *)
SchedLockRefused(n, w) ==
  /\ spc[n][w] = "lock"
  /\ LockRefused(n, w, Task)
  /\ spc' = [spc EXCEPT ![n][w] = "idle"]
  /\ UNCHANGED <<vars, joined, onCluster, attempts>>

(* ... the SET: on success runWithRetry(task, task.MaxRetry) follows, on  *)
(* an error runOnCluster returns nil without running.                      *)
SchedLockSet(n, w) ==
  /\ spc[n][w] = "locking"
  /\ LockSet(n, w)
  /\ spc' = [spc EXCEPT ![n][w] = IF pc'[n][w] = "holding" THEN "run" ELSE "idle"]
  /\ onCluster' = [onCluster EXCEPT ![n][w] = (pc'[n][w] = "holding")]
  /\ UNCHANGED <<joined, attempts>>

(* Mutant: retry while attempts stays at or above 0 (attempts >= 0).      *)
JobCallRetryAtZero(n, w) ==
  /\ spc[n][w] = "run"
  /\ \E jobOk \in BOOLEAN :
       IF jobOk \/ attempts[n][w] - 1 < 0
         THEN /\ spc' = [spc EXCEPT ![n][w] = IF onCluster[n][w] THEN "unlock" ELSE "idle"]
              /\ attempts' = [attempts EXCEPT ![n][w] = MaxRetry]
              /\ onCluster' = [onCluster EXCEPT ![n][w] = @ /\ spc'[n][w] = "unlock"]
         ELSE /\ attempts' = [attempts EXCEPT ![n][w] = @ - 1]
              /\ UNCHANGED <<spc, onCluster>>
  /\ UNCHANGED <<vars, joined>>

(* runWithRetry: one call of task.Job.  On an error attempts is           *)
(* decremented and the job called again while it stays above 0.  The run *)
(* under the lock goes on to Unlock.  (attempts and onCluster are locals  *)
(* of the firing: they are reset when it returns.)                        *)
JobCall(n, w) ==
  /\ spc[n][w] = "run"
  /\ \E jobOk \in BOOLEAN :
       IF jobOk \/ attempts[n][w] - 1 <= 0
         THEN /\ spc' = [spc EXCEPT ![n][w] = IF onCluster[n][w] THEN "unlock" ELSE "idle"]
              /\ attempts' = [attempts EXCEPT ![n][w] = MaxRetry]
              /\ onCluster' = [onCluster EXCEPT ![n][w] = @ /\ spc'[n][w] = "unlock"]
         ELSE /\ attempts' = [attempts EXCEPT ![n][w] = @ - 1]
              /\ UNCHANGED <<spc, onCluster>>
  /\ UNCHANGED <<vars, joined>>

(* Mutant: runOnCluster returns after the run without Unlock.            *)
SchedUnlockSkipped(n, w) ==
  /\ spc[n][w] = "unlock"
  /\ pc' = [pc EXCEPT ![n][w] = "idle"]
  /\ spc' = [spc EXCEPT ![n][w] = "idle"]
  /\ onCluster' = [onCluster EXCEPT ![n][w] = FALSE]
  /\ UNCHANGED <<rec, mutex, active, want, spare, loop, renewIn, renewDue, gcDue, crashes>>
  /\ UNCHANGED <<joined, attempts>>

(* runOnCluster: Unlock(task.Name) after the run, its error ignored.       *)
SchedUnlock(n, w) ==
  /\ spc[n][w] = "unlock"
  /\ Unlock(n, w)
  /\ spc' = [spc EXCEPT ![n][w] = "idle"]
  /\ onCluster' = [onCluster EXCEPT ![n][w] = FALSE]
  /\ UNCHANGED <<joined, attempts>>

(* Before Join a process has no ping goroutine: its fired tickers are not *)
(* served.                                                                  *)
NoPing(n) ==
  /\ ~joined[n]
  /\ renewDue[n] \/ gcDue[n]
  /\ renewDue' = [renewDue EXCEPT ![n] = FALSE]
  /\ gcDue' = [gcDue EXCEPT ![n] = FALSE]
  /\ UNCHANGED <<rec, mutex, active, pc, want, spare, loop, renewIn, crashes, schedVars>>

(* The process dies and starts again: task.Cluster is nil, no firing runs. *)
SchedCrash(n) ==
  /\ Crash(n)
  /\ joined' = [joined EXCEPT ![n] = FALSE]
  /\ spc' = [spc EXCEPT ![n] = [w \in Worker |-> "idle"]]
  /\ onCluster' = [onCluster EXCEPT ![n] = [w \in Worker |-> FALSE]]
  /\ attempts' = [attempts EXCEPT ![n] = [w \in Worker |-> MaxRetry]]

FiringStep(n, w) ==
  \/ Fire(n, w)
  \/ SchedLockGet(n, w)
  \/ SchedLockRefused(n, w)
  \/ SchedLockSet(n, w)
  \/ JobCall(n, w)
  \/ SchedUnlock(n, w)

SchedNext ==
  \/ \E n \in Node, w \in Worker : FiringStep(n, w)
  \/ \E n \in Node : joined[n] /\ PingStep(n) /\ UNCHANGED schedVars
  \/ \E n \in Node : NoPing(n)
  \/ \E n \in Node : SchedCrash(n)
  \/ \E x \in LockName : Expire(x) /\ UNCHANGED schedVars
  \/ Tick /\ UNCHANGED schedVars

(* cron fires the task every period and each firing goroutine keeps       *)
(* running; the mutex in starvation mode serves a waiting Lock, so the    *)
(* Lock and Unlock of the firings and the gc branch get it (strong         *)
(* fairness), as in ClusterLock.                                           *)
SchedFairness ==
  /\ \A n \in Node, w \in Worker :
       /\ WF_allVars(FiringStep(n, w))
       /\ SF_allVars(SchedLockGet(n, w) \/ SchedLockRefused(n, w))
       /\ SF_allVars(SchedUnlock(n, w))
  /\ \A n \in Node :
       /\ WF_allVars(joined[n] /\ PingStep(n) /\ UNCHANGED schedVars)
       /\ SF_allVars(joined[n] /\ GcFire(n) /\ UNCHANGED schedVars)
       /\ WF_allVars(NoPing(n))
  /\ WF_allVars(Tick /\ UNCHANGED schedVars)
  /\ \A x \in LockName : WF_allVars(Expire(x) /\ UNCHANGED schedVars)

SchedSpec == SchedInit /\ [][SchedNext]_allVars /\ SchedFairness

-----------------------------------------------------------------------------
(* PROPERTIES *)

Running(n, w) == spc[n][w] = "run"

(* Cron keeps firing and Redis answers: the job runs again and again on   *)
(* some process.  A task name left in activeLocks by a firing that did    *)
(* not Unlock would make every later Lock of that process fail, and its   *)
(* renewed record every Lock elsewhere.                                    *)
TaskKeepsRunning == []<>(\E n \in Node, w \in Worker : Running(n, w))
=============================================================================
