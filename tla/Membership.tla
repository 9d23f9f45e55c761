----------------------------- MODULE Membership -----------------------------
(***************************************************************************)
(* Cluster membership of package cluster (cluster/cluster.go) over the    *)
(* Redis driver (cache/redis): Join, Leave, Broadcast, OnMessage, the      *)
(* subscription's listener goroutine, and the node-table half of the ping  *)
(* goroutine (writeNodeInfo every pingTime, the sweep under "cluster-gc"   *)
(* every 2*pingTime, the renewal of "cluster-gc" while it is held).        *)
(*                                                                         *)
(* The node table is the hash cluster:{name}: field "nodeId" is the id     *)
(* counter, every other field a node id with its LastSeen.  A LastSeen is  *)
(* kept as its age in ticks, clipped at PingTime + 1 (the sweep only asks  *)
(* whether LastSeen + pingTime is in the past).  The lock "cluster-gc" is  *)
(* modelled for this one name: inActive[n] is the name in n's activeLocks, *)
(* gcRec its Redis record.  Lock's GET and SET are one step here; their    *)
(* race is the subject of ClusterLock.  lockTTL is one tick: the record    *)
(* lives one tick unless renewed.  Stayer nodes have joined before the     *)
(* model starts and never Leave; the others may Join once and Leave.       *)
(***************************************************************************)
EXTENDS Naturals, Sequences, FiniteSets

CONSTANTS
  Node,          \* processes using one cluster name
  Stayer,        \* nodes already joined that never call Leave
  PingTime,      \* pingTime in ticks; the sweep period is 2 * PingTime
  MaxBroadcasts, \* Broadcast calls explored
  MaxFaults,     \* Redis commands that may fail, in all
  Absent,        \* no field for this id in the hash
  NoRecord       \* no record of "cluster-gc"

ASSUME Stayer \subseteq Node /\ PingTime \in Nat \ {0} /\ MaxFaults \in Nat

NodeId == 0..Cardinality(Node)
Age == 0..PingTime + 1
Bcast == 1..MaxBroadcasts
Msg == [from : Node, b : Bcast]   \* a nodeBroadcast message

VARIABLES
  st,        \* st[n]: "out", "joining", "in", "failed" (Join returned an error), "leaving", "left"
  id,        \* id[n]: cluster.nodeID
  counter,   \* the "nodeId" field of the hash
  table,     \* table[i]: age of node i's LastSeen, or Absent
  ping,      \* ping[n]: "off", "idle" (in its select), "read", "del" (the sweep)
  stopped,   \* stopped[n]: c.stop is closed
  pingIn, gcIn,          \* ticks until timer / gcTimer of n fire
  pingDue, gcDue, renewDue, \* a ticker of n fired and its case has not run
  inActive,  \* inActive[n]: "cluster-gc" is in n's activeLocks
  gcRec,     \* the record of "cluster-gc": [node, ttl] or NoRecord
  snap,      \* snap[n]: the ids the running sweep found stale in HGetAll
  sub,       \* sub[n]: the subscription, "none", "open", "closed"
  inbox,     \* inbox[n]: messages published to n's subscription, not yet read
  handler,   \* handler[n]: OnMessage was called
  bcasts,    \* Broadcast calls so far
  aud,       \* aud[b]: the other nodes subscribed with a handler when b was published
  handled,   \* handled[n]: the broadcasts n's handler was called with
  faults     \* Redis commands that failed so far

mvars == <<st, id, counter, table, ping, stopped, pingIn, gcIn, pingDue, gcDue,
           renewDue, inActive, gcRec, snap, sub, inbox, handler, bcasts, aud, handled, faults>>
timers == <<pingIn, gcIn, pingDue, gcDue, renewDue>>
bvars == <<handler, bcasts, aud, handled>>

MTypeOK ==
  /\ st \in [Node -> {"out", "joining", "in", "failed", "leaving", "left"}]
  /\ id \in [Node -> NodeId] /\ counter \in NodeId
  /\ table \in [NodeId -> Age \cup {Absent}]
  /\ ping \in [Node -> {"off", "idle", "read", "del"}] /\ stopped \in [Node -> BOOLEAN]
  /\ pingIn \in [Node -> 1..PingTime] /\ gcIn \in [Node -> 1..2 * PingTime]
  /\ pingDue \in [Node -> BOOLEAN] /\ gcDue \in [Node -> BOOLEAN] /\ renewDue \in [Node -> BOOLEAN]
  /\ inActive \in [Node -> BOOLEAN]
  /\ gcRec \in [node : Node, ttl : 0..1] \cup {NoRecord}
  /\ snap \in [Node -> SUBSET NodeId]
  /\ sub \in [Node -> {"none", "open", "closed"}] /\ inbox \in [Node -> Seq(Msg)]
  /\ handler \in [Node -> BOOLEAN] /\ bcasts \in 0..MaxBroadcasts
  /\ aud \in [Bcast -> SUBSET Node] /\ handled \in [Node -> SUBSET Bcast]
  /\ faults \in 0..MaxFaults

(* A Redis command succeeds (TRUE) or fails; Spend(k) charges k failures *)
(* to the budget.                                                          *)
Outcomes == IF MaxFaults > 0 THEN BOOLEAN ELSE {TRUE}
Fail(ok) == IF ok THEN 0 ELSE 1
Spend(k) == faults + k <= MaxFaults /\ faults' = faults + k

(* The ping goroutine of n runs; Listed(i): the hash has a field for i.   *)
Running(n) == ping[n] # "off"
Listed(i) == table[i] # Absent

(* The stayers are joined: ids 1..k from the counter, their info written, *)
(* subscribed, and ping started with fresh tickers.                         *)
MInit ==
  /\ id \in {f \in [Node -> NodeId] :
               /\ \A s \in Stayer : f[s] \in 1..Cardinality(Stayer)
               /\ \A s, t \in Stayer : f[s] = f[t] => s = t
               /\ \A n \in Node \ Stayer : f[n] = 0}
  /\ counter = Cardinality(Stayer)
  /\ table = [i \in NodeId |-> IF \E s \in Stayer : id[s] = i THEN 0 ELSE Absent]
  /\ st = [n \in Node |-> IF n \in Stayer THEN "in" ELSE "out"]
  /\ ping = [n \in Node |-> IF n \in Stayer THEN "idle" ELSE "off"]
  /\ sub = [n \in Node |-> IF n \in Stayer THEN "open" ELSE "none"]
  /\ stopped = [n \in Node |-> FALSE]
  /\ pingIn = [n \in Node |-> PingTime] /\ gcIn = [n \in Node |-> 2 * PingTime]
  /\ pingDue = [n \in Node |-> FALSE] /\ gcDue = [n \in Node |-> FALSE]
  /\ renewDue = [n \in Node |-> FALSE]
  /\ inActive = [n \in Node |-> FALSE] /\ gcRec = NoRecord
  /\ snap = [n \in Node |-> {}] /\ inbox = [n \in Node |-> <<>>]
  /\ handler = [n \in Node |-> FALSE] /\ bcasts = 0
  /\ aud = [b \in Bcast |-> {}] /\ handled = [n \in Node |-> {}]
  /\ faults = 0

(* Publish: Redis hands the message to every open subscription, the       *)
(* sender's own included.                                                   *)
Publish(from, b) ==
  inbox' = [m \in Node |-> IF sub[m] = "open"
                             THEN Append(inbox[m], [from |-> from, b |-> b])
                             ELSE inbox[m]]

(* writeNodeInfo: HSet of the id's field with LastSeen = now; the error   *)
(* is dropped.                                                              *)
WriteNodeInfo(i, ok) == table' = IF ok THEN [table EXCEPT ![i] = 0] ELSE table

(* Mutant: the id taken one past the counter HInc returned.              *)
JoinRegisterOffByOne(n) ==
  /\ st[n] = "out"
  /\ \E ok, wok \in Outcomes :
       LET i == IF ok THEN counter + 2 ELSE 0 IN
       /\ Spend(Fail(ok) + Fail(wok))
       /\ counter' = IF ok THEN counter + 1 ELSE counter
       /\ id' = [id EXCEPT ![n] = i]
       /\ WriteNodeInfo(i, wok)
  /\ sub' = [sub EXCEPT ![n] = "open"]
  /\ st' = [st EXCEPT ![n] = "joining"]
  /\ UNCHANGED <<ping, stopped, timers, inActive, gcRec, snap, inbox, bvars>>

(* Join, up to the subscription: HInc of "nodeId" (Val() is 0 when the    *)
(* command fails), writeNodeInfo, Subscribe with its listener goroutine.  *)
JoinRegister(n) ==
  /\ st[n] = "out"
  /\ \E ok, wok \in Outcomes :
       LET i == IF ok THEN counter + 1 ELSE 0 IN
       /\ Spend(Fail(ok) + Fail(wok))
       /\ counter' = IF ok THEN counter + 1 ELSE counter
       /\ id' = [id EXCEPT ![n] = i]
       /\ WriteNodeInfo(i, wok)
  /\ sub' = [sub EXCEPT ![n] = "open"]
  /\ st' = [st EXCEPT ![n] = "joining"]
  /\ UNCHANGED <<ping, stopped, timers, inActive, gcRec, snap, inbox, bvars>>

(* Join, the rest: publish nodeJoined; on an error return it (the         *)
(* subscription and the field stay, ping is never started), else start    *)
(* ping with its three tickers.  The listener ignores nodeJoined and      *)
(* nodeLeave, so only the outcome of their publish is kept.               *)
JoinAnnounce(n) ==
  /\ st[n] = "joining"
  /\ \E ok \in Outcomes :
       Spend(Fail(ok)) /\
       IF ok THEN /\ st' = [st EXCEPT ![n] = "in"]
                  /\ ping' = [ping EXCEPT ![n] = "idle"]
                  /\ pingIn' = [pingIn EXCEPT ![n] = PingTime]
                  /\ gcIn' = [gcIn EXCEPT ![n] = 2 * PingTime]
             ELSE /\ st' = [st EXCEPT ![n] = "failed"]
                  /\ UNCHANGED <<ping, pingIn, gcIn>>
  /\ UNCHANGED <<id, counter, table, stopped, pingDue, gcDue, renewDue, inActive,
                 gcRec, snap, sub, inbox, bvars>>

(* OnMessage: register the callback.                                        *)
OnMessage(n) ==
  /\ st[n] = "in" /\ ~handler[n]
  /\ handler' = [handler EXCEPT ![n] = TRUE]
  /\ UNCHANGED <<st, id, counter, table, ping, stopped, timers, inActive, gcRec,
                 snap, sub, inbox, bcasts, aud, handled, faults>>

(* Broadcast: wrapMessage, then Publish; an error is returned.            *)
Broadcast(n) ==
  /\ st[n] = "in" /\ bcasts < MaxBroadcasts
  /\ bcasts' = bcasts + 1
  /\ \E ok \in Outcomes :
       Spend(Fail(ok)) /\
       IF ok THEN /\ Publish(n, bcasts + 1)
                  /\ aud' = [aud EXCEPT ![bcasts + 1] = {m \in Node \ {n} : sub[m] = "open" /\ handler[m]}]
             ELSE UNCHANGED <<inbox, aud>>
  /\ UNCHANGED <<st, id, counter, table, ping, stopped, timers, inActive, gcRec,
                 snap, sub, handler, handled>>

(* Mutant: the listener hands the handler only the node's own broadcasts. *)
DeliverOwnOnly(n) ==
  /\ sub[n] = "open" /\ inbox[n] # <<>>
  /\ LET m == Head(inbox[n]) IN
       handled' = IF handler[n] /\ m.from = n
                    THEN [handled EXCEPT ![n] = @ \cup {m.b}] ELSE handled
  /\ inbox' = [inbox EXCEPT ![n] = Tail(@)]
  /\ UNCHANGED <<st, id, counter, table, ping, stopped, timers, inActive, gcRec,
                 snap, sub, handler, bcasts, aud, faults>>

(* redisClientListener and listener: the next message of the open         *)
(* subscription; a nodeBroadcast goes to the handler when one is set.     *)
Deliver(n) ==
  /\ sub[n] = "open" /\ inbox[n] # <<>>
  /\ LET m == Head(inbox[n]) IN
       handled' = IF handler[n]
                    THEN [handled EXCEPT ![n] = @ \cup {m.b}] ELSE handled
  /\ inbox' = [inbox EXCEPT ![n] = Tail(@)]
  /\ UNCHANGED <<st, id, counter, table, ping, stopped, timers, inActive, gcRec,
                 snap, sub, handler, bcasts, aud, faults>>

(* Leave: publish nodeLeave; on an error return it and change nothing.    *)
LeaveAnnounce(n) ==
  /\ st[n] = "in" /\ n \notin Stayer
  /\ \E ok \in Outcomes :
       Spend(Fail(ok)) /\ st' = IF ok THEN [st EXCEPT ![n] = "leaving"] ELSE st
  /\ UNCHANGED <<id, counter, table, ping, stopped, timers, inActive, gcRec, snap,
                 sub, inbox, bvars>>

(* Leave, the rest: HDel of its field (error dropped), pubSub.Close (the  *)
(* unread messages are lost), close(c.stop).                                *)
LeaveFinish(n) ==
  /\ st[n] = "leaving"
  /\ \E ok \in Outcomes :
       Spend(Fail(ok)) /\ table' = IF ok THEN [table EXCEPT ![id[n]] = Absent] ELSE table
  /\ sub' = [sub EXCEPT ![n] = "closed"]
  /\ inbox' = [inbox EXCEPT ![n] = <<>>]
  /\ stopped' = [stopped EXCEPT ![n] = TRUE]
  /\ st' = [st EXCEPT ![n] = "left"]
  /\ UNCHANGED <<id, counter, ping, timers, inActive, gcRec, snap, bvars>>

(* ping, timer case: writeNodeInfo.                                         *)
PingWrite(n) ==
  /\ ping[n] = "idle" /\ pingDue[n]
  /\ pingDue' = [pingDue EXCEPT ![n] = FALSE]
  /\ \E ok \in Outcomes : Spend(Fail(ok)) /\ WriteNodeInfo(id[n], ok)
  /\ UNCHANGED <<st, id, counter, ping, stopped, pingIn, gcIn, gcDue, renewDue,
                 inActive, gcRec, snap, sub, inbox, bvars>>

(* ping, lockTimer case: SET the record of every name in activeLocks (the *)
(* ticker may have fired during a sweep that has since unlocked).          *)
PingRenew(n) ==
  /\ ping[n] = "idle" /\ renewDue[n]
  /\ renewDue' = [renewDue EXCEPT ![n] = FALSE]
  /\ IF inActive[n]
       THEN \E ok \in Outcomes :
              Spend(Fail(ok)) /\ gcRec' = IF ok THEN [node |-> n, ttl |-> 1] ELSE gcRec
       ELSE UNCHANGED <<gcRec, faults>>
  /\ UNCHANGED <<st, id, counter, table, ping, stopped, pingIn, gcIn, pingDue, gcDue,
                 inActive, snap, sub, inbox, bvars>>

(* ping, stop case: return.  select picks at random among ready cases, so *)
(* a fired timer may still be served after c.stop is closed.               *)
PingStop(n) ==
  /\ ping[n] = "idle" /\ stopped[n]
  /\ ping' = [ping EXCEPT ![n] = "off"]
  /\ pingDue' = [pingDue EXCEPT ![n] = FALSE]
  /\ gcDue' = [gcDue EXCEPT ![n] = FALSE]
  /\ renewDue' = [renewDue EXCEPT ![n] = FALSE]
  /\ UNCHANGED <<st, id, counter, table, stopped, pingIn, gcIn, inActive, gcRec,
                 snap, sub, inbox, bvars, faults>>

(* ping, gcTimer case: Lock("cluster-gc").  Refused when the name is in   *)
(* activeLocks or the GET finds a record (a failed GET reads as free);     *)
(* else the name is appended and SET; a failed SET is an error, the loop  *)
(* continues, and the name stays in activeLocks.                           *)
GcLock(n) ==
  /\ ping[n] = "idle" /\ gcDue[n]
  /\ gcDue' = [gcDue EXCEPT ![n] = FALSE]
  /\ IF inActive[n] THEN UNCHANGED <<inActive, gcRec, ping, faults>>
     ELSE \E getOk \in Outcomes :
       IF getOk /\ gcRec # NoRecord
         THEN Spend(0) /\ UNCHANGED <<inActive, gcRec, ping>>
         ELSE /\ inActive' = [inActive EXCEPT ![n] = TRUE]
              /\ \E setOk \in Outcomes :
                   /\ Spend(Fail(getOk) + Fail(setOk))
                   /\ gcRec' = IF setOk THEN [node |-> n, ttl |-> 1] ELSE gcRec
                   /\ ping' = [ping EXCEPT ![n] = IF setOk THEN "read" ELSE "idle"]
  /\ UNCHANGED <<st, id, counter, table, stopped, pingIn, gcIn, pingDue, renewDue,
                 snap, sub, inbox, bvars>>

(* The sweep: HGetAll; on an error continue without Unlock.  Otherwise   *)
(* the ids whose LastSeen + pingTime is before now.                         *)
GcRead(n) ==
  /\ ping[n] = "read"
  /\ \E ok \in Outcomes :
       Spend(Fail(ok)) /\
       IF ok THEN /\ snap' = [snap EXCEPT ![n] = {i \in NodeId : Listed(i) /\ table[i] > PingTime}]
                  /\ ping' = [ping EXCEPT ![n] = "del"]
             ELSE ping' = [ping EXCEPT ![n] = "idle"] /\ UNCHANGED snap
  /\ UNCHANGED <<st, id, counter, table, stopped, timers, inActive, gcRec, sub, inbox, bvars>>

(* Mutant: the sweep returns without Unlock("cluster-gc").                *)
GcDeleteNoUnlock(n) ==
  /\ ping[n] = "del"
  /\ \E kept \in SUBSET snap[n] :
       /\ Spend(Cardinality(kept))
       /\ table' = [i \in NodeId |-> IF i \in snap[n] \ kept THEN Absent ELSE table[i]]
  /\ snap' = [snap EXCEPT ![n] = {}]
  /\ ping' = [ping EXCEPT ![n] = "idle"]
  /\ UNCHANGED <<st, id, counter, stopped, timers, sub, inbox, bvars, inActive, gcRec>>

(* HDel of every id read as stale (each may fail), then                   *)
(* Unlock("cluster-gc"): out of activeLocks, DEL of the record.            *)
GcDelete(n) ==
  /\ ping[n] = "del"
  /\ \E kept \in SUBSET snap[n], ok \in Outcomes :
       /\ Spend(Cardinality(kept) + Fail(ok))
       /\ table' = [i \in NodeId |-> IF i \in snap[n] \ kept THEN Absent ELSE table[i]]
       /\ gcRec' = IF ok THEN NoRecord ELSE gcRec
  /\ inActive' = [inActive EXCEPT ![n] = FALSE]
  /\ snap' = [snap EXCEPT ![n] = {}]
  /\ ping' = [ping EXCEPT ![n] = "idle"]
  /\ UNCHANGED <<st, id, counter, stopped, timers, sub, inbox, bvars>>

PingStep(n) ==
  PingWrite(n) \/ PingRenew(n) \/ PingStop(n) \/ GcLock(n) \/ GcRead(n) \/ GcDelete(n)

(* A tick: LastSeen ages, the record's TTL runs down (a record at 0 is    *)
(* dropped), and the tickers of running ping goroutines count down; the   *)
(* lockTimer fires every tick.  A fired ticker is served before the next  *)
(* tick.                                                                    *)
MTick ==
  /\ \A n \in Node : ~pingDue[n] /\ ~gcDue[n] /\ ~renewDue[n]
  /\ table' = [i \in NodeId |-> IF Listed(i) /\ table[i] <= PingTime THEN table[i] + 1 ELSE table[i]]
  /\ gcRec' = IF gcRec = NoRecord \/ gcRec.ttl = 0 THEN NoRecord ELSE [gcRec EXCEPT !.ttl = 0]
  /\ pingDue' = [n \in Node |-> Running(n) /\ pingIn[n] = 1]
  /\ pingIn' = [n \in Node |-> IF Running(n) /\ pingIn[n] > 1 THEN pingIn[n] - 1 ELSE PingTime]
  /\ gcDue' = [n \in Node |-> Running(n) /\ gcIn[n] = 1]
  /\ gcIn' = [n \in Node |-> IF Running(n) /\ gcIn[n] > 1 THEN gcIn[n] - 1 ELSE 2 * PingTime]
  /\ renewDue' = [n \in Node |-> Running(n) /\ inActive[n]]
  /\ UNCHANGED <<st, id, counter, ping, stopped, inActive, snap, sub, inbox, bvars, faults>>

MNext ==
  \/ \E n \in Node :
       \/ JoinRegister(n) \/ JoinAnnounce(n) \/ OnMessage(n) \/ Broadcast(n)
       \/ Deliver(n) \/ LeaveAnnounce(n) \/ LeaveFinish(n) \/ PingStep(n)
  \/ MTick

(* The goroutines run: ping, the listener, and a Join or Leave call       *)
(* under way; time passes.  select is random, so the stop case is taken   *)
(* once c.stop is closed.  Nobody is obliged to call Join, Leave,         *)
(* OnMessage or Broadcast.                                                  *)
MFairness ==
  /\ \A n \in Node :
       /\ WF_mvars(PingStep(n)) /\ WF_mvars(PingStop(n)) /\ WF_mvars(Deliver(n))
       /\ WF_mvars(JoinAnnounce(n)) /\ WF_mvars(LeaveFinish(n))
  /\ WF_mvars(MTick)

MSpec == MInit /\ [][MNext]_mvars /\ MFairness

-----------------------------------------------------------------------------
(* PROPERTIES *)

(* Spec 3 (consumers remove entries whose last-seen + pingTime is past),  *)
(* 4.3 (Leave removes its hash entry) and 7 (node info self-heals): a      *)
(* field no running ping goroutine refreshes -- a node that left, whose    *)
(* last writeNodeInfo may land after Leave's HDel, or a Join that failed   *)
(* -- is eventually removed by the sweep of a node still in the cluster.   *)
(* It needs the sweep to keep running somewhere: "cluster-gc" must not    *)
(* stay taken for ever.                                                     *)
Refreshed(i) == \E n \in Node : id[n] = i /\ Running(n)

LeftNodeGone ==
  \A i \in NodeId : (Listed(i) /\ ~Refreshed(i)) ~> (~Listed(i) \/ Refreshed(i))

(* Spec 4.3: OnMessage's callback is invoked for each inbound broadcast,  *)
(* and Broadcast sends "to all other nodes" (cluster.go:98): a broadcast   *)
(* published while another node n is subscribed with a callback reaches   *)
(* n's callback through n's own listener, unless n leaves first.           *)
BroadcastHandled ==
  \A b \in Bcast, n \in Node : (n \in aud[b]) ~> (b \in handled[n] \/ sub[n] = "closed")
=============================================================================
