----------------------------- MODULE RateLimit -----------------------------
(***************************************************************************)
(* What the brute-force limiter promises (spec 3 Leaky Bucket, 4.4, 8.2), *)
(* with no buckets, heap or goroutines: every key has a level, the time   *)
(* its bucket needs to drain, counted in sub-ticks (Res sub-ticks per      *)
(* drip of 1s/rate).  A request of one token is granted exactly when      *)
(* fewer than Capacity units are in the bucket, and the grant adds one    *)
(* unit; time drains the level.  reply[t] is the last answer given to     *)
(* request goroutine t.                                                    *)
(***************************************************************************)
EXTENDS Naturals

CONSTANTS Key, Thread, Capacity, Res

VARIABLES level, reply

CeilDiv(a, b) == (a + b - 1) \div b

(* Units in a bucket that drains in l sub-ticks.                          *)
Units(l) == CeilDiv(l, Res)

RLInit ==
  /\ level = [k \in Key |-> 0]
  /\ reply = [t \in Thread |-> 0]

Grant(t, k) ==
  /\ Units(level[k]) < Capacity
  /\ level' = [level EXCEPT ![k] = @ + Res]
  /\ reply' = [reply EXCEPT ![t] = 1]

Deny(t, k) ==
  /\ Units(level[k]) >= Capacity
  /\ reply' = [reply EXCEPT ![t] = 0]
  /\ UNCHANGED level

Drain ==
  /\ level' = [k \in Key |-> IF level[k] = 0 THEN 0 ELSE level[k] - 1]
  /\ UNCHANGED reply

RLNext ==
  \/ \E t \in Thread, k \in Key : Grant(t, k) \/ Deny(t, k)
  \/ Drain

RLSpec == RLInit /\ [][RLNext]_<<level, reply>>
=============================================================================
