----------------------------- MODULE Collector -----------------------------
(***************************************************************************)
(* The leaky-bucket collector of package security (src/unnamed/part_014), *)
(* as used by bruteForceMiddleware: Add(key, 1) from request goroutines   *)
(* and removeEmptyBuckets from the GC goroutine every second.             *)
(*                                                                         *)
(* Collector.Add looks the bucket up (and creates and pushes it) under    *)
(* c.lock, releases the lock, charges the bucket with LeakyBucket.Add and *)
(* then calls heap.Fix(&c.heap, b.index), both outside the lock.  The GC  *)
(* pops, under the lock, every bucket at the top of the heap whose drain  *)
(* time p is not after now.                                               *)
(*                                                                         *)
(* Time is counted in sub-ticks, Res of them per drip (1s/rate); the rate *)
(* is one token per second, so the GC ticker fires every Res sub-ticks.   *)
(* A bucket's p is kept as p - now (its offset), which bd[b] holds;       *)
(* offsets below -Res are kept at -Res (no decision of the code tells     *)
(* them apart except the heap order of long-expired buckets).             *)
(* Heap indices are Go's, from 0: the bucket at Go index i is heap[i+1].  *)
(***************************************************************************)
EXTENDS Integers, Sequences, SequencesExt, FiniteSets

CONSTANTS
  Key,        \* client keys (RemoteAddr or session id)
  Thread,     \* request goroutines running bruteForceMiddleware
  Bucket,     \* *LeakyBucket objects the collector may allocate
  Capacity,   \* c.capacity
  Res,        \* sub-ticks per drip
  NoBucket    \* nil

ASSUME Capacity \in Nat \ {0} /\ Res \in Nat \ {0} /\ NoBucket \notin Bucket

MinD == -Res
MaxD == Capacity * Res
Offset == MinD..MaxD

VARIABLES
  bmap,     \* c.buckets: key -> bucket
  heap,     \* c.heap, a sequence of buckets
  bidx,     \* b.index of every bucket
  bd,       \* b.p - now of every bucket
  bkey,     \* b.key of every bucket
  tpc,      \* tpc[t]: where goroutine t is in Collector.Add
  tb,       \* tb[t]: the bucket b of goroutine t
  reply,    \* reply[t]: the last value Collector.Add returned to t
  gcDue,    \* the GC ticker fired and removeEmptyBuckets has not run
  phase,    \* sub-ticks since the GC ticker last fired
  fixPanic  \* some heap.Fix indexed past the end of the heap

cvars == <<bmap, heap, bidx, bd, bkey, tpc, tb, reply, gcDue, phase, fixPanic>>

CTypeOK ==
  /\ bmap \in [Key -> Bucket \cup {NoBucket}]
  /\ heap \in Seq(Bucket) /\ Len(heap) <= Cardinality(Bucket)
  /\ bidx \in [Bucket -> 0..Cardinality(Bucket)]
  /\ bd \in [Bucket -> Offset]
  /\ bkey \in [Bucket -> Key]
  /\ tpc \in [Thread -> {"idle", "add", "fix"}]
  /\ tb \in [Thread -> Bucket \cup {NoBucket}]
  /\ reply \in [Thread -> 0..1]
  /\ gcDue \in BOOLEAN /\ phase \in 0..(Res - 1) /\ fixPanic \in BOOLEAN

-----------------------------------------------------------------------------
(* LeakyBucket, one instant of time (time.Now() read as one value).       *)

CeilDiv(a, b) == (a + b - 1) \div b

(* Mutant: the count rounded down (int64 conversion without math.Ceil).  *)
CountFloor(d) == IF d <= 0 THEN 0 ELSE d \div Res

(* count(): 0 once p is not after now, else ceil of the time left over   *)
(* the time of one drip.                                                  *)
Count(d) == IF d <= 0 THEN 0 ELSE CeilDiv(d, Res)

(* Mutant: p is not restarted at now once the bucket has drained.         *)
BucketAddNoReset(d, amount) ==
  LET c == Count(d)
      a == IF amount > Capacity - c THEN Capacity - c ELSE amount
  IN IF c >= Capacity THEN [allowed |-> 0, d |-> d]
                      ELSE [allowed |-> a, d |-> d + a * Res]

(* LeakyBucket.Add: refuse a full bucket, restart p at now when it has    *)
(* drained, grant min(amount, capacity - count) and push p that many      *)
(* drips later.                                                            *)
BucketAdd(d, amount) ==
  LET c == Count(d)
      a == IF amount > Capacity - c THEN Capacity - c ELSE amount
      d0 == IF d <= 0 THEN 0 ELSE d
  IN IF c >= Capacity THEN [allowed |-> 0, d |-> d]
                      ELSE [allowed |-> a, d |-> d0 + a * Res]

-----------------------------------------------------------------------------
(* container/heap over priorityQueue; Less compares p.                    *)

Less(d, h, i, j) == d[h[i + 1]] < d[h[j + 1]]
SwapAt(h, i, j) == [h EXCEPT ![i + 1] = h[j + 1], ![j + 1] = h[i + 1]]
(* Go's (j - 1) / 2 truncates toward zero: the parent of 0 is 0.          *)
Parent(j) == IF j = 0 THEN 0 ELSE (j - 1) \div 2

RECURSIVE Down(_, _, _, _)
Down(d, h, i, n) ==
  LET j1 == 2 * i + 1
      j  == IF j1 + 1 < n /\ Less(d, h, j1 + 1, j1) THEN j1 + 1 ELSE j1
  IN IF j1 >= n THEN h
     ELSE IF ~Less(d, h, j, i) THEN h
     ELSE Down(d, SwapAt(h, i, j), j, n)

RECURSIVE Up(_, _, _)
Up(d, h, j) ==
  LET i == Parent(j) IN
  IF i = j \/ ~Less(d, h, j, i) THEN h ELSE Up(d, SwapAt(h, i, j), i)

(* Mutant: Fix that only sifts down.                                     *)
HeapFixDownOnly(d, h, i) == Down(d, h, i, Len(h))

(* heap.Fix: down, and up when down moved nothing.                        *)
HeapFix(d, h, i) ==
  LET h1 == Down(d, h, i, Len(h)) IN IF h1 # h THEN h1 ELSE Up(d, h, i)

(* heap.Fix(h, i) with i past the end: down stops at once and up reads    *)
(* h[i] (index out of range), unless i = 0.                                *)
FixPanics(h, i) == i >= Len(h) /\ i # 0

(* heap.Remove: swap i with the last, re-establish at i, Pop the last.    *)
HeapRemove(d, h, i) ==
  LET n == Len(h) - 1
      s == SwapAt(h, i, n)
      h1 == IF n = i THEN h
            ELSE IF Down(d, s, i, n) # s THEN Down(d, s, i, n) ELSE Up(d, s, i)
  IN SubSeq(h1, 1, n)

(* Swap sets b.index to the new position of both buckets it moves, so    *)
(* after each heap operation (one step here) b.index is the position of  *)
(* every bucket in the heap; a popped bucket keeps the index of the last  *)
(* slot, where Remove's Swap put it.                                       *)
Reindex(idx, h) == [b \in DOMAIN idx |-> IF Contains(h, b)
                                           THEN CHOOSE i \in 0..(Len(h) - 1) : h[i + 1] = b
                                           ELSE idx[b]]

(* Mutant: the loop test inverted (break when p is not after now).        *)
RECURSIVE GcLoopInverted(_, _, _, _)
GcLoopInverted(d, h, m, idx) ==
  IF h = <<>> \/ d[h[1]] <= 0 THEN [heap |-> h, map |-> m, idx |-> idx]
  ELSE LET b == h[1]
           h2 == HeapRemove(d, h, 0)
       IN GcLoopInverted(d, h2, [m EXCEPT ![bkey[b]] = NoBucket],
                         Reindex([idx EXCEPT ![b] = Len(h) - 1], h2))

(* removeEmptyBuckets: while the top bucket's p is not after now, delete  *)
(* its key from the map and heap.Remove it at index 0.                    *)
RECURSIVE GcLoop(_, _, _, _)
GcLoop(d, h, m, idx) ==
  IF h = <<>> \/ d[h[1]] > 0 THEN [heap |-> h, map |-> m, idx |-> idx]
  ELSE LET b == h[1]
           h2 == HeapRemove(d, h, 0)
       IN GcLoop(d, h2, [m EXCEPT ![bkey[b]] = NoBucket],
                 Reindex([idx EXCEPT ![b] = Len(h) - 1], h2))

-----------------------------------------------------------------------------

CInit ==
  /\ bmap = [k \in Key |-> NoBucket]
  /\ heap = <<>>
  /\ bidx = [b \in Bucket |-> 0]
  /\ bd = [b \in Bucket |-> 0]
  /\ bkey = [b \in Bucket |-> CHOOSE k \in Key : TRUE]
  /\ tpc = [t \in Thread |-> "idle"]
  /\ tb = [t \in Thread |-> NoBucket]
  /\ reply = [t \in Thread |-> 0]
  /\ gcDue = FALSE /\ phase = 0 /\ fixPanic = FALSE

(* A bucket object nothing refers to any more can stand for a new one.    *)
Free(b) ==
  /\ \A k \in Key : bmap[k] # b
  /\ ~Contains(heap, b)
  /\ \A t \in Thread : tb[t] # b

(* Collector.Add(key, 1), under c.lock: find the bucket, or create one    *)
(* with p = now, c.heap.Push it (no sift up) and store it in the map.     *)
Lookup(t, k) ==
  /\ tpc[t] = "idle"
  /\ tpc' = [tpc EXCEPT ![t] = "add"]
  /\ IF bmap[k] # NoBucket
       THEN /\ tb' = [tb EXCEPT ![t] = bmap[k]]
            /\ UNCHANGED <<bmap, heap, bidx, bd, bkey>>
       ELSE \E b \in Bucket :
              /\ Free(b)
              /\ \A b2 \in Bucket : Free(b2) => b <= b2
              /\ tb' = [tb EXCEPT ![t] = b]
              /\ bd' = [bd EXCEPT ![b] = 0]
              /\ bkey' = [bkey EXCEPT ![b] = k]
              /\ bidx' = [bidx EXCEPT ![b] = Len(heap)]
              /\ heap' = Append(heap, b)
              /\ bmap' = [bmap EXCEPT ![k] = b]
  /\ UNCHANGED <<reply, gcDue, phase, fixPanic>>

(* After c.lock.Unlock(): n := b.Add(amount) on the bucket found.          *)
Charge(t) ==
  LET b == tb[t]
      r == BucketAdd(bd[b], 1)
  IN /\ tpc[t] = "add"
     /\ bd' = [bd EXCEPT ![b] = r.d]
     /\ reply' = [reply EXCEPT ![t] = r.allowed]
     /\ tpc' = [tpc EXCEPT ![t] = IF r.allowed > 0 THEN "fix" ELSE "idle"]
     /\ tb' = IF r.allowed > 0 THEN tb ELSE [tb EXCEPT ![t] = NoBucket]
     /\ UNCHANGED <<bmap, heap, bidx, bkey, gcDue, phase, fixPanic>>

(* if n > 0 { heap.Fix(&c.heap, b.index) }, without the lock.             *)
FixHeap(t) ==
  LET i == bidx[tb[t]] IN
  /\ tpc[t] = "fix"
  /\ IF FixPanics(heap, i)
       THEN /\ fixPanic' = TRUE
            /\ UNCHANGED <<heap, bidx>>
       ELSE /\ heap' = HeapFix(bd, heap, i)
            /\ bidx' = Reindex(bidx, heap')
            /\ UNCHANGED fixPanic
  /\ tpc' = [tpc EXCEPT ![t] = "idle"]
  /\ tb' = [tb EXCEPT ![t] = NoBucket]
  /\ UNCHANGED <<bmap, bd, bkey, reply, gcDue, phase>>

(* The GC ticker fired: removeEmptyBuckets under c.lock.                   *)
Gc ==
  LET r == GcLoop(bd, heap, bmap, bidx) IN
  /\ gcDue
  /\ gcDue' = FALSE
  /\ heap' = r.heap /\ bmap' = r.map /\ bidx' = r.idx
  /\ UNCHANGED <<bd, bkey, tpc, tb, reply, phase, fixPanic>>

(* A sub-tick passes: every p comes one sub-tick closer to now.  The GC   *)
(* ticker fires every Res sub-ticks and is served before time moves on.   *)
Tick ==
  /\ ~gcDue
  /\ bd' = [b \in Bucket |-> IF bd[b] - 1 < MinD THEN MinD ELSE bd[b] - 1]
  /\ phase' = (phase + 1) % Res
  /\ gcDue' = (phase' = 0)
  /\ UNCHANGED <<bmap, heap, bidx, bkey, tpc, tb, reply, fixPanic>>

CNext ==
  \/ \E t \in Thread, k \in Key : Lookup(t, k)
  \/ \E t \in Thread : Charge(t) \/ FixHeap(t)
  \/ Gc
  \/ Tick

(* Request goroutines that entered Add finish it; the GC goroutine runs   *)
(* each time its ticker fires; time passes.  Nothing obliges a client to  *)
(* send requests.                                                          *)
CFairness ==
  /\ \A t \in Thread : WF_cvars(Charge(t)) /\ WF_cvars(FixHeap(t))
  /\ WF_cvars(Gc) /\ WF_cvars(Tick)

CSpec == CInit /\ [][CNext]_cvars /\ CFairness

-----------------------------------------------------------------------------
(* PROPERTIES *)

(* When no Add is between its lookup and its heap.Fix, c.heap is a heap:  *)
(* no bucket drains before its parent, so the GC loop, which stops at the *)
(* first bucket whose p is after now, misses no empty bucket.             *)
HeapOrdered ==
  (\A t \in Thread : tpc[t] = "idle") =>
    \A i \in 1..(Len(heap) - 1) : ~Less(bd, heap, i, Parent(i))

(* An empty bucket in the collector is removed, or charged again, in the  *)
(* end: removeEmptyBuckets runs every second and reaches it.              *)
EmptyBucketCollected ==
  \A b \in Bucket :
    (Contains(heap, b) /\ bd[b] <= 0) ~> (~Contains(heap, b) \/ bd[b] > 0)

(* The admission the collector gives to concurrent requests is the one of *)
(* the leaky bucket of spec 3/4.4 per key: a granted request adds a unit  *)
(* to the bucket of its key, and only a bucket with room grants.          *)
AbsLevel == [k \in Key |-> IF bmap[k] = NoBucket \/ bd[bmap[k]] <= 0 THEN 0 ELSE bd[bmap[k]]]

RL == INSTANCE RateLimit WITH level <- AbsLevel, reply <- reply

AdmissionRefinesBucket == RL!RLSpec

(* Spec 8.2 over every offset a bucket can have: unit admissions at one   *)
(* instant grant exactly the room left (capacity units from an empty      *)
(* bucket, then 0), and a bucket that refuses grants again one drip       *)
(* (1s/rate) later.                                                        *)
RECURSIVE Granted(_, _)
Granted(d, n) ==
  IF n = 0 THEN 0
  ELSE LET r == BucketAdd(d, 1) IN r.allowed + Granted(r.d, n - 1)

BucketConservation ==
  \A d \in Offset \cup {bd[b] : b \in Bucket} :
    /\ Granted(d, Capacity + 1) = Capacity - Count(d)
    /\ BucketAdd(d, 1).allowed = 0 => BucketAdd(d - Res, 1).allowed = 1

(* No request goroutine panics in heap.Fix: the index it reads from its   *)
(* bucket after releasing c.lock is still inside the heap.                *)
NoFixPanic == ~fixPanic
=============================================================================
