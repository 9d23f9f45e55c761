------------------------------- MODULE Logger -------------------------------
(***************************************************************************)
(* The structured logger of package log (monitoring/log/writers.go).      *)
(*                                                                         *)
(* Goroutines log through Error, Warn, Info, Debug, Panic (and their f    *)
(* forms): an entry is taken from a sync.Pool, reset with the level and   *)
(* sent on the channel queue of capacity 1024, blocking while it is full. *)
(* One consumer goroutine, started by init, ranges over the queue and     *)
(* printLog writes each entry to logWriter and puts it back in the pool;  *)
(* a Write error panics and ends the process.  Fatal bypasses the queue:  *)
(* its caller runs printLog itself and then os.Exit(1).  Setup, called    *)
(* once by the application, sets the level and the writer; until then    *)
(* logLevel is 0 and nothing passes.  The file writer rotates before a    *)
(* write once its size reached maxSize.                                   *)
(***************************************************************************)
EXTENDS Naturals, Sequences, FiniteSets

CONSTANTS
  Producer,     \* goroutines that log
  Entry,        \* *Entry objects sync.Pool may hand out
  NoEntry,
  CallLevel,    \* levels the goroutines log at
  SetupLevel,   \* levels Setup may set (0: "off" or an unknown name)
  QCap,         \* capacity of queue (1024)
  MaxCalls,     \* log calls per goroutine explored
  MaxSize,      \* fileWriter.maxSize, in entries
  WriteFaults   \* TRUE: a Write to stdout or to the file may fail

(* Level: PanicLevel = iota + 1, ..., DebugLevel.                          *)
PanicLevel == 1
FatalLevel == 2
ErrorLevel == 3
WarnLevel  == 4
InfoLevel  == 5
DebugLevel == 6

ASSUME /\ CallLevel \subseteq PanicLevel..DebugLevel
       /\ SetupLevel \subseteq 0..DebugLevel
       /\ QCap \in Nat \ {0} /\ MaxSize \in Nat \ {0}
       /\ NoEntry \notin Entry /\ WriteFaults \in BOOLEAN

(* A message is the call k of goroutine p.                                 *)
Msg == Producer \X (1..MaxCalls)

VARIABLES
  logLevel,    \* the package variable logLevel
  logWriter,   \* "unset" (nil), "nil" (nilWriter), "stdout", "file"
  setupDone,   \* Setup ran
  fsize,       \* fileWriter.size
  pool,        \* entries put back in the sync.Pool
  alloc,       \* entries the pool's New has created
  emsg,        \* emsg[e]: the message entry e holds
  ppc,         \* ppc[p]: "idle", "send" (on queue <- entry), "fatal", "exit"
  pent,        \* pent[p]: the entry goroutine p holds
  calls,       \* calls[p]: log calls p made
  queue,       \* the channel's buffer
  cpc,         \* the consumer: "idle" or "print"
  cent,        \* the entry the consumer is printing
  lines,       \* lines[m]: times printLog wrote message m (2: twice or more)
  sent,        \* messages sent on queue
  dead         \* "no", "exit" (os.Exit(1)) or "panic"

logVars == <<logLevel, logWriter, setupDone, fsize, pool, alloc, emsg,
             ppc, pent, calls, queue, cpc, cent, lines, sent, dead>>

Writers == {"unset", "nil", "stdout", "file"}

LogTypeOK ==
  /\ logLevel \in 0..DebugLevel
  /\ logWriter \in Writers /\ setupDone \in BOOLEAN
  /\ fsize \in 0..MaxSize
  /\ pool \subseteq alloc /\ alloc \subseteq Entry
  /\ emsg \in [Entry -> Msg \cup {<<>>}]
  /\ ppc \in [Producer -> {"idle", "send", "fatal", "exit"}]
  /\ pent \in [Producer -> Entry \cup {NoEntry}]
  /\ calls \in [Producer -> 0..MaxCalls]
  /\ queue \in Seq(Entry) /\ Len(queue) <= QCap
  /\ cpc \in {"idle", "print"} /\ cent \in Entry \cup {NoEntry}
  /\ lines \in [Msg -> 0..2]
  /\ sent \subseteq Msg
  /\ dead \in {"no", "exit", "panic"}

LogInit ==
  /\ logLevel = 0 /\ logWriter = "unset" /\ setupDone = FALSE
  /\ fsize = 0
  /\ pool = {} /\ alloc = {}
  /\ emsg = [e \in Entry |-> <<>>]
  /\ ppc = [p \in Producer |-> "idle"] /\ pent = [p \in Producer |-> NoEntry]
  /\ calls = [p \in Producer |-> 0]
  /\ queue = <<>> /\ cpc = "idle" /\ cent = NoEntry
  /\ lines = [m \in Msg |-> 0] /\ sent = {} /\ dead = "no"

Alive == dead = "no"

(* Mutant: Level numbered from iota, one above the code's.                *)
SetupShifted ==
  /\ Alive /\ ~setupDone
  /\ \E lv \in SetupLevel, w \in {"nil", "stdout", "file", "invalid"}, sz \in 0..MaxSize :
       /\ logLevel' = lv + 1
       /\ logWriter' = IF w = "invalid" THEN logWriter ELSE w
       /\ fsize' = IF w = "file" THEN sz ELSE fsize
  /\ setupDone' = TRUE
  /\ UNCHANGED <<pool, alloc, emsg, ppc, pent, calls, queue, cpc, cent, lines, sent, dead>>

(* Setup: the level switch sets logLevel (an unknown name leaves it), then *)
(* the writer switch: nilWriter, stdout, or a file writer opened at the    *)
(* size of the existing file; an invalid name or an open error returns    *)
(* with the writer unchanged.  The formatter does not matter here.        *)
Setup ==
  /\ Alive /\ ~setupDone
  /\ \E lv \in SetupLevel, w \in {"nil", "stdout", "file", "invalid"}, sz \in 0..MaxSize :
       /\ logLevel' = lv
       /\ logWriter' = IF w = "invalid" THEN logWriter ELSE w
       /\ fsize' = IF w = "file" THEN sz ELSE fsize
  /\ setupDone' = TRUE
  /\ UNCHANGED <<pool, alloc, emsg, ppc, pent, calls, queue, cpc, cent, lines, sent, dead>>

(* A log call of p at level lv: below logLevel it returns at once;        *)
(* otherwise getEntry takes a pooled entry or a new one and resets it,    *)
(* and the message is formatted into it.  Fatal goes on to printLog, the  *)
(* others to the send.                                                    *)
Call(p, lv) ==
  /\ Alive /\ ppc[p] = "idle" /\ calls[p] < MaxCalls
  /\ calls' = [calls EXCEPT ![p] = @ + 1]
  /\ IF logLevel < lv
       THEN UNCHANGED <<pool, alloc, emsg, ppc, pent>>
       ELSE \E e \in pool \cup (Entry \ alloc) :
              /\ pool' = pool \ {e}
              /\ alloc' = alloc \cup {e}
              /\ emsg' = [emsg EXCEPT ![e] = <<p, calls[p] + 1>>]
              /\ pent' = [pent EXCEPT ![p] = e]
              /\ ppc' = [ppc EXCEPT ![p] = IF lv = FatalLevel THEN "fatal" ELSE "send"]
  /\ UNCHANGED <<logLevel, logWriter, setupDone, fsize, queue, cpc, cent, lines, sent, dead>>

(* queue <- entry: blocks while the channel holds QCap entries.           *)
Send(p) ==
  /\ Alive /\ ppc[p] = "send"
  /\ Len(queue) < QCap
  /\ queue' = Append(queue, pent[p])
  /\ sent' = sent \cup {emsg[pent[p]]}
  /\ pent' = [pent EXCEPT ![p] = NoEntry]
  /\ ppc' = [ppc EXCEPT ![p] = "idle"]
  /\ UNCHANGED <<logLevel, logWriter, setupDone, fsize, pool, alloc, emsg, calls, cpc, cent, lines, dead>>

(* printLog's write of entry e: a nil logWriter becomes the default       *)
(* writer; the file writer first rotates when its size reached maxSize    *)
(* (close, rename, reopen, size 0).  A Write or rotation error panics,     *)
(* which ends the process.  ok says whether the write succeeded.          *)
WriteOutcomes(w) == IF WriteFaults /\ w \in {"stdout", "file"} THEN BOOLEAN ELSE {TRUE}

PrintLog(e, ok) ==
  LET w == IF logWriter = "unset" THEN "stdout" ELSE logWriter
  IN /\ logWriter' = w
     /\ IF ok
          THEN /\ lines' = [lines EXCEPT ![emsg[e]] = IF @ < 2 THEN @ + 1 ELSE 2]
               /\ fsize' = IF w = "file" THEN (IF fsize >= MaxSize THEN 0 ELSE fsize) + 1 ELSE fsize
               /\ UNCHANGED dead
          ELSE /\ dead' = "panic"
               /\ UNCHANGED <<lines, fsize>>

(* Fatal: printLog in the caller's goroutine ...                          *)
FatalPrint(p) ==
  /\ Alive /\ ppc[p] = "fatal"
  /\ \E ok \in WriteOutcomes(IF logWriter = "unset" THEN "stdout" ELSE logWriter) :
       /\ PrintLog(pent[p], ok)
       /\ ppc' = [ppc EXCEPT ![p] = "exit"]
  /\ UNCHANGED <<logLevel, setupDone, pool, alloc, emsg, pent, calls, queue, cpc, cent, sent>>

(* ... then os.Exit(1): entries still in the queue are never written.     *)
FatalExit(p) ==
  /\ Alive /\ ppc[p] = "exit"
  /\ dead' = "exit"
  /\ UNCHANGED <<logLevel, logWriter, setupDone, fsize, pool, alloc, emsg, ppc, pent, calls, queue, cpc, cent, lines, sent>>

(* Mutant: the entry goes back to the pool as soon as it is received.     *)
TakeReleases ==
  /\ Alive /\ cpc = "idle" /\ queue # <<>>
  /\ cent' = Head(queue)
  /\ queue' = Tail(queue)
  /\ cpc' = "print"
  /\ pool' = pool \cup {Head(queue)}
  /\ UNCHANGED <<logLevel, logWriter, setupDone, fsize, alloc, emsg, ppc, pent, calls, lines, sent, dead>>

(* processLogs: for entry := range queue.                                  *)
Take ==
  /\ Alive /\ cpc = "idle" /\ queue # <<>>
  /\ cent' = Head(queue)
  /\ queue' = Tail(queue)
  /\ cpc' = "print"
  /\ UNCHANGED <<logLevel, logWriter, setupDone, fsize, pool, alloc, emsg, ppc, pent, calls, lines, sent, dead>>

(* Mutant: a write error ends the consumer loop instead of panicking.     *)
ConsumeStopsOnError ==
  /\ Alive /\ cpc = "print" /\ cent # NoEntry
  /\ \E ok \in WriteOutcomes(IF logWriter = "unset" THEN "stdout" ELSE logWriter) :
       IF ok THEN /\ PrintLog(cent, TRUE)
                  /\ pool' = pool \cup {cent}
                  /\ cpc' = "idle" /\ cent' = NoEntry
             ELSE /\ cent' = NoEntry
                  /\ UNCHANGED <<logWriter, lines, fsize, pool, cpc, dead>>
  /\ UNCHANGED <<logLevel, setupDone, alloc, emsg, ppc, pent, calls, queue, sent>>

(* processLogs: printLog(entry), whose last step is entries.Put(entry).   *)
Consume ==
  /\ Alive /\ cpc = "print" /\ cent # NoEntry
  /\ \E ok \in WriteOutcomes(IF logWriter = "unset" THEN "stdout" ELSE logWriter) :
       /\ PrintLog(cent, ok)
       /\ pool' = IF ok THEN pool \cup {cent} ELSE pool
  /\ cpc' = "idle" /\ cent' = NoEntry
  /\ UNCHANGED <<logLevel, setupDone, alloc, emsg, ppc, pent, calls, queue, sent>>

LogNext ==
  \/ Setup
  \/ \E p \in Producer : \/ \E lv \in CallLevel : Call(p, lv)
                         \/ Send(p) \/ FatalPrint(p) \/ FatalExit(p)
  \/ Take \/ Consume

(* The consumer goroutine and Fatal's caller keep running.  Senders       *)
(* blocked on the channel are served in order (the channel's wait queue), *)
(* so a send that is enabled again and again happens.  Nothing obliges a  *)
(* goroutine to log.                                                      *)
LogFairness ==
  /\ WF_logVars(Take) /\ WF_logVars(Consume)
  /\ \A p \in Producer : SF_logVars(Send(p)) /\ WF_logVars(FatalPrint(p)) /\ WF_logVars(FatalExit(p))

LogSpec == LogInit /\ [][LogNext]_logVars /\ LogFairness

-----------------------------------------------------------------------------
(* PROPERTIES *)

(* The places an entry can be: in the pool, held by a goroutine that is   *)
(* logging with it, in the channel, or being printed by the consumer.     *)
Places(e) ==
  (IF e \in pool THEN {"pool"} ELSE {})
  \cup {<<"goroutine", p>> : p \in {p \in Producer : ppc[p] # "idle" /\ pent[p] = e}}
  \cup {<<"queue", i>> : i \in {i \in DOMAIN queue : queue[i] = e}}
  \cup (IF cpc = "print" /\ cent = e THEN {"consumer"} ELSE {})

(* Pooled entries are reused: getEntry resets whatever the pool returns.  *)
(* printLog puts an entry back only after its Write, so no entry is ever  *)
(* in two places: the pool never hands out an entry that is still queued  *)
(* or being written (spec 5: pooled entries are not retained after        *)
(* enqueue).  Fatal's entry is never put back.                            *)
EntryOwnership ==
  Alive => \A e \in alloc : Cardinality(Places(e)) = 1

(* Every message sent on the queue is eventually written by the consumer, *)
(* unless the process ends first (os.Exit in Fatal, or a panic on a write *)
(* error).                                                                 *)
SentWritten ==
  \A m \in Msg : (m \in sent) ~> (lines[m] > 0 \/ ~Alive)

(* A log call blocked on the full channel returns: the consumer keeps     *)
(* draining the 1024 entries.                                              *)
LogCallReturns ==
  \A p \in Producer : (ppc[p] = "send") ~> (ppc[p] = "idle" \/ ~Alive)
=============================================================================
