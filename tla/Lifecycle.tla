----------------------------- MODULE Lifecycle -----------------------------
(***************************************************************************)
(* Start, Stop and Restart of a Server (server/https.go) with the         *)
(* goroutines they start and the requests in flight.                       *)
(*                                                                         *)
(* Every Start makes a new http.Server (a generation g, s.httpServer) and *)
(* a goroutine that sets s.started and calls ListenAndServe; when that     *)
(* returns ErrServerClosed the goroutine clears s.started, any other error *)
(* exits the process.  Stop calls Shutdown(context.Background()) on the   *)
(* current generation, which closes its listener and waits for its        *)
(* connections to go idle, then clears s.started and waits for a goroutine *)
(* that selects between the 10 s timer and s.active.Wait().  Restart is    *)
(* Stop when s.started, then Start.  A request is counted in s.active for  *)
(* the time Server.handler runs; a handler may block for ever.             *)
(***************************************************************************)
EXTENDS Naturals, FiniteSets

CONSTANTS
  Req,          \* clients, each with at most one request at a time
  MaxStarts,    \* Start calls explored (Start and Restart)
  MaxStops,     \* Stop calls explored (Stop and Restart)
  StopTimeout,  \* the 10 s of time.After, in ticks
  HangFaults    \* TRUE: a handler may never return

ASSUME MaxStarts \in Nat \ {0} /\ StopTimeout \in Nat \ {0} /\ HangFaults \in BOOLEAN

Gen == 1..MaxStarts

VARIABLES
  started,   \* s.started
  cur,       \* the generation of s.httpServer, 0 while nil
  sg,        \* sg[g]: the listener goroutine of generation g
  shut,      \* shut[g]: Shutdown was called on generation g
  port,      \* the generation listening on the address, 0 if none
  exited,    \* the process exited (os.Exit(1) in the listener goroutine)
  rq,        \* rq[r]: "idle", "active" or "hung" (never returns)
  rg,        \* rg[r]: the generation that accepted r
  ctl,       \* the caller of Stop/Restart: "idle", "shutdown", "wait"
  after,     \* what the caller does after Stop: "return" or "start" (Restart)
  starts, stops,
  clock      \* ticks since the waiter goroutine started its time.After

lvars == <<started, cur, sg, shut, port, exited, rq, rg, ctl, after, starts,
           stops, clock>>

GState == {"none", "spawned", "listening", "closed", "done"}

LTypeOK ==
  /\ started \in BOOLEAN
  /\ cur \in 0..MaxStarts
  /\ sg \in [Gen -> GState] /\ shut \in [Gen -> BOOLEAN]
  /\ port \in 0..MaxStarts
  /\ exited \in BOOLEAN
  /\ rq \in [Req -> {"idle", "active", "hung"}]
  /\ rg \in [Req -> 0..MaxStarts]
  /\ ctl \in {"idle", "shutdown", "wait"}
  /\ after \in {"return", "start"}
  /\ starts \in 0..MaxStarts /\ stops \in 0..MaxStops
  /\ clock \in 0..StopTimeout

LInit ==
  /\ started = FALSE /\ cur = 0
  /\ sg = [g \in Gen |-> "none"] /\ shut = [g \in Gen |-> FALSE]
  /\ port = 0 /\ exited = FALSE
  /\ rq = [r \in Req |-> "idle"] /\ rg = [r \in Req |-> 0]
  /\ ctl = "idle" /\ after = "return"
  /\ starts = 0 /\ stops = 0 /\ clock = 0

(* s.active: the requests Server.handler has not returned from.           *)
Active == {r \in Req : rq[r] \in {"active", "hung"}}

(* Start: a new http.Server and its listener goroutine.                  *)
StartServer ==
  /\ starts < MaxStarts
  /\ cur' = starts + 1
  /\ starts' = starts + 1
  /\ sg' = [sg EXCEPT ![starts + 1] = "spawned"]
  /\ ctl' = "idle" /\ after' = "return"

(* The caller calls Start, after New or after a Stop.                     *)
CallStart ==
  /\ ~exited /\ ctl = "idle"
  /\ cur # 0 => shut[cur]
  /\ StartServer
  /\ UNCHANGED <<started, shut, port, exited, rq, rg, stops, clock>>

(* The listener goroutine runs: s.started = true, then ListenAndServe.    *)
(* A server already shut down returns ErrServerClosed at once; an address *)
(* held by another listener is an error and os.Exit(1).                   *)
Serve(g) ==
  /\ ~exited
  /\ sg[g] = "spawned"
  /\ started' = TRUE
  /\ CASE shut[g] -> sg' = [sg EXCEPT ![g] = "closed"] /\ UNCHANGED <<port, exited>>
       [] port # 0 -> exited' = TRUE /\ UNCHANGED <<sg, port>>
       [] OTHER -> port' = g /\ sg' = [sg EXCEPT ![g] = "listening"] /\ UNCHANGED exited
  /\ UNCHANGED <<cur, shut, rq, rg, ctl, after, starts, stops, clock>>

(* ListenAndServe returned ErrServerClosed: s.started = false.            *)
ServeReturn(g) ==
  /\ ~exited
  /\ sg[g] = "closed"
  /\ started' = FALSE
  /\ sg' = [sg EXCEPT ![g] = "done"]
  /\ UNCHANGED <<cur, shut, port, exited, rq, rg, ctl, after, starts, stops, clock>>

(* A listening server accepts a request: Server.handler, s.active.Add(1). *)
Accept(r) ==
  /\ ~exited
  /\ rq[r] = "idle"
  /\ port # 0
  /\ \E hang \in IF HangFaults THEN BOOLEAN ELSE {FALSE} :
       rq' = [rq EXCEPT ![r] = IF hang THEN "hung" ELSE "active"]
  /\ rg' = [rg EXCEPT ![r] = port]
  /\ UNCHANGED <<started, cur, sg, shut, port, exited, ctl, after, starts, stops, clock>>

(* The handler returns: s.active.Done().  The client may connect again.  *)
Respond(r) ==
  /\ ~exited
  /\ rq[r] = "active"
  /\ rq' = [rq EXCEPT ![r] = "idle"]
  /\ UNCHANGED <<started, cur, sg, shut, port, exited, rg, ctl, after, starts, stops, clock>>

(* Stop, up to Shutdown closing the listener of s.httpServer; Shutdown    *)
(* then waits for its connections.  (Stop before Start dereferences a nil *)
(* s.httpServer; the model does not call it then.)                         *)
BeginStop(next) ==
  /\ stops < MaxStops
  /\ stops' = stops + 1
  /\ shut' = [shut EXCEPT ![cur] = TRUE]
  /\ IF sg[cur] = "listening"
       THEN /\ port' = 0
            /\ sg' = [sg EXCEPT ![cur] = "closed"]
       ELSE UNCHANGED <<port, sg>>
  /\ ctl' = "shutdown" /\ after' = next

CallStop ==
  /\ ~exited /\ ctl = "idle" /\ cur # 0
  /\ BeginStop("return")
  /\ UNCHANGED <<started, cur, exited, rq, rg, starts, clock>>

(* Restart: Stop if s.started, then Start (explored while a Start is left *)
(* in the bound).                                                          *)
CallRestart ==
  /\ ~exited /\ ctl = "idle" /\ cur # 0
  /\ starts < MaxStarts
  /\ IF started
       THEN BeginStop("start") /\ UNCHANGED <<cur, starts>>
       ELSE StartServer /\ UNCHANGED <<shut, port, stops>>
  /\ UNCHANGED <<started, exited, rq, rg, clock>>

(* Shutdown returns once no connection of the server is active (there is *)
(* no deadline: the context is Background); Stop then starts the waiter  *)
(* goroutine and its time.After, and sets s.started = false.             *)
ShutdownDone ==
  /\ ~exited
  /\ ctl = "shutdown"
  /\ \A r \in Active : rg[r] # cur
  /\ ctl' = "wait"
  /\ clock' = 0
  /\ started' = FALSE
  /\ UNCHANGED <<cur, sg, shut, port, exited, rq, rg, after, starts, stops>>

(* <-stopped: the waiter saw s.active.Wait() return, or the timer fire.  *)
(* Restart then calls Start.                                              *)
StopReturn ==
  /\ ~exited
  /\ ctl = "wait"
  /\ Active = {} \/ clock >= StopTimeout
  /\ IF after = "start"
       THEN StartServer
       ELSE /\ ctl' = "idle" /\ UNCHANGED <<cur, sg, starts, after>>
  /\ UNCHANGED <<started, shut, port, exited, rq, rg, stops, clock>>

(* Time passes while the waiter goroutine waits; its timer fires at      *)
(* StopTimeout, so time does not pass it.                                 *)
LTick ==
  /\ ~exited
  /\ ctl = "wait"
  /\ clock < StopTimeout
  /\ clock' = clock + 1
  /\ UNCHANGED <<started, cur, sg, shut, port, exited, rq, rg, ctl, after, starts, stops>>

LNext ==
  \/ CallStart \/ CallStop \/ CallRestart
  \/ \E g \in Gen : Serve(g) \/ ServeReturn(g)
  \/ \E r \in Req : Accept(r) \/ Respond(r)
  \/ ShutdownDone \/ StopReturn \/ LTick

(* The goroutines and the handlers that return keep running, Shutdown     *)
(* polls its connections, and the timer fires.                            *)
LFairness ==
  /\ \A g \in Gen : WF_lvars(Serve(g)) /\ WF_lvars(ServeReturn(g))
  /\ \A r \in Req : WF_lvars(Respond(r))
  /\ WF_lvars(ShutdownDone) /\ WF_lvars(StopReturn) /\ WF_lvars(LTick)

LSpec == LInit /\ [][LNext]_lvars /\ LFairness

-----------------------------------------------------------------------------
(* PROPERTIES *)

(* Spec 8.8: "Stop() completes within 10 s even if a handler never        *)
(* returns".  Stop (and the Stop inside Restart) returns, unless os.Exit   *)
(* of a second listener ends the process first.  The 10 s bound is the    *)
(* waiter goroutine's time.After; Shutdown(context.Background()) runs      *)
(* before it and waits for every connection of the server to go idle.      *)
StopReturns == (ctl # "idle") ~> (ctl = "idle" \/ exited)
=============================================================================
