----------------------------- MODULE Pipeline ------------------------------
(***************************************************************************)
(* The request path of package server: Server.handler (server/https.go)   *)
(* with its early returns, the middleware chain composed from the global  *)
(* middlewares slice (server/middleware.go), and the shared state the     *)
(* chain reads and writes: the banned-IP map of IsCrawler / SetBannedIP    *)
(* and the brute-force bucket of each client address.                     *)
(*                                                                         *)
(* Each request is its own goroutine (net/http serves every connection on *)
(* one) and walks the chain inward.  A step of it ends where it touches   *)
(* state other goroutines share (bannedIPs, the buckets) or makes a       *)
(* choice; the middlewares in between only set headers or defer, and the  *)
(* unwinding after a rejection or after the handler touches nothing        *)
(* shared, so each is taken in the step before it.  The chain of a        *)
(* request is the slice as it was when handler ranged over it, listed     *)
(* outermost first.                                                        *)
(***************************************************************************)
EXTENDS Integers, Sequences, SequencesExt, IPCheck, Routes

CONSTANTS
  Req,           \* requests, each served once by its own goroutine
  IP,            \* client addresses (ctx.RemoteAddr())
  Whitelist,     \* Security.Whitelist split at ",", <<>> when empty
  Blacklist,     \* Security.Blacklist split at ",", <<>> when empty
  URLScanner,    \* Security.URLScanner
  TraceRequired, \* EnableTracing and TraceRequired
  BruteForce,    \* Security.BruteForce.Enabled
  Capacity,      \* BruteForce.Capacity, in requests
  BanDuration,   \* Security.BanDuration, in ticks
  MaxTime,       \* ticks of the clock explored
  MaxStarts,     \* calls of Start (Restart calls it again)
  NoBan,         \* no entry in bannedIPs
  Modules,       \* the modules the program passes to RegisterRoute, in order
  Requests       \* [meth, parts, acrm] of the requests for routes

ASSUME IP \subseteq Addr /\ Capacity \in Nat \ {0} /\ BanDuration \in Nat \ {0}

VARIABLES
  middlewares,  \* the package variable middlewares
  starts,       \* Start calls so far
  now,          \* time.Now(), in ticks
  banned,       \* bannedIPs: the time an address was banned
  level,        \* requests in the bucket of each address, drained one per tick
  rpc,          \* rpc[r]: "idle", "down" (at the middleware pos), "base", "done"
  rip,          \* rip[r]: ctx.RemoteAddr()
  chain,        \* chain[r]: the composed chain, outermost first
  pos,          \* pos[r]: the middleware r is at
  logs,         \* logs[r]: the statuses of the access-log lines of r
  chg,          \* chg[r]: bucket charges made for r
  final,        \* final[r]: the status the client got, 0 while running
  rseen,        \* rseen[r]: when preSecurity ran for r (-1: not yet)
  rarr,         \* rarr[r]: when r arrived
  rkind,        \* rkind[r]: the kind of path requested ("chain" until read)
  rban,         \* rban[r]: bannedIPs[rip[r]] when r arrived (history)
  routes,       \* the package variable routes: service key -> handlers
  regd,         \* RegisterRoute calls so far
  rq,           \* rq[r]: the request r makes for a route
  rh,           \* rh[r]: what matchRoute found for r
  rout          \* rout[r]: how the route handler ended for r (history)

pvars == <<middlewares, starts, now, banned, level, rpc, rip, chain, pos,
           logs, chg, final, rseen, rarr, rkind, rban, routes, regd, rq, rh, rout>>

(* The variables of the route registry and of the requests for routes.   *)
rvars == <<routes, regd, rq, rh, rout>>

(* Paths by how Server.handler treats them: the fixed paths, a file of   *)
(* the static set, and a path for matchRoute (the request rq[r]).          *)
Kind == {"honeypot", "health", "versions", "static", "route"}

Mw == {"accessLog", "recover", "monitoring", "trace", "preSecurity", "cache",
       "postSecurity", "compress", "bruteForce"}

(* Middlewares whose pre-handler part only sets headers, wraps the writer *)
(* or defers a recover, and whose post-handler part returns next's error: *)
(* recover has nothing to catch (handler.Handler recovers its own panics), *)
(* compress only closes its writer, accessLog writes its line.             *)
PassThrough == {"accessLog", "recover", "monitoring", "cache", "postSecurity", "compress"}

(* The UseMiddleware calls of Start, in order.                             *)
StartList ==
  <<"accessLog", "recover", "monitoring", "trace", "preSecurity", "cache",
    "postSecurity", "compress">>
  \o (IF BruteForce THEN <<"bruteForce">> ELSE <<>>)

Status == {0, 200, 204, 400, 403, 404, 429, 500}

PTypeOK ==
  /\ middlewares \in Seq(Mw)
  /\ starts \in 0..MaxStarts
  /\ now \in 0..MaxTime
  /\ banned \in [IP -> 0..MaxTime \cup {NoBan}]
  /\ level \in [IP -> 0..Capacity]
  /\ rpc \in [Req -> {"idle", "down", "base", "done"}]
  /\ rip \in [Req -> IP]
  /\ chain \in [Req -> Seq(Mw)]
  /\ \A r \in Req : pos[r] \in 0..Len(chain[r]) + 1
  /\ \A r \in Req : rpc[r] = "down" => chain[r][pos[r]] \in Mw \ PassThrough
  /\ logs \in [Req -> Seq(Status)]
  /\ chg \in [Req -> 0..MaxStarts]
  /\ final \in [Req -> Status]
  /\ rseen \in [Req -> -1..MaxTime] /\ rarr \in [Req -> 0..MaxTime]
  /\ rkind \in [Req -> Kind \cup {"chain"}]
  /\ rban \in [Req -> 0..MaxTime \cup {NoBan}]
  /\ regd \in 0..Len(Modules)
  /\ rq \in [Req -> Requests]
  /\ rout \in [Req -> {"none", "bad", "count", "type", "call"}]

(* Mutant: the ban ends one tick early.                                   *)
BannedShort(ip, t) == banned[ip] # NoBan /\ t + 1 < banned[ip] + BanDuration

(* IsCrawler's first test: the address was banned less than banDuration   *)
(* ago (banTime.Add(banDuration).After(time.Now())).                       *)
Banned(ip, t) == banned[ip] # NoBan /\ t < banned[ip] + BanDuration

PInit ==
  /\ middlewares = <<>> /\ starts = 0 /\ now = 0
  /\ banned = [i \in IP |-> NoBan] /\ level = [i \in IP |-> 0]
  /\ rpc = [r \in Req |-> "idle"]
  /\ rip = [r \in Req |-> CHOOSE i \in IP : TRUE]
  /\ chain = [r \in Req |-> <<>>] /\ pos = [r \in Req |-> 0]
  /\ logs = [r \in Req |-> <<>>] /\ chg = [r \in Req |-> 0]
  /\ final = [r \in Req |-> 0] /\ rseen = [r \in Req |-> -1]
  /\ rarr = [r \in Req |-> 0] /\ rkind = [r \in Req |-> "route"]
  /\ rban = [r \in Req |-> NoBan]
  /\ routes = <<>> /\ regd = 0
  /\ rq = [r \in Req |-> CHOOSE q \in Requests : TRUE]
  /\ rh = [r \in Req |-> [code |-> 404]]
  /\ rout = [r \in Req |-> "none"]

(* Start: the UseMiddleware calls, and NewCollector, which replaces the   *)
(* collector and so forgets every bucket.  Restart calls Start again.     *)
(* (The listener and the TLS set-up are in Lifecycle.)                     *)
Start ==
  /\ starts < MaxStarts
  /\ regd = Len(Modules)
  /\ middlewares' = middlewares \o StartList
  /\ starts' = starts + 1
  /\ level' = IF BruteForce THEN [i \in IP |-> 0] ELSE level
  /\ UNCHANGED <<now, banned, rpc, rip, chain, pos, logs, chg, final, rseen,
                 rarr, rkind, rban>>
  /\ UNCHANGED rvars

(* The program registers its next module: RegisterRoute.  The routes map  *)
(* has no lock, so the program registers every module before Start, as    *)
(* the package's usage shows (server.RegisterRoute(myService), then        *)
(* Start); Start waits for that.                                           *)
Register ==
  /\ starts = 0
  /\ regd < Len(Modules)
  /\ routes' = RegisterRoute(routes, regd + 1, Modules[regd + 1])
  /\ regd' = regd + 1
  /\ UNCHANGED <<middlewares, starts, now, banned, level, rpc, rip, chain, pos,
                 logs, chg, final, rseen, rarr, rkind, rban, rq, rh, rout>>

(* UnregisterRoute of a key of the map (UnregisterRoutes calls it for     *)
(* each key in turn), made by the program between two registrations.      *)
Unregister ==
  /\ regd < Len(Modules)
  /\ \E k \in DOMAIN routes : routes' = UnregisterRoute(routes, k)
  /\ UNCHANGED <<middlewares, starts, now, banned, level, rpc, rip, chain, pos,
                 logs, chg, final, rseen, rarr, rkind, rban, regd, rq, rh, rout>>

(* The first middleware from p inward that is not a pass-through one, or *)
(* Len(c) + 1 for the handler.                                             *)
RECURSIVE Skip(_, _)
Skip(c, p) == IF p > Len(c) \/ c[p] \notin PassThrough THEN p ELSE Skip(c, p + 1)

(* Move r, running chain c, to the middleware (or handler) after p.       *)
GoInward(r, c, p) ==
  LET q == Skip(c, p + 1)
  IN /\ pos' = [pos EXCEPT ![r] = q]
     /\ rpc' = [rpc EXCEPT ![r] = IF q > Len(c) THEN "base" ELSE "down"]

(* The access-log lines of unwinding from the middleware at p outward:    *)
(* every accessLogMiddleware there logs ctx.Response.Status, here code.   *)
LogLines(c, p, code) ==
  LET n == Len(SelectSeq(SubSeq(c, 1, p), LAMBDA m : m = "accessLog"))
  IN [i \in 1..n |-> code]

(* The chain returns from p outward to Server.handler with status code    *)
(* written (0: none) and error err.  An error is answered with             *)
(* http.Error(w, ..., 500) when nothing was committed (straight to the    *)
(* ResponseWriter, after every middleware returned), else written as body; *)
(* a response nobody wrote is a 200 from net/http.                         *)
Return(r, p, code, err) ==
  /\ logs' = [logs EXCEPT ![r] = @ \o LogLines(chain[r], p, code)]
  /\ final' = [final EXCEPT ![r] = IF code # 0 THEN code ELSE IF err THEN 500 ELSE 200]
  /\ rpc' = [rpc EXCEPT ![r] = "done"]
  /\ pos' = [pos EXCEPT ![r] = 0]

(* A middleware writes a status (Response.WriteHeader, the first write    *)
(* since nothing was written before) and returns an error without calling *)
(* next.                                                                   *)
Reject(r, code) == Return(r, pos[r] - 1, code, TRUE)

(* The status Server.handler answers a path with before the chain: the    *)
(* honeypot bans and answers 204, /healthcheck and /versions 200; for a    *)
(* route, what matchRoute wrote: 404, or the preflight reply.              *)
EarlyStatus(k, m) ==
  CASE k = "honeypot" -> 204
    [] k \in {"health", "versions"} -> 200
    [] OTHER -> m.code

(* matchRoute for request q against the routes map.                       *)
Match(q) == MatchRoute(routes, q.meth, q.parts, q.acrm)

(* A request arrives: Server.handler.  A static file, or a route          *)
(* matchRoute finds a handler for, gets the chain composed by "for _, m  *)
(* := range middlewares { h = m(h) }": each middleware wraps the ones     *)
(* before it, so the last registered is the outermost.  No middleware     *)
(* reads which path a served request is for, and the routes map is fixed *)
(* once Start ran, so whether it is a static file or which route with a   *)
(* handler it is gets chosen where the handler first reads it (Base).      *)
Arrive(r) ==
  /\ rpc[r] = "idle"
  /\ starts > 0
  /\ \E k \in Kind :
     \E m \in IF k = "route" THEN {Match(q) : q \in Requests} ELSE {[code |-> 0]} :
     \E ip \in IP :
       /\ rip' = [rip EXCEPT ![r] = ip]
       /\ rban' = [rban EXCEPT ![r] = banned[ip]]
       /\ banned' = IF k = "honeypot" THEN [banned EXCEPT ![ip] = now] ELSE banned
       /\ IF k = "static" \/ (k = "route" /\ m.code = 0)
            THEN /\ rkind' = [rkind EXCEPT ![r] = "chain"]
                 /\ chain' = [chain EXCEPT ![r] = Reverse(middlewares)]
                 /\ GoInward(r, Reverse(middlewares), 0)
                 /\ UNCHANGED final
            ELSE /\ rkind' = [rkind EXCEPT ![r] = k]
                 /\ UNCHANGED <<chain, pos>>
                 /\ rpc' = [rpc EXCEPT ![r] = "done"]
                 /\ final' = [final EXCEPT ![r] = EarlyStatus(k, m)]
  /\ rarr' = [rarr EXCEPT ![r] = now]
  /\ UNCHANGED <<middlewares, starts, now, level, logs, chg, rseen, rvars>>

Current(r) == chain[r][pos[r]]

(* traceMiddleware: with tracing required, a request without the trace    *)
(* header is answered 400.                                                 *)
TraceCheck(r) ==
  /\ rpc[r] = "down"
  /\ Current(r) = "trace"
  /\ \E hasHeader \in BOOLEAN :
       IF TraceRequired /\ ~hasHeader
         THEN Reject(r, 400)
         ELSE GoInward(r, chain[r], pos[r]) /\ UNCHANGED <<logs, final>>
  /\ UNCHANGED <<middlewares, starts, now, banned, level, rip, chain, chg, rseen,
                 rarr, rkind, rban>>
  /\ UNCHANGED rvars

(* The whitelist and blacklist test of preSecurityMiddleware: both        *)
(* failures answer 403 the same way.                                         *)
IPAllowed(ip) ==
  /\ ~(Whitelist # <<>> /\ ~CheckIP(ip, Whitelist))
  /\ ~(Blacklist # <<>> /\ CheckIP(ip, Blacklist))

(* The verdict for every client address, computed once.                  *)
Allowed == [u \in IP |-> IPAllowed(u)]

(* preSecurityMiddleware: an address IPAllowed refuses is answered 403; with the *)
(* URL scanner on, IsCrawler answers for a banned address, and bans an     *)
(* address whose user agent or path matches the lists (probe).  ctx.Session *)
(* is nil on this path (no middleware restores it), so the CSRF check is   *)
(* skipped.                                                                *)
PreSecurity(r) ==
  /\ rpc[r] = "down"
  /\ Current(r) = "preSecurity"
  /\ rseen' = [rseen EXCEPT ![r] = now]
  /\ \E probe \in BOOLEAN :
       CASE ~Allowed[rip[r]] ->
              Reject(r, 403) /\ UNCHANGED banned
         [] URLScanner /\ Banned(rip[r], now) ->
              Reject(r, 403) /\ UNCHANGED banned
         [] URLScanner /\ probe ->
              /\ banned' = [banned EXCEPT ![rip[r]] = now]
              /\ Reject(r, 403)
         [] OTHER ->
              GoInward(r, chain[r], pos[r]) /\ UNCHANGED <<banned, logs, final>>
  /\ UNCHANGED <<middlewares, starts, now, level, rip, chain, chg, rarr, rkind, rban>>
  /\ UNCHANGED rvars

(* Mutant: the request is charged and admitted whatever the bucket holds. *)
BruteForceMwNoCap(r) ==
  /\ rpc[r] = "down"
  /\ Current(r) = "bruteForce"
  /\ chg' = [chg EXCEPT ![r] = @ + 1]
  /\ level' = [level EXCEPT ![rip[r]] = @ + 1]
  /\ GoInward(r, chain[r], pos[r])
  /\ UNCHANGED <<logs, final>>
  /\ UNCHANGED <<middlewares, starts, now, banned, rip, chain, rseen, rarr, rkind, rban>>
  /\ UNCHANGED rvars

(* bruteForceMiddleware: collector.Add(ctx.RemoteAddr(), 1) (ctx.Session *)
(* is nil); no token means 429.                                            *)
BruteForceMw(r) ==
  /\ rpc[r] = "down"
  /\ Current(r) = "bruteForce"
  /\ chg' = [chg EXCEPT ![r] = @ + 1]
  /\ IF level[rip[r]] < Capacity
       THEN /\ level' = [level EXCEPT ![rip[r]] = @ + 1]
            /\ GoInward(r, chain[r], pos[r])
            /\ UNCHANGED <<logs, final>>
       ELSE Reject(r, 429) /\ UNCHANGED level
  /\ UNCHANGED <<middlewares, starts, now, banned, rip, chain, rseen, rarr, rkind, rban>>
  /\ UNCHANGED rvars

(* The handler the chain wraps.  staticFileHandler copies the file, or    *)
(* answers 404 when nothing was written.  A route's handler.Handler binds  *)
(* the URL segments (Bind) and calls reflection.Method.Call: a bad segment *)
(* is answered by BadRequest, a wrong argument count by Call's 400, a      *)
(* wrong argument type by the 500 of Call's recover; a method that runs    *)
(* writes the status it returns, here 200 (one that panics inside is       *)
(* answered by the same recover as a wrong type, 500).                     *)
(* Call never lets a panic reach Handler's own recover, and the error it   *)
(* returns is Write's, so the chain unwinds without an error.              *)
Base(r) ==
  /\ rpc[r] = "base"
  /\ \/ /\ rkind' = [rkind EXCEPT ![r] = "static"]
        /\ \E code \in {200, 404} : Return(r, Len(chain[r]), code, FALSE)
        /\ UNCHANGED <<rq, rh, rout>>
     \/ \E q \in {q \in Requests : Match(q).code = 0} :
              LET b == Bind(Match(q).h, q.parts)
                  codes == CASE b \in {"bad", "count"} -> {400}
                             [] b = "type" -> {500}
                             [] b = "call" -> {200}
              IN /\ rkind' = [rkind EXCEPT ![r] = "route"]
                 /\ rq' = [rq EXCEPT ![r] = q]
                 /\ rh' = [rh EXCEPT ![r] = Match(q)]
                 /\ rout' = [rout EXCEPT ![r] = b]
                 /\ \E code \in codes : Return(r, Len(chain[r]), code, FALSE)
  /\ UNCHANGED <<middlewares, starts, now, banned, level, rip, chain, chg, rseen,
                 rarr, rban, routes, regd>>

(* A tick of time; each bucket leaks one request per tick.                *)
PTick ==
  /\ now < MaxTime
  /\ now' = now + 1
  /\ level' = [i \in IP |-> IF level[i] = 0 THEN 0 ELSE level[i] - 1]
  /\ UNCHANGED <<middlewares, starts, banned, rpc, rip, chain, pos, logs, chg,
                 final, rseen, rarr, rkind, rban>>
  /\ UNCHANGED rvars

ChainStep(r) == TraceCheck(r) \/ PreSecurity(r) \/ BruteForceMw(r) \/ Base(r)

PNext ==
  \/ Start
  \/ Register
  \/ Unregister
  \/ \E r \in Req : Arrive(r) \/ ChainStep(r)
  \/ PTick

(* Every request goroutine runs until the chain returns.                   *)
PSpec == PInit /\ [][PNext]_pvars /\ \A r \in Req : WF_pvars(ChainStep(r))

-----------------------------------------------------------------------------
(* PROPERTIES *)

Done(r) == rpc[r] = "done"

(* Spec 8.7: after a ban, requests of the address are rejected for        *)
(* banDuration.  For the requests the chain serves: one that arrived when *)
(* its address had a ban, and whose IsCrawler check ran less than         *)
(* banDuration after it, is answered 403 by preSecurityMiddleware, however *)
(* other requests re-banned the address meanwhile.                         *)
BanRejectsRoutes ==
  \A r \in Req :
    (Done(r) /\ URLScanner /\ rseen[r] >= 0 /\ rban[r] # NoBan
       /\ rseen[r] < rban[r] + BanDuration)
      => final[r] = 403

(* Spec 4.9 and 5: access logging is the outermost middleware and emits  *)
(* one line for every request the chain handles, after the status is      *)
(* final.  The range loop makes the first registered (accessLog) the      *)
(* innermost: a request rejected by an outer middleware (brute-force,     *)
(* pre-security) is never logged, and a handler error turned into a 500   *)
(* by Server.handler is logged with the status of the moment.             *)
AccessLogFaithful ==
  \A r \in Req : (Done(r) /\ rkind[r] = "route") => logs[r] = <<final[r]>>

(* Spec 4.8: dispatch parses the typed URL segments with strict           *)
(* validation, a bad conversion is answered 400, and otherwise the method *)
(* is called.  For a handler registered with the Context first and string *)
(* or bool parameters, a request that reaches handler.Handler with as many *)
(* segments as the endpoint has calls the method exactly when every bool  *)
(* segment is a boolString key, and one with fewer never calls it.  It    *)
(* ties RegisterRoute's replacement of a table, analyze and do, the name   *)
(* and case fallbacks of matchRoute and Handler's binding loop.            *)
ScalarHandler(h) ==
  /\ h.fn.in = <<"ctx">> \o h.args
  /\ \A i \in DOMAIN h.args : h.args[i] \in {"string", "bool"}

ArgsValid(h, parts) ==
  \A i \in DOMAIN h.args :
    h.args[i] = "bool" => parts[Len(h.path) + i] \in TrueKeys \cup FalseKeys

EndpointServes ==
  \A r \in Req :
    LET h == rh[r].h
        n == Len(h.path) + Len(h.args)
        parts == rq[r].parts
    IN (Done(r) /\ rout[r] # "none" /\ ScalarHandler(h)) =>
         /\ Len(parts) = n => (rout[r] = "call" <=> ArgsValid(h, parts))
         /\ Len(parts) < n => rout[r] # "call"

(* Spec 4.9, bruteForce "charges 1 token" per request.  Restart calls     *)
(* Start, which appends the whole list to middlewares again.               *)
ChargeOncePerRequest ==
  \A r \in Req : Done(r) => chg[r] <= 1

=============================================================================
