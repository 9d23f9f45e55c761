------------------------------ MODULE Routes -------------------------------
(***************************************************************************)
(* The route registry of package server (src/unnamed/part_015) and the    *)
(* route matching of Server.matchRoute (server/https.go): how a service   *)
(* module's methods become handlers, how the handlers are keyed in the     *)
(* global routes map, how a request path finds one, and how the handler   *)
(* binds the typed URL segments before reflection.Method.Call.             *)
(*                                                                         *)
(* Names and URL segments are sequences of one-character strings, so that *)
(* strings.ToLower, TrimPrefix and the "-" joins act on them as in Go.  A *)
(* module is [id, version, service, methods]; a method is [name, in, outs] *)
(* where in lists the types of its parameters after the receiver by       *)
(* reflect Name(), "ctx" standing for *server.Context, and outs tells     *)
(* whether its results end with (int, error).  The order of methods is the *)
(* order m.Methods() yields them.                                          *)
(***************************************************************************)
EXTENDS Integers, Sequences, SequencesExt

UpperCh == <<"A","B","C","D","E","F","G","H","I","J","K","L","M","N","O","P",
             "Q","R","S","T","U","V","W","X","Y","Z">>
LowerCh == <<"a","b","c","d","e","f","g","h","i","j","k","l","m","n","o","p",
             "q","r","s","t","u","v","w","x","y","z">>

(* The lower-case letter of each upper-case one.                          *)
LowerOf == [c \in Range(UpperCh) |-> LowerCh[CHOOSE k \in 1..26 : UpperCh[k] = c]]

(* strings.ToLower.                                                        *)
ToLower(s) == [i \in DOMAIN s |-> IF s[i] \in DOMAIN LowerOf THEN LowerOf[s[i]] ELSE s[i]]

(* strings.TrimPrefix.                                                     *)
TrimPrefix(s, p) == IF IsPrefix(p, s) THEN SubSeq(s, Len(p) + 1, Len(s)) ELSE s

Dash == <<"-">>

(* The method-name prefixes of analyze's switch.                           *)
PGet == <<"G","e","t">>
PCreate == <<"C","r","e","a","t","e">>
PAdd == <<"A","d","d">>
PUpdate == <<"U","p","d","a","t","e">>
PEdit == <<"E","d","i","t">>
PDelete == <<"D","e","l","e","t","e">>
PRemove == <<"R","e","m","o","v","e">>
PDo == <<"D","o">>

(* reflection.IsSimpleType, by the Name() of the kinds it accepts.        *)
SimpleType == {"bool", "int", "int8", "int16", "int32", "int64", "uint", "uint8",
               "uint16", "uint32", "uint64", "float32", "float64", "string"}

(* analyze's filter: NumIn() >= 2 counting the receiver, and results      *)
(* ending (int, error).  The test of In(0) against *Context looks at the  *)
(* receiver, never a *Context, so it rejects nothing.                      *)
Accepted(m) == Len(m.in) >= 1 /\ m.outs

(* analyze's switch: the HTTP method and the prefixes do trims.            *)
Verb(name) ==
  CASE IsPrefix(PGet, name) -> [http |-> "GET", pre |-> <<PGet>>]
    [] IsPrefix(PCreate, name) \/ IsPrefix(PAdd, name) ->
         [http |-> "POST", pre |-> <<PAdd, PCreate>>]
    [] IsPrefix(PUpdate, name) \/ IsPrefix(PEdit, name) ->
         [http |-> "PUT", pre |-> <<PEdit, PUpdate>>]
    [] IsPrefix(PDelete, name) \/ IsPrefix(PRemove, name) ->
         [http |-> "DELETE", pre |-> <<PDelete, PRemove>>]
    [] OTHER -> [http |-> "GET", pre |-> <<PDo>>]

(* handler.do: a GET or DELETE with more parameters lists their types as *)
(* ":type" segments, and becomes a POST without them at the first one     *)
(* that is not simple; the name is lowered, then trimmed of each lowered  *)
(* prefix in turn.                                                         *)
MakeHandler(mi, mod, m) ==
  LET v == Verb(m.name)
      rest == SubSeq(m.in, 2, Len(m.in))
      scan == v.http \in {"GET", "DELETE"}
      http == IF scan /\ \E i \in DOMAIN rest : rest[i] \notin SimpleType
                THEN "POST" ELSE v.http
      name == FoldLeft(LAMBDA n, p : TrimPrefix(n, ToLower(p)), ToLower(m.name), v.pre)
  IN [mod |-> mi, fn |-> m, http |-> http, name |-> name,
      args |-> IF http \in {"GET", "DELETE"} THEN rest ELSE <<>>,
      path |-> <<<<>>, mod.id, mod.version, name>>]

(* analyze: the handlers of the accepted methods, and the error when two  *)
(* share HTTPMethod + Name.                                                *)
Analyze(mi, mod) ==
  LET acc == SelectSeq(mod.methods, Accepted)
      hs == [i \in DOMAIN acc |-> MakeHandler(mi, mod, acc[i])]
  IN [err |-> \E i, j \in DOMAIN hs : i < j /\ hs[i].http = hs[j].http /\ hs[i].name = hs[j].name,
      hs |-> Range(hs)]

(* The key of a module in the routes map.                                  *)
ServiceKey(mod) == ToLower(mod.id) \o Dash \o ToLower(mod.version)

(* RegisterRoute: a service with handlers replaces whatever the map held  *)
(* under its key.                                                          *)
RegisterRoute(tbl, mi, mod) ==
  LET hs == Analyze(mi, mod)
  IN IF mod.service /\ ~hs.err /\ hs.hs # {}
       THEN [k \in DOMAIN tbl \cup {ServiceKey(mod)} |->
               IF k = ServiceKey(mod) THEN hs.hs ELSE tbl[k]]
       ELSE tbl

(* UnregisterRoute: delete(routes, strings.ToLower(name)).                 *)
UnregisterRoute(tbl, name) ==
  [k \in DOMAIN tbl \ {ToLower(name)} |-> tbl[k]]

(* Server.matchRoute and Server.optionsHandler for a request of method    *)
(* meth, path parts (strings.Split at "/", the empty segment first) and   *)
(* Access-Control-Request-Method acrm: the status written, or code 0 and  *)
(* the handler h.                                                          *)
(* A preflight that finds its handler runs postSecurityMiddleware around *)
(* a handler that writes nothing, so net/http answers 200.                 *)
MatchRoute(tbl, meth, parts, acrm) ==
  LET key == parts[2] \o Dash \o parts[3]
      svc == tbl[key]
      find(n) == {h \in svc : h.http = meth /\ h.name = n}
      found(hs) == [code |-> 0, h |-> CHOOSE h \in hs : TRUE]
  IN CASE Len(parts) < 4 \/ key \notin DOMAIN tbl -> [code |-> 404]
       [] meth = "OPTIONS" ->
            [code |-> IF \E h \in svc : h.http = acrm /\ h.name = ToLower(parts[4])
                        THEN 200 ELSE 404]
       [] find(parts[4]) # {} -> found(find(parts[4]))
       [] find(ToLower(parts[4])) # {} -> found(find(ToLower(parts[4])))
       [] OTHER -> [code |-> 404]

Digit == {"0","1","2","3","4","5","6","7","8","9"}

(* utils.IsInt: an optional "-", then "0" or a nonzero digit and more    *)
(* digits, and nothing else.                                              *)
IsInt(s) ==
  LET b == IF s # <<>> /\ s[1] = "-" THEN Tail(s) ELSE s
  IN /\ b # <<>>
     /\ \A i \in DOMAIN b : b[i] \in Digit
     /\ b[1] = "0" => Len(b) = 1

(* The keys of boolString (utils/uuid/uuids.go), those Truthy maps to     *)
(* true first.                                                             *)
TrueKeys ==
  {<<"t","r","u","e">>, <<"y","e","s">>, <<"o","n">>, <<"1">>,
   <<"t","o","g","g","l","e","d">>, <<"a","c","t","i","v","e">>,
   <<"p","r","e","s","e","n","t">>}
FalseKeys ==
  {<<"n","a","n">>, <<"u","n","d","e","f","i","n","e","d">>, <<"n","u","l","l">>,
   <<>>, <<"f","a","l","s","e">>, <<"n","o">>, <<"o","f","f">>, <<"0">>,
   <<"u","n","t","o","g","g","l","e","d">>, <<"i","n","a","c","t","i","v","e">>,
   <<"a","b","s","e","n","t">>, <<"m","i","s","s","i","n","g">>}

(* utils.IsTruthy: the exact text is a key of boolString.                 *)
IsTruthy(s) == s \in TrueKeys \cup FalseKeys

(* Mutant: any segment is taken for a boolean.                             *)
BindBoolLoose(t, s) ==
  CASE t = "string" -> "string"
    [] t = "int" -> IF IsInt(s) THEN "int64" ELSE "bad"
    [] t = "bool" -> "bool"
    [] OTHER -> "none"

(* One ":type" segment of Handler's binding loop: the reflect type of the *)
(* value appended, "bad" when it answers BadRequest, "none" when the type *)
(* has no case.  ParseInt cannot fail on what IsInt accepts at the length *)
(* of the segments here.                                                   *)
BindOne(t, s) ==
  CASE t = "string" -> "string"
    [] t = "int" -> IF IsInt(s) THEN "int64" ELSE "bad"
    [] t = "bool" -> IF IsTruthy(s) THEN "bool" ELSE "bad"
    [] OTHER -> "none"

(* reflection.Method.Call with the receiver, the Context and the bound     *)
(* values: "count" (its 400 "invalid argument" when their number is not    *)
(* NumIn), "type" (Func.Call panics on an argument of the wrong type and  *)
(* Call's recover answers 500), or "call".                                 *)
CallResult(fn, vals) ==
  CASE Len(vals) + 1 # Len(fn.in) -> "count"
    [] <<"ctx">> \o vals # fn.in -> "type"
    [] OTHER -> "call"

(* Handler up to FuncRef.Call for handler h and request path parts, with  *)
(* no request body: "bad" (400 from BadRequest) or what Call makes of the *)
(* values bound.  Binding happens only when the path has as many segments *)
(* as the endpoint.                                                        *)
Bind(h, parts) ==
  LET bound == IF h.args # <<>> /\ Len(parts) = Len(h.path) + Len(h.args)
                 THEN [i \in DOMAIN h.args |-> BindOne(h.args[i], parts[Len(h.path) + i])]
                 ELSE <<>>
  IN IF \E i \in DOMAIN bound : bound[i] = "bad"
       THEN "bad"
       ELSE CallResult(h.fn, SelectSeq(bound, LAMBDA b : b # "none"))

=============================================================================
