------------------------------ MODULE Settings ------------------------------
(***************************************************************************)
(* settings/settings.go: the process-wide Settings map behind an           *)
(* RWMutex.  Load replaces the map under the write lock and merges the    *)
(* loaders' results in order, stopping at the first error; the getters    *)
(* read one key under the read lock and parse it (ParseDuration, the      *)
(* truth table); Unmarshal fills a struct field by field, falling back to *)
(* the field's default tag through the reserved key "\x00\x01", which it   *)
(* writes and finally deletes WITHOUT taking the lock.                      *)
(*                                                                         *)
(* Data is abstracted to what the parse tells apart:                       *)
(*  - int64 is an integer of W bits, wrapping as Go's does;                *)
(*  - a value is a record: a word (w # "", e.g. "yes") or a duration      *)
(*    string, its sign and its segments "<int>[.<frac>]<unit>", digits as *)
(*    sequences; "" is the empty string;                                   *)
(*  - unitMap is the constant UnitMap, scaled to W bits.                  *)
(* Values hold no "${...}", so resolveVar returns them unchanged.          *)
(***************************************************************************)
EXTENDS Integers, Sequences, SequencesExt

CONSTANTS
  W,          \* bits of int64, scaled
  UnitMap,    \* unitMap: unit name -> its length in the smallest unit
  Key,        \* the config keys
  DefKey,     \* the reserved key "\x00\x01"
  Value,      \* the strings loaders and default tags hold
  LoaderResult, \* what one loader's Parse returns: a map, or LoadErr
  NLoaders,   \* loaders passed to one Load call
  MaxLoads,   \* Load calls in a behaviour
  Fields,     \* the struct's fields: <<[key, def, kind]>>, kind "dur" or "bool"
  Absent,     \* no entry in the map
  NotRead,    \* decode has not read this yet
  LoadErr     \* a loader's Parse failed

MaxInt == 2^(W-1) - 1
Dur == -(MaxInt + 1)..MaxInt

(* Two's-complement wrap-around of an int64 result. *)
Wrap(x) == ((x + MaxInt + 1) % (2 * (MaxInt + 1))) - (MaxInt + 1)

Fail == [ok |-> FALSE, d |-> 0]
ZeroSeg == [int |-> <<0>>, dot |-> FALSE, frac |-> <<>>, unit |-> ""]

(* Mutant: the overflow guard is x >= (1<<63-1)/10.                       *)
RECURSIVE LeadingIntGe(_, _)
LeadingIntGe(ds, x) ==
  IF ds = <<>> THEN [ok |-> TRUE, x |-> x]
  ELSE IF x >= MaxInt \div 10 THEN [ok |-> FALSE, x |-> 0]
  ELSE LET y == Wrap(x * 10 + Head(ds))
       IN IF y < 0 THEN [ok |-> FALSE, x |-> 0] ELSE LeadingIntGe(Tail(ds), y)

(* leadingInt: consume digits, failing when x*10 + c leaves int64.        *)
RECURSIVE LeadingInt(_, _)
LeadingInt(ds, x) ==
  IF ds = <<>> THEN [ok |-> TRUE, x |-> x]
  ELSE IF x > MaxInt \div 10 THEN [ok |-> FALSE, x |-> 0]
  ELSE LET y == Wrap(x * 10 + Head(ds))
       IN IF y < 0 THEN [ok |-> FALSE, x |-> 0] ELSE LeadingInt(Tail(ds), y)

(* leadingFraction: consume digits; past int64 stop adding precision.     *)
RECURSIVE LeadingFraction(_, _, _, _)
LeadingFraction(ds, x, scale, overflow) ==
  IF ds = <<>> THEN [x |-> x, scale |-> scale]
  ELSE IF overflow \/ x > MaxInt \div 10 \/ Wrap(x * 10 + Head(ds)) < 0
       THEN LeadingFraction(Tail(ds), x, scale, TRUE)
       ELSE LeadingFraction(Tail(ds), Wrap(x * 10 + Head(ds)), scale * 10, FALSE)

(* The loop of ParseDuration over the segments, d the sum so far.  The    *)
(* float product f * (unit / scale) is taken as exact.                      *)
RECURSIVE ParseSegs(_, _)
ParseSegs(segs, d) ==
  IF segs = <<>> THEN [ok |-> TRUE, d |-> d]
  ELSE
  LET g == Head(segs)
      li == LeadingInt(g.int, 0)
      lf == IF g.dot THEN LeadingFraction(g.frac, 0, 1, FALSE) ELSE [x |-> 0, scale |-> 1]
      pre == g.int # <<>>
      post == g.dot /\ g.frac # <<>>
      u == UnitMap[g.unit]
      v == li.x * u
      vf == IF lf.x > 0 THEN Wrap(v + (lf.x * u) \div lf.scale) ELSE v
      d2 == Wrap(d + vf)
  IN IF \/ ~pre /\ ~g.dot                 \* next character is not [0-9.]
        \/ ~li.ok
        \/ ~pre /\ ~post                  \* ".s"
        \/ g.unit \notin DOMAIN UnitMap    \* missing or unknown unit
        \/ li.x > MaxInt \div u
        \/ vf < 0
        \/ d2 < 0
     THEN Fail
     ELSE ParseSegs(Tail(segs), d2)

(* ParseDuration: sign, the "0" special case, "" refused, the segments.   *)
ParseDuration(s) ==
  CASE s.w # ""            -> Fail         \* first character is a letter
    [] s.segs = <<ZeroSeg>> -> [ok |-> TRUE, d |-> 0]
    [] s.segs = <<>>        -> Fail
    [] OTHER -> LET r == ParseSegs(s.segs, 0)
                IN IF r.ok /\ s.sign = "-" THEN [ok |-> TRUE, d |-> -r.d] ELSE r

(* truthTable, a word standing for its lower-cased form; "1" and "0" are  *)
(* also duration strings.                                                   *)
TruthTable ==
  [t \in {"yes", "on", "true", "1", "active", "set", "enabled"} |-> TRUE] @@
  [t \in {"no", "off", "false", "0", "inactive", "unset", "disabled"} |-> FALSE]

TextOf(s) ==
  CASE s.w # "" -> s.w
    [] s = [w |-> "", sign |-> "", segs |-> <<ZeroSeg>>] -> "0"
    [] s = [w |-> "", sign |-> "", segs |-> <<[ZeroSeg EXCEPT !.int = <<1>>]>>] -> "1"
    [] OTHER -> ""

(* The getters after the map read, on the value read (Absent: no key):    *)
(* the value and whether it exists and parses.                              *)
GetDuration(val) ==
  IF val = Absent THEN [ok |-> FALSE, x |-> 0]
  ELSE LET r == ParseDuration(val) IN [ok |-> r.ok, x |-> r.d]

GetBool(val) ==
  IF val = Absent \/ TextOf(val) \notin DOMAIN TruthTable THEN [ok |-> FALSE, x |-> FALSE]
  ELSE [ok |-> TRUE, x |-> TruthTable[TextOf(val)]]

Get(kind, val) == IF kind = "dur" THEN GetDuration(val) ELSE GetBool(val)

ZeroOf(kind) == IF kind = "dur" THEN 0 ELSE FALSE

-----------------------------------------------------------------------------
VARIABLES
  data,    \* s.data
  locked,  \* Load holds s.lock for writing
  lpc,     \* the loader Load runs next, 0 when Load is not running
  loads,   \* Load calls so far
  upc,     \* Unmarshal: [i |-> field, ph |-> step or how it ended]
  out      \* the destination struct: per field, what decode read and set

vars == <<data, locked, lpc, loads, upc, out>>
N == Len(Fields)
AllKeys == Key \cup {DefKey}
Read == Value \cup {Absent, NotRead}
Ended == {"done", "panic", "fatal"}

SInit ==
  /\ data = [k \in AllKeys |-> Absent]
  /\ locked = FALSE
  /\ lpc = 0
  /\ loads = 0
  /\ upc = [i |-> 1, ph |-> "def"]
  /\ out = [i \in 1..N |-> [src |-> NotRead, dsrc |-> NotRead, x |-> ZeroOf(Fields[i].kind)]]

STypeOK ==
  /\ data \in [AllKeys -> Value \cup {Absent}]
  /\ locked \in BOOLEAN
  /\ lpc \in 0..NLoaders
  /\ loads \in 0..MaxLoads
  /\ upc \in [i : 1..N + 1, ph : {"def", "key", "dflt"} \cup Ended]
  /\ \A i \in 1..N :
       /\ out[i].src \in Read /\ out[i].dsrc \in Read
       /\ out[i].x \in IF Fields[i].kind = "dur" THEN Dur ELSE BOOLEAN

(* Load: Lock, then s.data = make(map).  Lock waits for the readers, whose *)
(* map reads are single steps here.                                         *)
LoadBegin ==
  /\ ~locked /\ lpc = 0 /\ loads < MaxLoads
  /\ locked' = TRUE
  /\ data' = [k \in AllKeys |-> Absent]
  /\ lpc' = 1
  /\ loads' = loads + 1
  /\ UNCHANGED <<upc, out>>

(* Mutant: Unlock is not deferred and the error return skips it.        *)
LoadFailNoUnlock ==
  /\ lpc > 0
  /\ lpc' = 0
  /\ UNCHANGED <<data, locked, loads, upc, out>>

(* A loader's Parse fails: Load returns at once and the deferred Unlock   *)
(* leaves the values merged so far in the map.                              *)
LoadFail ==
  /\ lpc > 0
  /\ locked' = FALSE
  /\ lpc' = 0
  /\ UNCHANGED <<data, loads, upc, out>>

(* A loader's Parse succeeds: merge its values; after the last loader     *)
(* Load returns and unlocks.                                                 *)
LoadMerge ==
  /\ lpc > 0
  /\ \E r \in LoaderResult :
       data' = [k \in AllKeys |-> IF k \in Key /\ r[k] # Absent THEN r[k] ELSE data[k]]
  /\ lpc' = IF lpc = NLoaders THEN 0 ELSE lpc + 1
  /\ locked' = (lpc < NLoaders)
  /\ UNCHANGED <<loads, upc, out>>

EmptyStr == [w |-> "", sign |-> "", segs |-> <<>>]
Next(i) == [i |-> i + 1, ph |-> "def"]

(* Unmarshal writes and deletes s.data[defKey] without the lock.  While   *)
(* Load holds it the write races Load's: it lands in the map, is lost in  *)
(* the map Load replaced, or the runtime stops the process with           *)
(* "concurrent map writes".                                                 *)
RacyWrite(newData, pc) ==
  \/ data' = newData /\ upc' = pc
  \/ locked /\ UNCHANGED data /\ upc' = pc
  \/ locked /\ UNCHANGED data /\ upc' = [upc EXCEPT !.ph = "fatal"]

(* s.data[defKey] = defValue, before the field's decode.                   *)
UDef ==
  /\ upc.ph \notin Ended /\ upc.ph = "def" /\ upc.i <= N
  /\ RacyWrite([data EXCEPT ![DefKey] = Fields[upc.i].def], [upc EXCEPT !.ph = "key"])
  /\ UNCHANGED <<locked, lpc, loads, out>>

(* decode's first call, the getter on the config key under RLock.         *)
KeyRead == data[Fields[upc.i].key]
KeyGet == Get(Fields[upc.i].kind, KeyRead)

(* The key exists and parses: the field takes its value.                    *)
UKeyFound ==
  /\ upc.ph \notin Ended /\ upc.ph = "key" /\ ~locked
  /\ KeyGet.ok
  /\ out' = [out EXCEPT ![upc.i] = [src |-> KeyRead, dsrc |-> NotRead, x |-> KeyGet.x]]
  /\ upc' = Next(upc.i)
  /\ UNCHANGED <<data, locked, lpc, loads>>

(* It does not, and the default tag is set: decode calls the getter on   *)
(* defKey next.                                                              *)
UKeyMissing ==
  /\ upc.ph \notin Ended /\ upc.ph = "key" /\ ~locked
  /\ ~KeyGet.ok /\ Fields[upc.i].def # EmptyStr
  /\ out' = [out EXCEPT ![upc.i].src = KeyRead]
  /\ upc' = [upc EXCEPT !.ph = "dflt"]
  /\ UNCHANGED <<data, locked, lpc, loads>>

(* It does not and there is no default: decode returns an invalid Value. *)
(* A Duration field calls fv.Set on it and panics, the deferred delete    *)
(* of defKey running first; any other field is left alone.                 *)
UKeyNoDefault ==
  /\ upc.ph \notin Ended /\ upc.ph = "key" /\ ~locked
  /\ ~KeyGet.ok /\ Fields[upc.i].def = EmptyStr
  /\ out' = [out EXCEPT ![upc.i].src = KeyRead]
  /\ IF Fields[upc.i].kind = "dur"
     THEN RacyWrite([data EXCEPT ![DefKey] = Absent], [upc EXCEPT !.ph = "panic"])
     ELSE upc' = Next(upc.i) /\ UNCHANGED data
  /\ UNCHANGED <<locked, lpc, loads>>

(* decode's second call, the getter on defKey: the field takes its result, *)
(* the zero value when that fails.                                          *)
UDefault ==
  /\ upc.ph \notin Ended /\ upc.ph = "dflt" /\ ~locked
  /\ LET val == data[DefKey]
     IN out' = [out EXCEPT ![upc.i].dsrc = val,
                           ![upc.i].x = Get(Fields[upc.i].kind, val).x]
  /\ upc' = Next(upc.i)
  /\ UNCHANGED <<data, locked, lpc, loads>>

(* After the last field the deferred delete(s.data, defKey).                *)
UEnd ==
  /\ upc.ph \notin Ended /\ upc.i = N + 1
  /\ RacyWrite([data EXCEPT ![DefKey] = Absent], [upc EXCEPT !.ph = "done"])
  /\ UNCHANGED <<locked, lpc, loads, out>>

UStep == UDef \/ UKeyFound \/ UKeyMissing \/ UKeyNoDefault \/ UDefault \/ UEnd

SNext == LoadBegin \/ LoadFail \/ LoadMerge \/ UStep

(* The runtime schedules both goroutines: a started Load runs its loaders *)
(* to the end, and Unmarshal keeps stepping while it can take the lock.    *)
(* A caller need not call Load again.                                       *)
SFairness == WF_vars(LoadFail \/ LoadMerge) /\ WF_vars(UStep)

SSpec == SInit /\ [][SNext]_vars /\ SFairness

-----------------------------------------------------------------------------
(* Reference: time.ParseDuration's meaning.  A string is a sign and        *)
(* segments, each with digits before or after the point and a known unit; *)
(* its value is the exact sum of the segments, and it parses iff that sum *)
(* fits in int64.                                                           *)
DecVal(ds) == FoldLeft(LAMBDA x, c : 10 * x + c, 0, ds)
SegVal(g) == DecVal(g.int) * UnitMap[g.unit] + (DecVal(g.frac) * UnitMap[g.unit]) \div 10^Len(g.frac)
WellFormed(g) == (g.int # <<>> \/ (g.dot /\ g.frac # <<>>)) /\ g.unit \in DOMAIN UnitMap
Total(s) == FoldLeft(LAMBDA t, g : t + SegVal(g), 0, s.segs)

RefDuration(val) ==
  CASE val \notin Value \/ val.w # "" \/ val.segs = <<>> -> Fail
    [] val.segs = <<ZeroSeg>> -> [ok |-> TRUE, d |-> 0]
    [] \A j \in 1..Len(val.segs) : WellFormed(val.segs[j]) ->
         IF Total(val) > MaxInt THEN Fail
         ELSE [ok |-> TRUE, d |-> IF val.sign = "-" THEN -Total(val) ELSE Total(val)]
    [] OTHER -> Fail

-----------------------------------------------------------------------------
(* PROPERTIES *)

(* A Duration field Unmarshal has decoded holds the exact value of the    *)
(* string read at its key when that string is a duration within int64,   *)
(* and otherwise the value of the string read at defKey, or 0: the digit *)
(* loops of leadingInt and leadingFraction, the overflow checks on every  *)
(* multiplication and sum, and decode's fallback agree with the reference.*)
DurationExact ==
  \A i \in 1..N :
    Fields[i].kind = "dur" /\ out[i].src # NotRead =>
      LET r == RefDuration(out[i].src)
          dr == RefDuration(out[i].dsrc)
      IN IF r.ok THEN out[i].x = r.d /\ out[i].dsrc = NotRead
         ELSE out[i].x = dr.d

(* Unmarshal returns (or fails) whatever Load does meanwhile: a Load that *)
(* stops at a failing loader still releases the write lock the getters    *)
(* wait on.                                                                  *)
UnmarshalReturns == <>(upc.ph \in Ended)
=============================================================================
