------------------------------ MODULE Version ------------------------------
(***************************************************************************)
(* utils/version/doc.go: a Version is parsed from a string (New,           *)
(* UnmarshalJSON), compared (compare, Equal, LessThan and the rest, with   *)
(* the ranges "^", "~" and "*"), advanced by the Release methods and       *)
(* printed by String.                                                      *)
(*                                                                         *)
(* Data is abstracted to what comparison tells apart:                      *)
(*  - the uint64 fields range over 0..MaxU, which keeps their order and    *)
(*    their wrap-around at MaxU + 1 (math.MaxUint64 + 1 = 0);              *)
(*  - a PreRelease or Meta string is its rank 0..MaxTag in Go's byte       *)
(*    order, 0 being "";                                                   *)
(*  - a string is the pieces parse cuts it into: "*", the leading "v", "~" *)
(*    and "^" characters, the numerals between the dots, and the text      *)
(*    after "-" and after "+", NoPart when that character is absent.       *)
(*    A numeral is a value, TooBig (digits past math.MaxUint64) or         *)
(*    Garbage (not digits).                                                *)
(***************************************************************************)
EXTENDS Integers, Sequences

CONSTANTS
  MaxU,     \* math.MaxUint64, scaled
  MaxTag,   \* the greatest PreRelease/Meta rank
  Input,    \* the strings the program parses
  Probe,    \* the strings it compares against
  Stage,    \* the stages ReleaseDev is called with
  NoUpTo,   \* upTo == nil
  NoPart,   \* no "-" or no "+" in the string
  Nil       \* no *Version (New returned an error)

ASSUME MaxU \in Nat \ {0} /\ MaxTag \in Nat /\ Stage \subseteq 0..MaxTag

Num == 0..MaxU
Tag == 0..MaxTag
TooBig == MaxU + 1
Garbage == MaxU + 2
Bound == [major : Num, minor : Num]
Ver == [major : Num, minor : Num, patch : Num, pre : Tag, meta : Tag,
        upTo : Bound \cup {NoUpTo}]

VARIABLE v   \* the *Version the program holds

Zero == [major |-> 0, minor |-> 0, patch |-> 0, pre |-> 0, meta |-> 0, upTo |-> NoUpTo]

VTypeOK == v \in Ver \cup {Nil}

(* strconv.ParseUint(s, 10, 64): the value, 0 on a syntax error and       *)
(* math.MaxUint64 when out of range; the result is assigned before err   *)
(* is tested.                                                               *)
ParseUint(x) == IF x \in Num THEN x ELSE IF x = TooBig THEN MaxU ELSE 0

(* parse(val) into the fields of w.  Every field is written as soon as it *)
(* is read and nothing is reset first, so an error leaves what was       *)
(* already written, and a field the string does not name keeps its old   *)
(* value.                                                                   *)
ParseInto(w, s) ==
  IF s.star THEN [ver |-> [w EXCEPT !.upTo = [major |-> MaxU, minor |-> 0]], ok |-> TRUE]
  ELSE
  LET p1 == IF s.pfx # <<>> /\ Head(s.pfx) = "v" THEN Tail(s.pfx) ELSE s.pfx
      tilde == p1 # <<>> /\ Head(p1) = "~"
      p2 == IF tilde THEN Tail(p1) ELSE p1
      caret == p2 # <<>> /\ Head(p2) = "^"
      rest == IF caret THEN Tail(p2) ELSE p2
      \* what is left of the prefix is glued to the first numeral
      d(k) == IF k = 1 /\ rest # <<>> THEN Garbage ELSE s.nums[k]
      n == Len(s.nums)
      w0 == [w EXCEPT !.meta = IF s.meta = NoPart THEN @ ELSE s.meta,
                      !.pre = IF s.pre = NoPart THEN @ ELSE s.pre]
      w1 == IF n = 3 THEN [w0 EXCEPT !.patch = ParseUint(d(3))] ELSE w0
      w2 == [w1 EXCEPT !.major = ParseUint(d(1))]
      w3 == [w2 EXCEPT !.minor = ParseUint(d(2))]
      w4 == CASE caret -> [w3 EXCEPT !.upTo = [major |-> (w3.major + 1) % (MaxU + 1), minor |-> 0]]
              [] tilde -> [w3 EXCEPT !.upTo = [major |-> w3.major, minor |-> (w3.minor + 1) % (MaxU + 1)]]
              [] OTHER -> w3
  IN CASE n \notin {2, 3}            -> [ver |-> w0, ok |-> FALSE]
       [] n = 3 /\ d(3) \notin Num  -> [ver |-> w1, ok |-> FALSE]
       [] d(1) \notin Num           -> [ver |-> w2, ok |-> FALSE]
       [] d(2) \notin Num           -> [ver |-> w3, ok |-> FALSE]
       [] OTHER                     -> [ver |-> w4, ok |-> TRUE]

(* Mutant: String leaves the "+Meta" suffix out.                          *)
VStringNoMeta(a) ==
  [star |-> FALSE, pfx |-> <<>>,
   nums |-> IF a.patch # 0 THEN <<a.major, a.minor, a.patch>> ELSE <<a.major, a.minor>>,
   pre |-> IF a.pre # 0 THEN a.pre ELSE NoPart,
   meta |-> NoPart]

(* String: "Major.Minor", ".Patch" unless it is 0, "-PreRelease" and     *)
(* "+Meta" unless empty; the range is not printed.  String prints the     *)
(* tags through strings.TrimSpace, the identity on the ranks of Tag, none *)
(* of which starts or ends with a blank.                                   *)
VString(a) ==
  [star |-> FALSE, pfx |-> <<>>,
   nums |-> IF a.patch # 0 THEN <<a.major, a.minor, a.patch>> ELSE <<a.major, a.minor>>,
   pre |-> IF a.pre # 0 THEN a.pre ELSE NoPart,
   meta |-> IF a.meta # 0 THEN a.meta ELSE NoPart]

(* getVersion of a string: New, or the zero Version when it fails.        *)
GetVersion(s) == LET r == ParseInto(Zero, s) IN IF r.ok THEN r.ver ELSE Zero

Sign(x, y) == IF x > y THEN 1 ELSE IF x < y THEN -1 ELSE 0

compare(a, b) ==
  IF VString(a) = VString(b) THEN 0
  ELSE LET d == SelectSeq(<<Sign(a.major, b.major), Sign(a.minor, b.minor),
                            Sign(a.patch, b.patch), Sign(a.pre, b.pre),
                            Sign(a.meta, b.meta)>>, LAMBDA x : x # 0)
       IN IF d = <<>> THEN 0 ELSE Head(d)

(* upTo as the Version compare receives: Major and Minor set.             *)
UpToVer(b) == [Zero EXCEPT !.major = b.major, !.minor = b.minor]

inRange(a, c) == compare(a, c) >= 0 /\ compare(a, UpToVer(c.upTo)) = -1

(* Mutant: the case of a range receiver and a plain argument is missing. *)
EqualOneSided(a, c) ==
  \/ compare(a, c) = 0
  \/ c.upTo # NoUpTo /\ a.upTo = NoUpTo /\ inRange(a, c)
  \/ c.upTo # NoUpTo /\ a.upTo # NoUpTo /\ (inRange(a, c) \/ inRange(c, a))

(* Equal: equal versions, or one lies in the range of the other.          *)
Equal(a, c) ==
  \/ compare(a, c) = 0
  \/ c.upTo # NoUpTo /\ a.upTo = NoUpTo /\ inRange(a, c)
  \/ c.upTo = NoUpTo /\ a.upTo # NoUpTo /\ inRange(c, a)
  \/ c.upTo # NoUpTo /\ a.upTo # NoUpTo /\ (inRange(a, c) \/ inRange(c, a))

LessThan(a, s) == compare(a, GetVersion(s)) = -1
LessEqThan(a, s) == compare(a, GetVersion(s)) <= 0
GreaterThan(a, s) == compare(a, GetVersion(s)) = 1
GreaterEqThan(a, s) == compare(a, GetVersion(s)) >= 0

-----------------------------------------------------------------------------
VInit == v = Nil

(* New(val): parse into a fresh Version; nil on an error.                  *)
New(s) ==
  LET r == ParseInto(Zero, s) IN v' = IF r.ok THEN r.ver ELSE Nil

(* UnmarshalJSON of a quoted string: parse into the Version the pointer   *)
(* holds, a fresh one when it is nil.  The error is returned and the      *)
(* fields written so far stay.                                              *)
UnmarshalJSON(s) ==
  v' = ParseInto(IF v = Nil THEN Zero ELSE v, s).ver

ReleaseMajor ==
  /\ v # Nil
  /\ v' = [v EXCEPT !.major = (@ + 1) % (MaxU + 1), !.minor = 0, !.patch = 0,
                    !.pre = 0, !.meta = 0]

ReleaseMinor ==
  /\ v # Nil
  /\ v' = [v EXCEPT !.minor = (@ + 1) % (MaxU + 1), !.patch = 0, !.pre = 0, !.meta = 0]

ReleasePatch ==
  /\ v # Nil
  /\ v' = [v EXCEPT !.patch = (@ + 1) % (MaxU + 1), !.pre = 0, !.meta = 0]

ReleaseDev(stage) ==
  /\ v # Nil
  /\ v' = [v EXCEPT !.pre = stage, !.meta = 0]

VNext ==
  \/ \E s \in Input : New(s) \/ UnmarshalJSON(s)
  \/ ReleaseMajor \/ ReleaseMinor \/ ReleasePatch
  \/ \E st \in Stage : ReleaseDev(st)

VSpec == VInit /\ [][VNext]_v

-----------------------------------------------------------------------------
(* PROPERTIES *)

(* Equal is symmetric: v.Equal(x) and x.Equal(v) agree for every version  *)
(* x the program compares against, ranges included.  Equal has a branch  *)
(* for each side holding the range; missing one makes "1.2.5" equal to    *)
(* "^1.2" but not "^1.2" to "1.2.5".                                       *)
EqualSymmetric ==
  v # Nil => \A s \in Probe : Equal(v, GetVersion(s)) = Equal(GetVersion(s), v)

=============================================================================
