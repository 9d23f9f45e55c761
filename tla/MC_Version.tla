---------------------------- MODULE MC_Version ----------------------------
(* Version for TLC: uint64 scaled to 0..2, PreRelease/Meta ranks "" <     *)
(* "alpha" < "beta", and the strings below.                                *)
EXTENDS Version, TLC

Str(pfx, nums, pre, meta) ==
  [star |-> FALSE, pfx |-> pfx, nums |-> nums, pre |-> pre, meta |-> meta]

Star == [star |-> TRUE, pfx |-> <<>>, nums |-> <<>>, pre |-> NoPart, meta |-> NoPart]

(* Prefixes: none, "v", "~", "^", "v~", "~^", and "^~" which parse refuses. *)
MCPrefix == {<<>>, <<"v">>, <<"~">>, <<"^">>, <<"v", "~">>, <<"~", "^">>, <<"^", "~">>}

(* Numerals: every "M.m" and "M.m.p" with values 0..2, and the malformed  *)
(* ones: one or four parts, a part too big, a part not a number.          *)
MCNums ==
  [1..2 -> 0..2] \cup [1..3 -> 0..2] \cup
  {<<1>>, <<0, 0, 0, 0>>, <<TooBig, 1>>, <<1, Garbage>>, <<1, 0, TooBig>>,
   <<Garbage, 1, 1>>, <<1, TooBig, 1>>}

MCInput ==
  {Star} \cup {Str(p, n, pre, meta) : p \in MCPrefix, n \in MCNums,
                                      pre \in {NoPart, 1}, meta \in {NoPart, 2}}

(* Versions compared against: plain, pre-release, with meta, every kind  *)
(* of range, "*", an unparsable string (compared as 0.0).                 *)
MCProbe ==
  {Star, Str(<<>>, <<1, 0>>, NoPart, NoPart), Str(<<>>, <<1, 1, 1>>, NoPart, NoPart),
   Str(<<>>, <<1, 1, 1>>, 1, NoPart), Str(<<>>, <<1, 1, 1>>, 2, NoPart),
   Str(<<>>, <<1, 1, 1>>, NoPart, 2), Str(<<>>, <<2, 2>>, NoPart, NoPart),
   Str(<<"^">>, <<1, 1>>, NoPart, NoPart), Str(<<"~">>, <<1, 1>>, NoPart, NoPart),
   Str(<<"^">>, <<2, 0>>, NoPart, NoPart), Str(<<"~">>, <<0, 2>>, NoPart, NoPart),
   Str(<<"v">>, <<0, 1, 2>>, NoPart, NoPart), Str(<<>>, <<Garbage, 1>>, NoPart, NoPart)}

MCStage == {1, 2}
=============================================================================
