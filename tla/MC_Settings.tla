--------------------------- MODULE MC_Settings ---------------------------
(* Settings for TLC: int64 scaled to 8 bits (MaxInt 127), units ns = 1,   *)
(* us = 10 and s = 100, and a struct of three fields as in the package's *)
(* usage example: a Duration with default "1s", a bool with default "yes" *)
(* and a Duration with no default.                                          *)
EXTENDS Settings, TLC

Seg(int, dot, frac, unit) == [int |-> int, dot |-> dot, frac |-> frac, unit |-> unit]
D(sign, segs) == [w |-> "", sign |-> sign, segs |-> segs]
Word(x) == [w |-> x, sign |-> "", segs |-> <<>>]
Plain(ds, unit) == D("", <<Seg(ds, FALSE, <<>>, unit)>>)

OneSec == Plain(<<1>>, "s")

(* Durations around every overflow check at MaxInt = 127, and the         *)
(* malformed ones: "0" "-0" "" "+" "1" "127ns" "128ns" "-127ns" "1270ns"  *)
(* "12us" "13us" "1.27s" "1.28s" "1s27ns" "1s28ns" ".5s" ".s" "1.s" "2s"  *)
(* "1x" "0.9ns" "00012ns" "1.05us" "1s".                                   *)
MCDurations ==
  {D("", <<ZeroSeg>>), D("-", <<ZeroSeg>>), EmptyStr, D("+", <<>>),
   Plain(<<1>>, ""), Plain(<<1, 2, 7>>, "ns"), Plain(<<1, 2, 8>>, "ns"),
   D("-", <<Seg(<<1, 2, 7>>, FALSE, <<>>, "ns")>>), Plain(<<1, 2, 7, 0>>, "ns"),
   Plain(<<1, 2>>, "us"), Plain(<<1, 3>>, "us"),
   D("", <<Seg(<<1>>, TRUE, <<2, 7>>, "s")>>), D("", <<Seg(<<1>>, TRUE, <<2, 8>>, "s")>>),
   D("", <<Seg(<<1>>, FALSE, <<>>, "s"), Seg(<<2, 7>>, FALSE, <<>>, "ns")>>),
   D("", <<Seg(<<1>>, FALSE, <<>>, "s"), Seg(<<2, 8>>, FALSE, <<>>, "ns")>>),
   D("", <<Seg(<<>>, TRUE, <<5>>, "s")>>), D("", <<Seg(<<>>, TRUE, <<>>, "s")>>),
   D("", <<Seg(<<1>>, TRUE, <<>>, "s")>>), Plain(<<2>>, "s"), Plain(<<1>>, "x"),
   D("", <<Seg(<<0>>, TRUE, <<9>>, "ns")>>), Plain(<<0, 0, 0, 1, 2>>, "ns"),
   D("", <<Seg(<<1>>, TRUE, <<0, 5>>, "us")>>), OneSec}

MCWords == {Word("yes"), Word("off"), Word("maybe")}

MCValue == MCDurations \cup MCWords

MCUnitMap == [u \in {"ns", "us", "s"} |-> CASE u = "ns" -> 1 [] u = "us" -> 10 [] OTHER -> 100]

MCKey == {"app.timeout", "debug", "app.ttl"}

MCFields ==
  <<[key |-> "app.timeout", def |-> OneSec, kind |-> "dur"],
    [key |-> "debug", def |-> Word("yes"), kind |-> "bool"],
    [key |-> "app.ttl", def |-> EmptyStr, kind |-> "dur"]>>

(* A file loader sets the timeout to any of the durations; an env loader *)
(* sets debug and the ttl, or leaves them out.                             *)
MCLoaderResult ==
  {[k \in MCKey |-> IF k = "app.timeout" THEN d ELSE Absent] : d \in MCDurations} \cup
  {[k \in MCKey |-> CASE k = "debug" -> b [] k = "app.ttl" -> t [] OTHER -> Absent] :
     b \in MCWords \cup {Absent, Plain(<<1>>, "")}, t \in {Absent, OneSec, Word("maybe")}}
=============================================================================
