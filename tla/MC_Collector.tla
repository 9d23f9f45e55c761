--------------------------- MODULE MC_Collector ----------------------------
(* Instantiation of Collector for TLC; constants are given in the .cfg.   *)
EXTENDS Collector, TLC
=============================================================================
