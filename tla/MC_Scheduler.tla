--------------------------- MODULE MC_Scheduler ----------------------------
(* Instantiation of Scheduler for TLC; constants are given in the .cfg.   *)
EXTENDS Scheduler, TLC
=============================================================================
