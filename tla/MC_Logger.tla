----------------------------- MODULE MC_Logger ------------------------------
(* Instantiation of Logger for TLC; constants are given in the .cfg.      *)
EXTENDS Logger, TLC
=============================================================================
