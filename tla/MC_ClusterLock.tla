--------------------------- MODULE MC_ClusterLock ---------------------------
(* Instantiation of ClusterLock for TLC.  Processes, goroutines and lock   *)
(* names are model values given in the .cfg files.                        *)
EXTENDS ClusterLock, TLC
=============================================================================
