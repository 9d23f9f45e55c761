--------------------------- MODULE MC_Membership ---------------------------
(* Instantiation of Membership for TLC: nodes and the sentinels are model *)
(* values given in the .cfg files.                                         *)
EXTENDS Membership, TLC
=============================================================================
