---------------------------- MODULE MC_Lifecycle ----------------------------
EXTENDS Lifecycle, TLC

ReqSymmetry == Permutations(Req)
=============================================================================
