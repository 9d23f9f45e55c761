--------------------------- MODULE MC_Permissions ---------------------------
\* Permissions instantiated for TLC; the constants come from the cfg.
EXTENDS Permissions, TLC
=============================================================================
