-------------------------- MODULE MC_CertProvider --------------------------
\* CertProvider instantiated for TLC; the constants come from the cfg.
EXTENDS CertProvider, TLC
=============================================================================
