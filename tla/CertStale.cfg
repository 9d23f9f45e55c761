\* Two clients, every configuration and initial file, a certificate life
\* of two ticks and four ticks of time, so that a cached certificate can
\* outlive its NotAfter.
CONSTANTS
  Client = {c1, c2}
  CertLife = 2
  MaxTime = 4
  NoCert = NoCert
SPECIFICATION CertSpec
INVARIANT ServedCertValid
CHECK_DEADLOCK FALSE
