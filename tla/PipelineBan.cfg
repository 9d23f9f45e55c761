SPECIFICATION PSpec
CONSTANTS
  Req = {r1, r2, r3}
  IP <- MCIP
  Whitelist <- MCWhitelist
  Blacklist <- MCBlacklist
  OctBits = 2
  NilIP = NilIP
  Star = Star
  URLScanner = TRUE
  TraceRequired = TRUE
  BruteForce = TRUE
  Capacity = 1
  BanDuration = 2
  MaxTime = 3
  MaxStarts = 1
  NoBan = NoBan
  Modules <- MCModules
  Requests <- MCRequests
SYMMETRY ReqSymmetry
INVARIANT PTypeOK
INVARIANT BanRejectsRoutes
INVARIANT EndpointServes
CHECK_DEADLOCK FALSE
