\* Two clients, whose handlers may never return; Start, Stop and Restart
\* as the bounds allow.
CONSTANTS
  Req = {c1, c2}
  MaxStarts = 3
  MaxStops = 2
  StopTimeout = 2
  HangFaults = TRUE
SPECIFICATION LSpec
SYMMETRY ReqSymmetry
PROPERTY StopReturns
CHECK_DEADLOCK FALSE
