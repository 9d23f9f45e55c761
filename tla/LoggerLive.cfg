\* Two goroutines logging twice each at Fatal or Info, a channel of
\* one entry, Setup at any moment with the level off, Warn or Debug and any
\* writer; writes to stdout or the file may fail.
CONSTANTS
  Producer = {p1, p2}
  Entry = {e1, e2, e3, e4}
  NoEntry = NoEntry
  CallLevel = {2, 5}
  SetupLevel = {0, 4, 6}
  QCap = 1
  MaxCalls = 2
  MaxSize = 1
  WriteFaults = TRUE
SPECIFICATION LogSpec
INVARIANT LogTypeOK
INVARIANT EntryOwnership
PROPERTY SentWritten
PROPERTY LogCallReturns
CHECK_DEADLOCK FALSE
