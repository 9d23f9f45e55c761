\* A program holding one Version: it parses strings with New and
\* UnmarshalJSON, releases, and compares against a fixed set of versions.
CONSTANTS
  MaxU = 2
  MaxTag = 2
  Input <- MCInput
  Probe <- MCProbe
  Stage <- MCStage
  NoUpTo = NoUpTo
  NoPart = NoPart
  Nil = Nil

SPECIFICATION VSpec
INVARIANT EqualSymmetric
 
