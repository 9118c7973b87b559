SPECIFICATION FairSpec
CONSTANTS
  NumFiles = 3
  FileLines <- MCFileLines
  Malformed <- MCMalformed
  MaxFaults = 4
INVARIANTS
  AtMostOnce
  CountTellsPrefix
  ReturnMeansLoaded
  LeftClean
PROPERTIES
  LoadSpec
  Forward
  Terminates
\* the process exits
CHECK_DEADLOCK FALSE
