SPECIFICATION Spec
CONSTANTS
  x = x
  y = y
  z = z
  Fields = {f1, f2}
  Octets = {x, y, z}
  Values <- MCValues
  Null = Null
  Junk = x
  MaxOccurrences = 2
  MaxLength = 2
SYMMETRY Symmetry
CONSTRAINT Short
INVARIANTS
  WithinMemory
  HoldsWhatItWasGiven
  NothingLeaked
\* a process that follows a null pointer is killed
CHECK_DEADLOCK FALSE
