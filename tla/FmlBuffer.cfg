SPECIFICATION Spec
CONSTANTS
  short1 = short1
  long1 = long1
  Buffers = {b1, b2}
  Fields = {short1, long1}
  Null = Null
  None = None
  Needed <- MCNeeded
  Default = 2
  MaxSize = 4
  MaxBlocks = 2
  Garbage <- MCGarbage
  Sizes = {1}
  Asked = {1}
SYMMETRY Symmetry
INVARIANTS
  FreedOnce
  TypeOK
  OccurrenceHeld
  OneExtendEnough
CONSTRAINT FewAtOnce
\* a program may lose all the memory it has
CHECK_DEADLOCK FALSE
