CONSTANTS
  Capacity = 3
  c1 = c1
  c2 = c2
  Chunks <- MCChunks
  NULL = NULL

SPECIFICATION Spec

INVARIANTS
  TypeOK
  RoomStands
  PeekStands
  RingInv

PROPERTY
  Implements
