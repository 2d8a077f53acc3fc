CONSTANTS
  Encrypting = FALSE
  Capacity = 2
  MaxChunk = 4
  Block = 2
  PlainSizes = {9}
  Damages = {"header", "iv"}
  Promises = {0, 5, 9, 20}
  Faults = {}
  NULL = NULL

SPECIFICATION Spec

INVARIANT
  HeaderChangeAborts
