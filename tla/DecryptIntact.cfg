CONSTANTS
  Encrypting = FALSE
  Capacity = 2
  MaxChunk = 4
  Block = 2
  PlainSizes = {9}
  Damages = {"intact"}
  Promises = {}
  Faults = {}
  NULL = NULL

SPECIFICATION Spec

INVARIANT
  MacFailMeansModified
