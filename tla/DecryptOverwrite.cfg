CONSTANTS
  Encrypting = FALSE
  Capacity = 2
  MaxChunk = 4
  Block = 2
  PlainSizes = {9}
  Damages = {"intact", "header", "iv", "body", "extended", "shortened"}
  Promises = {5}
  Faults = {}
  NULL = NULL

SPECIFICATION Spec

INVARIANT
  OverwritesOnlyOnSuccess
