CONSTANTS
  Encrypting = FALSE
  Capacity = 2
  MaxChunk = 4
  Block = 2
  PlainSizes = {2, 13}
  Damages = {"intact", "header", "iv", "body", "extended", "shortened"}
  Promises = {0, 6, 14}
  Faults = {"stat", "openRead", "read", "openWrite", "write", "rename", "alloc", "keys"}
  NULL = NULL

SPECIFICATION Spec

INVARIANTS
  TypeOK
  StreamInOrder
  CommitIsAsPromised
  SuccessIsReal
  OrphansOnlyAfterEnd

PROPERTIES
  Ends
  ImplementsRun
