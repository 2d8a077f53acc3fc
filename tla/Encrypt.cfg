CONSTANTS
  Encrypting = TRUE
  Capacity = 2
  MaxChunk = 4
  Block = 2
  PlainSizes = {0, 1, 17}
  Damages = {"intact"}
  Promises = {}
  Faults = {"stat", "openRead", "read", "openWrite", "write", "rename", "alloc", "keys"}
  NULL = NULL

SPECIFICATION Spec

INVARIANTS
  TypeOK
  StreamInOrder
  CommitIsAsPromised
  SuccessIsReal
  OverwritesOnlyOnSuccess
  OrphansOnlyAfterEnd

PROPERTIES
  Ends
  ImplementsRun
