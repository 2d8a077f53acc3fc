CONSTANTS
  TweakedCipher <- MCCipher
  Sizes = {4, 8, 16}
  Messages = {"TestMsg"}
  MaxUses = 2
  Keys <- MCKeys
  ByteOf <- MCByteOf
  Pieces <- MCPieces
  MaxBytes <- MCMaxBytes

SPECIFICATION Spec

CHECK_DEADLOCK FALSE

INVARIANTS
  TypeOK
  HoldsBack
  DigestIsSkein
  KnownAnswer
