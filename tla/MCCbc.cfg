CONSTANTS
  Sizes = {4, 8, 16}
  Lengths = {1, 4, 16, 17, 37}
  Seeds = {1, 2}
  MaxChunk = 16
  Keys <- Seeds
  Files <- MCFiles
  TextWord <- MCWord
  PadWord <- MCZero
  Cipher <- MCCipher
  Decipher <- MCDecipher
  BlockXor <- MCXor
  IV <- MCIV
  MAGIC_NUMBER <- MCMagic
  Version <- MCVersion
  Num <- MCNum
  Value <- MCValue

SPECIFICATION Spec

INVARIANTS
  TypeOK
  IsCbc
  NothingLost
  RoundTrip
  HeaderTells
