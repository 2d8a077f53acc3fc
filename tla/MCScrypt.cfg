CONSTANTS
  TweakedCipher <- MCCipher
  Ns = {0, 3, 2, 4, 8}
  Rs = {1, 2}
  Ps = {1, 2}
  MaxRP = 4
  Jobs <- MCJobs

SPECIFICATION Spec

CHECK_DEADLOCK FALSE

INVARIANTS
  TypeOK
  LanesApart
  KeyIsStretched
  KnownSalsa
