CONSTANTS
  Passwords = {"sixchr", "longest"}
  PwLength <- MCPwLength
  MinBytes = 6
  KeyFiles = {"keys", "empty"}
  SuccessStatus = "SUCCESS"
  FileLength <- MCFileLength
  Junk = {1, 2}
  Commands <- MCCommands
  FirstFiles <- MCFiles
  Edits <- MCEdits
  TextWords = 8
  MaxRuns = 3
  NULL = NULL
  Brief = FALSE

SPECIFICATION Spec

CHECK_DEADLOCK FALSE

INVARIANTS
  TypeOK
  FilesWhole
  NoLitter
  Delivered
  SameSecretOpens
  FreesOwn
  AsAsked
