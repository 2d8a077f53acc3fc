CONSTANTS
  Passwords = {"sixchr", "longest"}
  PwLength <- MCPwLength
  MinBytes = 6
  KeyFiles = {"keys", "empty"}
  SuccessStatus = "SUCCESS"
  FileLength <- MCFileLength
  Junk = {1, 2}
  Commands <- MCCommands
  FirstFiles <- MCFiles
  Edits <- MCEdits
  TextWords = 8
  MaxRuns = 2
  NULL = NULL
  Brief = TRUE

SPECIFICATION Spec

CHECK_DEADLOCK FALSE

INVARIANT OutputIsExact
