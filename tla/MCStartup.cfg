SPECIFICATION Spec
CONSTANTS
  NULL = NULL
  Argvs <- MCArgvs
  Atoi <- MCAtoi
  MaxArgs = 3
INVARIANTS
  ParsedAsWritten
  OwnedOnce
  ExitReleasesAll
CHECK_DEADLOCK FALSE
