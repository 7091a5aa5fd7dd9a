CONSTANTS
  ExitCodes = {0, 1, 2}
  MaxPolls = 3
SPECIFICATION Spec
INVARIANTS
  VerdictFitsProcess
  NoPollAfterExit
CHECK_DEADLOCK FALSE
