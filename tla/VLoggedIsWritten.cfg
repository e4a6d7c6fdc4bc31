CONSTANTS
  LogSeverity = {0}
  Text <- MCText
  MaxArgs = 1
  MaxDepth = 1
SPECIFICATION KlogSpec
INVARIANTS
  LoggedIsWritten
CHECK_DEADLOCK FALSE
