SPECIFICATION FileSpec
CONSTANTS
  PerBlock = 2
  BufSize = 2
  MaxItems = 5
  MaxWords = 2
  MaxCalls = 7
  SmallBuf = 1
INVARIANTS
  EndIsReported
CHECK_DEADLOCK FALSE
