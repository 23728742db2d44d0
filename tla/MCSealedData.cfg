SPECIFICATION Spec
CONSTANTS
  PerBlock = 2
  BufSize = 4
  Size <- MCSize
  MaxItemSize = 3
  MaxData = 4
  MaxProviders = 2
INVARIANTS
  SealingSound
  VerifiedIsSealed
PROPERTIES
  IntactIsVerified
CHECK_DEADLOCK FALSE
