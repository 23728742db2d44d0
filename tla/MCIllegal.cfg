INIT Init
NEXT Next
CONSTANTS
  P = 19
  B = 3
  Order = 13
  Gx = 1
  Gy = 2
  Beta = 7
  AddedMultiples = {1}
  Scales = {1}
  Bits = 4
  WINDOW_A = 4
  WINDOW_G = 4
  GenWindow = 1
  GenNums = 5
  Factors = {1}
  FewFactors = {1}
  Points = {1}
  WnafScalars <- MCWnafScalars
  WnafWindows = {2}
  ScratchSizes = {3000}
  BatchPoints = {1}
  Keys = {1, 6}
  Tweaks = {1}
  Messages = {0}
  Nonces = {1}
INVARIANT
  IllegalAborts
CHECK_DEADLOCK FALSE
