INIT Init
NEXT Next
CONSTANTS
  P = 19
  B = 3
  Order = 13
  Gx = 1
  Gy = 2
  Beta = 7
  AddedMultiples = {0, 1, 5}
  Scales = {1, 5}
  Bits = 4
  WINDOW_A = 4
  WINDOW_G = 4
  GenWindow = 1
  GenNums = 5
  Factors = {0, 1, 2, 3, 6, 7, 8, 11, 12}
  FewFactors = {0, 1, 6, 12}
  Points = {0, 1, 3, 12}
  WnafScalars <- MCWnafScalars
  WnafWindows = {2, 3, 4, 5}
  ScratchSizes <- MCScratchSizes
  BatchPoints <- MCBatchPoints
  Keys = {0, 1, 6, 12, 13, 20}
  Tweaks = {0, 1, 5, 12, 13, 18}
  Messages = {0, 3, 16}
  Nonces = {0, 1, 4, 7, 11, 13, 17, 26}
INVARIANTS
  GroupSound
  MultiplesSound
  KeysSound
  SignaturesSound
CHECK_DEADLOCK FALSE
