SPECIFICATION FilesSpec
CONSTANTS
  BlockLen = 3
  Files <- MCCsvFiles
  Disturbed <- MCDisturbed
  MaxReset = 1
  MaxCount = 1
  MaxAgain = 2
  PerBlock = 2
  BufSize = 2
  MaxItems = 5
  MaxWords = 2
  MaxCalls = 6
  SmallBuf = 1
  KsKeys = {"k1", "k2", "k3"}
  KsName <- MCKsName
  MaxLoads = 1
  BrHandles = {"h1", "h2"}
  BrFiles = {"f1", "f2"}
  IdBits = 2
  MaxOpens = 5
  MaxStarts = 1
  MaxPos = 1
INVARIANTS
  
  FileSound
  OpenedIsComplete
  KeysLoad
  StreamsSound
PROPERTIES
  CallReturns
  
CHECK_DEADLOCK FALSE
