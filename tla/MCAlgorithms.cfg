INIT Init
NEXT Next
CONSTANTS
  CsvFields <- MCFields
  CsvLines <- MCLines
  CsvNames <- MCNames
  NumberText <- MCNumberTexts
  IntBits = 8
  ByteStrings <- MCByteStrings
  HexTexts <- MCHexTexts
  Base58Texts <- MCBase58Texts
  DerValues <- MCDerValues
  DerTrailers <- MCDerTrailers
  DerInputs <- MCDerInputs
  MaxOidNodes = 4
  OidTable <- MCOidTable
  F26 <- MCF26
  Fe26 <- MCFe26
  Pairs26 <- MCPairs26
  F52 <- MCF52
  Fe52 <- MCFe52
  Pairs52 <- MCPairs52
  S32 <- MCS32
  Sc32 <- MCSc32
  ScPairs32 <- MCScPairs32
  S64 <- MCS64
  Sc64 <- MCSc64
  ScPairs64 <- MCScPairs64
  SmW = 4
  SmN <- MCSmN
  SmMu <- MCSmMu
  SmPFactors = {13, 821, 377263}
  SmNFactors = {13, 331, 653, 1433}
  SmPairs <- MCSmPairs
  SmScalarPairs <- MCSmScalarPairs
  InvPrime = 7
  InvLists <- MCInvLists
  ScalarBytes = 2
  SigOrder = 65521
  SigScalars <- MCSigScalars
  SigBuffers = {7, 8, 9, 10, 11, 12}
  SigInputs <- MCSigInputs
  CompactInputs <- MCCompactInputs
  Block = 8
  BlockBits = 6
  LengthWord = 7
  WordBytes = 3
  RateWords = 3
  MaxMessage = 26
  NonceInputs <- MCNonceInputs
  Sm2P = 31
  Sm2B = 15
  Sm2N = 29
  Sm2G <- MCSm2G
  Sm2Bits = 5
  Sm2Zs = {1, 5}
  Sm2Keys = {1, 5, 14, 28}
  Sm2Digests = {0, 13, 31}
  Sm2Tries <- MCSm2Tries
  Sm2Texts <- MCSm2Texts
  Sm2DigestBytes = 2
  Sm2Numbers <- MCSm2Numbers
  AesS <- MCAesS
  Sm4S <- MCSm4S
  AesKeys <- MCAesKeys
  Sm4Keys <- MCSm4Keys
  CipherBlocks <- MCCipherBlocks
  Sm4FK <- MCSm4FK
  Sm4CK <- MCSm4CK
  CpKeys = {1, 2}
  CpTexts <- MCCpTexts
  IvSize = 2
  PkSize = 4
  MacSize = 2
  HashSize = 2
  AadSize = 4
  PrefixPos = 2
  SizeBits = 5
  CmBlock = 2
  CmBits = 3
  CmPoly = 3
  CmStdIv = 1
  CmCipher <- MCCmCipher
  CmIvs <- MCCmIvs
  CmTexts <- MCCmTexts
  CmCuts <- MCCmCuts
  CmAads <- MCCmAads
  CmGf <- MCCmGf
INVARIANTS
  CellsSound
  WrittenIsRead
  ArithmeticSound
  HashesSound
  Sm2PointsSound
  
  Sm2SecretsSound
  CiphersSound
  MessagesSound
  
CHECK_DEADLOCK FALSE
