INIT CallInit
NEXT SmNumbersNext
CONSTANTS
  SmW = 4
  SmN <- MCSmN
  SmMu <- MCSmMu
  SmPFactors = {13, 821, 377263}
  SmNFactors = {13, 331, 653, 1433}
  SmPairs = {}
  SmScalarPairs <- MCSmScalarPairs
INVARIANT BarrettQuotient
CHECK_DEADLOCK FALSE
