SPECIFICATION Spec
CONSTANTS
  a = a
  b = b
  h1 = h1
  h2 = h2
  user = user
  owner = owner
  m = m
  None = None
  Other = Other
  Param <- MCParam
  Hash <- MCHash
  Pkey <- MCPkey
  Model <- MCModel
  Jobs <- MCJobs
  MaxLoss = 1
INVARIANTS
  SuccessSound
  ResultIsOfJob
  ConsentedUse
