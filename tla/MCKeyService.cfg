SPECIFICATION Spec
CONSTANTS
  a1 = a1
  a2 = a2
  h1 = h1
  h2 = h2
  s1 = s1
  s2 = s1
  Initiator = {a1, a2}
  Trusted = {a1, a2}
  Request = {p1}
  Body <- MCBody
  None = None
  IdSpace = 2
  MaxEph = 2
  NonceLimit = 1
  MaxLoss = 1
  Dian = {e1, e2}
  Stored = {e1, e2}
  Ehash = {h1, h2, any}
  AnyEnclave = any
  Identity <- MCIdentity
  SelfSigner = s1
  Policies = {}
  MaxIssued = 2
INVARIANTS
  ForwardedServed
  KeyUse
SYMMETRY Symmetry
