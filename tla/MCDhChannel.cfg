SPECIFICATION ChannelSpec
CONSTANTS
  Initiator = {a1, a2, a3}
  Trusted = {a1, a2}
  Request = {q}
  Body = {b}
  None = None
  IdSpace = 2
  MaxEph = 2
  NonceLimit = 2
  MaxLoss = 1
INVARIANTS
  ChannelTypeOK
  Agreement
  InStep
  AnswersInStep
  PeersVerified
PROPERTIES
  ImplementsRpc
SYMMETRY Symmetry
