SPECIFICATION Spec
CONSTANTS
  Graphs <- MCGraphs
  Keep = {1}
  Bad = {3}
  MaxKey = 3
  MaxLen = 3
INVARIANTS
  QueueSound
  EndedComplete
  InOrder
PROPERTIES
  RunEnds
