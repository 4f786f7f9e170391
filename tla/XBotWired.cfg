SPECIFICATION FairSpec
CONSTANTS
  a = a  b = b  c = c  d = d
  Node = {a, b, c, d}
  First = a
  Cost <- FourCosts
  UnbiasedMax = 1
  ActiveMax = 3
  PassiveMax = 1
  ATTL = 2
  PTTL = 1
  OracleAnswers = FALSE
  Coalesce = FALSE
INVARIANTS
  WiredDegree
PROPERTIES
  JoinerGetsANeighbour
\* Nodes only join: an overlay that everybody has joined falls silent.
CHECK_DEADLOCK FALSE
