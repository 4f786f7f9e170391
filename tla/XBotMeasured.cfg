SPECIFICATION FairSpec
CONSTANTS
  a = a  b = b  c = c  d = d
  Node = {a, b, c}
  First = a
  Cost <- ThreeCosts
  UnbiasedMax = 1
  ActiveMax = 2
  PassiveMax = 1
  ATTL = 2
  PTTL = 2
  OracleAnswers = TRUE
  Coalesce = TRUE
PROPERTIES
  Settles
  JoinerGetsANeighbour
\* Nodes only join: an overlay that everybody has joined falls silent.
CHECK_DEADLOCK FALSE
