SPECIFICATION FairCycleSpec
CONSTANTS
  a = a  b = b  c = c  nobody = nobody
  Node = {a, b, c}
  Nobody = nobody
  MaxCycles <- Cycles
  First = a
  Cost <- ThreeCosts
  UnbiasedMax = 0
  ActiveMax = 2
  PassiveMax = 1
  ATTL = 2
  PTTL = 2
  OracleAnswers = TRUE
  Coalesce = FALSE
INVARIANTS
  CycleTypeOK
  NoSelf
  
  
PROPERTIES
  OptimizationIsAnswered
  CycleSettles
\* Nodes only join and begin a bounded number of cycles: all falls silent.
CHECK_DEADLOCK FALSE
