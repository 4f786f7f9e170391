------------------------- MODULE MCTimeCostOracle -------------------------
(* Instances of TimeCostOracle for TLC. *)
EXTENDS TimeCostOracle

CONSTANTS p, q, null
==========================================================================
