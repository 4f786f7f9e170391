------------------------- MODULE MCXBotOptimization -------------------------
(***************************************************************************)
(* XBotOptimization on three nodes, all biased, of which c begins up to two *)
(* cycles: the second meets what the first has left under way.             *)
(***************************************************************************)
EXTENDS XBotOptimization, TLC

CONSTANTS a, b, c, nobody

ThreeCosts == [n \in Node |-> (a :> 1 @@ b :> 2 @@ c :> 3)]
Cycles     == a :> 0 @@ b :> 0 @@ c :> 2
=============================================================================
