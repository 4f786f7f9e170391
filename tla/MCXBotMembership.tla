-------------------------- MODULE MCXBotMembership --------------------------
(***************************************************************************)
(* XBotMembership on three or four nodes.  Every oracle measures the same  *)
(* cost for a peer: what a node prefers is then the same everywhere, and   *)
(* no two peers tie.  The nodes are not interchangeable (First, Cost), so  *)
(* there is no symmetry set.                                               *)
(***************************************************************************)
EXTENDS XBotMembership, TLC

CONSTANTS a, b, c, d

ThreeCosts == [n \in Node |-> (a :> 1 @@ b :> 2 @@ c :> 3)]
FourCosts  == [n \in Node |-> (a :> 1 @@ b :> 2 @@ c :> 3 @@ d :> 4)]
=============================================================================
