----------------------------- MODULE CostService -----------------------------
(***************************************************************************)
(* What protocol/oracle/Oracle.java offers its user, without clocks,       *)
(* datagrams and threads: a cost is asked for with getCost(), and each ask *)
(* is answered by at most one notification, or never.                      *)
(***************************************************************************)
EXTENDS Naturals

CONSTANT Peer

VARIABLES
  owed,   \* how many answers are still owed of each peer's cost
  told    \* how many answers the user has not taken yet

service == <<owed, told>>

ServiceInit == owed = [d \in Peer |-> 0] /\ told = [d \in Peer |-> 0]

Ask(d) ==
  /\ owed' = [owed EXCEPT ![d] = @ + 1]
  /\ UNCHANGED told

Tell(d) ==
  /\ owed[d] > 0
  /\ owed' = [owed EXCEPT ![d] = @ - 1] /\ told' = [told EXCEPT ![d] = @ + 1]

\* A datagram was lost, or came when nobody waited for it.
Forget(d) ==
  /\ owed[d] > 0
  /\ owed' = [owed EXCEPT ![d] = @ - 1]
  /\ UNCHANGED told

Take(d) ==
  /\ told[d] > 0
  /\ told' = [told EXCEPT ![d] = @ - 1]
  /\ UNCHANGED owed

ServiceNext == \E d \in Peer : Ask(d) \/ Tell(d) \/ Forget(d) \/ Take(d)

ServiceSpec == ServiceInit /\ [][ServiceNext]_service
=============================================================================
