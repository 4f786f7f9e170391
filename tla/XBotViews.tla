------------------------------ MODULE XBotViews ------------------------------
(***************************************************************************)
(* The state of one node of the overlay (protocol/xbot/XBotNode.java with  *)
(* the maps of its network/TCP.java) and what its private methods do to    *)
(* it: moving peers between the unbiased, biased, active and passive       *)
(* views, beginning a connection, asking the oracle for a cost, queueing a *)
(* message.  An operator here takes the node's state s and returns the     *)
(* state the method leaves, or the set of them where the method draws at   *)
(* random; XBotMembership and the modules after it make handlers of them.  *)
(*                                                                         *)
(* A node runs three threads the model tells apart: the node thread        *)
(* (XBotNode.processNotification), the sender (TCP.fulfill) and the reader *)
(* (TCP.listenToSelector).  An exception none of them catches ends the     *)
(* thread it is thrown in and nothing else, so each has a status.          *)
(***************************************************************************)
EXTENDS Integers, Sequences, FiniteSets

CONSTANTS
  Node,            \* the addresses of the overlay's nodes
  UnbiasedMax,     \* unbiasedViewMaxSize
  ActiveMax,       \* activeViewMaxSize
  PassiveMax,      \* passiveViewMaxSize
  ATTL,            \* attl, the ttl a forward join starts with
  PTTL             \* pttl, the ttl at which a forward join fills passive views

ASSUME NodeAssumption == IsFiniteSet(Node)
ASSUME SizeAssumption ==
  /\ UnbiasedMax \in Nat /\ ActiveMax \in Nat /\ PassiveMax \in Nat \ {0}
  /\ UnbiasedMax < ActiveMax
ASSUME TtlAssumption == ATTL \in Nat /\ PTTL \in Nat

-----------------------------------------------------------------------------
(* Frames.  "c", "a" and "d" are TCP.java's own; the others carry a message. *)

Connecting == [type |-> "c"]
Accepting  == [type |-> "a"]
HangUp     == [type |-> "d"]
Join       == [type |-> "Join"]
AcceptJoin == [type |-> "AcceptJoin"]
Disconnect == [type |-> "Disconnect"]
ForwardJoin(joiner, ttl) == [type |-> "ForwardJoin", joiner |-> joiner, ttl |-> ttl]

Message == {Join, AcceptJoin, Disconnect}
             \cup {ForwardJoin(j, t) : j \in Node, t \in 0..ATTL}
Frame   == {Connecting, Accepting, HangUp} \cup Message
Request == [to : Node, msg : Message]

NodeState ==
  [joining  : BOOLEAN,
   unbiased : SUBSET Node, biased : SUBSET Node,
   cost     : [Node -> Nat],  \* BiasedInetAddress.cost, 0 outside biased
   active   : SUBSET Node, passive : SUBSET Node,
   future   : [Node -> {"none", "active", "passive"}],   \* futureConnections
   waiting  : SUBSET Node,    \* costsWaiting, each key with the edge null
   asked    : SUBSET Node,    \* costs the oracle still owes
   conn     : SUBSET Node,    \* TCP.connections
   closed   : SUBSET Node,    \* of conn: the channel was closed by a "d"
   hung     : SUBSET Node,    \* peers this node wrote "d" to
   dial     : SUBSET Node,    \* peers to write "c" to as this step ends
   hangup   : SUBSET Node,    \* peers to write "d" to as this step ends
   requests : Seq(Request),
   thread   : {"running", "dead", "spinning"},
   sender   : {"running", "dead"},
   reader   : {"running", "dead"}]

FreshNode ==
  [joining |-> TRUE, unbiased |-> {}, biased |-> {}, cost |-> [p \in Node |-> 0],
   active |-> {}, passive |-> {}, future |-> [p \in Node |-> "none"],
   waiting |-> {}, asked |-> {}, conn |-> {}, closed |-> {}, hung |-> {},
   dial |-> {}, hangup |-> {}, requests |-> <<>>,
   thread |-> "running", sender |-> "running", reader |-> "running"]

-----------------------------------------------------------------------------

\* NetworkInterface.send: a queue whose taker is gone is never read again.
Send(s, to, msg) ==
  IF s.sender = "dead" THEN s
  ELSE [s EXCEPT !.requests = Append(@, [to |-> to, msg |-> msg])]

\* getCost(peer, null): oracle.getCost, then costsWaiting.put
GetCost(s, p) == [s EXCEPT !.asked = @ \cup {p}, !.waiting = @ \cup {p}]

\* An exception that leaves processNotification ends the node thread.
Die(s) == [s EXCEPT !.thread = "dead"]

FutureSize(s) == Cardinality({p \in Node : s.future[p] # "none"})

\* Mutated, not the code: the unbiased view keeps the peer.
MoveKeepingUnbiased(s, p) ==
  IF p \notin s.active THEN s
  ELSE Send([s EXCEPT !.active = @ \ {p}, !.biased = @ \ {p}, !.cost[p] = 0,
                      !.passive = @ \cup {p}],
            p, Disconnect)

\* Mutated, not the code: a peer that is not active is disconnected as well.
MoveWithoutCheck(s, p) ==
  Send([s EXCEPT !.active = @ \ {p}, !.biased = @ \ {p}, !.cost[p] = 0,
                 !.unbiased = @ \ {p}, !.passive = @ \cup {p}],
       p, Disconnect)

MovePeerToPassiveView(s, p) ==
  IF p \notin s.active THEN s
  ELSE Send([s EXCEPT !.active = @ \ {p}, !.biased = @ \ {p}, !.cost[p] = 0,
                      !.unbiased = @ \ {p}, !.passive = @ \cup {p}],
            p, Disconnect)

\* activeView.size() == activeViewMaxSize - futureConnections.size()
NoRoom(s) == Cardinality(s.active) + FutureSize(s) = ActiveMax

\* biasedActiveView.last()
WorstBiasedPeer(s) ==
  CHOOSE p \in s.biased : \A q \in s.biased : s.cost[q] <= s.cost[p]

\* last() of an empty TreeSet throws.
MakeRoom(s) ==
  IF ~NoRoom(s) THEN s
  ELSE IF s.biased = {} THEN Die(s)
  ELSE MovePeerToPassiveView(s, WorstBiasedPeer(s))

\* Mutated, not the code: <= for <.
HasRoomForOneMore(s) == Cardinality(s.unbiased) <= UnbiasedMax

HasUnbiasedRoom(s) == Cardinality(s.unbiased) < UnbiasedMax

AddUnbiased(s, p) == [s EXCEPT !.unbiased = @ \cup {p}, !.active = @ \cup {p}]

\* addPeerToBiasedActiveView(peer, cost); a peer that is there keeps its cost.
AddBiased(s, p, cost) ==
  LET t == MakeRoom(s)
  IN  IF t.thread = "dead" THEN t
      ELSE [t EXCEPT !.cost[p] = IF p \in t.biased THEN @ ELSE cost,
                     !.biased = @ \cup {p}, !.active = @ \cup {p}]

\* Mutated, not the code: a cost of -1, not known yet, is taken as measured.
MeasureSkipped(s, p) == AddBiased(s, p, -1)

\* addPeerToBiasedActiveView(peer)
MeasureForBiased(s, p) ==
  LET t == MakeRoom(s)
  IN  IF t.thread = "dead" THEN t ELSE GetCost(t, p)

\* addNewPeerToActiveView(peer), and (peer, info) with the cost -1
AddNewPeerToActiveView(s, p) ==
  IF HasUnbiasedRoom(s) THEN AddUnbiased(s, p) ELSE MeasureForBiased(s, p)

\* addNewPeerToActiveView(peer, cost)
AddMeasuredPeerToActiveView(s, p, cost) ==
  IF HasUnbiasedRoom(s) THEN AddUnbiased(s, p) ELSE AddBiased(s, p, cost)

\* futureConnections.put and tcp.connect, which does nothing once connected
BeginConnection(s, p, kind) ==
  [s EXCEPT !.future[p] = kind,
            !.dial = IF p \in s.conn THEN @ ELSE @ \cup {p}]

\* passiveView.remove and tcp.disconnect
DropFromPassiveView(s, p) ==
  LET open == {p} \cap (s.conn \ s.closed)
  IN  [s EXCEPT !.passive = @ \ {p}, !.conn = @ \ open,
                !.hung = @ \cup open, !.hangup = @ \cup open]

\* The states addNewPeerToPassiveView may end in: the peer dropped is random.
AddNewPeerToPassiveView(s, p) ==
  IF Cardinality(s.passive) = PassiveMax
  THEN {BeginConnection(DropFromPassiveView(s, q), p, "passive") : q \in s.passive}
  ELSE {BeginConnection(s, p, "passive")}
=============================================================================
