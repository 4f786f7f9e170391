--------------------------- MODULE TimeCostOracle ---------------------------
(***************************************************************************)
(* protocol/oracle/TimeCostOracle.java on its UDP network, with the node   *)
(* that uses it: how long a ping takes to be answered is the cost of a     *)
(* peer.                                                                   *)
(*                                                                         *)
(* Six threads share its maps and hand each other work through bounded     *)
(* queues: the node's thread and its optimization timer call getCost(),    *)
(* UDP's sender takes the pings, its reader brings the answers, the        *)
(* oracle's thread tells the node, and TCP's reader fills the same queue.  *)
(* A method is cut where it touches what another thread may change.  put() *)
(* on a full queue blocks; add() on one throws, and as nothing catches     *)
(* that the thread ends (dead).                                            *)
(*                                                                         *)
(* A time is only older or younger than the ttl.  The network loses and    *)
(* reorders datagrams and does not duplicate them.  Whether peers answer   *)
(* at all is up to the fairness: in PlumBotInstance they do not.  A map    *)
(* operation is taken for atomic although HashMap promises none.           *)
(***************************************************************************)
EXTENDS Naturals, Sequences, FiniteSets

CONSTANTS
  Peer,          \* the peers whose cost may be asked
  NoPeer,        \* null, what chooseCand() gives for an empty passive view
  InboxSize,     \* of XBotNode.notifications
  RequestsSize,  \* of UDP.requests
  RepliesSize,   \* of the oracle's notifications
  CostsSize,     \* how many costs are kept
  MaxInFlight    \* bound: pings to one peer under way

Asked == Peer \cup {NoPeer}
Caller == {"node", "timer"}
Thread == Caller \cup {"oracle", "udpIn", "udpOut", "tcpIn"}

ASSUME PeerAssumption == NoPeer \notin Peer /\ IsFiniteSet(Peer)
ASSUME SizeAssumption ==
  /\ InboxSize \in Nat \ {0} /\ RequestsSize \in Nat \ {0} /\ RepliesSize \in Nat \ {0}
  /\ CostsSize \in Nat \ {0} /\ MaxInFlight \in Nat \ {0}

VARIABLES
  costs,     \* of each peer: none, fresh (younger than costTTL) or old
  pings,     \* keys of the map of that name
  inbox,     \* XBotNode.notifications: messages and costs
  requests,  \* UDP.requests: whom to ping
  replies,   \* the oracle's notifications
  air,       \* of each peer: pings and answers under way
  at,        \* where in its method each thread stands, and the peer it is about
  dead       \* threads that an exception has ended

queueVars == <<inbox, requests, replies>>
vars == <<costs, pings, queueVars, air, at, dead>>

Step == {"idle", "look", "send", "record", "put", "forget"}
Idle == [step |-> "idle", peer |-> NoPeer]
Ready(t) == at[t] = Idle /\ t \notin dead
Goto(t, s, d) == at' = [at EXCEPT ![t] = [step |-> s, peer |-> d]]
Return(t) == at' = [at EXCEPT ![t] = Idle]

Cost(d)    == [type |-> "cost", peer |-> d]
Message(d) == [type |-> "message", peer |-> d]

\* XBotNode.notify(): what the calling thread does next is for the caller to say.
Notify(n) == Len(inbox) < InboxSize /\ inbox' = Append(inbox, n) /\ UNCHANGED dead

\* add() has thrown in the calling thread.
Overflow(t) ==
  /\ Len(inbox) = InboxSize
  /\ dead' = dead \cup {t} /\ Return(t) /\ UNCHANGED inbox

-----------------------------------------------------------------------------
(* getCost(), on the thread of its caller. *)

\* isExpired() is true while the cost is fresh (l.197).
IsExpired(d) == costs[d] = "fresh"
HasCost(d) == d \in Peer /\ costs[d] # "none"

\* Mutated, not the code: the caller waits for room in the node's queue.
LookAndWait(t) ==
  LET d == at[t].peer IN
  /\ at[t].step = "look"
  /\ \/ /\ HasCost(d) /\ ~IsExpired(d)
        /\ Notify(Cost(d)) /\ Return(t) /\ UNCHANGED costs
     \/ /\ HasCost(d) /\ IsExpired(d)
        /\ costs' = [costs EXCEPT ![d] = "none"] /\ Goto(t, "send", d)
        /\ UNCHANGED <<inbox, dead>>
     \/ /\ ~HasCost(d)
        /\ Goto(t, "send", d) /\ UNCHANGED <<costs, inbox, dead>>
  /\ UNCHANGED <<pings, requests, replies, air>>

Look(t) ==
  LET d == at[t].peer IN
  /\ at[t].step = "look"
  /\ \/ /\ HasCost(d) /\ ~IsExpired(d)
        /\ (Notify(Cost(d)) /\ Return(t)) \/ Overflow(t)
        /\ UNCHANGED costs
     \/ /\ HasCost(d) /\ IsExpired(d)
        /\ costs' = [costs EXCEPT ![d] = "none"] /\ Goto(t, "send", d)
        /\ UNCHANGED <<inbox, dead>>
     \/ /\ ~HasCost(d)
        /\ Goto(t, "send", d) /\ UNCHANGED <<costs, inbox, dead>>
  /\ UNCHANGED <<pings, requests, replies, air>>

\* Network.send() waits for room, ...
SendPing(t) ==
  /\ at[t].step = "send" /\ Len(requests) < RequestsSize
  /\ requests' = Append(requests, at[t].peer) /\ Goto(t, "record", at[t].peer)
  /\ UNCHANGED <<costs, pings, inbox, replies, air, dead>>

\* Mutated, not the code: only a ping that is sent again is recorded (l.87).
RecordAgain(t) ==
  /\ at[t].step = "record" /\ Return(t)
  /\ UNCHANGED <<costs, pings, queueVars, air, dead>>

\* ... and only then the time is recorded.
Record(t) ==
  /\ at[t].step = "record"
  /\ pings' = pings \cup {at[t].peer} /\ Return(t)
  /\ UNCHANGED <<costs, queueVars, air, dead>>

GetCost(t) == Look(t) \/ SendPing(t) \/ Record(t)

-----------------------------------------------------------------------------
(* Who calls it. *)

\* The node takes a notification: a message may bring a peer to measure.
NodeTakes ==
  /\ Ready("node") /\ inbox # <<>>
  /\ inbox' = Tail(inbox)
  /\ \/ Head(inbox).type = "message" /\ Goto("node", "look", Head(inbox).peer)
     \/ UNCHANGED at
  /\ UNCHANGED <<costs, pings, requests, replies, air, dead>>

\* XBotInit.optimize(): the candidate may be null (XBotInit l.49).
TimerAsks ==
  /\ Ready("timer")
  /\ \E d \in Asked : Goto("timer", "look", d)
  /\ UNCHANGED <<costs, pings, queueVars, air, dead>>

\* Another reader brings the node a message.
MessageArrives ==
  /\ Ready("tcpIn")
  /\ \/ \E d \in Peer : Notify(Message(d)) /\ UNCHANGED at
     \/ Overflow("tcpIn")
  /\ UNCHANGED <<costs, pings, requests, replies, air>>

-----------------------------------------------------------------------------
(* UDP: pings out, answers in. *)

\* fulfill(): the datagram may be lost, and sending to null throws.
Fulfill ==
  /\ "udpOut" \notin dead /\ requests # <<>>
  /\ requests' = Tail(requests)
  /\ LET d == Head(requests) IN
     \/ d = NoPeer /\ dead' = dead \cup {"udpOut"} /\ UNCHANGED air
     \/ /\ d # NoPeer /\ air[d] < MaxInFlight
        /\ air' = [air EXCEPT ![d] = @ + 1] /\ UNCHANGED dead
     \/ d # NoPeer /\ UNCHANGED <<air, dead>>
  /\ UNCHANGED <<costs, pings, inbox, replies, at>>

Known == {d \in Peer : costs[d] # "none"}

\* A cost is kept, in place of any one of them where there is no room.
Keep(d) ==
  \/ /\ Cardinality(Known) >= CostsSize
     /\ \E e \in Known : costs' = [costs EXCEPT ![e] = "none", ![d] = "fresh"]
  \/ /\ Cardinality(Known) < CostsSize
     /\ costs' = [costs EXCEPT ![d] = "fresh"]

\* notify(): an answer to no ping is ignored.
PingBack(d) ==
  /\ Ready("udpIn") /\ air[d] > 0
  /\ air' = [air EXCEPT ![d] = @ - 1]
  /\ \/ d \in pings /\ Keep(d) /\ Goto("udpIn", "put", d)
     \/ d \notin pings /\ UNCHANGED <<costs, at>>
  /\ UNCHANGED <<pings, queueVars, dead>>

\* Mutated, not the code: there is always room.
PutAnyway ==
  /\ at["udpIn"].step = "put"
  /\ replies' = Append(replies, at["udpIn"].peer) /\ Return("udpIn")
  /\ UNCHANGED <<costs, pings, inbox, requests, air, dead>>

PutReply ==
  /\ at["udpIn"].step = "put" /\ Len(replies) < RepliesSize
  /\ replies' = Append(replies, at["udpIn"].peer) /\ Return("udpIn")
  /\ UNCHANGED <<costs, pings, inbox, requests, air, dead>>

-----------------------------------------------------------------------------
(* The oracle's own thread. *)

\* Mutated, not the code: the answer stays where it was taken from.
OracleRepeats ==
  /\ Ready("oracle") /\ replies # <<>>
  /\ \/ Notify(Cost(Head(replies))) /\ Goto("oracle", "forget", Head(replies))
     \/ Overflow("oracle")
  /\ UNCHANGED <<costs, pings, requests, replies, air>>

\* Mutated, not the code: the oracle waits for room in the node's queue.
OracleWaits ==
  /\ Ready("oracle") /\ replies # <<>>
  /\ replies' = Tail(replies)
  /\ Notify(Cost(Head(replies))) /\ Goto("oracle", "forget", Head(replies))
  /\ UNCHANGED <<costs, pings, requests, air>>

OracleTells ==
  /\ Ready("oracle") /\ replies # <<>>
  /\ replies' = Tail(replies)
  /\ \/ Notify(Cost(Head(replies))) /\ Goto("oracle", "forget", Head(replies))
     \/ Overflow("oracle")
  /\ UNCHANGED <<costs, pings, requests, air>>

\* Only now, so that a ping that was sent meanwhile is forgotten too.
OracleForgets ==
  /\ at["oracle"].step = "forget"
  /\ pings' = pings \ {at["oracle"].peer} /\ Return("oracle")
  /\ UNCHANGED <<costs, queueVars, air, dead>>

Oracle == OracleTells \/ OracleForgets

CostAges ==
  /\ \E d \in Peer : costs[d] = "fresh" /\ costs' = [costs EXCEPT ![d] = "old"]
  /\ UNCHANGED <<pings, queueVars, air, at, dead>>

-----------------------------------------------------------------------------
Init ==
  /\ costs = [d \in Peer |-> "none"] /\ pings = {} /\ dead = {}
  /\ inbox = <<>> /\ requests = <<>> /\ replies = <<>>
  /\ air = [d \in Peer |-> 0] /\ at = [t \in Thread |-> Idle]

Next ==
  \/ \E t \in Caller : GetCost(t)
  \/ NodeTakes \/ TimerAsks \/ MessageArrives
  \/ Fulfill \/ PutReply \/ Oracle \/ CostAges
  \/ \E d \in Peer : PingBack(d)

Spec == Init /\ [][Next]_vars

\* A thread that can go on does, and one of the two that wait for room in a
\* queue gets it in the end.  Nobody has to send a message, to optimize or to
\* answer a ping.
Fairness ==
  /\ \A t \in Caller : SF_vars(GetCost(t))
  /\ WF_vars(NodeTakes) /\ WF_vars(Fulfill) /\ WF_vars(PutReply) /\ WF_vars(Oracle)

FairSpec == Spec /\ Fairness

-----------------------------------------------------------------------------
(* Properties *)

TypeOK ==
  /\ costs \in [Peer -> {"none", "fresh", "old"}] /\ pings \subseteq Asked
  /\ inbox \in Seq([type : {"cost", "message"}, peer : Peer]) /\ Len(inbox) <= InboxSize
  /\ requests \in Seq(Asked) /\ Len(requests) <= RequestsSize
  /\ replies \in Seq(Peer) /\ Len(replies) <= RepliesSize
  /\ air \in [Peer -> 0..MaxInFlight]
  /\ at \in [Thread -> [step : Step, peer : Asked]] /\ dead \subseteq Thread

\* No more costs are kept than costsSize, although callers throw costs away
\* and the reader keeps new ones at the same time (l.128).
CostsFit == Cardinality(Known) <= CostsSize

\* However pings, answers, the ageing of costs and the death of threads
\* interleave, the node is told at most one cost for each time it asked.
Occurrences(seq, d) == Cardinality({i \in DOMAIN seq : seq[i] = d})
Holds(t, steps, d) == IF at[t].step \in steps /\ at[t].peer = d THEN 1 ELSE 0
OwedBy(d) ==
  Holds("node", {"look", "send"}, d) + Holds("timer", {"look", "send"}, d)
  + Occurrences(requests, d) + (IF d \in Peer THEN air[d] ELSE 0)
  + Holds("udpIn", {"put"}, d) + Occurrences(replies, d)
Service ==
  INSTANCE CostService WITH
    Peer <- Asked,
    owed <- [d \in Asked |-> OwedBy(d)],
    told <- [d \in Asked |-> Occurrences(inbox, Cost(d))]
ImplementsService == Service!ServiceSpec

\* A caller that waits for room in UDP's queue gets it, unless the sender has
\* been ended by a null candidate: no cycle of full queues stops the node
\* (Network l.46, XBotNode l.189).
CallersComeBack ==
  \A t \in Caller : at[t] # Idle ~> (at[t] = Idle \/ "udpOut" \in dead)

\* The reader that waits for room in the oracle's queue gets it, unless the
\* oracle's thread has been ended by a full queue of the node's.
ReaderComesBack == at["udpIn"] # Idle ~> (at["udpIn"] = Idle \/ "oracle" \in dead)

\* While no thread ends, a node that goes on asking for the cost of a peer that
\* goes on answering goes on being told it, although an answer that comes
\* before its ping was recorded is ignored (l.82-89), and the record of a ping
\* sent again may be removed with the one before (l.178).
CostsKeepComing ==
  \A d \in Peer :
    (/\ []<>(at["node"] = [step |-> "look", peer |-> d])
     /\ []<><<PingBack(d)>>_vars
     /\ [](dead = {}))
    => []<>(\E i \in DOMAIN inbox : inbox[i] = Cost(d))

\* l.34: costs are kept "so we don't waste time recalculating"; the code
\* measures again exactly while the cost is fresh.
FreshCostsAreUsed ==
  [][\A t \in Caller :
       at[t].step = "look" /\ at'[t].step = "send"
       => at[t].peer = NoPeer \/ costs[at[t].peer] # "fresh"]_vars
=============================================================================
