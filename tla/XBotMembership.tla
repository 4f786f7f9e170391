--------------------------- MODULE XBotMembership ---------------------------
(***************************************************************************)
(* The membership half of protocol/xbot/XBotNode.java over network/TCP.java*)
(* for a whole overlay: nodes join, introduce each other with forward      *)
(* joins, connect, measure, evict and disconnect.                          *)
(*                                                                         *)
(* A notification is handled in the step that reads it: the bounded queue  *)
(* between the reader and the node thread is left out.  The frames two     *)
(* nodes have under way in one direction are one sequence, whichever of    *)
(* their channels carries them.                                            *)
(***************************************************************************)
EXTENDS XBotViews

CONSTANTS
  First,           \* the node that is created alone and never calls join
  Cost,            \* Cost[n][p]: what n's oracle measures for p
  OracleAnswers,   \* whether pings are ever answered (PlumBotInstance: FALSE)
  Coalesce         \* whether one read may swallow several frames

ASSUME FirstAssumption == First \in Node
ASSUME CostAssumption == Cost \in [Node -> [Node -> Nat]]
ASSUME SwitchAssumption == OracleAnswers \in BOOLEAN /\ Coalesce \in BOOLEAN

VARIABLES
  started,   \* the nodes that exist
  node,      \* node[n]: n's protocol state, request queue and threads
  link       \* link[m][n]: the frames m wrote to n that n has not read

vars == <<started, node, link>>

-----------------------------------------------------------------------------
(* The handlers: the set of states node state s may be in when they return. *)

\* Mutated, not the code: the test of info.active is the wrong way round.
FinishConnectionInverted(s, p) ==
  LET t == [s EXCEPT !.future[p] = "none"]
  IN  CASE s.future[p] = "none"    -> {s}
        [] s.future[p] = "active"  -> AddNewPeerToPassiveView(t, p)
        [] s.future[p] = "passive" -> {AddNewPeerToActiveView(t, p)}

FinishConnection(s, p) ==
  LET t == [s EXCEPT !.future[p] = "none"]
  IN  CASE s.future[p] = "none"    -> {s}
        [] s.future[p] = "passive" -> AddNewPeerToPassiveView(t, p)
        [] s.future[p] = "active"  -> {AddNewPeerToActiveView(t, p)}

\* The first connection a node ever has makes it join, whoever dialled.
HandleConnection(s, p) ==
  {IF t.joining /\ t.thread = "running"
   THEN [Send(t, p, Join) EXCEPT !.joining = FALSE]
   ELSE t : t \in FinishConnection(s, p)}

\* The requests that send msg once to every peer of S, in any order.
Broadcasts(S, msg) ==
  {q \in [1..Cardinality(S) -> [to : S, msg : {msg}]] :
     \A p \in S : \E i \in DOMAIN q : q[i].to = p}

\* Mutated, not the code: the joiner is told of itself.
HandleJoinTellingAll(s, joiner) ==
  LET t == Send(AddNewPeerToActiveView(s, joiner), joiner, AcceptJoin)
  IN  IF t.thread = "dead" \/ t.sender = "dead" THEN {t}
      ELSE {[t EXCEPT !.requests = @ \o q] :
              q \in Broadcasts(t.active, ForwardJoin(joiner, ATTL))}

\* A joiner that must first be measured is sent no AcceptJoin.
HandleJoin(s, joiner) ==
  LET added == AddNewPeerToActiveView(s, joiner)
      t     == IF HasUnbiasedRoom(s) THEN Send(added, joiner, AcceptJoin) ELSE added
  IN  IF t.thread = "dead" \/ t.sender = "dead" THEN {t}
      ELSE {[t EXCEPT !.requests = @ \o q] :
              q \in Broadcasts(t.active \ {joiner}, ForwardJoin(joiner, ATTL))}

\* With nobody to forward to, the loop that draws a peer never ends.
HandleForwardJoin(s, from, joiner, ttl) ==
  IF ttl = 0 \/ Cardinality(s.active) <= 1
  THEN {AddNewPeerToActiveView(s, joiner)}
  ELSE LET passed == IF ttl = PTTL THEN AddNewPeerToPassiveView(s, joiner) ELSE {s}
           next   == s.active \ {from, joiner}
       IN  IF next = {} THEN {[t EXCEPT !.thread = "spinning"] : t \in passed}
           ELSE {Send(t, p, ForwardJoin(joiner, ttl - 1)) : t \in passed, p \in next}

HandleMessage(s, from, f) ==
  CASE f.type = "Join"        -> HandleJoin(s, from)
    [] f.type = "AcceptJoin"  -> {AddNewPeerToActiveView(s, from)}
    [] f.type = "ForwardJoin" -> HandleForwardJoin(s, from, f.joiner, f.ttl)
    [] f.type = "Disconnect"  -> {MovePeerToPassiveView(s, from)}

-----------------------------------------------------------------------------
(* The threads of a node. *)

\* Frames the node thread writes itself, not through its request queue.
Written(s, p) ==
  (IF p \in s.hangup THEN <<HangUp>> ELSE <<>>) \o
  (IF p \in s.dial THEN <<Connecting>> ELSE <<>>)

\* n's step ends in state s, and links is what it left of the frames under
\* way: what a peer n hung up on had sent is lost.
Commit(n, s, links) ==
  /\ node' = [node EXCEPT ![n] = [s EXCEPT !.dial = {}, !.hangup = {}]]
  /\ link' = [m \in Node |-> [p \in Node |->
                IF m = n THEN links[m][p] \o Written(s, p)
                ELSE IF p = n /\ m \in s.hangup THEN <<>>
                ELSE links[m][p]]]
  /\ UNCHANGED started

\* BasicApp creates a node and joins it at a random older one.
JoinAt(n, contact) ==
  /\ n \notin started /\ contact \in started
  /\ node' = [node EXCEPT ![n] = [BeginConnection(@, contact, "active") EXCEPT !.dial = {}]]
  /\ link' = [link EXCEPT ![n][contact] = Append(@, Connecting)]
  /\ started' = started \cup {n}

\* TCP.fulfill: a write on a channel that either end closed is lost ...
SendNext(n) ==
  LET s == node[n]
      r == Head(s.requests)
  IN  /\ s.sender = "running" /\ s.requests # <<>>
      /\ r.to \in s.conn
      /\ node' = [node EXCEPT ![n].requests = Tail(@)]
      /\ link' = IF r.to \in s.closed \/ n \in node[r.to].hung THEN link
                 ELSE [link EXCEPT ![n][r.to] = Append(@, r.msg)]
      /\ UNCHANGED started

\* ... and a peer with no channel is a NullPointerException in the sender.
SendUnconnected(n) ==
  LET s == node[n]
  IN  /\ s.sender = "running" /\ s.requests # <<>>
      /\ Head(s.requests).to \notin s.conn
      /\ node' = [node EXCEPT ![n].sender = "dead", ![n].requests = <<>>]
      /\ UNCHANGED <<started, link>>

\* A read takes the head of link[m][n] and, with it, k messages that arrived
\* in the same buffer and are dropped.
Swallows(m, n, k) ==
  /\ k < Len(link[m][n])
  /\ k > 0 => Coalesce
  /\ \A i \in 2..(k + 1) : link[m][n][i] \in Message

AfterRead(m, n, k) == [link EXCEPT ![m][n] = SubSeq(@, k + 2, Len(@))]

CanRead(n, m) == link[m][n] # <<>> /\ node[n].reader = "running"

\* Mutated, not the code: the side that dialled does not register the channel.
ReadIdUnregistered(n, m) ==
  /\ CanRead(n, m)
  /\ Head(link[m][n]) \in {Connecting, Accepting}
  /\ \E k \in 0..Len(link[m][n]) :
       /\ Swallows(m, n, k)
       /\ LET answers == Head(link[m][n]) = Connecting
              s    == IF answers THEN [node[n] EXCEPT !.conn = @ \cup {m}] ELSE node[n]
              rest == AfterRead(m, n, k)
              lks  == IF answers THEN [rest EXCEPT ![n][m] = Append(@, Accepting)] ELSE rest
          IN  IF s.thread = "running"
              THEN \E t \in HandleConnection(s, m) : Commit(n, t, lks)
              ELSE Commit(n, s, lks)

\* TCP.read of an id: the reader registers the channel, then tells the node.
ReadId(n, m) ==
  /\ CanRead(n, m)
  /\ Head(link[m][n]) \in {Connecting, Accepting}
  /\ \E k \in 0..Len(link[m][n]) :
       /\ Swallows(m, n, k)
       /\ LET s    == [node[n] EXCEPT !.conn = @ \cup {m}]
              rest == AfterRead(m, n, k)
              lks  == IF Head(link[m][n]) = Connecting
                      THEN [rest EXCEPT ![n][m] = Append(@, Accepting)] ELSE rest
          IN  IF s.thread = "running"
              THEN \E t \in HandleConnection(s, m) : Commit(n, t, lks)
              ELSE Commit(n, s, lks)

\* TCP.read of a message
ReadMessage(n, m) ==
  /\ CanRead(n, m)
  /\ Head(link[m][n]) \in Message
  /\ \E k \in 0..Len(link[m][n]) :
       /\ Swallows(m, n, k)
       /\ IF node[n].thread = "running"
          THEN \E t \in HandleMessage(node[n], m, Head(link[m][n])) :
                 Commit(n, t, AfterRead(m, n, k))
          ELSE Commit(n, node[n], AfterRead(m, n, k))

\* TCP.read of "d": the channel is closed, and looking up the listeners of
\* type 'd' ends the reader with a NullPointerException.
ReadHangUp(n, m) ==
  /\ CanRead(n, m)
  /\ Head(link[m][n]) = HangUp
  /\ node' = [node EXCEPT ![n].closed = @ \cup {m}, ![n].reader = "dead"]
  /\ link' = AfterRead(m, n, 0)
  /\ UNCHANGED started

\* handleCost, for a peer whose waiter in costsWaiting is null
HandleCost(n, p) ==
  /\ OracleAnswers
  /\ p \in node[n].asked /\ node[n].thread = "running"
  /\ LET s == [node[n] EXCEPT !.asked = @ \ {p}]
     IN  Commit(n, IF p \in s.waiting
                   THEN AddMeasuredPeerToActiveView(s, p, Cost[n][p]) ELSE s, link)

-----------------------------------------------------------------------------

Init ==
  /\ started = {First}
  /\ node = [n \in Node |-> FreshNode]
  /\ link = [m \in Node |-> [n \in Node |-> <<>>]]

Next ==
  \/ \E n, m \in Node : JoinAt(n, m)
  \/ \E n \in Node : SendNext(n)
  \/ \E n \in Node : SendUnconnected(n)
  \/ \E n, m \in Node : ReadId(n, m)
  \/ \E n, m \in Node : ReadMessage(n, m)
  \/ \E n, m \in Node : ReadHangUp(n, m)
  \/ \E n, p \in Node : HandleCost(n, p)

Spec == Init /\ [][Next]_vars

\* A thread that runs and has something to do does it in the end.
Fairness ==
  /\ \A n \in Node : WF_vars(SendNext(n)) /\ WF_vars(SendUnconnected(n))
  /\ \A n, m \in Node : /\ WF_vars(ReadId(n, m)) /\ WF_vars(ReadMessage(n, m))
                        /\ WF_vars(ReadHangUp(n, m)) /\ WF_vars(HandleCost(n, m))

FairSpec == Spec /\ Fairness

-----------------------------------------------------------------------------
(* Properties. *)

\* Every variable has its type.  In particular the cost of -1 that stands for
\* "not measured yet" (XBotNode.java:743) never gets into the biased view.
TypeOK ==
  /\ started \subseteq Node
  /\ node \in [Node -> NodeState]
  /\ link \in [Node -> [Node -> Seq(Frame)]]

\* However the walks of several joins cross, none comes to the node it
\* introduces, so that no node has itself as a neighbour, a candidate or a
\* connection: the tests at XBotNode.java:430 and 457 are what prevents it.
NoSelf ==
  \A n \in Node :
    /\ n \notin node[n].active \cup node[n].passive \cup node[n].conn
    /\ node[n].future[n] = "none"

\* activeView is kept by hand beside its two parts; through every join,
\* measurement, eviction and disconnect it remains their union.
ViewsAgree == \A n \in Node : node[n].active = node[n].unbiased \cup node[n].biased

\* A channel one end has registered is registered at the other as well, or
\* the id that makes it so is on its way, or the other end has hung up:
\* the exchange of "c" and "a" in TCP.handleIdExchange leaves no half-known
\* connection, even when both ends dial at once.
ConnectionsAgree ==
  \A n, m \in Node :
    m \in node[n].conn /\ n \notin node[m].conn =>
      \/ n \in node[m].hung
      \/ \E i \in DOMAIN link[n][m] : link[n][m][i] = Accepting

\* As PlumBotInstance wires the oracle, no ping is answered and the biased
\* view stays empty: the degree of a node is bounded by unbiasedViewMaxSize
\* alone, whatever joins, forward joins and evictions happen.
WiredDegree ==
  ~OracleAnswers =>
    \A n \in Node : node[n].biased = {} /\ Cardinality(node[n].active) <= UnbiasedMax

\* Once everybody has joined, the overlay falls silent: forward joins run
\* out of ttl, and a Disconnect is not answered with Disconnects for ever
\* (movePeerToPassiveView, XBotNode.java:608, returns early the second time).
Settles == <>[][FALSE]_vars

\* A node that joins gets a neighbour: its contact's answer, or a Join it
\* sent to whoever dialled it first, puts somebody into its active view.
JoinerGetsANeighbour ==
  \A n \in Node :
    (n \in started /\ n # First /\ node[n].joining) ~> node[n].active # {}
=============================================================================
