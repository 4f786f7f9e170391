------------------------- MODULE XBotMembership_proofs -------------------------
(***************************************************************************)
(* Proofs about XBotMembership for any number of nodes, any view sizes and *)
(* any ttl.  Inv says what every reachable state is like: each node is in  *)
(* one of its own states (StateOf), the frames under way are the ones      *)
(* their receiver may get, and the two ends of a connection agree on it.   *)
(* As in XBotViews_proofs, X has the messages of other protocols that are  *)
(* queued and under way: every step of the membership keeps Inv(X) for any *)
(* X, and Spec has none (InvHolds).                                        *)
(***************************************************************************)
EXTENDS XBotMembership, XBotViews_proofs

\* The frames m may write to n: none to itself, none that introduces n to n.
FrameFor(m, n, X) == {f \in Frame \cup X : m # n /\ ProperTo(n, f)}

ProperLinks(links, X) ==
  /\ links \in [Node -> [Node -> Seq(Frame \cup X)]]
  /\ \A m, n \in Node : links[m][n] \in Seq(FrameFor(m, n, X))

\* The state a node is in between two of its steps.
NodeInv(n, s, X) ==
  /\ s \in StateOf(n, X)
  /\ Sound(s)
  /\ ~OracleAnswers => s.biased = {}

Inv(X) ==
  /\ started \subseteq Node
  /\ node = [n \in Node |-> node[n]]
  /\ \A n \in Node : NodeInv(n, node[n], X)
  /\ ProperLinks(link, X)

-----------------------------------------------------------------------------
(* The handlers. *)

LEMMA FinishIsProper ==
  ASSUME NEW X, NEW n \in Node, NEW s \in StateOf(n, X), NEW p \in Node \ {n},
         NEW t \in FinishConnection(s, p)
  PROVE  t \in StateOf(n, X) /\ (Sound(s) => Sound(t)) /\ Keeps(s, t)
<1> DEFINE u == [s EXCEPT !.future[p] = "none"]
<1>1. u \in StateOf(n, X) /\ (Sound(s) => Sound(u)) /\ Keeps(s, u)
  BY DEF StateOf, Sound, Keeps, KeepsChannels
<1>2. s.future[p] \in {"none", "active", "passive"}
  BY DEF StateOf
<1>3. CASE s.future[p] = "none"
  BY <1>3 DEF FinishConnection, Keeps, KeepsChannels
<1>4. CASE s.future[p] = "passive"
  <2>1. t \in AddNewPeerToPassiveView(u, p)
    BY <1>4 DEF FinishConnection
  <2>2. t \in StateOf(n, X) /\ (Sound(u) => Sound(t)) /\ Keeps(u, t)
    BY <1>1, <2>1, AddPassiveIsProper, AddPassiveKeeps
  <2> QED BY <1>1, <2>2 DEF Keeps, KeepsChannels
<1>5. CASE s.future[p] = "active"
  <2>1. t = AddNewPeerToActiveView(u, p)
    BY <1>5 DEF FinishConnection
  <2>2. t \in StateOf(n, X) /\ (Sound(u) => Sound(t)) /\ Keeps(u, t)
    BY <1>1, <2>1, AddNewIsProper, AddNewKeeps
  <2> QED BY <1>1, <2>2 DEF Keeps, KeepsChannels
<1> QED BY <1>2, <1>3, <1>4, <1>5

LEMMA ConnectionIsProper ==
  ASSUME NEW X, NEW n \in Node, NEW s \in StateOf(n, X), NEW p \in Node \ {n},
         NEW t \in HandleConnection(s, p)
  PROVE  t \in StateOf(n, X) /\ (Sound(s) => Sound(t)) /\ Keeps(s, t)
<1>1. PICK u \in FinishConnection(s, p) :
        t = IF u.joining /\ u.thread = "running"
            THEN [Send(u, p, Join) EXCEPT !.joining = FALSE] ELSE u
  BY DEF HandleConnection
<1>2. u \in StateOf(n, X) /\ (Sound(s) => Sound(u)) /\ Keeps(s, u)
  BY FinishIsProper
<1>3. Join \in Message /\ ProperTo(p, Join)
  BY DEF Join, Message, ProperTo
<1> DEFINE v == Send(u, p, Join)
<1>4. v \in StateOf(n, X) /\ (Sound(u) => Sound(v)) /\ Keeps(u, v)
  BY <1>2, <1>3, SendIsProper, SendIsSound
<1>5. /\ [v EXCEPT !.joining = FALSE] \in StateOf(n, X)
      /\ Sound(v) => Sound([v EXCEPT !.joining = FALSE])
      /\ Keeps(v, [v EXCEPT !.joining = FALSE])
  BY <1>4 DEF StateOf, Sound, Keeps, KeepsChannels
<1> QED BY <1>1, <1>2, <1>4, <1>5 DEF Keeps, KeepsChannels

LEMMA FunctionIsSeq ==
  ASSUME NEW S, NEW k \in Nat, NEW f \in [1..k -> S]
  PROVE  f \in Seq(S)
<1>1. f = [i \in 1..k |-> f[i]]
  OBVIOUS
<1>2. \A i \in 1..k : f[i] \in S
  OBVIOUS
<1>3. [i \in 1..k |-> f[i]] \in Seq(S)
  BY <1>2
<1> QED BY <1>1, <1>3

LEMMA JoinIsProper ==
  ASSUME NEW X, NEW n \in Node, NEW s \in StateOf(n, X), NEW joiner \in Node \ {n},
         NEW t \in HandleJoin(s, joiner)
  PROVE  t \in StateOf(n, X) /\ (Sound(s) => Sound(t)) /\ Keeps(s, t)
<1> DEFINE added == AddNewPeerToActiveView(s, joiner)
           u == IF HasUnbiasedRoom(s) THEN Send(added, joiner, AcceptJoin) ELSE added
           S == u.active \ {joiner}
           msg == ForwardJoin(joiner, ATTL)
<1>1. added \in StateOf(n, X) /\ (Sound(s) => Sound(added)) /\ Keeps(s, added)
  BY AddNewIsProper, AddNewKeeps
<1>2. AcceptJoin \in Message /\ ProperTo(joiner, AcceptJoin)
  BY DEF AcceptJoin, Message, ProperTo
<1>3. u \in StateOf(n, X) /\ (Sound(s) => Sound(u)) /\ Keeps(s, u)
  <2> DEFINE v == Send(added, joiner, AcceptJoin)
  <2>1. v \in StateOf(n, X) /\ (Sound(added) => Sound(v)) /\ Keeps(added, v)
    BY <1>1, <1>2, SendIsProper, SendIsSound
  <2>2. Keeps(s, v)
    BY <1>1, <2>1 DEF Keeps, KeepsChannels
  <2> QED BY <1>1, <2>1, <2>2
<1>4. S \subseteq Node \ {n, joiner} /\ IsFiniteSet(S)
  BY <1>3, NodeAssumption, FS_Subset DEF StateOf
<1>5. msg \in Message
  BY TtlAssumption DEF Message, ForwardJoin
<1>6. ASSUME NEW q \in Broadcasts(S, msg)
      PROVE  q \in Seq(RequestOf(n, X))
  <2>1. q \in [1..Cardinality(S) -> [to : S, msg : {msg}]] /\ Cardinality(S) \in Nat
    BY <1>4, <1>6, FS_CardinalityType DEF Broadcasts
  <2>2. [to : S, msg : {msg}] \subseteq RequestOf(n, X)
    BY <1>4, <1>5 DEF RequestOf, ProperTo, ForwardJoin
  <2>3. q \in Seq([to : S, msg : {msg}])
    BY <2>1, FunctionIsSeq
  <2> QED BY <2>2, <2>3, SeqMonotonic
<1>7. CASE u.thread = "dead" \/ u.sender = "dead"
  BY <1>3, <1>7 DEF HandleJoin
<1>8. CASE ~(u.thread = "dead" \/ u.sender = "dead")
  <2>1. PICK q \in Broadcasts(S, msg) : t = [u EXCEPT !.requests = @ \o q]
    BY <1>8 DEF HandleJoin
  <2>2. q \in Seq(RequestOf(n, X))
    BY <1>6, <2>1
  <2> HIDE DEF u
  <2>3. u.requests \o q \in Seq(RequestOf(n, X))
    BY <1>3, <2>2 DEF StateOf
  <2>4. t \in StateOf(n, X)
    BY <1>3, <2>1, <2>3 DEF StateOf
  <2>5. (Sound(u) => Sound(t)) /\ Keeps(u, t)
    BY <1>3, <2>1 DEF StateOf, Sound, Keeps, KeepsChannels
  <2> QED BY <1>3, <2>4, <2>5 DEF Keeps, KeepsChannels
<1> QED BY <1>7, <1>8

LEMMA ForwardJoinIsProper ==
  ASSUME NEW X, NEW n \in Node, NEW s \in StateOf(n, X), NEW from \in Node \ {n},
         NEW joiner \in Node \ {n}, NEW ttl \in 0..ATTL,
         NEW t \in HandleForwardJoin(s, from, joiner, ttl)
  PROVE  t \in StateOf(n, X) /\ (Sound(s) => Sound(t)) /\ Keeps(s, t)
<1> DEFINE passed == IF ttl = PTTL THEN AddNewPeerToPassiveView(s, joiner) ELSE {s}
           next == s.active \ {from, joiner}
<1>1. CASE ttl = 0 \/ Cardinality(s.active) <= 1
  <2>1. t = AddNewPeerToActiveView(s, joiner)
    BY <1>1 DEF HandleForwardJoin
  <2> QED BY <2>1, AddNewIsProper, AddNewKeeps
<1>2. CASE ~(ttl = 0 \/ Cardinality(s.active) <= 1)
  <2>1. ASSUME NEW u \in passed
        PROVE  u \in StateOf(n, X) /\ (Sound(s) => Sound(u)) /\ Keeps(s, u)
    <3>1. Keeps(s, s)
      BY DEF Keeps, KeepsChannels
    <3> QED BY <2>1, <3>1, AddPassiveIsProper, AddPassiveKeeps
  <2>2. CASE next = {}
    <3>1. PICK u \in passed : t = [u EXCEPT !.thread = "spinning"]
      BY <1>2, <2>2 DEF HandleForwardJoin
    <3>2. u \in StateOf(n, X) /\ (Sound(s) => Sound(u)) /\ Keeps(s, u)
      BY <2>1
    <3> QED BY <3>1, <3>2 DEF StateOf, Sound, Keeps, KeepsChannels
  <2>3. CASE next # {}
    <3>1. PICK u \in passed, p \in next : t = Send(u, p, ForwardJoin(joiner, ttl - 1))
      BY <1>2, <2>3 DEF HandleForwardJoin
    <3>2. u \in StateOf(n, X) /\ (Sound(s) => Sound(u)) /\ Keeps(s, u)
      BY <2>1
    <3>3. p \in Node \ {n} /\ p # joiner
      BY DEF StateOf
    <3>4. ttl - 1 \in 0..ATTL
      BY <1>2, TtlAssumption
    <3>5. ForwardJoin(joiner, ttl - 1) \in Message
      BY <3>4 DEF Message, ForwardJoin
    <3>6. ProperTo(p, ForwardJoin(joiner, ttl - 1))
      BY <3>3 DEF ProperTo, ForwardJoin
    <3>7. t \in StateOf(n, X) /\ (Sound(u) => Sound(t)) /\ Keeps(u, t)
      BY <3>1, <3>2, <3>3, <3>5, <3>6, SendIsProper, SendIsSound
    <3> QED BY <3>2, <3>7 DEF Keeps, KeepsChannels
  <2> QED BY <2>2, <2>3
<1> QED BY <1>1, <1>2

LEMMA MessageIsProper ==
  ASSUME NEW X, NEW n \in Node, NEW s \in StateOf(n, X), NEW from \in Node \ {n},
         NEW f \in Message, ProperTo(n, f),
         NEW t \in HandleMessage(s, from, f)
  PROVE  t \in StateOf(n, X) /\ (Sound(s) => Sound(t)) /\ Keeps(s, t)
<1>1. CASE f = Join
  <2>1. t \in HandleJoin(s, from)
    BY <1>1 DEF HandleMessage, Join
  <2> QED BY <2>1, JoinIsProper
<1>2. CASE f = AcceptJoin
  <2>1. t = AddNewPeerToActiveView(s, from)
    BY <1>2 DEF HandleMessage, AcceptJoin
  <2> QED BY <2>1, AddNewIsProper, AddNewKeeps
<1>3. CASE f = Disconnect
  <2>1. t = MovePeerToPassiveView(s, from)
    BY <1>3 DEF HandleMessage, Disconnect
  <2> QED BY <2>1, MoveIsProper, MoveKeeps
<1>4. CASE \E j \in Node, ttl \in 0..ATTL : f = ForwardJoin(j, ttl)
  <2>1. PICK j \in Node, ttl \in 0..ATTL : f = ForwardJoin(j, ttl)
    BY <1>4
  <2>2. f.type = "ForwardJoin" /\ f.joiner = j /\ f.ttl = ttl
    BY <2>1 DEF ForwardJoin
  <2>3. j # n
    BY <2>2 DEF ProperTo
  <2>4. t \in HandleForwardJoin(s, from, j, ttl)
    BY <2>2 DEF HandleMessage
  <2> QED BY <2>3, <2>4, ForwardJoinIsProper
<1> QED BY <1>1, <1>2, <1>3, <1>4 DEF Message

-----------------------------------------------------------------------------
(* The steps. *)

LEMMA WrittenIsProper ==
  ASSUME NEW X, NEW n \in Node, NEW s \in StateOf(n, X), NEW p \in Node
  PROVE  Written(s, p) \in Seq(FrameFor(n, p, X))
<1>1. CASE p = n
  <2>1. Written(s, p) = <<>> \o <<>>
    BY <1>1 DEF Written, StateOf
  <2> QED BY <2>1
<1>2. CASE p # n
  <2>1. HangUp \in FrameFor(n, p, X) /\ Connecting \in FrameFor(n, p, X)
    BY <1>2 DEF FrameFor, Frame, HangUp, Connecting, ProperTo
  <2> QED BY <2>1 DEF Written
<1> QED BY <1>1, <1>2

LEMMA CommitKeepsInv ==
  ASSUME NEW X, Inv(X), NEW n \in Node, NEW s, NodeInv(n, s, X), NEW links,
         ProperLinks(links, X),
         Commit(n, s, links)
  PROVE  Inv(X)'
<1> DEFINE t == [s EXCEPT !.dial = {}, !.hangup = {}]
<1>1. NodeInv(n, t, X)
  BY DEF NodeInv, StateOf, Sound
<1>2. \A m \in Node : NodeInv(m, node'[m], X)
  BY <1>1 DEF Commit, Inv, NodeInv
<1>3. node' = [m \in Node |-> node'[m]]
  BY DEF Commit, Inv
<1>4. ASSUME NEW m \in Node, NEW p \in Node
      PROVE  link'[m][p] \in Seq(FrameFor(m, p, X))
  <2>1. links[m][p] \in Seq(FrameFor(m, p, X))
    BY DEF ProperLinks
  <2>2. m = n => links[m][p] \o Written(s, p) \in Seq(FrameFor(m, p, X))
    BY <2>1, WrittenIsProper, ConcatProperties DEF NodeInv
  <2>3. <<>> \in Seq(FrameFor(m, p, X))
    OBVIOUS
  <2> QED BY <2>1, <2>2, <2>3 DEF Commit
<1>5. ASSUME NEW m \in Node, NEW p \in Node
      PROVE  link'[m][p] \in Seq(Frame \cup X)
  <2>1. FrameFor(m, p, X) \subseteq Frame \cup X
    BY DEF FrameFor
  <2> QED BY <1>4, <2>1, SeqMonotonic
<1>6. link' \in [Node -> [Node -> Seq(Frame \cup X)]]
  BY <1>5 DEF Commit
<1>7. started' \subseteq Node
  BY DEF Commit, Inv
<1> QED BY <1>2, <1>3, <1>4, <1>6, <1>7 DEF Inv, ProperLinks

LEMMA InvOfNode ==
  ASSUME NEW X, Inv(X), NEW n \in Node
  PROVE  /\ node[n] \in StateOf(n, X) /\ Sound(node[n])
         /\ ~OracleAnswers => node[n].biased = {}
  BY DEF Inv, NodeInv

\* What the steps of the sender, the reader and the oracle change by hand.
LEMMA UpdatesAreProper ==
  ASSUME NEW X, NEW n \in Node, NEW s, NodeInv(n, s, X), NEW p
  PROVE  /\ NodeInv(n, [s EXCEPT !.sender = "dead", !.requests = <<>>], X)
         /\ NodeInv(n, [s EXCEPT !.asked = @ \ {p}], X)
         /\ p \in Node \ {n} => NodeInv(n, [s EXCEPT !.conn = @ \cup {p}], X)
         /\ p \in Node \ {n} => NodeInv(n, [s EXCEPT !.closed = @ \cup {p}, !.reader = "dead"], X)
<1>1. s \in StateOf(n, X) /\ Sound(s) /\ (~OracleAnswers => s.biased = {})
  BY DEF NodeInv
<1>2. NodeInv(n, [s EXCEPT !.sender = "dead", !.requests = <<>>], X)
  <2> DEFINE t == [s EXCEPT !.sender = "dead", !.requests = <<>>]
  <2>1. <<>> \in Seq(RequestOf(n, X))
    OBVIOUS
  <2>2. t \in StateOf(n, X)
    BY <1>1, <2>1 DEF StateOf
  <2>3. Sound(t) /\ t.biased = s.biased
    BY <1>1 DEF StateOf, Sound
  <2> QED BY <1>1, <2>2, <2>3 DEF NodeInv
<1>3. NodeInv(n, [s EXCEPT !.asked = @ \ {p}], X)
  BY <1>1 DEF NodeInv, StateOf, Sound
<1>4. p \in Node \ {n} => NodeInv(n, [s EXCEPT !.conn = @ \cup {p}], X)
  BY <1>1 DEF NodeInv, StateOf, Sound
<1>5. p \in Node \ {n} => NodeInv(n, [s EXCEPT !.closed = @ \cup {p}, !.reader = "dead"], X)
  BY <1>1 DEF NodeInv, StateOf, Sound
<1> QED BY <1>2, <1>3, <1>4, <1>5

LEMMA InitHasInv ==
  ASSUME NEW X, Init
  PROVE  Inv(X)
<1>1. \A n \in Node : NodeInv(n, node[n], X)
  BY FreshIsProper DEF Init, NodeInv, FreshNode
<1>2. node = [n \in Node |-> node[n]]
  BY DEF Init
<1>3. ProperLinks(link, X)
  BY DEF Init, ProperLinks
<1> QED BY <1>1, <1>2, <1>3, FirstAssumption DEF Init, Inv

\* Reading takes frames away and leaves the others.
LEMMA AfterReadIsProper ==
  ASSUME NEW X, Inv(X), NEW n \in Node, NEW m \in Node, link[m][n] # <<>>, NEW k \in Nat
  PROVE  /\ Head(link[m][n]) \in FrameFor(m, n, X)
         /\ m # n
         /\ ProperLinks(AfterRead(m, n, k), X)
<1>1. ProperLinks(link, X) /\ link[m][n] \in Seq(FrameFor(m, n, X))
  BY DEF Inv, ProperLinks
<1>2. Head(link[m][n]) \in FrameFor(m, n, X) /\ m # n
  BY <1>1 DEF FrameFor
<1> DEFINE rest == SubSeq(link[m][n], k + 2, Len(link[m][n]))
<1>3. rest \in Seq(FrameFor(m, n, X)) /\ rest \in Seq(Frame \cup X)
  <2>1. \A i \in (k + 2)..Len(link[m][n]) : link[m][n][i] \in FrameFor(m, n, X)
    BY <1>1, ElementOfSeq
  <2>2. Len(link[m][n]) \in Int
    BY <1>1
  <2>3. rest \in Seq(FrameFor(m, n, X))
    BY <2>1, <2>2, SubSeqProperties
  <2>4. FrameFor(m, n, X) \subseteq Frame \cup X
    BY DEF FrameFor
  <2> QED BY <2>3, <2>4, SeqMonotonic
<1>4. AfterRead(m, n, k) = [link EXCEPT ![m][n] = rest]
  BY DEF AfterRead
<1>5. AfterRead(m, n, k) \in [Node -> [Node -> Seq(Frame \cup X)]]
  BY <1>1, <1>3, <1>4 DEF ProperLinks
<1>6. \A p, q \in Node : AfterRead(m, n, k)[p][q] \in Seq(FrameFor(p, q, X))
  BY <1>1, <1>3, <1>4 DEF ProperLinks
<1> QED BY <1>2, <1>5, <1>6 DEF ProperLinks

\* A frame added for a peer it may be sent to.
LEMMA AppendIsProper ==
  ASSUME NEW X, NEW links, ProperLinks(links, X), NEW m \in Node, NEW p \in Node,
         NEW f \in FrameFor(m, p, X)
  PROVE  ProperLinks([links EXCEPT ![m][p] = Append(@, f)], X)
<1>1. f \in Frame \cup X
  BY DEF FrameFor
<1>2. /\ Append(links[m][p], f) \in Seq(FrameFor(m, p, X))
      /\ Append(links[m][p], f) \in Seq(Frame \cup X)
  BY <1>1 DEF ProperLinks
<1>3. \A a, b \in Node : [links EXCEPT ![m][p] = Append(@, f)][a][b] \in Seq(FrameFor(a, b, X))
  BY <1>2 DEF ProperLinks
<1>4. [links EXCEPT ![m][p] = Append(@, f)] \in [Node -> [Node -> Seq(Frame \cup X)]]
  BY <1>2 DEF ProperLinks
<1> QED BY <1>3, <1>4 DEF ProperLinks

LEMMA JoinAtKeepsInv ==
  ASSUME NEW X, Inv(X), NEW n \in Node, NEW m \in Node, JoinAt(n, m)
  PROVE  Inv(X)'
<1> DEFINE t == [BeginConnection(node[n], m, "active") EXCEPT !.dial = {}]
<1>1. m \in Node \ {n}
  BY DEF JoinAt
<1>2. NodeInv(n, t, X)
  <2> DEFINE u == BeginConnection(node[n], m, "active")
  <2>1. u.biased = node[n].biased
    BY InvOfNode DEF BeginConnection, StateOf
  <2>2. u \in StateOf(n, X) /\ Sound(u)
    BY <1>1, InvOfNode, BeginIsProper
  <2>3. [u EXCEPT !.dial = {}] \in StateOf(n, X) /\ Sound([u EXCEPT !.dial = {}])
    BY <2>2 DEF StateOf, Sound
  <2>4. [u EXCEPT !.dial = {}].biased = u.biased
    BY <2>2 DEF StateOf
  <2> QED BY <2>1, <2>3, <2>4, InvOfNode DEF NodeInv
<1>3. node' = [node EXCEPT ![n] = t]
  BY DEF JoinAt
<1>4. node' = [p \in Node |-> node'[p]] /\ \A p \in Node : NodeInv(p, node'[p], X)
  BY <1>2, <1>3 DEF Inv
<1>5. Connecting \in FrameFor(n, m, X)
  BY <1>1 DEF FrameFor, Frame, Connecting, ProperTo
<1>6. ProperLinks(link', X)
  BY <1>5, AppendIsProper DEF JoinAt, Inv
<1>7. started' \subseteq Node
  BY DEF JoinAt, Inv
<1> QED BY <1>4, <1>6, <1>7 DEF Inv, ProperLinks

LEMMA SendNextKeepsInv ==
  ASSUME NEW X, Inv(X), NEW n \in Node, SendNext(n)
  PROVE  Inv(X)'
<1> DEFINE s == node[n]
           r == Head(s.requests)
           t == [s EXCEPT !.requests = Tail(@)]
<1>1. s \in StateOf(n, X) /\ NodeInv(n, s, X)
  BY DEF Inv, NodeInv
<1>2. r \in RequestOf(n, X) /\ Tail(s.requests) \in Seq(RequestOf(n, X))
  BY <1>1, HeadTailProperties DEF SendNext, StateOf
<1>3. NodeInv(n, t, X)
  BY <1>1, <1>2 DEF NodeInv, StateOf, Sound
<1>4. node' = [node EXCEPT ![n] = t]
  BY DEF SendNext, Inv
<1>5. node' = [p \in Node |-> node'[p]] /\ \A p \in Node : NodeInv(p, node'[p], X)
  BY <1>3, <1>4 DEF Inv
<1>6. r.to \in Node /\ r.msg \in FrameFor(n, r.to, X)
  BY <1>2 DEF RequestOf, FrameFor, Frame
<1>7. ProperLinks(link', X)
  BY <1>6, AppendIsProper DEF SendNext, Inv
<1>8. started' \subseteq Node
  BY DEF SendNext, Inv
<1> QED BY <1>5, <1>7, <1>8 DEF Inv, ProperLinks

LEMMA SendUnconnectedKeepsInv ==
  ASSUME NEW X, Inv(X), NEW n \in Node, SendUnconnected(n)
  PROVE  Inv(X)'
<1> DEFINE t == [node[n] EXCEPT !.sender = "dead", !.requests = <<>>]
<1>1. NodeInv(n, t, X)
  BY UpdatesAreProper DEF Inv
<1>2. node' = [node EXCEPT ![n] = t]
  BY DEF SendUnconnected, Inv
<1> QED BY <1>1, <1>2 DEF SendUnconnected, Inv, ProperLinks

LEMMA ReadIdKeepsInv ==
  ASSUME NEW X, Inv(X), NEW n \in Node, NEW m \in Node, ReadId(n, m)
  PROVE  Inv(X)'
<1>1. PICK k \in 0..Len(link[m][n]) :
        LET s    == [node[n] EXCEPT !.conn = @ \cup {m}]
            rest == AfterRead(m, n, k)
            lks  == IF Head(link[m][n]) = Connecting
                    THEN [rest EXCEPT ![n][m] = Append(@, Accepting)] ELSE rest
        IN  IF s.thread = "running"
            THEN \E t \in HandleConnection(s, m) : Commit(n, t, lks)
            ELSE Commit(n, s, lks)
  BY DEF ReadId
<1> DEFINE s    == [node[n] EXCEPT !.conn = @ \cup {m}]
           rest == AfterRead(m, n, k)
           lks  == IF Head(link[m][n]) = Connecting
                   THEN [rest EXCEPT ![n][m] = Append(@, Accepting)] ELSE rest
<1>2. k \in Nat /\ link[m][n] # <<>>
  BY DEF ReadId, CanRead
<1>3. m # n /\ ProperLinks(rest, X)
  BY <1>2, AfterReadIsProper
<1>4. ProperLinks(lks, X)
  <2>1. Accepting \in FrameFor(n, m, X)
    BY <1>3 DEF FrameFor, Frame, Accepting, ProperTo
  <2> QED BY <1>3, <2>1, AppendIsProper
<1>5. NodeInv(n, s, X)
  BY <1>3, UpdatesAreProper DEF Inv
<1>6. ASSUME NEW t \in HandleConnection(s, m)
      PROVE  NodeInv(n, t, X)
  <2> HIDE DEF s
  <2>1. s \in StateOf(n, X) /\ Sound(s) /\ (~OracleAnswers => s.biased = {})
    BY <1>5 DEF NodeInv
  <2>2. t \in StateOf(n, X) /\ Sound(t) /\ Keeps(s, t)
    BY <1>3, <2>1, ConnectionIsProper
  <2> QED BY <2>1, <2>2 DEF NodeInv, Keeps
<1>7. PICK t : NodeInv(n, t, X) /\ Commit(n, t, lks)
  BY <1>1, <1>5, <1>6
<1> QED BY <1>4, <1>7, CommitKeepsInv

LEMMA ReadMessageKeepsInv ==
  ASSUME NEW X, Inv(X), NEW n \in Node, NEW m \in Node, ReadMessage(n, m)
  PROVE  Inv(X)'
<1>1. PICK k \in 0..Len(link[m][n]) :
        IF node[n].thread = "running"
        THEN \E t \in HandleMessage(node[n], m, Head(link[m][n])) :
               Commit(n, t, AfterRead(m, n, k))
        ELSE Commit(n, node[n], AfterRead(m, n, k))
  BY DEF ReadMessage
<1> DEFINE f == Head(link[m][n])
<1>2. k \in Nat /\ link[m][n] # <<>> /\ f \in Message
  BY DEF ReadMessage, CanRead
<1>3. m # n /\ f \in FrameFor(m, n, X) /\ ProperLinks(AfterRead(m, n, k), X)
  BY <1>2, AfterReadIsProper
<1>4. ProperTo(n, f)
  BY <1>3 DEF FrameFor
<1>5. NodeInv(n, node[n], X)
  BY DEF Inv
<1>6. ASSUME NEW t \in HandleMessage(node[n], m, f)
      PROVE  NodeInv(n, t, X)
  BY <1>2, <1>3, <1>4, <1>5, MessageIsProper DEF NodeInv, Keeps
<1>7. PICK t : NodeInv(n, t, X) /\ Commit(n, t, AfterRead(m, n, k))
  BY <1>1, <1>5, <1>6
<1> QED BY <1>3, <1>7, CommitKeepsInv

LEMMA ReadHangUpKeepsInv ==
  ASSUME NEW X, Inv(X), NEW n \in Node, NEW m \in Node, ReadHangUp(n, m)
  PROVE  Inv(X)'
<1> DEFINE t == [node[n] EXCEPT !.closed = @ \cup {m}, !.reader = "dead"]
<1>1. m # n /\ ProperLinks(AfterRead(m, n, 0), X)
  BY AfterReadIsProper DEF ReadHangUp, CanRead
<1>2. NodeInv(n, t, X)
  BY <1>1, UpdatesAreProper DEF Inv
<1>3. node' = [node EXCEPT ![n] = t]
  BY DEF ReadHangUp, Inv
<1> QED BY <1>1, <1>2, <1>3 DEF ReadHangUp, Inv, ProperLinks

LEMMA HandleCostKeepsInv ==
  ASSUME NEW X, Inv(X), NEW n \in Node, NEW p \in Node, HandleCost(n, p)
  PROVE  Inv(X)'
<1> DEFINE s == [node[n] EXCEPT !.asked = @ \ {p}]
           t == IF p \in s.waiting
                THEN AddMeasuredPeerToActiveView(s, p, Cost[n][p]) ELSE s
<1>1. NodeInv(n, s, X)
  BY UpdatesAreProper DEF Inv
<1>2. p \in Node \ {n} /\ Cost[n][p] \in Nat
  BY CostAssumption, InvOfNode DEF HandleCost, StateOf
<1>3. NodeInv(n, t, X)
  BY <1>1, <1>2, AddMeasuredIsProper DEF HandleCost, NodeInv
<1>4. Commit(n, t, link) /\ ProperLinks(link, X)
  BY DEF HandleCost, Inv
<1> QED BY <1>3, <1>4, CommitKeepsInv

LEMMA NextKeepsInv ==
  ASSUME NEW X, Inv(X), [Next]_vars
  PROVE  Inv(X)'
<1>1. CASE \E n, m \in Node : JoinAt(n, m)
  BY <1>1, JoinAtKeepsInv
<1>2. CASE \E n \in Node : SendNext(n)
  BY <1>2, SendNextKeepsInv
<1>3. CASE \E n \in Node : SendUnconnected(n)
  BY <1>3, SendUnconnectedKeepsInv
<1>4. CASE \E n, m \in Node : ReadId(n, m)
  BY <1>4, ReadIdKeepsInv
<1>5. CASE \E n, m \in Node : ReadMessage(n, m)
  BY <1>5, ReadMessageKeepsInv
<1>6. CASE \E n, m \in Node : ReadHangUp(n, m)
  BY <1>6, ReadHangUpKeepsInv
<1>7. CASE \E n, p \in Node : HandleCost(n, p)
  BY <1>7, HandleCostKeepsInv
<1>8. CASE UNCHANGED vars
  BY <1>8 DEF vars, Inv, ProperLinks
<1> QED BY <1>1, <1>2, <1>3, <1>4, <1>5, <1>6, <1>7, <1>8 DEF Next

-----------------------------------------------------------------------------
(* The theorems. *)

\* In every reachable state of an overlay of any size each node is in a state
\* its own methods may leave, and each frame is one its receiver may get.
THEOREM InvHolds == Spec => []Inv({})
<1>1. Init => Inv({})
  BY InitHasInv
<1>2. Inv({}) /\ [Next]_vars => Inv({})'
  BY NextKeepsInv
<1> QED BY <1>1, <1>2, PTL DEF Spec

\* What Inv says of the overlay, whatever further messages there are.
LEMMA InvImplies ==
  ASSUME NEW X, Inv(X)
  PROVE  NoSelf /\ ViewsAgree /\ WiredDegree
<1>1. NoSelf
  <2> SUFFICES ASSUME NEW n \in Node
               PROVE  /\ n \notin node[n].active \cup node[n].passive \cup node[n].conn
                      /\ node[n].future[n] = "none"
    BY DEF NoSelf
  <2> QED BY InvOfNode DEF StateOf
<1>2. ViewsAgree
  BY InvOfNode DEF ViewsAgree, Sound
<1>3. WiredDegree
  <2> SUFFICES ASSUME ~OracleAnswers, NEW n \in Node
               PROVE  node[n].biased = {} /\ Cardinality(node[n].active) <= UnbiasedMax
    BY DEF WiredDegree
  <2>1. node[n].biased = {} /\ Sound(node[n])
    BY InvOfNode
  <2>2. node[n].active = node[n].unbiased
    BY <2>1 DEF Sound
  <2> QED BY <2>1, <2>2 DEF Sound
<1> QED BY <1>1, <1>2, <1>3

LEMMA InvImpliesTypeOK == Inv({}) => TypeOK
<1> SUFFICES ASSUME Inv({}) PROVE TypeOK
  OBVIOUS
<1>1. \A n \in Node : node[n] \in NodeState
  BY InvOfNode, ProperIsTyped
<1>2. node \in [Node -> NodeState]
  BY <1>1 DEF Inv
<1>3. link \in [Node -> [Node -> Seq(Frame)]]
  BY DEF Inv, ProperLinks
<1> QED BY <1>2, <1>3 DEF Inv, TypeOK

\* Every variable of every overlay keeps its type.
THEOREM TypeCorrect == Spec => []TypeOK
<1> QED BY InvHolds, InvImpliesTypeOK, PTL

\* No walk of a forward join ends at the node it introduces: in an overlay of
\* any size no node becomes its own neighbour (handleJoin, handleForwardJoin).
THEOREM NoSelfHolds == Spec => []NoSelf
<1>1. Inv({}) => NoSelf
  BY InvImplies
<1> QED BY <1>1, InvHolds, PTL

\* activeView is the union of the unbiased and the biased view, for any
\* sizes of the views (movePeerToPassiveView, addNewPeerToActiveView).
THEOREM ViewsAgreeHolds == Spec => []ViewsAgree
<1>1. Inv({}) => ViewsAgree
  BY InvImplies
<1> QED BY <1>1, InvHolds, PTL

\* With an oracle nobody answers, unbiasedViewMaxSize bounds the degree of
\* every node, however many nodes join.
THEOREM WiredDegreeHolds == Spec => []WiredDegree
<1>1. Inv({}) => WiredDegree
  BY InvImplies
<1> QED BY <1>1, InvHolds, PTL

-----------------------------------------------------------------------------
(* The two ends of a connection.  ConnectionsAgree is not inductive alone: *)
(* an "a" that is read registers a channel, so what it says must be known  *)
(* to be true of its sender.                                               *)

Has(seq) == \E i \in DOMAIN seq : seq[i] = Accepting

Known(s) == s.conn \cup s.hung

ConnInv ==
  \A m, n \in Node :
    /\ n \in node[m].conn /\ m \notin node[n].conn =>
         m \in node[n].hung \/ Has(link[m][n])
    /\ Has(link[m][n]) => n \in Known(node[m])

LEMMA AcceptingIsNoMessage == Accepting \notin Message
<1>1. \A f \in Message : f.type # "a"
  BY DEF Message, Join, AcceptJoin, Disconnect, ForwardJoin
<1>2. Accepting.type = "a"
  BY DEF Accepting
<1> QED BY <1>1, <1>2

LEMMA HasAppend ==
  ASSUME NEW S, NEW seq \in Seq(S), NEW f \in S
  PROVE  Has(Append(seq, f)) <=> Has(seq) \/ f = Accepting
<1> DEFINE app == Append(seq, f)
<1>1. /\ DOMAIN app = 1..(Len(seq) + 1) /\ DOMAIN seq = 1..Len(seq) /\ Len(seq) \in Nat
      /\ \A i \in 1..Len(seq) : app[i] = seq[i]
      /\ app[Len(seq) + 1] = f
  OBVIOUS
<1>2. Has(app) => Has(seq) \/ f = Accepting
  <2> SUFFICES ASSUME NEW i \in DOMAIN app, app[i] = Accepting
               PROVE  Has(seq) \/ f = Accepting
    BY DEF Has
  <2>1. CASE i = Len(seq) + 1
    BY <1>1, <2>1
  <2>2. CASE i # Len(seq) + 1
    <3>1. i \in 1..Len(seq)
      BY <1>1, <2>2
    <3> QED BY <1>1, <3>1 DEF Has
  <2> QED BY <2>1, <2>2
<1>3. Has(seq) => Has(app)
  <2> SUFFICES ASSUME NEW i \in DOMAIN seq, seq[i] = Accepting
               PROVE  Has(app)
    BY DEF Has
  <2>1. i \in DOMAIN app /\ app[i] = Accepting
    BY <1>1
  <2> QED BY <2>1 DEF Has
<1>4. f = Accepting => Has(app)
  <2>1. Len(seq) + 1 \in DOMAIN app
    BY <1>1
  <2> QED BY <1>1, <2>1 DEF Has
<1> QED BY <1>2, <1>3, <1>4

LEMMA HasConcat ==
  ASSUME NEW S, NEW seq \in Seq(S), NEW w \in Seq(S), ~Has(w)
  PROVE  Has(seq \o w) <=> Has(seq)
<1> DEFINE app == seq \o w
<1>1. /\ DOMAIN app = 1..(Len(seq) + Len(w)) /\ DOMAIN seq = 1..Len(seq)
      /\ DOMAIN w = 1..Len(w) /\ Len(seq) \in Nat /\ Len(w) \in Nat
      /\ \A i \in 1..Len(seq) : app[i] = seq[i]
      /\ \A i \in 1..(Len(seq) + Len(w)) : i > Len(seq) => app[i] = w[i - Len(seq)]
  BY ConcatProperties, LenProperties
<1>2. Has(app) => Has(seq)
  <2> SUFFICES ASSUME NEW i \in DOMAIN app, app[i] = Accepting
               PROVE  Has(seq)
    BY DEF Has
  <2>1. CASE i > Len(seq)
    <3>1. i - Len(seq) \in DOMAIN w /\ w[i - Len(seq)] = Accepting
      BY <1>1, <2>1
    <3> QED BY <3>1 DEF Has
  <2>2. CASE ~(i > Len(seq))
    <3>1. i \in DOMAIN seq /\ seq[i] = Accepting
      BY <1>1, <2>2
    <3> QED BY <3>1 DEF Has
  <2> QED BY <2>1, <2>2
<1>3. Has(seq) => Has(app)
  <2> SUFFICES ASSUME NEW i \in DOMAIN seq, seq[i] = Accepting
               PROVE  Has(app)
    BY DEF Has
  <2>1. i \in DOMAIN app /\ app[i] = Accepting
    BY <1>1
  <2> QED BY <2>1 DEF Has
<1> QED BY <1>2, <1>3

\* What a read leaves has an "a" only if there was one; and it takes none
\* away but the head it handles.
LEMMA HasAfterRead ==
  ASSUME NEW X, Inv(X), NEW n \in Node, NEW m \in Node, link[m][n] # <<>>, NEW k \in Nat,
         Swallows(m, n, k)
  PROVE  LET rest == AfterRead(m, n, k)[m][n]
         IN  /\ Has(rest) => Has(link[m][n])
             /\ Has(link[m][n]) => Has(rest) \/ Head(link[m][n]) = Accepting
             /\ Head(link[m][n]) = Accepting => Has(link[m][n])
<1> DEFINE seq  == link[m][n]
           rest == SubSeq(seq, k + 2, Len(seq))
<1>1. seq \in Seq(Frame \cup X) /\ AfterRead(m, n, k)[m][n] = rest
  BY DEF Inv, ProperLinks, AfterRead
<1>2. Len(seq) \in Nat /\ DOMAIN seq = 1..Len(seq) /\ k < Len(seq)
  BY <1>1, LenProperties DEF Swallows
<1>3. /\ rest \in Seq(Frame \cup X)
      /\ Len(rest) = Len(seq) - k - 1
      /\ \A i \in 1..Len(rest) : rest[i] = seq[i + k + 1]
  <2>1. \A i \in (k + 2)..Len(seq) : seq[i] \in Frame \cup X
    BY <1>1, ElementOfSeq
  <2>2. /\ rest \in Seq(Frame \cup X)
        /\ Len(rest) = IF k + 2 <= Len(seq) THEN Len(seq) - (k + 2) + 1 ELSE 0
        /\ \A i \in 1..(Len(seq) - (k + 2) + 1) : rest[i] = seq[(k + 2) + i - 1]
    BY <1>2, <2>1, SubSeqProperties
  <2>3. Len(rest) = Len(seq) - k - 1
    BY <1>2, <2>2
  <2>4. ASSUME NEW i \in 1..Len(rest) PROVE rest[i] = seq[i + k + 1]
    <3>1. rest[i] = seq[(k + 2) + i - 1]
      BY <1>2, <2>2, <2>3
    <3>2. k \in Int /\ i \in Int
      OBVIOUS
    <3>3. (k + 2) + i - 1 = i + k + 1
      BY <3>2, SMTT(30)
    <3> QED BY <3>1, <3>3
  <2> QED BY <2>2, <2>3, <2>4
<1>4. DOMAIN rest = 1..Len(rest)
  BY <1>3, LenProperties
<1>5. Has(rest) => Has(seq)
  <2> SUFFICES ASSUME Has(rest) PROVE Has(seq)
    OBVIOUS
  <2>1. PICK i \in DOMAIN rest : rest[i] = Accepting
    BY DEF Has
  <2>2. i + k + 1 \in DOMAIN seq /\ seq[i + k + 1] = Accepting
    BY <1>2, <1>3, <1>4, <2>1, SMTT(30)
  <2> QED BY <2>2 DEF Has
<1>6. Has(seq) => Has(rest) \/ Head(seq) = Accepting
  <2> SUFFICES ASSUME Has(seq) PROVE Has(rest) \/ Head(seq) = Accepting
    OBVIOUS
  <2>1. PICK i \in DOMAIN seq : seq[i] = Accepting
    BY DEF Has
  <2>2. CASE i = 1
    BY <1>1, <1>2, <2>1, <2>2
  <2>3. CASE i \in 2..(k + 1)
    <3>1. Accepting \in Message
      <4>1. seq[i] \in Message
        BY <2>3 DEF Swallows
      <4> QED BY <2>1, <4>1
    <3> QED BY <3>1, AcceptingIsNoMessage
  <2>4. CASE i \in (k + 2)..Len(seq)
    <3> DEFINE j == i - k - 1
    <3>1. j \in 1..Len(rest) /\ j + k + 1 = i
      BY <1>2, <1>3, <2>4
    <3>2. j \in DOMAIN rest /\ rest[j] = Accepting
      BY <1>3, <1>4, <2>1, <3>1
    <3> QED BY <3>2 DEF Has
  <2> QED BY <1>2, <2>2, <2>3, <2>4
<1>7. Head(seq) = Accepting => Has(seq)
  <2> SUFFICES ASSUME Head(seq) = Accepting PROVE Has(seq)
    OBVIOUS
  <2>1. Head(seq) = seq[1]
    BY <1>1, HeadTailProperties
  <2>2. 1 \in DOMAIN seq /\ seq[1] = Accepting
    BY <1>2, <2>1
  <2> QED BY <2>2 DEF Has
<1> QED BY <1>1, <1>5, <1>6, <1>7

\* A step of n keeps ConnInv if it drops only channels it hangs up on,
\* registers only channels the other end knows of or is told of, and takes
\* an "a" away only to register its sender.
LEMMA StepKeepsConnInv ==
  ASSUME NEW X, Inv(X), Inv(X)', ConnInv, NEW n \in Node,
         \A x \in Node \ {n} : node'[x] = node[x],
         node[n].hung \subseteq node'[n].hung,
         node[n].conn \ node'[n].conn \subseteq node'[n].hung,
         \A y \in Node \ {n} :
           /\ y \in node'[n].conn \ node[n].conn =>
                n \in Known(node[y]) \/ Has(link'[n][y])
           /\ Has(link[n][y]) => Has(link'[n][y])
           /\ Has(link'[n][y]) => Has(link[n][y]) \/ y \in Known(node'[n])
           /\ Has(link'[y][n]) => Has(link[y][n])
           /\ Has(link[y][n]) => Has(link'[y][n]) \/ y \in Known(node'[n]),
         \A x, y \in Node \ {n} : link'[x][y] = link[x][y]
  PROVE  ConnInv'
<1> SUFFICES ASSUME NEW x \in Node, NEW y \in Node
             PROVE  /\ y \in node'[x].conn /\ x \notin node'[y].conn =>
                         x \in node'[y].hung \/ Has(link'[x][y])
                    /\ Has(link'[x][y]) => y \in Known(node'[x])
  BY DEF ConnInv, Known, Has
<1>1. /\ y \in node[x].conn /\ x \notin node[y].conn =>
           x \in node[y].hung \/ Has(link[x][y])
      /\ Has(link[x][y]) => y \in Known(node[x])
  BY DEF ConnInv
<1>2. CASE x = y
  <2>1. x \notin node'[x].conn
    BY DEF Inv, NodeInv, StateOf
  <2>2. link'[x][x] \in Seq(FrameFor(x, x, X)) /\ FrameFor(x, x, X) = {}
    BY DEF Inv, ProperLinks, FrameFor
  <2>3. ~Has(link'[x][x])
    BY <2>2, LenProperties DEF Has
  <2> QED BY <1>2, <2>1, <2>3
<1>3. CASE x # y /\ x # n /\ y # n
  BY <1>1, <1>3
<1>4. CASE x = n /\ y # n
  BY <1>1, <1>4 DEF Known
<1>5. CASE y = n /\ x # n
  BY <1>1, <1>5 DEF Known
<1> QED BY <1>2, <1>3, <1>4, <1>5

\* A step that touches no channel and reads and writes no "a".
LEMMA QuietStepKeepsConnInv ==
  ASSUME NEW X, Inv(X), Inv(X)', ConnInv, NEW n \in Node,
         \A x \in Node \ {n} : node'[x] = node[x],
         node'[n].conn = node[n].conn, node'[n].hung = node[n].hung,
         \A x, y \in Node : Has(link'[x][y]) <=> Has(link[x][y])
  PROVE  ConnInv'
<1>1. \A x \in Node : node'[x].conn = node[x].conn /\ node'[x].hung = node[x].hung
  OBVIOUS
<1> SUFFICES ASSUME NEW x \in Node, NEW y \in Node
             PROVE  /\ y \in node'[x].conn /\ x \notin node'[y].conn =>
                         x \in node'[y].hung \/ Has(link'[x][y])
                    /\ Has(link'[x][y]) => y \in Known(node'[x])
  BY DEF ConnInv, Known, Has
<1> QED BY <1>1 DEF ConnInv, Known

\* Frames the node thread writes itself are never an "a".
LEMMA WrittenHasNone ==
  ASSUME NEW X, NEW n \in Node, NEW s \in StateOf(n, X), NEW p \in Node
  PROVE  ~Has(Written(s, p))
<1>1. Accepting # HangUp /\ Accepting # Connecting
  <2>1. Accepting.type = "a" /\ HangUp.type = "d" /\ Connecting.type = "c"
    BY DEF Accepting, HangUp, Connecting
  <2> QED BY <2>1
<1> DEFINE S == {HangUp, Connecting}
<1>2. Written(s, p) \in Seq(S)
  <2>1. HangUp \in S /\ Connecting \in S
    OBVIOUS
  <2> HIDE DEF S
  <2> QED BY <2>1 DEF Written
<1>3. \A i \in DOMAIN Written(s, p) : Written(s, p)[i] \in S
  BY <1>2, LenProperties, ElementOfSeq
<1> QED BY <1>1, <1>3 DEF Has

\* What Commit leaves of the links.
LEMMA CommitLinks ==
  ASSUME NEW X, Inv(X), NEW n \in Node, NEW s, NodeInv(n, s, X), NEW links,
         ProperLinks(links, X),
         Commit(n, s, links)
  PROVE  /\ \A x \in Node \ {n} : node'[x] = node[x]
         /\ node'[n].conn = s.conn /\ node'[n].hung = s.hung
         /\ \A y \in Node : Has(link'[n][y]) <=> Has(links[n][y])
         /\ \A y \in Node \ {n} : /\ Has(link'[y][n]) => Has(links[y][n])
                                  /\ Has(links[y][n]) => Has(link'[y][n]) \/ y \in s.hung
         /\ \A x, y \in Node \ {n} : link'[x][y] = links[x][y]
<1>1. \A x \in Node \ {n} : node'[x] = node[x]
  BY DEF Commit, Inv
<1>2. node'[n] = [s EXCEPT !.dial = {}, !.hangup = {}]
  BY DEF Commit, Inv
<1>3. node'[n].conn = s.conn /\ node'[n].hung = s.hung
  BY <1>2 DEF NodeInv, StateOf
<1>4. ASSUME NEW y \in Node
      PROVE  Has(link'[n][y]) <=> Has(links[n][y])
  <2>1. link'[n][y] = links[n][y] \o Written(s, y)
    BY DEF Commit
  <2>2. links[n][y] \in Seq(FrameFor(n, y, X)) /\ Written(s, y) \in Seq(FrameFor(n, y, X))
    BY WrittenIsProper DEF ProperLinks, NodeInv
  <2>3. ~Has(Written(s, y))
    BY WrittenHasNone DEF NodeInv
  <2> QED BY <2>1, <2>2, <2>3, HasConcat
<1>5. ASSUME NEW y \in Node \ {n}
      PROVE  /\ Has(link'[y][n]) => Has(links[y][n])
             /\ Has(links[y][n]) => Has(link'[y][n]) \/ y \in s.hung
  <2>1. link'[y][n] = IF y \in s.hangup THEN <<>> ELSE links[y][n]
    BY DEF Commit
  <2>2. ~Has(<<>>)
    BY DEF Has
  <2>3. s.hangup \subseteq s.hung
    BY DEF NodeInv, Sound
  <2> QED BY <2>1, <2>2, <2>3
<1>6. \A x, y \in Node \ {n} : link'[x][y] = links[x][y]
  BY DEF Commit
<1> QED BY <1>1, <1>3, <1>4, <1>5, <1>6

LEMMA JoinAtKeepsConnInv ==
  ASSUME NEW X, Inv(X), Inv(X)', ConnInv, NEW n \in Node, NEW m \in Node, JoinAt(n, m)
  PROVE  ConnInv'
<1>1. node' = [node EXCEPT ![n] = [BeginConnection(@, m, "active") EXCEPT !.dial = {}]]
  BY DEF JoinAt
<1>2. \A x \in Node \ {n} : node'[x] = node[x]
  BY <1>1 DEF Inv
<1>3. node'[n].conn = node[n].conn /\ node'[n].hung = node[n].hung
  <2>1. node'[n] = [BeginConnection(node[n], m, "active") EXCEPT !.dial = {}]
    BY <1>1 DEF Inv
  <2>2. m \in Node \ {n}
    BY DEF JoinAt
  <2>3. BeginConnection(node[n], m, "active") \in StateOf(n, X)
    BY <2>2, InvOfNode, BeginIsProper
  <2>4. /\ BeginConnection(node[n], m, "active").conn = node[n].conn
        /\ BeginConnection(node[n], m, "active").hung = node[n].hung
    BY InvOfNode DEF BeginConnection, StateOf
  <2> QED BY <2>1, <2>3, <2>4 DEF StateOf
<1>4. Connecting # Accepting /\ Connecting \in Frame \cup X
  <2>1. Connecting.type = "c" /\ Accepting.type = "a"
    BY DEF Connecting, Accepting
  <2> QED BY <2>1 DEF Frame
<1>5. Has(Append(link[n][m], Connecting)) <=> Has(link[n][m])
  BY <1>4, HasAppend DEF Inv, ProperLinks
<1>6. \A x, y \in Node : Has(link'[x][y]) <=> Has(link[x][y])
  BY <1>5 DEF JoinAt, Inv, ProperLinks
<1> QED BY <1>2, <1>3, <1>6, QuietStepKeepsConnInv

LEMMA SendNextKeepsConnInv ==
  ASSUME NEW X, Accepting \notin X, Inv(X), Inv(X)', ConnInv, NEW n \in Node, SendNext(n)
  PROVE  ConnInv'
<1> DEFINE r == Head(node[n].requests)
<1>1. node' = [node EXCEPT ![n].requests = Tail(@)]
  BY DEF SendNext
<1>2. \A x \in Node \ {n} : node'[x] = node[x]
  BY <1>1 DEF Inv
<1>3. node'[n].conn = node[n].conn /\ node'[n].hung = node[n].hung
  <2>1. node[n] \in StateOf(n, X)
    BY InvOfNode
  <2>2. node'[n] = [node[n] EXCEPT !.requests = Tail(@)]
    BY <1>1 DEF Inv
  <2> QED BY <2>1, <2>2 DEF StateOf
<1>4. r.to \in Node /\ r.msg \in Message \cup X /\ r.msg \in Frame \cup X
  <2>1. r \in RequestOf(n, X)
    BY InvOfNode, HeadTailProperties DEF SendNext, StateOf
  <2> QED BY <2>1 DEF RequestOf, Frame
<1>5. r.msg # Accepting
  BY <1>4, AcceptingIsNoMessage
<1>6. Has(Append(link[n][r.to], r.msg)) <=> Has(link[n][r.to])
  BY <1>4, <1>5, HasAppend, SMTT(30) DEF Inv, ProperLinks
<1>7. link' = link \/ link' = [link EXCEPT ![n][r.to] = Append(@, r.msg)]
  BY DEF SendNext
<1>8. \A x, y \in Node : Has(link'[x][y]) <=> Has(link[x][y])
  <2> SUFFICES ASSUME NEW x \in Node, NEW y \in Node
               PROVE  Has(link'[x][y]) <=> Has(link[x][y])
    OBVIOUS
  <2>1. CASE link' = link
    BY <2>1
  <2>2. CASE link' = [link EXCEPT ![n][r.to] = Append(@, r.msg)] /\ x = n /\ y = r.to
    <3>1. link'[n][r.to] = Append(link[n][r.to], r.msg)
      BY <1>4, <2>2 DEF Inv, ProperLinks
    <3> QED BY <1>6, <2>2, <3>1
  <2>3. CASE link' = [link EXCEPT ![n][r.to] = Append(@, r.msg)] /\ ~(x = n /\ y = r.to)
    <3>1. link'[x][y] = link[x][y]
      BY <2>3 DEF Inv, ProperLinks
    <3> QED BY <3>1
  <2> QED BY <1>7, <2>1, <2>2, <2>3
<1> QED BY <1>2, <1>3, <1>8, QuietStepKeepsConnInv

LEMMA SendUnconnectedKeepsConnInv ==
  ASSUME NEW X, Inv(X), Inv(X)', ConnInv, NEW n \in Node, SendUnconnected(n)
  PROVE  ConnInv'
<1>1. node' = [node EXCEPT ![n].sender = "dead", ![n].requests = <<>>] /\ link' = link
  BY DEF SendUnconnected
<1>2. \A x \in Node \ {n} : node'[x] = node[x]
  BY <1>1 DEF Inv
<1>3. node'[n].conn = node[n].conn /\ node'[n].hung = node[n].hung
  BY <1>1, InvOfNode DEF Inv, StateOf
<1> QED BY <1>1, <1>2, <1>3, QuietStepKeepsConnInv

\* A read leaves the other directions as they are.
LEMMA AfterReadElsewhere ==
  ASSUME NEW X, Inv(X), NEW n \in Node, NEW m \in Node, NEW k
  PROVE  \A x, y \in Node : x # m \/ y # n => AfterRead(m, n, k)[x][y] = link[x][y]
  BY DEF AfterRead, Inv, ProperLinks

LEMMA ReadHangUpKeepsConnInv ==
  ASSUME NEW X, Inv(X), Inv(X)', ConnInv, NEW n \in Node, NEW m \in Node, ReadHangUp(n, m)
  PROVE  ConnInv'
<1>1. /\ node' = [node EXCEPT ![n].closed = @ \cup {m}, ![n].reader = "dead"]
      /\ link' = AfterRead(m, n, 0)
      /\ link[m][n] # <<>>
  BY DEF ReadHangUp, CanRead
<1>2. \A x \in Node \ {n} : node'[x] = node[x]
  BY <1>1 DEF Inv
<1>3. node'[n].conn = node[n].conn /\ node'[n].hung = node[n].hung
  BY <1>1, InvOfNode DEF Inv, StateOf
<1>4. Swallows(m, n, 0)
  <2>1. Len(link[m][n]) \in Nat \ {0}
    BY <1>1, EmptySeq DEF Inv, ProperLinks
  <2> QED BY <2>1 DEF Swallows
<1>5. Head(link[m][n]) # Accepting
  <2>1. HangUp.type = "d" /\ Accepting.type = "a"
    BY DEF HangUp, Accepting
  <2> QED BY <2>1 DEF ReadHangUp
<1>6. Has(link'[m][n]) <=> Has(link[m][n])
  BY <1>1, <1>4, <1>5, HasAfterRead
<1>7. \A x, y \in Node : Has(link'[x][y]) <=> Has(link[x][y])
  BY <1>1, <1>6, AfterReadElsewhere
<1> QED BY <1>2, <1>3, <1>7, QuietStepKeepsConnInv

LEMMA HandleCostKeepsConnInv ==
  ASSUME NEW X, Inv(X), Inv(X)', ConnInv, NEW n \in Node, NEW p \in Node, HandleCost(n, p)
  PROVE  ConnInv'
<1> DEFINE s == [node[n] EXCEPT !.asked = @ \ {p}]
           t == IF p \in s.waiting
                THEN AddMeasuredPeerToActiveView(s, p, Cost[n][p]) ELSE s
<1>1. NodeInv(n, s, X) /\ s.conn = node[n].conn /\ s.hung = node[n].hung
  <2>1. NodeInv(n, s, X)
    BY UpdatesAreProper DEF Inv
  <2>2. s.conn = node[n].conn /\ s.hung = node[n].hung
    BY InvOfNode DEF StateOf
  <2> QED BY <2>1, <2>2
<1>2. p \in Node \ {n} /\ Cost[n][p] \in Nat
  BY CostAssumption, InvOfNode DEF HandleCost, StateOf
<1>3. NodeInv(n, t, X)
  BY <1>1, <1>2, AddMeasuredIsProper DEF HandleCost, NodeInv
<1>4. KeepsChannels(s, t)
  <2>1. KeepsChannels(s, s)
    BY DEF KeepsChannels
  <2> QED BY <1>1, <2>1, AddMeasuredKeeps DEF NodeInv
<1>5. Commit(n, t, link) /\ ProperLinks(link, X)
  BY DEF HandleCost, Inv
<1> HIDE DEF s, t
<1> QED BY <1>1, <1>3, <1>4, <1>5, CommitLinks, StepKeepsConnInv DEF KeepsChannels, Known

LEMMA ReadMessageKeepsConnInv ==
  ASSUME NEW X, Inv(X), Inv(X)', ConnInv, NEW n \in Node, NEW m \in Node, ReadMessage(n, m)
  PROVE  ConnInv'
<1>1. PICK k \in 0..Len(link[m][n]) :
        /\ Swallows(m, n, k)
        /\ IF node[n].thread = "running"
           THEN \E t \in HandleMessage(node[n], m, Head(link[m][n])) :
                  Commit(n, t, AfterRead(m, n, k))
           ELSE Commit(n, node[n], AfterRead(m, n, k))
  BY DEF ReadMessage
<1> DEFINE f    == Head(link[m][n])
           rest == AfterRead(m, n, k)
<1>2. k \in Nat /\ link[m][n] # <<>> /\ f \in Message
  BY DEF ReadMessage, CanRead
<1>3. m # n /\ f \in FrameFor(m, n, X) /\ ProperLinks(rest, X)
  BY <1>2, AfterReadIsProper
<1>4. ProperTo(n, f)
  BY <1>3 DEF FrameFor
<1>5. NodeInv(n, node[n], X) /\ KeepsChannels(node[n], node[n])
  BY DEF Inv, KeepsChannels
<1>6. ASSUME NEW t \in HandleMessage(node[n], m, f)
      PROVE  NodeInv(n, t, X) /\ KeepsChannels(node[n], t)
  BY <1>2, <1>3, <1>4, <1>5, MessageIsProper DEF NodeInv, Keeps
<1>7. PICK t : NodeInv(n, t, X) /\ KeepsChannels(node[n], t) /\ Commit(n, t, rest)
  BY <1>1, <1>5, <1>6
<1>8. Has(rest[m][n]) <=> Has(link[m][n])
  <2>1. f # Accepting
    BY <1>2, AcceptingIsNoMessage
  <2> QED BY <1>1, <1>2, <2>1, HasAfterRead
<1>9. \A x, y \in Node : x # m \/ y # n => rest[x][y] = link[x][y]
  BY AfterReadElsewhere
<1> HIDE DEF f, rest
<1>10. \A y \in Node \ {n} : /\ Has(rest[n][y]) <=> Has(link[n][y])
                             /\ Has(rest[y][n]) <=> Has(link[y][n])
  BY <1>3, <1>8, <1>9
<1>11. \A x, y \in Node \ {n} : rest[x][y] = link[x][y]
  BY <1>9
<1> QED BY <1>3, <1>7, <1>10, <1>11, CommitLinks, StepKeepsConnInv DEF KeepsChannels, Known

LEMMA ReadIdKeepsConnInv ==
  ASSUME NEW X, Inv(X), Inv(X)', ConnInv, NEW n \in Node, NEW m \in Node, ReadId(n, m)
  PROVE  ConnInv'
<1>1. PICK k \in 0..Len(link[m][n]) :
        /\ Swallows(m, n, k)
        /\ LET s    == [node[n] EXCEPT !.conn = @ \cup {m}]
               rest == AfterRead(m, n, k)
               lks  == IF Head(link[m][n]) = Connecting
                       THEN [rest EXCEPT ![n][m] = Append(@, Accepting)] ELSE rest
           IN  IF s.thread = "running"
               THEN \E t \in HandleConnection(s, m) : Commit(n, t, lks)
               ELSE Commit(n, s, lks)
  BY DEF ReadId
<1> DEFINE s    == [node[n] EXCEPT !.conn = @ \cup {m}]
           rest == AfterRead(m, n, k)
           lks  == IF Head(link[m][n]) = Connecting
                   THEN [rest EXCEPT ![n][m] = Append(@, Accepting)] ELSE rest
<1>2. k \in Nat /\ link[m][n] # <<>>
  BY DEF ReadId, CanRead
<1>3. m # n /\ ProperLinks(rest, X)
  BY <1>2, AfterReadIsProper
<1>4. Accepting \in FrameFor(n, m, X) /\ Accepting \in Frame \cup X
  BY <1>3 DEF FrameFor, Frame, Accepting, ProperTo
<1>5. ProperLinks(lks, X)
  BY <1>3, <1>4, AppendIsProper
<1>6. NodeInv(n, s, X) /\ s.conn = node[n].conn \cup {m} /\ s.hung = node[n].hung
  <2>1. NodeInv(n, s, X)
    BY <1>3, UpdatesAreProper DEF Inv
  <2>2. s.conn = node[n].conn \cup {m} /\ s.hung = node[n].hung
    BY InvOfNode DEF StateOf
  <2> QED BY <2>1, <2>2
<1>7. ASSUME NEW t \in HandleConnection(s, m)
      PROVE  NodeInv(n, t, X) /\ KeepsChannels(s, t)
  <2> HIDE DEF s
  <2>1. s \in StateOf(n, X) /\ Sound(s) /\ (~OracleAnswers => s.biased = {})
    BY <1>6 DEF NodeInv
  <2>2. t \in StateOf(n, X) /\ Sound(t) /\ Keeps(s, t)
    BY <1>3, <2>1, ConnectionIsProper
  <2> QED BY <2>1, <2>2 DEF NodeInv, Keeps
<1>8. PICK t : NodeInv(n, t, X) /\ KeepsChannels(s, t) /\ Commit(n, t, lks)
  <2>1. KeepsChannels(s, s)
    BY DEF KeepsChannels
  <2> QED BY <1>1, <1>6, <1>7, <2>1
<1>9. m \in Known(node'[n])
  BY <1>5, <1>6, <1>8, CommitLinks DEF KeepsChannels, Known
<1>10. /\ Has(rest[m][n]) => Has(link[m][n])
       /\ Has(link[m][n]) => Has(rest[m][n]) \/ Head(link[m][n]) = Accepting
       /\ Head(link[m][n]) = Accepting => Has(link[m][n])
  BY <1>1, <1>2, HasAfterRead
<1>11. \A x, y \in Node : x # m \/ y # n => rest[x][y] = link[x][y]
  BY AfterReadElsewhere
<1>12. \A x, y \in Node : x # n \/ y # m => lks[x][y] = rest[x][y]
  BY <1>3 DEF ProperLinks
<1>13. /\ Has(link[n][m]) => Has(lks[n][m])
       /\ Head(link[m][n]) = Connecting => Has(lks[n][m])
  <2>1. Has(Append(rest[n][m], Accepting))
    BY <1>3, <1>4, HasAppend DEF ProperLinks
  <2>2. rest[n][m] = link[n][m]
    BY <1>3, <1>11
  <2>3. Head(link[m][n]) = Connecting => lks[n][m] = Append(rest[n][m], Accepting)
    BY <1>3 DEF ProperLinks
  <2>4. Head(link[m][n]) # Connecting => lks[n][m] = rest[n][m]
    OBVIOUS
  <2> QED BY <2>1, <2>2, <2>3, <2>4
<1>14. Head(link[m][n]) = Accepting => n \in Known(node[m])
  BY <1>10 DEF ConnInv
<1>15. Head(link[m][n]) \in {Connecting, Accepting}
  BY DEF ReadId
<1> HIDE DEF s, rest, lks
<1>16. /\ \A x \in Node \ {n} : node'[x] = node[x]
       /\ node'[n].conn = t.conn /\ node'[n].hung = t.hung
       /\ \A y \in Node : Has(link'[n][y]) <=> Has(lks[n][y])
       /\ \A y \in Node \ {n} : /\ Has(link'[y][n]) => Has(lks[y][n])
                                /\ Has(lks[y][n]) => Has(link'[y][n]) \/ y \in t.hung
       /\ \A x, y \in Node \ {n} : link'[x][y] = lks[x][y]
  BY <1>5, <1>8, CommitLinks
<1>17. /\ node[n].hung \subseteq node'[n].hung
       /\ node[n].conn \ node'[n].conn \subseteq node'[n].hung
       /\ node'[n].conn \subseteq node[n].conn \cup {m}
  BY <1>6, <1>8, <1>16 DEF KeepsChannels
<1>18. \A x, y \in Node \ {n} : link'[x][y] = link[x][y]
  BY <1>11, <1>12, <1>16
<1>19. ASSUME NEW y \in Node \ {n}
       PROVE  /\ y \in node'[n].conn \ node[n].conn =>
                   n \in Known(node[y]) \/ Has(link'[n][y])
              /\ Has(link[n][y]) => Has(link'[n][y])
              /\ Has(link'[n][y]) => Has(link[n][y]) \/ y \in Known(node'[n])
              /\ Has(link'[y][n]) => Has(link[y][n])
              /\ Has(link[y][n]) => Has(link'[y][n]) \/ y \in Known(node'[n])
  <2>1. CASE y = m
    <3>1. y \in node'[n].conn \ node[n].conn => n \in Known(node[y]) \/ Has(link'[n][y])
      BY <1>13, <1>14, <1>15, <1>16, <2>1
    <3>2. Has(link[n][y]) => Has(link'[n][y])
      BY <1>13, <1>16, <2>1
    <3>3. Has(link'[y][n]) => Has(link[y][n])
      BY <1>10, <1>12, <1>16, <2>1
    <3> QED BY <1>9, <2>1, <3>1, <3>2, <3>3
  <2>2. CASE y # m
    <3>1. lks[n][y] = link[n][y] /\ lks[y][n] = link[y][n]
      BY <1>11, <1>12, <2>2
    <3>2. y \notin node'[n].conn \ node[n].conn
      BY <1>17, <2>2
    <3> QED BY <1>16, <3>1, <3>2 DEF Known
  <2> QED BY <2>1, <2>2
<1> QED BY <1>16, <1>17, <1>18, <1>19, StepKeepsConnInv

LEMMA InitHasConnInv == Init => ConnInv
<1> SUFFICES ASSUME Init, NEW m \in Node, NEW n \in Node
             PROVE  node[m].conn = {} /\ ~Has(link[m][n])
  BY DEF ConnInv
<1>1. node[m].conn = {}
  BY DEF Init, FreshNode
<1>2. link[m][n] = <<>>
  BY DEF Init
<1> QED BY <1>1, <1>2 DEF Has

LEMMA NextKeepsConnInv ==
  ASSUME NEW X, Accepting \notin X, Inv(X), Inv(X)', ConnInv, [Next]_vars
  PROVE  ConnInv'
<1>1. CASE \E n, m \in Node : JoinAt(n, m)
  BY <1>1, JoinAtKeepsConnInv
<1>2. CASE \E n \in Node : SendNext(n)
  BY <1>2, SendNextKeepsConnInv
<1>3. CASE \E n \in Node : SendUnconnected(n)
  BY <1>3, SendUnconnectedKeepsConnInv
<1>4. CASE \E n, m \in Node : ReadId(n, m)
  BY <1>4, ReadIdKeepsConnInv
<1>5. CASE \E n, m \in Node : ReadMessage(n, m)
  BY <1>5, ReadMessageKeepsConnInv
<1>6. CASE \E n, m \in Node : ReadHangUp(n, m)
  BY <1>6, ReadHangUpKeepsConnInv
<1>7. CASE \E n, p \in Node : HandleCost(n, p)
  BY <1>7, HandleCostKeepsConnInv
<1>8. CASE UNCHANGED vars
  BY <1>8 DEF vars, ConnInv, Has, Known
<1> QED BY <1>1, <1>2, <1>3, <1>4, <1>5, <1>6, <1>7, <1>8 DEF Next

\* The exchange of ids in TCP.handleIdExchange leaves no connection known to
\* one end only, unless the other end has hung up or is about to be told.
THEOREM ConnectionsAgreeHolds == Spec => []ConnectionsAgree
<1>1. ConnInv => ConnectionsAgree
  BY DEF ConnInv, ConnectionsAgree, Has
<1>2. Inv({}) /\ Inv({})' /\ ConnInv /\ [Next]_vars => ConnInv'
  BY NextKeepsConnInv
<1> QED BY <1>1, <1>2, InvHolds, InitHasConnInv, PTL DEF Spec
=============================================================================
