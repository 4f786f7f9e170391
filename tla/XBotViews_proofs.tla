--------------------------- MODULE XBotViews_proofs ---------------------------
(***************************************************************************)
(* What the methods of XBotViews preserve.  StateOf(n, X) has the states   *)
(* node n can be in: a NodeState that mentions n nowhere.  Sound adds      *)
(* that the active view is the union of its parts, that the unbiased view  *)
(* respects its size and that only peers noted as hung up on are hung up   *)
(* on.  Keeps relates the state before a method to the one after it.       *)
(*                                                                         *)
(* X is a set of messages of other protocols, which a node may have queued *)
(* besides its own: {} for XBotMembership alone, CycleMessage while the    *)
(* overlay is optimized.                                                   *)
(***************************************************************************)
EXTENDS XBotViews, FiniteSetTheorems, SequenceTheorems, TLAPS

\* A forward join is never sent to the node it introduces.
ProperTo(to, f) == f.type = "ForwardJoin" => f.joiner # to

RequestOf(n, X) == {r \in [to : Node, msg : Message \cup X] : r.to # n /\ ProperTo(r.to, r.msg)}

StateOf(n, X) ==
  [joining  : BOOLEAN,
   unbiased : SUBSET (Node \ {n}), biased : SUBSET (Node \ {n}),
   cost     : [Node -> Nat],
   active   : SUBSET (Node \ {n}), passive : SUBSET (Node \ {n}),
   future   : {f \in [Node -> {"none", "active", "passive"}] : f[n] = "none"},
   waiting  : SUBSET (Node \ {n}), asked : SUBSET (Node \ {n}),
   conn     : SUBSET (Node \ {n}), closed : SUBSET (Node \ {n}),
   hung     : SUBSET (Node \ {n}), dial : SUBSET (Node \ {n}),
   hangup   : SUBSET (Node \ {n}),
   requests : Seq(RequestOf(n, X)),
   thread   : {"running", "dead", "spinning"},
   sender   : {"running", "dead"},
   reader   : {"running", "dead"}]

Sound(s) ==
  /\ s.active = s.unbiased \cup s.biased
  /\ Cardinality(s.unbiased) <= UnbiasedMax
  /\ s.hangup \subseteq s.hung

\* From s to t no channel is registered, and one that is dropped was hung up on.
KeepsChannels(s, t) ==
  /\ t.conn \subseteq s.conn
  /\ s.conn \ t.conn \subseteq t.hung
  /\ s.hung \subseteq t.hung

\* Besides, nobody enters an empty biased view.
Keeps(s, t) == KeepsChannels(s, t) /\ (s.biased = {} => t.biased = {})

-----------------------------------------------------------------------------

LEMMA FreshIsProper ==
  ASSUME NEW X, NEW n \in Node
  PROVE  FreshNode \in StateOf(n, X) /\ Sound(FreshNode)
<1>1. FreshNode \in StateOf(n, X)
  BY DEF FreshNode, StateOf
<1>2. Sound(FreshNode)
  BY FS_EmptySet, SizeAssumption DEF FreshNode, Sound
<1> QED BY <1>1, <1>2

LEMMA ProperIsTyped ==
  ASSUME NEW X, NEW n \in Node, NEW s \in StateOf(n, X)
  PROVE  /\ [s EXCEPT !.requests = <<>>] \in NodeState
         /\ s.requests \in Seq([to : Node, msg : Message \cup X])
         /\ X = {} => s \in NodeState
<1>1. s.requests \in Seq([to : Node, msg : Message \cup X])
  <2>1. RequestOf(n, X) \subseteq [to : Node, msg : Message \cup X]
    BY DEF RequestOf
  <2>2. s.requests \in Seq(RequestOf(n, X))
    BY DEF StateOf
  <2> QED BY <2>1, <2>2, SeqMonotonic
<1>2. [s EXCEPT !.requests = <<>>] \in NodeState
  <2>1. <<>> \in Seq(Request)
    OBVIOUS
  <2> QED BY <2>1 DEF StateOf, NodeState
<1>3. X = {} => s.requests \in Seq(Request)
  BY <1>1 DEF Request
<1>4. X = {} => s \in NodeState
  BY <1>3 DEF StateOf, NodeState
<1> QED BY <1>1, <1>2, <1>4

LEMMA SendIsProper ==
  ASSUME NEW X, NEW n \in Node, NEW s \in StateOf(n, X), NEW to \in Node \ {n},
         NEW msg \in Message \cup X, ProperTo(to, msg)
  PROVE  Send(s, to, msg) \in StateOf(n, X)
<1>1. [to |-> to, msg |-> msg] \in RequestOf(n, X)
  BY DEF RequestOf
<1>2. Append(s.requests, [to |-> to, msg |-> msg]) \in Seq(RequestOf(n, X))
  BY <1>1 DEF StateOf
<1> QED BY <1>2 DEF Send, StateOf

\* A send changes the request queue only.
LEMMA SendIsSound ==
  ASSUME NEW X, NEW n \in Node, NEW s \in StateOf(n, X), NEW to, NEW msg
  PROVE  /\ Sound(s) => Sound(Send(s, to, msg))
         /\ Keeps(s, Send(s, to, msg))
         /\ Send(s, to, msg).active = s.active
         /\ Send(s, to, msg).sender = s.sender
         /\ Send(s, to, msg).thread = s.thread
  BY DEF Send, Sound, Keeps, KeepsChannels, StateOf

\* Taking a peer out of a view makes it no larger.
LEMMA RemoveIsNoLarger ==
  ASSUME NEW S, NEW e, IsFiniteSet(S)
  PROVE  /\ Cardinality(S) \in Nat
         /\ Cardinality(S \ {e}) \in Nat
         /\ Cardinality(S \ {e}) <= Cardinality(S)
<1>1. Cardinality(S) \in Nat
  BY FS_CardinalityType
<1>2. CASE e \in S
  <2>1. Cardinality(S \ {e}) = Cardinality(S) - 1
    BY <1>2, FS_RemoveElement
  <2>2. IsFiniteSet(S \ {e})
    BY <1>2, FS_RemoveElement
  <2>3. Cardinality(S \ {e}) \in Nat
    BY <2>2, FS_CardinalityType
  <2> QED BY <1>1, <2>1, <2>3
<1>3. CASE e \notin S
  <2>1. S \ {e} = S
    BY <1>3
  <2> QED BY <1>1, <2>1
<1> QED BY <1>2, <1>3

LEMMA MoveIsProper ==
  ASSUME NEW X, NEW n \in Node, NEW s \in StateOf(n, X), NEW p
  PROVE  /\ MovePeerToPassiveView(s, p) \in StateOf(n, X)
         /\ Sound(s) => Sound(MovePeerToPassiveView(s, p))
<1> DEFINE t == [s EXCEPT !.active = @ \ {p}, !.biased = @ \ {p}, !.cost[p] = 0,
                          !.unbiased = @ \ {p}, !.passive = @ \cup {p}]
<1>1. CASE p \notin s.active
  BY <1>1 DEF MovePeerToPassiveView
<1>2. CASE p \in s.active
  <2>1. p \in Node \ {n}
    BY <1>2 DEF StateOf
  <2>2. t \in StateOf(n, X)
    BY <2>1 DEF StateOf
  <2>3. Sound(s) => Sound(t)
    <3> SUFFICES ASSUME Sound(s) PROVE Sound(t)
      OBVIOUS
    <3>1. IsFiniteSet(s.unbiased)
      BY NodeAssumption, FS_Subset DEF StateOf
    <3> HIDE DEF t
    <3>2. /\ Cardinality(s.unbiased) \in Nat
          /\ Cardinality(s.unbiased \ {p}) \in Nat
          /\ Cardinality(s.unbiased \ {p}) <= Cardinality(s.unbiased)
      BY <3>1, RemoveIsNoLarger
    <3>. USE DEF t
    <3>3. Cardinality(s.unbiased \ {p}) <= UnbiasedMax
      BY <3>2, SizeAssumption DEF Sound
    <3> QED BY <3>3 DEF Sound, StateOf
  <2>4. Disconnect \in Message /\ ProperTo(p, Disconnect)
    BY DEF Message, ProperTo, Disconnect
  <2>5. MovePeerToPassiveView(s, p) = Send(t, p, Disconnect)
    BY <1>2 DEF MovePeerToPassiveView
  <2> QED BY <2>1, <2>2, <2>3, <2>4, <2>5, SendIsProper, SendIsSound
<1> QED BY <1>1, <1>2

LEMMA MoveKeeps ==
  ASSUME NEW X, NEW n \in Node, NEW s \in StateOf(n, X), NEW p
  PROVE  Keeps(s, MovePeerToPassiveView(s, p))
  BY DEF MovePeerToPassiveView, Send, StateOf, Keeps, KeepsChannels

LEMMA MakeRoomIsProper ==
  ASSUME NEW X, NEW n \in Node, NEW s \in StateOf(n, X)
  PROVE  /\ MakeRoom(s) \in StateOf(n, X)
         /\ Sound(s) => Sound(MakeRoom(s))
<1>1. Die(s) \in StateOf(n, X) /\ (Sound(s) => Sound(Die(s)))
  BY DEF Die, StateOf, Sound
<1> QED BY <1>1, MoveIsProper DEF MakeRoom

LEMMA MakeRoomKeeps ==
  ASSUME NEW X, NEW n \in Node, NEW s \in StateOf(n, X)
  PROVE  Keeps(s, MakeRoom(s))
  BY MoveKeeps DEF MakeRoom, Die, StateOf, Keeps, KeepsChannels

LEMMA AddUnbiasedIsProper ==
  ASSUME NEW X, NEW n \in Node, NEW s \in StateOf(n, X), NEW p \in Node \ {n},
         HasUnbiasedRoom(s)
  PROVE  /\ AddUnbiased(s, p) \in StateOf(n, X)
         /\ Sound(s) => Sound(AddUnbiased(s, p))
<1>1. AddUnbiased(s, p) \in StateOf(n, X)
  BY DEF AddUnbiased, StateOf
<1>2. IsFiniteSet(s.unbiased)
  BY NodeAssumption, FS_Subset DEF StateOf
<1>3. Cardinality(s.unbiased) \in Nat
  BY <1>2, FS_CardinalityType
<1>4. Cardinality(s.unbiased \cup {p}) \in {Cardinality(s.unbiased), Cardinality(s.unbiased) + 1}
  BY <1>2, FS_AddElement
<1>5. Cardinality(s.unbiased \cup {p}) <= UnbiasedMax
  BY <1>3, <1>4, SizeAssumption DEF HasUnbiasedRoom
<1> QED BY <1>1, <1>5 DEF AddUnbiased, Sound, StateOf

LEMMA AddBiasedIsProper ==
  ASSUME NEW X, NEW n \in Node, NEW s \in StateOf(n, X), NEW p \in Node \ {n},
         NEW cost \in Nat
  PROVE  /\ AddBiased(s, p, cost) \in StateOf(n, X)
         /\ Sound(s) => Sound(AddBiased(s, p, cost))
<1> DEFINE t == MakeRoom(s)
           u == [t EXCEPT !.cost[p] = IF p \in t.biased THEN @ ELSE cost,
                          !.biased = @ \cup {p}, !.active = @ \cup {p}]
<1>1. t \in StateOf(n, X) /\ (Sound(s) => Sound(t))
  BY MakeRoomIsProper
<1>2. u \in StateOf(n, X)
  BY <1>1, ZenonT(30) DEF StateOf
<1>3. Sound(t) => Sound(u)
  BY <1>1 DEF Sound, StateOf
<1> QED BY <1>1, <1>2, <1>3 DEF AddBiased

LEMMA MeasureIsProper ==
  ASSUME NEW X, NEW n \in Node, NEW s \in StateOf(n, X), NEW p \in Node \ {n}
  PROVE  /\ MeasureForBiased(s, p) \in StateOf(n, X)
         /\ Sound(s) => Sound(MeasureForBiased(s, p))
<1>1. MakeRoom(s) \in StateOf(n, X) /\ (Sound(s) => Sound(MakeRoom(s)))
  BY MakeRoomIsProper
<1>2. ASSUME NEW t \in StateOf(n, X)
      PROVE  GetCost(t, p) \in StateOf(n, X) /\ (Sound(t) => Sound(GetCost(t, p)))
  <2>1. GetCost(t, p) \in StateOf(n, X)
    BY ZenonT(30) DEF GetCost, StateOf
  <2>2. /\ GetCost(t, p).unbiased = t.unbiased /\ GetCost(t, p).biased = t.biased
        /\ GetCost(t, p).active = t.active
        /\ GetCost(t, p).hangup = t.hangup /\ GetCost(t, p).hung = t.hung
    BY DEF GetCost, StateOf
  <2> QED BY <2>1, <2>2 DEF Sound
<1> QED BY <1>1, <1>2 DEF MeasureForBiased

LEMMA AddNewIsProper ==
  ASSUME NEW X, NEW n \in Node, NEW s \in StateOf(n, X), NEW p \in Node \ {n}
  PROVE  /\ AddNewPeerToActiveView(s, p) \in StateOf(n, X)
         /\ Sound(s) => Sound(AddNewPeerToActiveView(s, p))
  BY AddUnbiasedIsProper, MeasureIsProper DEF AddNewPeerToActiveView

\* Only addPeerToBiasedActiveView(peer, cost) fills the biased view, and a
\* peer nobody has measured does not get there.
LEMMA AddNewKeeps ==
  ASSUME NEW X, NEW n \in Node, NEW s \in StateOf(n, X), NEW p
  PROVE  Keeps(s, AddNewPeerToActiveView(s, p))
<1>1. Keeps(s, AddUnbiased(s, p))
  BY DEF AddUnbiased, Keeps, KeepsChannels, StateOf
<1>2. MakeRoom(s) \in StateOf(n, X) /\ Keeps(s, MakeRoom(s))
  BY MakeRoomIsProper, MakeRoomKeeps
<1>3. Keeps(s, GetCost(MakeRoom(s), p))
  BY <1>2 DEF GetCost, Keeps, KeepsChannels, StateOf
<1> QED BY <1>1, <1>2, <1>3 DEF AddNewPeerToActiveView, MeasureForBiased

LEMMA AddMeasuredIsProper ==
  ASSUME NEW X, NEW n \in Node, NEW s \in StateOf(n, X), NEW p \in Node \ {n},
         NEW cost \in Nat
  PROVE  /\ AddMeasuredPeerToActiveView(s, p, cost) \in StateOf(n, X)
         /\ Sound(s) => Sound(AddMeasuredPeerToActiveView(s, p, cost))
  BY AddUnbiasedIsProper, AddBiasedIsProper DEF AddMeasuredPeerToActiveView

LEMMA AddMeasuredKeeps ==
  ASSUME NEW X, NEW n \in Node, NEW s \in StateOf(n, X), NEW p, NEW cost
  PROVE  KeepsChannels(s, AddMeasuredPeerToActiveView(s, p, cost))
<1>1. KeepsChannels(s, AddUnbiased(s, p))
  BY DEF AddUnbiased, KeepsChannels, StateOf
<1>2. MakeRoom(s) \in StateOf(n, X) /\ KeepsChannels(s, MakeRoom(s))
  BY MakeRoomIsProper, MakeRoomKeeps DEF Keeps
<1>3. KeepsChannels(s, AddBiased(s, p, cost))
  BY <1>2 DEF AddBiased, KeepsChannels, StateOf
<1> QED BY <1>1, <1>3 DEF AddMeasuredPeerToActiveView

LEMMA BeginIsProper ==
  ASSUME NEW X, NEW n \in Node, NEW s \in StateOf(n, X), NEW p \in Node \ {n},
         NEW kind \in {"active", "passive"}
  PROVE  /\ BeginConnection(s, p, kind) \in StateOf(n, X)
         /\ Sound(s) => Sound(BeginConnection(s, p, kind))
  BY DEF BeginConnection, StateOf, Sound

LEMMA DropIsProper ==
  ASSUME NEW X, NEW n \in Node, NEW s \in StateOf(n, X), NEW p \in Node \ {n}
  PROVE  /\ DropFromPassiveView(s, p) \in StateOf(n, X)
         /\ Sound(s) => Sound(DropFromPassiveView(s, p))
  BY DEF DropFromPassiveView, StateOf, Sound

LEMMA AddPassiveIsProper ==
  ASSUME NEW X, NEW n \in Node, NEW s \in StateOf(n, X), NEW p \in Node \ {n},
         NEW t \in AddNewPeerToPassiveView(s, p)
  PROVE  /\ t \in StateOf(n, X)
         /\ Sound(s) => Sound(t)
<1>1. \A q \in s.passive : q \in Node \ {n}
  BY DEF StateOf
<1> QED BY <1>1, BeginIsProper, DropIsProper DEF AddNewPeerToPassiveView

LEMMA AddPassiveKeeps ==
  ASSUME NEW X, NEW n \in Node, NEW s \in StateOf(n, X), NEW p,
         NEW t \in AddNewPeerToPassiveView(s, p)
  PROVE  Keeps(s, t)
<1>1. ASSUME NEW q
      PROVE  Keeps(s, BeginConnection(DropFromPassiveView(s, q), p, "passive"))
  BY DEF DropFromPassiveView, BeginConnection, Keeps, KeepsChannels, StateOf
<1>2. Keeps(s, BeginConnection(s, p, "passive"))
  BY DEF BeginConnection, Keeps, KeepsChannels, StateOf
<1> QED BY <1>1, <1>2 DEF AddNewPeerToPassiveView
=============================================================================
