------------------------ MODULE XBotOptimization_proofs ------------------------
(***************************************************************************)
(* Theorems of XBotOptimization: what holds of the overlay while its nodes *)
(* join, measure and evict goes on holding while they optimize it, for any *)
(* number of nodes and of cycles, under way at once or one after another.  *)
(*                                                                         *)
(* The steps of XBotMembership keep Inv whatever further messages their    *)
(* links and queues carry (Inv is about a set X of them), so that only the *)
(* steps of a cycle are left.  These choose a peer from a view or a waiter *)
(* of costsWaiting: CycleInv adds what the waiters and optimize() hold.    *)
(***************************************************************************)
EXTENDS XBotOptimization, XBotMembership_proofs, WellFoundedInduction

EdgeType == [role : {"none"}] \cup [role : {"init", "disco"}, old : Node, cand : Node]

StepType == [step : {"idle", "pick", "ask", "put", "dead"},
             old : Node \cup {Nobody}, cand : Node \cup {Nobody}]

CycleTypes ==
  /\ init \in [Node -> Cycle \cup {NoCycle}]
  /\ timer \in [Node -> StepType]
  /\ edge \in [Node -> [Node -> EdgeType]]
  /\ owed \in [Node -> SUBSET ({"init", "disco"} \X Node)]
  /\ udp \in [Node -> {"running", "dead"}]
  /\ begun \in [Node -> Nat] /\ \A n \in Node : begun[n] <= MaxCycles[n]

\* A cycle that has been begun knows its old, and no node is its own candidate.
CandidateIsAnother ==
  \A n \in Node :
    /\ timer[n].step \in {"ask", "put"} => timer[n].old \in Node /\ timer[n].cand # n
    /\ \A p \in Node : edge[n][p].role = "init" => edge[n][p].cand # n

CycleInv == Inv(CycleMessage) /\ ConnInv /\ CycleTypes /\ CandidateIsAnother

-----------------------------------------------------------------------------
(* The worst biased peer. *)

\* Of the peers of a view one costs the most: the one that fewest cost more than.
LEMMA SomebodyIsWorst ==
  ASSUME NEW S, IsFiniteSet(S), S # {}, NEW cost, \A p \in S : cost[p] \in Nat
  PROVE  \E p \in S : \A q \in S : cost[q] <= cost[p]
<1> DEFINE Worse(p) == {q \in S : cost[q] > cost[p]}
           T == {Cardinality(Worse(p)) : p \in S}
           R == {ss \in Nat \X Nat : ss[1] < ss[2]}
<1>1. ASSUME NEW p \in S
      PROVE  IsFiniteSet(Worse(p)) /\ Cardinality(Worse(p)) \in Nat
  <2>1. Worse(p) \in SUBSET S
    OBVIOUS
  <2>2. IsFiniteSet(Worse(p))
    BY <2>1, FS_Subset
  <2> QED BY <2>2, FS_CardinalityType
<1>2. T \subseteq Nat /\ T # {}
  BY <1>1
<1>3. IsWellFoundedOn(R, Nat)
  BY NatLessThanWellFounded DEF OpToRel
<1>4. PICK k \in T : \A l \in T : ~(<<l, k>> \in R)
  <2> HIDE DEF T, R
  <2> QED BY <1>2, <1>3, WFMin
<1>5. PICK p \in S : k = Cardinality(Worse(p))
  OBVIOUS
<1>6. ASSUME NEW q \in S, ~(cost[q] <= cost[p])
      PROVE  FALSE
  <2>1. q \in Worse(p) /\ q \notin Worse(q)
    BY <1>6
  <2>2. Worse(q) \in SUBSET Worse(p)
    BY <1>6
  <2> HIDE DEF Worse
  <2>3. Cardinality(Worse(q)) <= Cardinality(Worse(p))
        /\ Cardinality(Worse(q)) # Cardinality(Worse(p))
    BY <1>1, <2>1, <2>2, FS_Subset
  <2>4. <<Cardinality(Worse(q)), k>> \in R
    BY <1>1, <1>5, <2>3
  <2> QED BY <1>4, <2>4
<1> QED BY <1>6

LEMMA WorstIsBiased ==
  ASSUME NEW X, NEW n \in Node, NEW s \in StateOf(n, X), s.biased # {}
  PROVE  WorstBiasedPeer(s) \in s.biased
<1>1. s.biased \in SUBSET Node /\ \A p \in s.biased : s.cost[p] \in Nat
  BY DEF StateOf
<1>2. IsFiniteSet(s.biased)
  BY <1>1, NodeAssumption, FS_Subset
<1>3. \E p \in s.biased : \A q \in s.biased : s.cost[q] <= s.cost[p]
  BY <1>1, <1>2, SomebodyIsWorst
<1> QED BY <1>3 DEF WorstBiasedPeer

-----------------------------------------------------------------------------
(* The handlers of a cycle. *)

LEMMA MessagesOfACycle ==
  /\ \A o \in Node : Optimization(o) \in CycleMessage /\ Replace(o) \in CycleMessage
  /\ \A ok \in BOOLEAN : OptimizationReply(ok) \in CycleMessage
  /\ \A f \in CycleMessage : f.type # "ForwardJoin" /\ f.type # "a"
<1>1. \A o \in Node : Optimization(o) \in CycleMessage /\ Replace(o) \in CycleMessage
  BY DEF CycleMessage
<1>2. \A ok \in BOOLEAN : OptimizationReply(ok) \in CycleMessage
  BY DEF CycleMessage
<1>3. /\ \A o : Optimization(o).type = "Optimization" /\ Replace(o).type = "Replace"
      /\ \A ok : OptimizationReply(ok).type = "OptimizationReply"
  BY DEF Optimization, Replace, OptimizationReply
<1>4. \A f \in CycleMessage : f.type # "ForwardJoin" /\ f.type # "a"
  BY <1>3 DEF CycleMessage
<1> QED BY <1>1, <1>2, <1>4

\* The messages of a cycle name no peer their receiver must not be.
LEMMA CycleMessageIsProper ==
  ASSUME NEW f \in CycleMessage, NEW to
  PROVE  ProperTo(to, f) /\ f # Accepting
  BY MessagesOfACycle DEF ProperTo, Accepting

LEMMA SendsProperly ==
  ASSUME NEW n \in Node, NEW s, NodeInv(n, s, CycleMessage), NEW to \in Node \ {n},
         NEW f \in CycleMessage
  PROVE  NodeInv(n, Send(s, to, f), CycleMessage) /\ KeepsChannels(s, Send(s, to, f))
<1>1. s \in StateOf(n, CycleMessage) /\ Sound(s)
  BY DEF NodeInv
<1>2. Send(s, to, f) \in StateOf(n, CycleMessage)
  BY <1>1, CycleMessageIsProper, SendIsProper
<1>3. Sound(Send(s, to, f)) /\ Keeps(s, Send(s, to, f))
  BY <1>1, SendIsSound
<1> QED BY <1>2, <1>3 DEF NodeInv, Keeps

LEMMA DiesProperly ==
  ASSUME NEW X, NEW n \in Node, NEW s, NodeInv(n, s, X)
  PROVE  NodeInv(n, Die(s), X) /\ KeepsChannels(s, Die(s))
  BY DEF NodeInv, StateOf, Sound, Die, KeepsChannels

LEMMA MovesToActiveProperly ==
  ASSUME NEW X, NEW n \in Node, NEW s, NodeInv(n, s, X), NEW p
  PROVE  /\ NodeInv(n, MovePeerToActiveView(s, p), X)
         /\ KeepsChannels(s, MovePeerToActiveView(s, p))
<1> DEFINE u == [s EXCEPT !.passive = @ \ {p}]
<1>1. CASE p \notin s.passive
  BY <1>1 DEF MovePeerToActiveView, KeepsChannels
<1>2. CASE p \in s.passive
  <2>1. p \in Node \ {n}
    BY <1>2 DEF NodeInv, StateOf
  <2>2. u \in StateOf(n, X) /\ Sound(u) /\ u.biased = s.biased /\ KeepsChannels(s, u)
    BY DEF NodeInv, StateOf, Sound, KeepsChannels
  <2> HIDE DEF u
  <2>3. /\ AddNewPeerToActiveView(u, p) \in StateOf(n, X)
        /\ Sound(AddNewPeerToActiveView(u, p))
        /\ Keeps(u, AddNewPeerToActiveView(u, p))
    BY <2>1, <2>2, AddNewIsProper, AddNewKeeps
  <2>4. MovePeerToActiveView(s, p) = AddNewPeerToActiveView(u, p)
    BY <1>2 DEF MovePeerToActiveView, u
  <2> QED BY <2>2, <2>3, <2>4 DEF NodeInv, Keeps, KeepsChannels
<1> QED BY <1>1, <1>2

LEMMA MovesToPassiveProperly ==
  ASSUME NEW X, NEW n \in Node, NEW s, NodeInv(n, s, X), NEW p
  PROVE  /\ NodeInv(n, MovePeerToPassiveView(s, p), X)
         /\ KeepsChannels(s, MovePeerToPassiveView(s, p))
  BY MoveIsProper, MoveKeeps DEF NodeInv, Keeps

\* The candidate answers its asker, or hands on to a neighbour of its own.
LEMMA OptimizationIsProper ==
  ASSUME NEW n \in Node, NEW s, NodeInv(n, s, CycleMessage), NEW from \in Node \ {n},
         NEW old \in Node
  PROVE  /\ NodeInv(n, HandleOptimization(s, from, old), CycleMessage)
         /\ KeepsChannels(s, HandleOptimization(s, from, old))
<1>1. CASE s.biased = {}
  <2>1. HandleOptimization(s, from, old) = Send(s, from, OptimizationReply(FALSE))
    BY <1>1 DEF HandleOptimization
  <2> QED BY <2>1, MessagesOfACycle, SendsProperly
<1>2. CASE s.biased # {} /\ IsntFull(s)
  <2>1. HandleOptimization(s, from, old) = Send(s, from, OptimizationReply(TRUE))
    BY <1>2 DEF HandleOptimization
  <2> QED BY <2>1, MessagesOfACycle, SendsProperly
<1>3. CASE s.biased # {} /\ ~IsntFull(s)
  <2>1. HandleOptimization(s, from, old) = Send(s, WorstBiasedPeer(s), Replace(old))
    BY <1>3 DEF HandleOptimization
  <2>2. WorstBiasedPeer(s) \in Node \ {n}
    <3>1. s \in StateOf(n, CycleMessage)
      BY DEF NodeInv
    <3>2. WorstBiasedPeer(s) \in s.biased
      BY <1>3, <3>1, WorstIsBiased
    <3> QED BY <3>1, <3>2 DEF StateOf
  <2> QED BY <2>1, <2>2, MessagesOfACycle, SendsProperly
<1> QED BY <1>1, <1>2, <1>3

LEMMA ReplyIsProper ==
  ASSUME NEW n \in Node, NEW s, NodeInv(n, s, CycleMessage), NEW c, NEW accept
  PROVE  /\ NodeInv(n, HandleOptimizationReply(s, c, accept), CycleMessage)
         /\ KeepsChannels(s, HandleOptimizationReply(s, c, accept))
<1> DEFINE u == MovePeerToPassiveView(s, c.old)
           t == MovePeerToActiveView(u, c.cand)
<1>1. NodeInv(n, u, CycleMessage) /\ KeepsChannels(s, u)
  BY MovesToPassiveProperly
<1>2. NodeInv(n, t, CycleMessage) /\ KeepsChannels(u, t)
  <2> HIDE DEF u
  <2> QED BY <1>1, MovesToActiveProperly
<1>3. KeepsChannels(s, t)
  <2> HIDE DEF u, t
  <2> QED BY <1>1, <1>2 DEF KeepsChannels
<1>4. KeepsChannels(s, s)
  BY DEF KeepsChannels
<1> QED BY <1>2, <1>3, <1>4 DEF HandleOptimizationReply

\* What a cost leads to depends on who waits for it; the waiter of an init
\* names another node as the candidate.
LEMMA ToldIsProper ==
  ASSUME CycleInv, OracleAnswers, NEW n \in Node, NEW p \in Node,
         NEW s, NodeInv(n, s, CycleMessage)
  PROVE  NodeInv(n, Told(n, p, s), CycleMessage) /\ KeepsChannels(s, Told(n, p, s))
<1>1. s \in StateOf(n, CycleMessage) /\ Sound(s) /\ KeepsChannels(s, s)
  BY DEF NodeInv, KeepsChannels
<1>2. CASE p \in node[n].waiting
  <2>1. Told(n, p, s) = AddMeasuredPeerToActiveView(s, p, Cost[n][p])
    BY <1>2 DEF Told, Waiter
  <2>2. node[n] \in StateOf(n, CycleMessage)
    BY InvOfNode DEF CycleInv
  <2>3. p \in Node \ {n} /\ Cost[n][p] \in Nat
    BY <1>2, <2>2, CostAssumption DEF StateOf
  <2>4. /\ AddMeasuredPeerToActiveView(s, p, Cost[n][p]) \in StateOf(n, CycleMessage)
        /\ Sound(AddMeasuredPeerToActiveView(s, p, Cost[n][p]))
    BY <1>1, <2>3, AddMeasuredIsProper
  <2>5. KeepsChannels(s, AddMeasuredPeerToActiveView(s, p, Cost[n][p]))
    BY <1>1, AddMeasuredKeeps
  <2> QED BY <2>1, <2>4, <2>5 DEF NodeInv
<1>3. CASE p \notin node[n].waiting
  <2> DEFINE w == edge[n][p]
  <2>1. Waiter(n, p) = w /\ w \in EdgeType
    BY <1>3 DEF Waiter, CycleInv, CycleTypes
  <2>2. w.role \in {"none", "init", "disco"}
        /\ (w.role = "init" => w.old \in Node /\ w.cand \in Node \ {n})
    BY <2>1 DEF EdgeType, CycleInv, CandidateIsAnother
  <2> HIDE DEF w
  <2>3. CASE w.role = "none"
    <3>1. Told(n, p, s) = s
      BY <2>1, <2>3 DEF Told
    <3> QED BY <1>1, <3>1
  <2>4. CASE w.role = "init"
    <3>1. Told(n, p, s) = IF s.biased = {} THEN s ELSE Send(s, w.cand, Optimization(w.old))
      BY <2>1, <2>4 DEF Told
    <3>2. /\ NodeInv(n, Send(s, w.cand, Optimization(w.old)), CycleMessage)
          /\ KeepsChannels(s, Send(s, w.cand, Optimization(w.old)))
      BY <2>2, <2>4, MessagesOfACycle, SendsProperly
    <3> QED BY <1>1, <3>1, <3>2
  <2>5. CASE w.role = "disco"
    <3>1. Told(n, p, s) = Die(s)
      BY <2>1, <2>5 DEF Told
    <3> QED BY <3>1, DiesProperly
  <2> QED BY <2>2, <2>3, <2>4, <2>5
<1> QED BY <1>2, <1>3

-----------------------------------------------------------------------------
(* The steps: first what they do to the overlay. *)

LEMMA UpdateKeepsInv ==
  ASSUME NEW X, Inv(X), NEW n \in Node, NEW t, NodeInv(n, t, X),
         node' = [node EXCEPT ![n] = t], ProperLinks(link', X), started' = started
  PROVE  Inv(X)'
<1>1. node' = [m \in Node |-> node'[m]] /\ \A m \in Node : NodeInv(m, node'[m], X)
  BY DEF Inv
<1> QED BY <1>1 DEF Inv, ProperLinks

\* A handler that lets no connection be half known, and its frame is no "a".
LEMMA ReadKeepsBoth ==
  ASSUME NEW X, Inv(X), ConnInv, NEW n \in Node, NEW m \in Node, CanRead(n, m),
         Head(link[m][n]) # Accepting, NEW t, NodeInv(n, t, X),
         KeepsChannels(node[n], t), Commit(n, t, AfterRead(m, n, 0))
  PROVE  Inv(X)' /\ ConnInv'
<1> DEFINE rest == AfterRead(m, n, 0)
<1>1. link[m][n] # <<>>
  BY DEF CanRead
<1>2. m # n /\ ProperLinks(rest, X)
  BY <1>1, AfterReadIsProper
<1>3. Inv(X)'
  BY <1>2, CommitKeepsInv
<1>4. Swallows(m, n, 0)
  <2>1. Len(link[m][n]) \in Nat \ {0}
    BY <1>1, EmptySeq DEF Inv, ProperLinks
  <2> QED BY <2>1 DEF Swallows
<1>5. Has(rest[m][n]) <=> Has(link[m][n])
  BY <1>1, <1>4, HasAfterRead
<1>6. \A x, y \in Node : x # m \/ y # n => rest[x][y] = link[x][y]
  BY AfterReadElsewhere
<1> HIDE DEF rest
<1>7. \A y \in Node \ {n} : /\ Has(rest[n][y]) <=> Has(link[n][y])
                            /\ Has(rest[y][n]) <=> Has(link[y][n])
  BY <1>2, <1>5, <1>6
<1>8. \A x, y \in Node \ {n} : rest[x][y] = link[x][y]
  BY <1>6
<1>9. Commit(n, t, rest)
  BY DEF rest
<1>10. ConnInv'
  BY <1>2, <1>3, <1>7, <1>8, <1>9, CommitLinks, StepKeepsConnInv DEF KeepsChannels, Known
<1> QED BY <1>3, <1>10

\* The same for a handler that reads nothing.
LEMMA CommitKeepsBoth ==
  ASSUME NEW X, Inv(X), ConnInv, NEW n \in Node, NEW t, NodeInv(n, t, X),
         KeepsChannels(node[n], t), Commit(n, t, link)
  PROVE  Inv(X)' /\ ConnInv'
<1>1. ProperLinks(link, X)
  BY DEF Inv
<1>2. Inv(X)'
  BY <1>1, CommitKeepsInv
<1>3. ConnInv'
  BY <1>1, <1>2, CommitLinks, StepKeepsConnInv DEF KeepsChannels, Known
<1> QED BY <1>2, <1>3

\* Putting a waiter into costsWaiting touches no view and no connection.
LEMMA PutEdgeKeepsBoth ==
  ASSUME NEW X, Inv(X), ConnInv, NEW n \in Node, NEW peers, NEW e,
         PutEdge(n, node[n], peers, e), started' = started, ProperLinks(link', X),
         \A x, y \in Node : Has(link'[x][y]) <=> Has(link[x][y])
  PROVE  Inv(X)' /\ ConnInv'
<1> DEFINE t == [node[n] EXCEPT !.waiting = @ \ peers]
<1>1. NodeInv(n, node[n], X)
  BY DEF Inv
<1>2. NodeInv(n, t, X) /\ t.conn = node[n].conn /\ t.hung = node[n].hung
  BY <1>1 DEF NodeInv, StateOf, Sound
<1>3. node' = [node EXCEPT ![n] = t]
  BY DEF PutEdge
<1> HIDE DEF t
<1>4. Inv(X)'
  BY <1>2, <1>3, UpdateKeepsInv
<1>5. /\ \A x \in Node \ {n} : node'[x] = node[x]
      /\ node'[n].conn = node[n].conn /\ node'[n].hung = node[n].hung
  BY <1>2, <1>3 DEF Inv
<1> QED BY <1>4, <1>5, QuietStepKeepsConnInv

\* The steps of XBotMembership do what they do without the cycles.
LEMMA OverlayStepKeepsBoth ==
  ASSUME CycleInv, [Next]_vars
  PROVE  Inv(CycleMessage)' /\ ConnInv'
<1>1. Accepting \notin CycleMessage
  BY CycleMessageIsProper
<1>2. Inv(CycleMessage)'
  BY NextKeepsInv DEF CycleInv
<1> QED BY <1>1, <1>2, NextKeepsConnInv DEF CycleInv

LEMMA MembershipIsNext == Membership => Next /\ UNCHANGED cycleVars
  BY DEF Membership, Next

\* What is read as a message of a cycle came from another node and is no "a".
LEMMA ReadsCycleMessage ==
  ASSUME CycleInv, NEW n \in Node, NEW m \in Node, CanRead(n, m),
         Head(link[m][n]) \in CycleMessage
  PROVE  m \in Node \ {n} /\ Head(link[m][n]) # Accepting
  BY AfterReadIsProper, CycleMessageIsProper DEF CanRead, CycleInv

LEMMA FieldsOfACycleMessage ==
  ASSUME NEW f \in CycleMessage
  PROVE  /\ f.type = "Optimization" => f.old \in Node
         /\ f.type = "Replace" => f.old \in Node
<1>1. CASE \E o \in Node : f = Optimization(o)
  BY <1>1 DEF Optimization
<1>2. CASE \E ok \in BOOLEAN : f = OptimizationReply(ok)
  BY <1>2 DEF OptimizationReply
<1>3. CASE \E o \in Node : f = Replace(o)
  BY <1>3 DEF Replace
<1> QED BY <1>1, <1>2, <1>3 DEF CycleMessage

LEMMA OptimizationKeepsBoth ==
  ASSUME CycleInv, NEW n \in Node, NEW m \in Node, ReadOptimization(n, m)
  PROVE  Inv(CycleMessage)' /\ ConnInv'
<1> DEFINE old == Head(link[m][n]).old
           t   == HandleOptimization(node[n], m, old)
<1>1. /\ CanRead(n, m) /\ Head(link[m][n]) \in CycleMessage
      /\ Head(link[m][n]).type = "Optimization"
      /\ Commit(n, t, AfterRead(m, n, 0))
  BY DEF ReadOptimization, CanReadCycle
<1>2. m \in Node \ {n} /\ Head(link[m][n]) # Accepting
  BY <1>1, ReadsCycleMessage
<1>3. old \in Node
  BY <1>1, FieldsOfACycleMessage
<1>4. NodeInv(n, node[n], CycleMessage)
  BY DEF CycleInv, Inv
<1>5. NodeInv(n, t, CycleMessage) /\ KeepsChannels(node[n], t)
  <2> HIDE DEF old
  <2> QED BY <1>2, <1>3, <1>4, OptimizationIsProper
<1> HIDE DEF t
<1> QED BY <1>1, <1>2, <1>5, ReadKeepsBoth DEF CycleInv

LEMMA OptimizationReplyKeepsBoth ==
  ASSUME CycleInv, NEW n \in Node, NEW m \in Node, ReadOptimizationReply(n, m)
  PROVE  Inv(CycleMessage)' /\ ConnInv'
<1>1. CanRead(n, m) /\ Head(link[m][n]) \in CycleMessage
  BY DEF ReadOptimizationReply, CanReadCycle
<1>2. Head(link[m][n]) # Accepting
  BY <1>1, ReadsCycleMessage
<1>3. NodeInv(n, node[n], CycleMessage)
  BY DEF CycleInv, Inv
<1>4. PICK t : /\ NodeInv(n, t, CycleMessage) /\ KeepsChannels(node[n], t)
               /\ Commit(n, t, AfterRead(m, n, 0))
  <2>1. CASE init[n] = NoCycle
    <3>1. Commit(n, Die(node[n]), AfterRead(m, n, 0))
      BY <2>1 DEF ReadOptimizationReply
    <3> QED BY <1>3, <3>1, DiesProperly
  <2>2. CASE init[n] # NoCycle
    <3> DEFINE t == HandleOptimizationReply(node[n], init[n], Head(link[m][n]).accept)
    <3>1. Commit(n, t, AfterRead(m, n, 0))
      BY <2>2 DEF ReadOptimizationReply
    <3>2. NodeInv(n, t, CycleMessage) /\ KeepsChannels(node[n], t)
      BY <1>3, ReplyIsProper
    <3> QED BY <3>1, <3>2
  <2> QED BY <2>1, <2>2
<1> QED BY <1>1, <1>2, <1>4, ReadKeepsBoth DEF CycleInv

LEMMA ReplaceKeepsBoth ==
  ASSUME CycleInv, NEW n \in Node, NEW m \in Node, ReadReplace(n, m)
  PROVE  Inv(CycleMessage)' /\ ConnInv'
<1> DEFINE old == Head(link[m][n]).old
<1>1. /\ CanRead(n, m) /\ Head(link[m][n]) \in CycleMessage
      /\ PutEdge(n, node[n], {old, m}, DiscoEdge(old, m))
      /\ link' = AfterRead(m, n, 0) /\ started' = started
  BY DEF ReadReplace, CanReadCycle
<1>2. Inv(CycleMessage) /\ ConnInv /\ link[m][n] # <<>>
  BY <1>1 DEF CycleInv, CanRead
<1>3. Head(link[m][n]) # Accepting
  BY <1>1, ReadsCycleMessage
<1>4. Swallows(m, n, 0)
  <2>1. Len(link[m][n]) \in Nat \ {0}
    BY <1>2, EmptySeq DEF Inv, ProperLinks
  <2> QED BY <2>1 DEF Swallows
<1>5. Has(link'[m][n]) <=> Has(link[m][n])
  BY <1>1, <1>2, <1>3, <1>4, HasAfterRead
<1>6. \A x, y \in Node : Has(link'[x][y]) <=> Has(link[x][y])
  BY <1>1, <1>2, <1>5, AfterReadElsewhere
<1>7. ProperLinks(link', CycleMessage)
  BY <1>1, <1>2, AfterReadIsProper
<1> HIDE DEF old
<1> QED BY <1>1, <1>2, <1>6, <1>7, PutEdgeKeepsBoth

LEMMA DropKeepsBoth ==
  ASSUME CycleInv, NEW n \in Node, NEW m \in Node, DropCycleMessage(n, m)
  PROVE  Inv(CycleMessage)' /\ ConnInv'
<1>1. /\ CanRead(n, m) /\ Head(link[m][n]) \in CycleMessage
      /\ Commit(n, node[n], AfterRead(m, n, 0))
  BY DEF DropCycleMessage
<1>2. Head(link[m][n]) # Accepting
  BY <1>1, ReadsCycleMessage
<1>3. NodeInv(n, node[n], CycleMessage) /\ KeepsChannels(node[n], node[n])
  BY DEF CycleInv, Inv, KeepsChannels
<1> QED BY <1>1, <1>2, <1>3, ReadKeepsBoth DEF CycleInv

LEMMA TellCostKeepsBoth ==
  ASSUME CycleInv, NEW n \in Node, NEW p \in Node, TellCost(n, p)
  PROVE  Inv(CycleMessage)' /\ ConnInv'
<1>1. NodeInv(n, node[n], CycleMessage) /\ node[n] \in StateOf(n, CycleMessage)
  BY DEF CycleInv, Inv, NodeInv
<1> DEFINE s == [node[n] EXCEPT !.asked = @ \ {p}]
<1>2. NodeInv(n, s, CycleMessage) /\ s.conn = node[n].conn /\ s.hung = node[n].hung
  <2>1. NodeInv(n, s, CycleMessage)
    BY <1>1, UpdatesAreProper
  <2>2. s.conn = node[n].conn /\ s.hung = node[n].hung
    BY <1>1 DEF StateOf
  <2> QED BY <2>1, <2>2
<1>3. Commit(n, Told(n, p, s), link) \/ Commit(n, Told(n, p, node[n]), link)
  BY DEF TellCost
<1> HIDE DEF s
<1>4. ASSUME NEW u \in {s, node[n]}
      PROVE  /\ NodeInv(n, Told(n, p, u), CycleMessage)
             /\ KeepsChannels(node[n], Told(n, p, u))
  <2>1. NodeInv(n, u, CycleMessage) /\ u.conn = node[n].conn /\ u.hung = node[n].hung
    BY <1>1, <1>2
  <2>2. NodeInv(n, Told(n, p, u), CycleMessage) /\ KeepsChannels(u, Told(n, p, u))
    BY <2>1, ToldIsProper DEF TellCost
  <2> QED BY <2>1, <2>2 DEF KeepsChannels
<1>5. PICK t : /\ NodeInv(n, t, CycleMessage) /\ KeepsChannels(node[n], t)
               /\ Commit(n, t, link)
  BY <1>3, <1>4
<1> QED BY <1>5, CommitKeepsBoth DEF CycleInv

LEMMA OptimizeKeepsBoth ==
  ASSUME CycleInv, NEW n \in Node, Optimize(n)
  PROVE  Inv(CycleMessage)' /\ ConnInv'
<1>1. CASE UNCHANGED vars
  BY <1>1, OverlayStepKeepsBoth
<1>2. CASE OptimizeWaits(n)
  <2>1. /\ PutEdge(n, node[n], {timer[n].cand} \cap Node, InitEdge(timer[n]))
        /\ started' = started /\ link' = link
    BY <1>2 DEF OptimizeWaits
  <2>2. ProperLinks(link', CycleMessage)
    BY <2>1 DEF CycleInv, Inv
  <2> QED BY <2>1, <2>2, PutEdgeKeepsBoth DEF CycleInv
<1> QED BY <1>1, <1>2 DEF Optimize, OptimizeBegins, OptimizePicks, OptimizeAsks

-----------------------------------------------------------------------------
(* The steps: what they do to the cycles. *)

LEMMA OptimizeBeginsTypes ==
  ASSUME CycleInv, NEW n \in Node, OptimizeBegins(n)
  PROVE  CycleTypes' /\ CandidateIsAnother'
<1> USE DEF CycleInv, CycleTypes, CandidateIsAnother, OptimizeBegins, Timer, Step, NewCycle
<1>1. NewCycle \in Cycle
  BY DEF Cycle
<1>2. init' \in [Node -> Cycle \cup {NoCycle}] /\ timer' \in [Node -> StepType]
  BY <1>1 DEF StepType
<1>3. begun' \in [Node -> Nat] /\ \A m \in Node : begun'[m] <= MaxCycles[m]
  <2>1. begun \in [Node -> Nat] /\ \A m \in Node : begun[m] <= MaxCycles[m]
    OBVIOUS
  <2>2. begun' = [begun EXCEPT ![n] = @ + 1] /\ begun[n] < MaxCycles[n]
    OBVIOUS
  <2>3. begun[n] \in Nat /\ MaxCycles[n] \in Nat
    BY <2>1, CyclesAssumption
  <2>4. begun[n] + 1 \in Nat /\ begun[n] + 1 <= MaxCycles[n]
    BY <2>2, <2>3
  <2> HIDE DEF CycleInv, CycleTypes, CandidateIsAnother, OptimizeBegins
  <2> QED BY <2>1, <2>2, <2>4
<1>4. \A m \in Node : timer'[m] = timer[m] \/ timer'[m].step = "pick"
  OBVIOUS
<1> QED BY <1>2, <1>3, <1>4

LEMMA OptimizePicksTypes ==
  ASSUME CycleInv, NEW n \in Node, OptimizePicks(n)
  PROVE  CycleTypes' /\ CandidateIsAnother'
<1> USE DEF CycleInv, CycleTypes, CandidateIsAnother, Timer, Step, NewCycle
<1>1. node[n] \in StateOf(n, CycleMessage)
  BY InvOfNode
<1>2. CASE node[n].biased = {}
  <2>1. /\ timer' = [timer EXCEPT ![n] = [step |-> "dead", old |-> Nobody, cand |-> Nobody]]
        /\ UNCHANGED <<init, edge, owed, udp, begun>>
    BY <1>2 DEF OptimizePicks
  <2>2. timer' \in [Node -> StepType]
    BY <2>1 DEF StepType
  <2>3. \A m \in Node : timer'[m] = timer[m] \/ timer'[m].step = "dead"
    BY <2>1
  <2> QED BY <2>1, <2>2, <2>3
<1>3. CASE node[n].biased # {}
  <2>1. PICK p \in IF node[n].passive = {} THEN {Nobody} ELSE node[n].passive :
          LET pair == [old |-> WorstBiasedPeer(node[n]), cand |-> p]
          IN  /\ Step(n, "ask", pair)
              /\ init' = [init EXCEPT ![n] = IF @ = NoCycle THEN @ ELSE pair]
              /\ UNCHANGED <<vars, edge, owed, udp, begun>>
    BY <1>3 DEF OptimizePicks
  <2> DEFINE old == WorstBiasedPeer(node[n])
  <2>2. old \in Node
    BY <1>1, <1>3, WorstIsBiased DEF StateOf
  <2>3. p \in Node \cup {Nobody} /\ p # n
    BY <1>1, NobodyAssumption DEF StateOf
  <2> HIDE DEF old
  <2>4. [old |-> old, cand |-> p] \in Cycle
    BY <2>2, <2>3 DEF Cycle
  <2>5. init' \in [Node -> Cycle \cup {NoCycle}]
    BY <2>1, <2>4 DEF old
  <2>6. timer' = [timer EXCEPT ![n] = [step |-> "ask", old |-> old, cand |-> p]]
    BY <2>1 DEF old
  <2>7. timer' \in [Node -> StepType]
    BY <2>2, <2>3, <2>6 DEF StepType
  <2> QED BY <2>1, <2>2, <2>3, <2>5, <2>6, <2>7
<1> QED BY <1>2, <1>3

LEMMA OptimizeAsksTypes ==
  ASSUME CycleInv, NEW n \in Node, OptimizeAsks(n)
  PROVE  CycleTypes' /\ CandidateIsAnother'
<1> USE DEF CycleInv, CycleTypes, CandidateIsAnother, OptimizeAsks, Timer, Step
<1>1. timer[n] \in StepType /\ timer[n].step = "ask"
  OBVIOUS
<1>2. timer' = [timer EXCEPT ![n] = [step |-> "put", old |-> timer[n].old, cand |-> timer[n].cand]]
  OBVIOUS
<1>3. timer' \in [Node -> StepType]
  BY <1>1, <1>2 DEF StepType
<1>4. udp' \in [Node -> {"running", "dead"}]
  OBVIOUS
<1>5. owed' \in [Node -> SUBSET ({"init", "disco"} \X Node)]
  <2> DEFINE cand == timer[n].cand
  <2>1. \/ timer[n].cand = Nobody /\ UNCHANGED owed
        \/ /\ timer[n].cand # Nobody
           /\ owed' = [owed EXCEPT ![n] = @ \cup {<<"init", timer[n].cand>>}]
    BY Zenon DEF OptimizeAsks
  <2>2. cand # Nobody => cand \in Node
    BY <1>1 DEF StepType
  <2>3. owed \in [Node -> SUBSET ({"init", "disco"} \X Node)]
    OBVIOUS
  <2> HIDE DEF cand, CycleInv, CycleTypes, CandidateIsAnother, OptimizeAsks
  <2>4. CASE cand = Nobody
    BY <2>1, <2>3, <2>4 DEF cand
  <2>5. CASE cand # Nobody
    <3> DEFINE S == SUBSET ({"init", "disco"} \X Node)
    <3>1. owed[n] \cup {<<"init", cand>>} \in S
      BY <2>2, <2>3, <2>5
    <3>2. owed' = [owed EXCEPT ![n] = owed[n] \cup {<<"init", cand>>}] /\ owed \in [Node -> S]
      BY <2>1, <2>3, <2>5 DEF cand
    <3> HIDE DEF S
    <3>3. owed' \in [Node -> S]
      BY <3>1, <3>2
    <3> QED BY <3>3 DEF S
  <2> QED BY <2>4, <2>5
<1> QED BY <1>1, <1>2, <1>3, <1>4, <1>5

LEMMA PutEdgeTypes ==
  ASSUME edge \in [Node -> [Node -> EdgeType]], NEW n \in Node, NEW s, NEW peers, NEW e,
         peers # {} => e \in EdgeType, PutEdge(n, s, peers, e)
  PROVE  /\ edge' \in [Node -> [Node -> EdgeType]]
         /\ \A m, p \in Node :
              edge'[m][p] = edge[m][p] \/ (m = n /\ p \in peers /\ edge'[m][p] = e)
<1>1. edge' = [edge EXCEPT ![n] = [p \in Node |-> IF p \in peers THEN e ELSE edge[n][p]]]
  BY DEF PutEdge
<1>2. ASSUME NEW p \in Node
      PROVE  (IF p \in peers THEN e ELSE edge[n][p]) \in EdgeType
  <2>1. edge[n][p] \in EdgeType
    OBVIOUS
  <2>2. CASE p \in peers
    BY <2>2
  <2>3. CASE p \notin peers
    BY <2>1, <2>3
  <2> QED BY <2>2, <2>3
<1>3. [p \in Node |-> IF p \in peers THEN e ELSE edge[n][p]] \in [Node -> EdgeType]
  BY <1>2
<1> QED BY <1>1, <1>3

LEMMA OptimizeWaitsTypes ==
  ASSUME CycleInv, NEW n \in Node, OptimizeWaits(n)
  PROVE  CycleTypes' /\ CandidateIsAnother'
<1> USE DEF CycleInv, CycleTypes, CandidateIsAnother
<1> DEFINE peers == {timer[n].cand} \cap Node
           e == InitEdge(timer[n])
<1>1. timer[n] \in StepType /\ timer[n].step = "put" /\ PutEdge(n, node[n], peers, e)
      /\ UNCHANGED <<init, owed, udp, begun>>
  BY DEF OptimizeWaits, Timer
<1>2. timer[n].old \in Node /\ timer[n].cand # n
  BY <1>1
<1>3. peers # {} => e \in EdgeType
  BY <1>2 DEF InitEdge, EdgeType
<1>4. e.cand = timer[n].cand
  BY DEF InitEdge
<1> HIDE DEF peers, e
<1>5. /\ edge' \in [Node -> [Node -> EdgeType]]
      /\ \A m, p \in Node :
           edge'[m][p] = edge[m][p] \/ (m = n /\ p \in peers /\ edge'[m][p] = e)
  BY <1>1, <1>3, PutEdgeTypes
<1>6. timer' = [timer EXCEPT ![n] = [step |-> "idle", old |-> Nobody, cand |-> Nobody]]
  BY DEF OptimizeWaits, Step, NewCycle
<1>7. timer' \in [Node -> StepType]
  BY <1>6 DEF StepType
<1> QED BY <1>1, <1>2, <1>4, <1>5, <1>6, <1>7

LEMMA ReadReplaceTypes ==
  ASSUME CycleInv, NEW n \in Node, NEW m \in Node, ReadReplace(n, m)
  PROVE  CycleTypes' /\ CandidateIsAnother'
<1> USE DEF CycleInv, CycleTypes, CandidateIsAnother
<1> DEFINE old == Head(link[m][n]).old
           e == DiscoEdge(old, m)
<1>1. /\ Head(link[m][n]) \in CycleMessage /\ Head(link[m][n]).type = "Replace"
      /\ PutEdge(n, node[n], {old, m}, e)
      /\ owed' = [owed EXCEPT ![n] = @ \cup {<<"disco", old>>, <<"disco", m>>}]
      /\ UNCHANGED <<init, timer, udp, begun>>
  BY DEF ReadReplace, CanReadCycle
<1>2. old \in Node
  BY <1>1, FieldsOfACycleMessage
<1> HIDE DEF old
<1>3. e \in EdgeType /\ e.role = "disco"
  BY <1>2 DEF DiscoEdge, EdgeType
<1> HIDE DEF e
<1>4. /\ edge' \in [Node -> [Node -> EdgeType]]
      /\ \A x, p \in Node : edge'[x][p] = edge[x][p] \/ edge'[x][p] = e
  BY <1>1, <1>3, PutEdgeTypes
<1>5. owed' \in [Node -> SUBSET ({"init", "disco"} \X Node)]
  BY <1>1, <1>2
<1> QED BY <1>1, <1>3, <1>4, <1>5

LEMMA OthersKeepTypes ==
  ASSUME CycleInv, NEW n \in Node, NEW m \in Node,
         ReadOptimization(n, m) \/ ReadOptimizationReply(n, m) \/ DropCycleMessage(n, m)
           \/ TellCost(n, m) \/ UNCHANGED cycleVars
  PROVE  CycleTypes' /\ CandidateIsAnother'
<1> USE DEF CycleInv, CycleTypes, CandidateIsAnother
<1>1. CASE UNCHANGED cycleVars
  BY <1>1 DEF cycleVars
<1>2. CASE ReadOptimizationReply(n, m)
  <2>1. init' = init \/ init' = [init EXCEPT ![n] = NoCycle]
    BY <1>2 DEF ReadOptimizationReply
  <2>2. UNCHANGED <<timer, edge, owed, udp, begun>>
    BY <1>2 DEF ReadOptimizationReply
  <2> QED BY <2>1, <2>2
<1>3. CASE TellCost(n, m)
  <2>1. owed' = owed \/ \E who \in {"init", "disco"} :
                           owed' = [owed EXCEPT ![n] = @ \ {<<who, m>>}]
    BY <1>3 DEF TellCost
  <2>2. UNCHANGED <<init, timer, edge, udp, begun>>
    BY <1>3 DEF TellCost
  <2> QED BY <2>1, <2>2
<1> QED BY <1>1, <1>2, <1>3 DEF ReadOptimization, DropCycleMessage

-----------------------------------------------------------------------------
(* The theorems. *)

LEMMA InitHasCycleInv == CycleInit => CycleInv
<1> SUFFICES ASSUME CycleInit PROVE CycleInv
  OBVIOUS
<1>1. Inv(CycleMessage) /\ ConnInv
  BY InitHasInv, InitHasConnInv DEF CycleInit
<1>2. CycleTypes
  BY CyclesAssumption DEF CycleInit, CycleTypes, StepType, EdgeType, NoEdge
<1>3. CandidateIsAnother
  BY DEF CycleInit, CandidateIsAnother, NoEdge
<1> QED BY <1>1, <1>2, <1>3 DEF CycleInv

LEMMA NextKeepsCycleInv == CycleInv /\ [CycleNext]_allVars => CycleInv'
<1> SUFFICES ASSUME CycleInv, [CycleNext]_allVars PROVE CycleInv'
  OBVIOUS
<1>1. CASE Membership
  <2>1. Inv(CycleMessage)' /\ ConnInv'
    BY <1>1, MembershipIsNext, OverlayStepKeepsBoth
  <2>2. CycleTypes' /\ CandidateIsAnother'
    BY <1>1, MembershipIsNext, FirstAssumption, OthersKeepTypes
  <2> QED BY <2>1, <2>2 DEF CycleInv
<1>2. ASSUME NEW n \in Node, Optimize(n) PROVE CycleInv'
  <2>1. Inv(CycleMessage)' /\ ConnInv'
    BY <1>2, OptimizeKeepsBoth
  <2>2. CycleTypes' /\ CandidateIsAnother'
    BY <1>2, OptimizeBeginsTypes, OptimizePicksTypes, OptimizeAsksTypes, OptimizeWaitsTypes
    DEF Optimize
  <2> QED BY <2>1, <2>2 DEF CycleInv
<1>3. ASSUME NEW n \in Node, NEW m \in Node, ReadOptimization(n, m) PROVE CycleInv'
  BY <1>3, OptimizationKeepsBoth, OthersKeepTypes DEF CycleInv
<1>4. ASSUME NEW n \in Node, NEW m \in Node, ReadOptimizationReply(n, m) PROVE CycleInv'
  BY <1>4, OptimizationReplyKeepsBoth, OthersKeepTypes DEF CycleInv
<1>5. ASSUME NEW n \in Node, NEW m \in Node, ReadReplace(n, m) PROVE CycleInv'
  BY <1>5, ReplaceKeepsBoth, ReadReplaceTypes DEF CycleInv
<1>6. ASSUME NEW n \in Node, NEW m \in Node, DropCycleMessage(n, m) PROVE CycleInv'
  BY <1>6, DropKeepsBoth, OthersKeepTypes DEF CycleInv
<1>7. ASSUME NEW n \in Node, NEW p \in Node, TellCost(n, p) PROVE CycleInv'
  BY <1>7, TellCostKeepsBoth, OthersKeepTypes DEF CycleInv
<1>8. CASE UNCHANGED allVars
  <2>1. UNCHANGED vars /\ UNCHANGED cycleVars
    BY <1>8 DEF allVars
  <2>2. Inv(CycleMessage)' /\ ConnInv'
    BY <2>1, OverlayStepKeepsBoth
  <2>3. CycleTypes' /\ CandidateIsAnother'
    BY <2>1, FirstAssumption, OthersKeepTypes
  <2> QED BY <2>2, <2>3 DEF CycleInv
<1> QED BY <1>1, <1>2, <1>3, <1>4, <1>5, <1>6, <1>7, <1>8 DEF CycleNext, CycleHandlers

\* While cycles begin, meet joins and evictions, are answered late, or never,
\* the overlay stays what Inv says it is, and no waiter asks a node to send
\* to itself.
THEOREM CycleInvHolds == CycleSpec => []CycleInv
<1> QED BY InitHasCycleInv, NextKeepsCycleInv, PTL DEF CycleSpec

LEMMA CycleInvImplies ==
  CycleInv => CycleTypeOK /\ NoSelf /\ ViewsAgree /\ ConnectionsAgree
<1> SUFFICES ASSUME CycleInv PROVE CycleTypeOK /\ NoSelf /\ ViewsAgree /\ ConnectionsAgree
  OBVIOUS
<1>1. NoSelf /\ ViewsAgree
  BY InvImplies DEF CycleInv
<1>2. ConnectionsAgree
  BY DEF CycleInv, ConnInv, ConnectionsAgree, Has
<1>3. CycleTypeOK
  <2>1. ASSUME NEW n \in Node
        PROVE  /\ [node[n] EXCEPT !.requests = <<>>] \in NodeState
               /\ node[n].requests \in Seq([to : Node, msg : Message \cup CycleMessage])
    BY InvOfNode, ProperIsTyped DEF CycleInv
  <2>2. started \subseteq Node /\ link \in [Node -> [Node -> Seq(Frame \cup CycleMessage)]]
    BY DEF CycleInv, Inv, ProperLinks
  <2> QED BY <2>1, <2>2 DEF CycleTypeOK, CycleInv, CycleTypes, StepType, EdgeType
<1> QED BY <1>1, <1>2, <1>3

\* Every variable keeps its type, the waiters of costsWaiting among them.
THEOREM CycleTypeOKHolds == CycleSpec => []CycleTypeOK
<1> QED BY CycleInvHolds, CycleInvImplies, PTL

\* No cycle makes a node its own neighbour, candidate or connection, though a
\* disco may have to ask for the cost of itself (XBotDisco.handleReplace).
THEOREM NoSelfWhileOptimizing == CycleSpec => []NoSelf
<1> QED BY CycleInvHolds, CycleInvImplies, PTL

\* The moves of a cycle between the views keep activeView the union of its
\* parts (movePeerToActiveView, XBotInit.handleOptimizationReply).
THEOREM ViewsAgreeWhileOptimizing == CycleSpec => []ViewsAgree
<1> QED BY CycleInvHolds, CycleInvImplies, PTL

\* A cycle leaves no connection that only one of its ends knows.
THEOREM ConnectionsAgreeWhileOptimizing == CycleSpec => []ConnectionsAgree
<1> QED BY CycleInvHolds, CycleInvImplies, PTL
================================================================================
