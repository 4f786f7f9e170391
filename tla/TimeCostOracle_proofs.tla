------------------------ MODULE TimeCostOracle_proofs ------------------------
(***************************************************************************)
(* Theorems of TimeCostOracle for any peers and any sizes of its queues:   *)
(* its type invariant, that no more costs are kept than fit, and that it   *)
(* implements CostService.                                                 *)
(***************************************************************************)
EXTENDS TimeCostOracle, FiniteSetTheorems, FunctionTheorems, TLAPS

-----------------------------------------------------------------------------
(* Type correctness, and where each thread can stand. *)

Notification == [type : {"cost", "message"}, peer : Peer]

StepsOf(t) ==
  CASE t \in Caller   -> {"idle", "look", "send", "record"}
    [] t = "udpIn"    -> {"idle", "put"}
    [] t = "oracle"   -> {"idle", "forget"}
    [] OTHER          -> {"idle"}

Places ==
  \A t \in Thread :
    /\ at[t].step \in StepsOf(t)
    /\ at[t].step = "idle" => at[t] = Idle
    /\ at[t].step \in {"put", "forget"} => at[t].peer \in Peer

Types == TypeOK /\ Places

LEMMA InitTypes == Init => Types
<1> SUFFICES ASSUME Init PROVE Types
  OBVIOUS
<1> USE DEF Init, Idle
<1>1. TypeOK
  BY SizeAssumption DEF TypeOK, Asked, Step
<1>2. Places
  BY DEF Places, StepsOf, Caller
<1> QED  BY <1>1, <1>2 DEF Types

\* A queue with room for one more element, and one that is shortened.
LEMMA AppendFits ==
  ASSUME NEW S, NEW q \in Seq(S), NEW e \in S, NEW k \in Nat, Len(q) < k
  PROVE  Append(q, e) \in Seq(S) /\ Len(Append(q, e)) <= k
OBVIOUS

LEMMA TailFits ==
  ASSUME NEW S, NEW q \in Seq(S), q # <<>>, NEW k \in Nat, Len(q) <= k
  PROVE  Head(q) \in S /\ Tail(q) \in Seq(S) /\ Len(Tail(q)) <= k
OBVIOUS

\* Where a thread may be sent.
LEMMA MovedFits ==
  ASSUME Types, NEW t \in Thread, NEW s \in StepsOf(t) \ {"idle"}, NEW d \in Asked,
         s \in {"put", "forget"} => d \in Peer, Goto(t, s, d)
  PROVE  at' \in [Thread -> [step : Step, peer : Asked]] /\ Places'
<1>1. s \in Step
  BY DEF StepsOf, Step, Caller
<1>2. at \in [Thread -> [step : Step, peer : Asked]]
  BY DEF Types, TypeOK
<1>3. at' \in [Thread -> [step : Step, peer : Asked]]
  BY <1>1, <1>2 DEF Goto
<1>4. Places'
  BY <1>1, <1>2 DEF Goto, Types, Places
<1> QED  BY <1>3, <1>4

LEMMA ReturnedFits ==
  ASSUME Types, NEW t \in Thread, Return(t)
  PROVE  at' \in [Thread -> [step : Step, peer : Asked]] /\ Places'
<1>1. Idle \in [step : Step, peer : Asked]
  BY DEF Idle, Step, Asked
<1>2. at \in [Thread -> [step : Step, peer : Asked]]
  BY DEF Types, TypeOK
<1>3. "idle" \in StepsOf(t)
  BY DEF StepsOf
<1>4. Places'
  BY <1>1, <1>2, <1>3 DEF Return, Types, Places, Idle
<1> QED  BY <1>1, <1>2, <1>4 DEF Return

LEMMA StayedFits ==
  ASSUME Types, UNCHANGED at
  PROVE  at' \in [Thread -> [step : Step, peer : Asked]] /\ Places'
BY DEF Types, TypeOK, Places

LEMMA NotifyFits ==
  ASSUME Types, NEW n \in Notification, Notify(n)
  PROVE  inbox' \in Seq(Notification) /\ Len(inbox') <= InboxSize /\ dead' \subseteq Thread
BY AppendFits, SizeAssumption DEF Types, TypeOK, Notify, Notification

LEMMA OverflowFits ==
  ASSUME Types, NEW t \in Thread, Overflow(t)
  PROVE  /\ inbox' \in Seq(Notification) /\ Len(inbox') <= InboxSize /\ dead' \subseteq Thread
         /\ at' \in [Thread -> [step : Step, peer : Asked]] /\ Places'
BY ReturnedFits DEF Types, TypeOK, Overflow, Notification

LEMMA CostFits == \A d \in Peer : Cost(d) \in Notification /\ Message(d) \in Notification
BY DEF Cost, Message, Notification

LEMMA LookTypes ==
  ASSUME Types, NEW t \in Caller, Look(t)
  PROVE  Types'
<1> DEFINE d == at[t].peer
<1>0. t \in Thread /\ d \in Asked /\ StepsOf(t) = {"idle", "look", "send", "record"}
  BY DEF Types, TypeOK, Thread, StepsOf, Caller
<1>1. UNCHANGED <<pings, requests, replies, air>>
  BY DEF Look
<1>2. CASE /\ HasCost(d) /\ Notify(Cost(d)) /\ Return(t) /\ UNCHANGED costs
  BY <1>0, <1>1, <1>2, CostFits, NotifyFits, ReturnedFits
     DEF Types, TypeOK, HasCost, Notification
<1>3. CASE Overflow(t) /\ UNCHANGED costs
  BY <1>0, <1>1, <1>3, OverflowFits DEF Types, TypeOK, Notification
<1>4. CASE /\ costs' = costs \/ costs' = [costs EXCEPT ![d] = "none"]
           /\ Goto(t, "send", d) /\ UNCHANGED <<inbox, dead>>
  <2>1. costs' \in [Peer -> {"none", "fresh", "old"}]
    BY <1>4 DEF Types, TypeOK
  <2>2. at' \in [Thread -> [step : Step, peer : Asked]] /\ Places'
    BY <1>0, <1>4, MovedFits
  <2> QED  BY <1>1, <1>4, <2>1, <2>2 DEF Types, TypeOK
<1> QED  BY <1>2, <1>3, <1>4 DEF Look

LEMMA SendPingTypes ==
  ASSUME Types, NEW t \in Caller, SendPing(t)
  PROVE  Types'
<1>0. t \in Thread /\ at[t].peer \in Asked /\ "record" \in StepsOf(t)
  BY DEF Types, TypeOK, Thread, StepsOf, Caller
<1>1. requests' \in Seq(Asked) /\ Len(requests') <= RequestsSize
  BY <1>0, AppendFits, SizeAssumption DEF SendPing, Types, TypeOK
<1>2. at' \in [Thread -> [step : Step, peer : Asked]] /\ Places'
  BY <1>0, MovedFits DEF SendPing
<1> QED  BY <1>1, <1>2 DEF SendPing, Types, TypeOK

LEMMA RecordTypes ==
  ASSUME Types, NEW t \in Caller, Record(t)
  PROVE  Types'
<1>0. t \in Thread /\ at[t].peer \in Asked
  BY DEF Types, TypeOK, Thread
<1>1. at' \in [Thread -> [step : Step, peer : Asked]] /\ Places'
  BY <1>0, ReturnedFits DEF Record
<1> QED  BY <1>0, <1>1 DEF Record, queueVars, Types, TypeOK

LEMMA NodeTakesTypes ==
  ASSUME Types, NodeTakes
  PROVE  Types'
<1>0. "node" \in Thread /\ "look" \in StepsOf("node") /\ Peer \subseteq Asked
  BY DEF Thread, Caller, StepsOf, Asked
<1>1. inbox' \in Seq(Notification) /\ Len(inbox') <= InboxSize /\ Head(inbox).peer \in Peer
  <2>1. Head(inbox) \in Notification /\ Tail(inbox) \in Seq(Notification)
          /\ Len(Tail(inbox)) <= InboxSize
    BY TailFits, SizeAssumption DEF NodeTakes, Types, TypeOK, Notification
  <2> QED  BY <2>1 DEF NodeTakes, Notification
<1>2. at' \in [Thread -> [step : Step, peer : Asked]] /\ Places'
  BY <1>0, <1>1, MovedFits, StayedFits DEF NodeTakes
<1> QED  BY <1>1, <1>2 DEF NodeTakes, Types, TypeOK, Notification

LEMMA TimerAsksTypes ==
  ASSUME Types, TimerAsks
  PROVE  Types'
<1>0. "timer" \in Thread /\ "look" \in StepsOf("timer")
  BY DEF Thread, Caller, StepsOf
<1>1. at' \in [Thread -> [step : Step, peer : Asked]] /\ Places'
  BY <1>0, MovedFits DEF TimerAsks
<1> QED  BY <1>1 DEF TimerAsks, queueVars, Types, TypeOK

LEMMA MessageArrivesTypes ==
  ASSUME Types, MessageArrives
  PROVE  Types'
<1>0. "tcpIn" \in Thread
  BY DEF Thread
<1>1. UNCHANGED <<costs, pings, requests, replies, air>>
  BY DEF MessageArrives
<1>2. CASE \E d \in Peer : Notify(Message(d)) /\ UNCHANGED at
  BY <1>1, <1>2, CostFits, NotifyFits, StayedFits DEF Types, TypeOK, Notification
<1>3. CASE Overflow("tcpIn")
  BY <1>0, <1>1, <1>3, OverflowFits DEF Types, TypeOK, Notification
<1> QED  BY <1>2, <1>3 DEF MessageArrives

LEMMA FulfillTypes ==
  ASSUME Types, Fulfill
  PROVE  Types'
<1>1. requests' \in Seq(Asked) /\ Len(requests') <= RequestsSize
  BY TailFits, SizeAssumption DEF Fulfill, Types, TypeOK
<1>2. dead' \subseteq Thread
  BY DEF Fulfill, Types, TypeOK, Thread
<1>3. air' \in [Peer -> 0..MaxInFlight]
  BY SizeAssumption DEF Fulfill, Types, TypeOK
<1>4. at' \in [Thread -> [step : Step, peer : Asked]] /\ Places'
  BY StayedFits DEF Fulfill
<1> QED  BY <1>1, <1>2, <1>3, <1>4 DEF Fulfill, Types, TypeOK

LEMMA PingBackTypes ==
  ASSUME Types, NEW d \in Peer, PingBack(d)
  PROVE  Types'
<1>0. "udpIn" \in Thread /\ "put" \in StepsOf("udpIn") \ {"idle"} /\ d \in Asked
  BY DEF Thread, StepsOf, Caller, Asked
<1>1. air' \in [Peer -> 0..MaxInFlight]
  BY SizeAssumption DEF PingBack, Types, TypeOK
<1>2. costs' \in [Peer -> {"none", "fresh", "old"}]
  BY DEF PingBack, Keep, Known, Types, TypeOK
<1>3. at' \in [Thread -> [step : Step, peer : Asked]] /\ Places'
  BY <1>0, MovedFits, StayedFits DEF PingBack
<1> QED  BY <1>1, <1>2, <1>3 DEF PingBack, queueVars, Types, TypeOK

LEMMA PutReplyTypes ==
  ASSUME Types, PutReply
  PROVE  Types'
<1>0. "udpIn" \in Thread /\ at["udpIn"].peer \in Peer
  BY DEF Thread, PutReply, Types, Places
<1>1. replies' \in Seq(Peer) /\ Len(replies') <= RepliesSize
  BY <1>0, AppendFits, SizeAssumption DEF PutReply, Types, TypeOK
<1>2. at' \in [Thread -> [step : Step, peer : Asked]] /\ Places'
  BY <1>0, ReturnedFits DEF PutReply
<1> QED  BY <1>1, <1>2 DEF PutReply, Types, TypeOK

LEMMA OracleTellsTypes ==
  ASSUME Types, OracleTells
  PROVE  Types'
<1>0. "oracle" \in Thread /\ "forget" \in StepsOf("oracle") \ {"idle"} /\ Peer \subseteq Asked
  BY DEF Thread, StepsOf, Caller, Asked
<1>1. replies' \in Seq(Peer) /\ Len(replies') <= RepliesSize /\ Head(replies) \in Peer
  BY TailFits, SizeAssumption DEF OracleTells, Types, TypeOK
<1>2. UNCHANGED <<costs, pings, requests, air>>
  BY DEF OracleTells
<1>3. CASE Notify(Cost(Head(replies))) /\ Goto("oracle", "forget", Head(replies))
  <2>1. at' \in [Thread -> [step : Step, peer : Asked]] /\ Places'
    BY <1>0, <1>1, <1>3, MovedFits
  <2>2. inbox' \in Seq(Notification) /\ Len(inbox') <= InboxSize /\ dead' \subseteq Thread
    BY <1>1, <1>3, CostFits, NotifyFits
  <2> QED  BY <1>1, <1>2, <2>1, <2>2 DEF Types, TypeOK, Notification
<1>4. CASE Overflow("oracle")
  BY <1>0, <1>1, <1>2, <1>4, OverflowFits DEF Types, TypeOK, Notification
<1> QED  BY <1>3, <1>4 DEF OracleTells

LEMMA OracleForgetsTypes ==
  ASSUME Types, OracleForgets
  PROVE  Types'
<1>1. at' \in [Thread -> [step : Step, peer : Asked]] /\ Places'
  BY ReturnedFits DEF OracleForgets, Thread
<1> QED  BY <1>1 DEF OracleForgets, queueVars, Types, TypeOK

LEMMA CostAgesTypes ==
  ASSUME Types, CostAges
  PROVE  Types'
<1>1. at' \in [Thread -> [step : Step, peer : Asked]] /\ Places'
  BY StayedFits DEF CostAges
<1>2. costs' \in [Peer -> {"none", "fresh", "old"}]
  BY DEF CostAges, Types, TypeOK
<1> QED  BY <1>1, <1>2 DEF CostAges, queueVars, Types, TypeOK

LEMMA StepTypes == Types /\ [Next]_vars => Types'
<1> SUFFICES ASSUME Types, [Next]_vars PROVE Types'
  OBVIOUS
<1>1. CASE \E t \in Caller : GetCost(t)
  BY <1>1, LookTypes, SendPingTypes, RecordTypes DEF GetCost
<1>2. CASE NodeTakes \/ TimerAsks \/ MessageArrives
  BY <1>2, NodeTakesTypes, TimerAsksTypes, MessageArrivesTypes
<1>3. CASE Fulfill \/ PutReply \/ \E d \in Peer : PingBack(d)
  BY <1>3, FulfillTypes, PutReplyTypes, PingBackTypes
<1>4. CASE Oracle \/ CostAges
  BY <1>4, OracleTellsTypes, OracleForgetsTypes, CostAgesTypes DEF Oracle
<1>5. CASE UNCHANGED vars
  BY <1>5, StayedFits DEF vars, queueVars, Types, TypeOK
<1> QED  BY <1>1, <1>2, <1>3, <1>4, <1>5 DEF Next

\* Every variable has its type: in particular no queue outgrows its size.
THEOREM TypeOKHolds == Spec => []TypeOK
<1>1. Types => TypeOK
  BY DEF Types
<1> QED  BY <1>1, InitTypes, StepTypes, PTL DEF Spec

-----------------------------------------------------------------------------
(* The costs that are kept. *)

LEMMA KnownFinite == IsFiniteSet(Known) /\ Cardinality(Known) \in Nat
<1>1. IsFiniteSet(Known)
  BY PeerAssumption, FS_Subset DEF Known
<1> QED  BY <1>1, FS_CardinalityType

\* Costs that are only forgotten leave no more than there were.
LEMMA FewerKnown ==
  ASSUME Types, CostsFit, NEW c, costs' = c, c \in [Peer -> {"none", "fresh", "old"}],
         \A d \in Peer : costs[d] = "none" => c[d] = "none"
  PROVE  CostsFit'
<1>1. Known' \subseteq Known
  BY DEF Known
<1>2. Cardinality(Known') <= Cardinality(Known) /\ Cardinality(Known') \in Nat
  BY <1>1, KnownFinite, FS_Subset, FS_CardinalityType
<1> QED  BY <1>2, KnownFinite, SizeAssumption DEF CostsFit

LEMMA KeepFits ==
  ASSUME Types, CostsFit, NEW d \in Peer, Keep(d)
  PROVE  CostsFit'
<1>0. costs \in [Peer -> {"none", "fresh", "old"}]
  BY DEF Types, TypeOK
<1>1. CASE Cardinality(Known) < CostsSize /\ costs' = [costs EXCEPT ![d] = "fresh"]
  <2>1. Known' = Known \cup {d}
    BY <1>0, <1>1 DEF Known
  <2> QED  BY <1>1, <2>1, KnownFinite, FS_AddElement, SizeAssumption DEF CostsFit
<1>2. ASSUME NEW e \in Known, costs' = [costs EXCEPT ![e] = "none", ![d] = "fresh"]
      PROVE  CostsFit'
  <2>1. Known' = (Known \ {e}) \cup {d}
    BY <1>0, <1>2 DEF Known
  <2>2. IsFiniteSet(Known \ {e}) /\ Cardinality(Known \ {e}) = Cardinality(Known) - 1
    BY KnownFinite, FS_RemoveElement
  <2>3. Cardinality(Known') \in Nat /\ IsFiniteSet(Known')
    BY <2>1, <2>2, FS_AddElement, FS_CardinalityType
  <2>4. \/ Cardinality(Known') = Cardinality(Known \ {e})
        \/ Cardinality(Known') = Cardinality(Known \ {e}) + 1
    BY <2>1, <2>2, FS_AddElement
  <2>5. Cardinality(Known') <= Cardinality(Known)
    BY <2>2, <2>3, <2>4, KnownFinite
  <2> QED  BY <2>3, <2>5, KnownFinite, SizeAssumption DEF CostsFit
<1> QED  BY <1>1, <1>2 DEF Keep

\* Only the reader keeps a cost, and it makes room first; whoever else touches
\* the map takes costs away.
THEOREM CostsFitHolds == Spec => []CostsFit
<1>1. Init => CostsFit
  <2> SUFFICES ASSUME Init PROVE CostsFit
    OBVIOUS
  <2>1. Known = {}
    BY DEF Init, Known
  <2> QED  BY <2>1, FS_EmptySet, SizeAssumption DEF CostsFit
<1>2. Types /\ CostsFit /\ [Next]_vars => CostsFit'
  <2> SUFFICES ASSUME Types, CostsFit, [Next]_vars PROVE CostsFit'
    OBVIOUS
  <2>0. costs \in [Peer -> {"none", "fresh", "old"}]
    BY DEF Types, TypeOK
  <2>1. CASE UNCHANGED costs
    BY <2>0, <2>1, FewerKnown
  <2>2. ASSUME NEW t \in Caller, Look(t) PROVE CostsFit'
    BY <2>0, <2>1, <2>2, FewerKnown DEF Look
  <2>3. ASSUME NEW d \in Peer, PingBack(d) PROVE CostsFit'
    BY <2>1, <2>3, KeepFits DEF PingBack
  <2>4. CASE CostAges
    BY <2>0, <2>4, FewerKnown DEF CostAges
  <2>5. CASE \/ \E t \in Caller : SendPing(t) \/ Record(t)
             \/ NodeTakes \/ TimerAsks \/ MessageArrives
    BY <2>1, <2>5 DEF SendPing, Record, NodeTakes, TimerAsks, MessageArrives
  <2>6. CASE Fulfill \/ PutReply \/ Oracle \/ UNCHANGED vars
    BY <2>1, <2>6 DEF Fulfill, PutReply, Oracle, OracleTells, OracleForgets, vars
  <2> QED  BY <2>2, <2>3, <2>4, <2>5, <2>6 DEF Next, GetCost
<1> QED  BY <1>1, <1>2, InitTypes, StepTypes, PTL DEF Spec

-----------------------------------------------------------------------------
(* How often an element occurs in a queue. *)

Positions(q, d) == {i \in DOMAIN q : q[i] = d}

LEMMA PositionsFinite ==
  ASSUME NEW S, NEW q \in Seq(S), NEW d
  PROVE  IsFiniteSet(Positions(q, d)) /\ Occurrences(q, d) \in Nat
<1>1. IsFiniteSet(1..Len(q)) /\ Positions(q, d) \subseteq 1..Len(q)
  BY FS_Interval DEF Positions
<1>2. IsFiniteSet(Positions(q, d))
  BY <1>1, FS_Subset
<1> QED  BY <1>2, FS_CardinalityType DEF Occurrences, Positions

LEMMA OccursInAppend ==
  ASSUME NEW S, NEW q \in Seq(S), NEW e \in S, NEW d
  PROVE  Occurrences(Append(q, e), d) = Occurrences(q, d) + (IF e = d THEN 1 ELSE 0)
<1> DEFINE n == Len(q) + 1
<1>1. Append(q, e) \in Seq(S) /\ DOMAIN Append(q, e) = 1..n /\ DOMAIN q = 1..Len(q)
        /\ Len(q) \in Nat
  OBVIOUS
<1>2. \A i \in 1..n : Append(q, e)[i] = IF i = n THEN e ELSE q[i]
  OBVIOUS
<1>0. /\ IsFiniteSet(Positions(q, d)) /\ Occurrences(q, d) \in Nat
      /\ Occurrences(q, d) = Cardinality(Positions(q, d))
      /\ Occurrences(Append(q, e), d) = Cardinality(Positions(Append(q, e), d))
  BY PositionsFinite DEF Occurrences, Positions
<1>3. CASE e = d
  <2>1. Positions(Append(q, e), d) = Positions(q, d) \cup {n}
    BY <1>1, <1>2, <1>3 DEF Positions
  <2>2. n \notin Positions(q, d)
    BY <1>1 DEF Positions
  <2>3. Cardinality(Positions(Append(q, e), d)) = Cardinality(Positions(q, d)) + 1
    BY <1>0, <2>1, <2>2, FS_AddElement
  <2> QED  BY <1>0, <1>3, <2>3
<1>4. CASE e # d
  <2>1. Positions(Append(q, e), d) = Positions(q, d)
    BY <1>1, <1>2, <1>4 DEF Positions
  <2> QED  BY <1>0, <1>4, <2>1
<1> QED  BY <1>3, <1>4

LEMMA OccursInTail ==
  ASSUME NEW S, NEW q \in Seq(S), q # <<>>, NEW d
  PROVE  Occurrences(q, d) = Occurrences(Tail(q), d) + (IF Head(q) = d THEN 1 ELSE 0)
<1> DEFINE P == Positions(Tail(q), d)
           R == Positions(q, d) \ {1}
           f == [i \in P |-> i + 1]
<1>1. Tail(q) \in Seq(S) /\ Len(q) \in Nat \ {0} /\ Len(Tail(q)) = Len(q) - 1
  OBVIOUS
<1>2. \A i \in 1..(Len(q) - 1) : Tail(q)[i] = q[i + 1]
  OBVIOUS
<1>3. P = {i \in 1..(Len(q) - 1) : q[i + 1] = d} /\ R = {i \in 2..Len(q) : q[i] = d}
  BY <1>1, <1>2 DEF Positions
<1>4. f \in Bijection(P, R)
  <2>1. f \in [P -> R]
    BY <1>1, <1>3
  <2>2. \A i, j \in P : f[i] = f[j] => i = j
    BY <1>1, <1>3
  <2>3. \A j \in R : \E i \in P : f[i] = j
    <3> SUFFICES ASSUME NEW j \in R PROVE \E i \in P : f[i] = j
      OBVIOUS
    <3>1. j - 1 \in P
      BY <1>1, <1>3
    <3> QED  BY <1>3, <3>1
  <2> QED  BY <2>1, <2>2, <2>3, Fun_IsBij
<1>5. IsFiniteSet(P) /\ Cardinality(R) = Cardinality(P)
  <2>1. IsFiniteSet(P)
    BY <1>1, PositionsFinite
  <2>2. ExistsBijection(P, R)
    BY <1>4 DEF ExistsBijection
  <2> QED  BY <2>1, <2>2, FS_Bijection
<1>6. Cardinality(R) = IF 1 \in Positions(q, d) THEN Occurrences(q, d) - 1
                                                ELSE Occurrences(q, d)
  <2>1. IsFiniteSet(Positions(q, d)) /\ Occurrences(q, d) = Cardinality(Positions(q, d))
    BY PositionsFinite DEF Occurrences, Positions
  <2> QED  BY <2>1, FS_RemoveElement
<1>7. 1 \in Positions(q, d) <=> Head(q) = d
  BY <1>1 DEF Positions
<1>8. Cardinality(P) = Occurrences(Tail(q), d)
  BY DEF Occurrences, Positions
<1>9. Occurrences(q, d) \in Nat /\ Occurrences(Tail(q), d) \in Nat
  BY <1>1, PositionsFinite
<1> QED  BY <1>5, <1>6, <1>7, <1>8, <1>9

-----------------------------------------------------------------------------
(* What is owed of a cost, and what has been told. *)

One(e, d) == IF e = d THEN 1 ELSE 0
Told(e) == Occurrences(inbox, Cost(e))

\* Calls that still have to look or to send, and answers about to be put.
Asking(t, e) == Holds(t, {"look", "send"}, e)
Putting(e) == Holds("udpIn", {"put"}, e)
Flying(e) == IF e \in Peer THEN air[e] ELSE 0

LEMMA OwedIsSum ==
  \A e : OwedBy(e) = Asking("node", e) + Asking("timer", e) + Occurrences(requests, e)
                     + Flying(e) + Putting(e) + Occurrences(replies, e)
BY DEF OwedBy, Asking, Flying, Putting

LEMMA NextOwedIsSum ==
  \A e : OwedBy(e)' = Asking("node", e)' + Asking("timer", e)' + Occurrences(requests, e)'
                      + Flying(e)' + Putting(e)' + Occurrences(replies, e)'
BY DEF OwedBy, Asking, Flying, Putting

LEMMA PartsAreNat ==
  ASSUME Types, NEW e \in Asked
  PROVE  /\ Asking("node", e) \in Nat /\ Asking("timer", e) \in Nat
         /\ Occurrences(requests, e) \in Nat /\ Flying(e) \in Nat
         /\ Putting(e) \in Nat /\ Occurrences(replies, e) \in Nat
         /\ Told(e) \in Nat
<1>1. /\ Occurrences(requests, e) \in Nat
      /\ Occurrences(replies, e) \in Nat
      /\ Occurrences(inbox, Cost(e)) \in Nat
  BY PositionsFinite DEF Types, TypeOK
<1>2. Flying(e) \in Nat
  BY SizeAssumption DEF Types, TypeOK, Flying
<1> QED  BY <1>1, <1>2 DEF Holds, Asking, Putting, Told

LEMMA Counts == Types => \A e \in Asked : OwedBy(e) \in Nat /\ Told(e) \in Nat
BY PartsAreNat, OwedIsSum

LEMMA CountsNext == Types' => (\A e \in Asked : OwedBy(e) \in Nat /\ Told(e) \in Nat)'
BY Counts, PTL

\* Where a thread goes is all that changes in who holds what.
LEMMA GotoHolds ==
  ASSUME Types, NEW t \in Thread, NEW s, NEW d, Goto(t, s, d), NEW steps
  PROVE  /\ \A e : Holds(t, steps, e)' = IF s \in steps THEN One(e, d) ELSE 0
         /\ \A u \in Thread \ {t} : \A e : Holds(u, steps, e)' = Holds(u, steps, e)
<1>1. at \in [Thread -> [step : Step, peer : Asked]]
  BY DEF Types, TypeOK
<1>2. at'[t].step = s /\ at'[t].peer = d /\ \A u \in Thread \ {t} : at'[u] = at[u]
  BY <1>1 DEF Goto
<1> QED  BY <1>2 DEF Holds, One

LEMMA ReturnHolds ==
  ASSUME Types, NEW t \in Thread, Return(t), NEW steps, "idle" \notin steps
  PROVE  /\ \A e : Holds(t, steps, e)' = 0
         /\ \A u \in Thread \ {t} : \A e : Holds(u, steps, e)' = Holds(u, steps, e)
<1>1. at \in [Thread -> [step : Step, peer : Asked]]
  BY DEF Types, TypeOK
<1>2. at'[t].step = "idle" /\ \A u \in Thread \ {t} : at'[u] = at[u]
  BY <1>1 DEF Return, Idle
<1> QED  BY <1>2 DEF Holds

LEMMA StayHolds ==
  ASSUME UNCHANGED at, NEW t, NEW steps, NEW e
  PROVE  Holds(t, steps, e)' = Holds(t, steps, e)
BY DEF Holds

LEMMA NotifyTells ==
  ASSUME Types, NEW d \in Peer, Notify(Cost(d)), NEW e
  PROVE  Told(e)' = Told(e) + One(e, d)
<1>1. inbox \in Seq(Notification) /\ Cost(d) \in Notification
  BY CostFits DEF Types, TypeOK, Notification
<1>2. Told(e)' = Told(e) + (IF Cost(d) = Cost(e) THEN 1 ELSE 0)
  BY <1>1, OccursInAppend DEF Notify, Told
<1> QED  BY <1>2 DEF Cost, One

LEMMA MessageTellsNothing ==
  ASSUME Types, NEW d \in Peer, Notify(Message(d)), NEW e
  PROVE  Told(e)' = Told(e)
<1>1. inbox \in Seq(Notification) /\ Message(d) \in Notification
  BY CostFits DEF Types, TypeOK, Notification
<1>2. Told(e)' = Told(e) + (IF Message(d) = Cost(e) THEN 1 ELSE 0)
  BY <1>1, OccursInAppend DEF Notify, Told
<1>3. Message(d) # Cost(e)
  BY DEF Message, Cost
<1>4. Told(e) \in Nat
  BY <1>1, PositionsFinite DEF Told
<1> QED  BY <1>2, <1>3, <1>4

\* The same, of those who count.
LEMMA GotoCounts ==
  ASSUME Types, NEW t \in Thread, NEW s, NEW d, Goto(t, s, d), NEW e
  PROVE  /\ Asking(t, e)' = IF s \in {"look", "send"} THEN One(e, d) ELSE 0
         /\ \A u \in Thread \ {t} : Asking(u, e)' = Asking(u, e)
         /\ t = "udpIn" => Putting(e)' = IF s \in {"put"} THEN One(e, d) ELSE 0
         /\ t # "udpIn" => Putting(e)' = Putting(e)
<1>1. "udpIn" \in Thread
  BY DEF Thread
<1>2. /\ Holds(t, {"look", "send"}, e)' = IF s \in {"look", "send"} THEN One(e, d) ELSE 0
      /\ \A u \in Thread \ {t} : Holds(u, {"look", "send"}, e)' = Holds(u, {"look", "send"}, e)
  BY GotoHolds
<1>3. /\ Holds(t, {"put"}, e)' = IF s \in {"put"} THEN One(e, d) ELSE 0
      /\ \A u \in Thread \ {t} : Holds(u, {"put"}, e)' = Holds(u, {"put"}, e)
  BY GotoHolds
<1> QED  BY <1>1, <1>2, <1>3 DEF Asking, Putting

LEMMA ReturnCounts ==
  ASSUME Types, NEW t \in Thread, Return(t), NEW e
  PROVE  /\ Asking(t, e)' = 0
         /\ \A u \in Thread \ {t} : Asking(u, e)' = Asking(u, e)
         /\ Putting(e)' = IF t = "udpIn" THEN 0 ELSE Putting(e)
<1>1. "udpIn" \in Thread
  BY DEF Thread
<1>2. /\ Holds(t, {"look", "send"}, e)' = 0
      /\ \A u \in Thread \ {t} : Holds(u, {"look", "send"}, e)' = Holds(u, {"look", "send"}, e)
  BY ReturnHolds
<1>3. /\ Holds(t, {"put"}, e)' = 0
      /\ \A u \in Thread \ {t} : Holds(u, {"put"}, e)' = Holds(u, {"put"}, e)
  BY ReturnHolds
<1> QED  BY <1>1, <1>2, <1>3 DEF Asking, Putting

\* The steps of the service, told by the counts.
Mapped == Service!ServiceNext \/ UNCHANGED Service!service

Owed == [e \in Asked |-> OwedBy(e)]
Heard == [e \in Asked |-> Occurrences(inbox, Cost(e))]

LEMMA OwedStays ==
  ASSUME \A e \in Asked : OwedBy(e)' = OwedBy(e)
  PROVE  Owed' = Owed
BY DEF Owed

LEMMA HeardStays ==
  ASSUME \A e \in Asked : Told(e)' = Told(e)
  PROVE  Heard' = Heard
BY DEF Heard, Told

LEMMA OwedGrows ==
  ASSUME Types, NEW d \in Asked, \A e \in Asked : OwedBy(e)' = OwedBy(e) + One(e, d)
  PROVE  Owed' = [Owed EXCEPT ![d] = @ + 1]
<1>1. \A e \in Asked : OwedBy(e)' = IF e = d THEN OwedBy(e) + 1 ELSE OwedBy(e)
  BY Counts DEF One
<1> QED  BY <1>1 DEF Owed

LEMMA OwedShrinks ==
  ASSUME Types, Types', NEW d \in Asked,
         \A e \in Asked : OwedBy(e) = OwedBy(e)' + One(e, d)
  PROVE  Owed[d] > 0 /\ Owed' = [Owed EXCEPT ![d] = @ - 1]
<1>1. \A e \in Asked : OwedBy(e) \in Nat /\ OwedBy(e)' \in Nat
  BY Counts, CountsNext
<1>2. \A e \in Asked : OwedBy(e)' = IF e = d THEN OwedBy(e) - 1 ELSE OwedBy(e)
  BY <1>1 DEF One
<1>3. OwedBy(d) > 0
  BY <1>1 DEF One
<1> QED  BY <1>2, <1>3 DEF Owed

LEMMA HeardGrows ==
  ASSUME Types, NEW d \in Asked, \A e \in Asked : Told(e)' = Told(e) + One(e, d)
  PROVE  Heard' = [Heard EXCEPT ![d] = @ + 1]
<1>1. \A e \in Asked : Told(e)' = IF e = d THEN Told(e) + 1 ELSE Told(e)
  BY Counts DEF One
<1> QED  BY <1>1 DEF Heard, Told

LEMMA HeardShrinks ==
  ASSUME Types, Types', NEW d \in Asked,
         \A e \in Asked : Told(e) = Told(e)' + One(e, d)
  PROVE  Heard[d] > 0 /\ Heard' = [Heard EXCEPT ![d] = @ - 1]
<1>1. \A e \in Asked : Told(e) \in Nat /\ Told(e)' \in Nat
  BY Counts, CountsNext
<1>2. \A e \in Asked : Told(e)' = IF e = d THEN Told(e) - 1 ELSE Told(e)
  BY <1>1 DEF One
<1>3. Told(d) > 0
  BY <1>1 DEF One
<1> QED  BY <1>2, <1>3 DEF Heard, Told

LEMMA AskMaps ==
  ASSUME NEW d \in Asked, Types,
         \A e \in Asked : OwedBy(e)' = OwedBy(e) + One(e, d) /\ Told(e)' = Told(e)
  PROVE  Mapped
<1>1. Service!Ask(d)
  BY OwedGrows, HeardStays DEF Service!Ask, Owed, Heard
<1> QED  BY <1>1 DEF Mapped, Service!ServiceNext

LEMMA TellMaps ==
  ASSUME NEW d \in Asked, Types, Types',
         \A e \in Asked : /\ OwedBy(e) = OwedBy(e)' + One(e, d)
                          /\ Told(e)' = Told(e) + One(e, d)
  PROVE  Mapped
<1>1. Service!Tell(d)
  BY OwedShrinks, HeardGrows DEF Service!Tell, Owed, Heard
<1> QED  BY <1>1 DEF Mapped, Service!ServiceNext

LEMMA ForgetMaps ==
  ASSUME NEW d \in Asked, Types, Types',
         \A e \in Asked : OwedBy(e) = OwedBy(e)' + One(e, d) /\ Told(e)' = Told(e)
  PROVE  Mapped
<1>1. Service!Forget(d)
  BY OwedShrinks, HeardStays DEF Service!Forget, Owed, Heard
<1> QED  BY <1>1 DEF Mapped, Service!ServiceNext

LEMMA TakeMaps ==
  ASSUME NEW d \in Asked, Types, Types',
         \A e \in Asked : OwedBy(e)' = OwedBy(e) /\ Told(e) = Told(e)' + One(e, d)
  PROVE  Mapped
<1>1. Service!Take(d)
  BY OwedStays, HeardShrinks DEF Service!Take, Owed, Heard
<1> QED  BY <1>1 DEF Mapped, Service!ServiceNext

LEMMA StayMaps ==
  ASSUME \A e \in Asked : OwedBy(e)' = OwedBy(e) /\ Told(e)' = Told(e)
  PROVE  Mapped
BY DEF Mapped, Service!service, Told

-----------------------------------------------------------------------------
(* Each step of the oracle is a step of the service. *)

\* What a caller that leaves Look() has done.
LEMMA CallerHolds ==
  ASSUME Types, NEW t \in Caller, NEW d \in Asked, NEW e \in Asked,
         at[t].step \in {"look", "send"}, at[t].peer = d
  PROVE  /\ Return(t) \/ Goto(t, "record", d)
              => Asking("node", e) + Asking("timer", e)
                   = Asking("node", e)' + Asking("timer", e)' + One(e, d)
         /\ Goto(t, "send", d)
              => /\ Asking("node", e)' = Asking("node", e)
                 /\ Asking("timer", e)' = Asking("timer", e)
         /\ Return(t) \/ Goto(t, "record", d) \/ Goto(t, "send", d)
              => Putting(e)' = Putting(e)
<1>1. t \in Thread /\ t # "udpIn" /\ "udpIn" \in Thread
        /\ "node" \in Thread /\ "timer" \in Thread /\ t \in {"node", "timer"}
  BY DEF Thread, Caller
<1>2. Asking(t, e) = One(e, d)
  BY DEF Asking, Holds, One
<1>3. ASSUME Return(t)
      PROVE  /\ Asking(t, e)' = 0 /\ Putting(e)' = Putting(e)
             /\ \A u \in {"node", "timer"} \ {t} : Asking(u, e)' = Asking(u, e)
  BY <1>1, <1>3, ReturnCounts
<1>4. ASSUME Goto(t, "record", d)
      PROVE  /\ Asking(t, e)' = 0 /\ Putting(e)' = Putting(e)
             /\ \A u \in {"node", "timer"} \ {t} : Asking(u, e)' = Asking(u, e)
  BY <1>1, <1>4, GotoCounts
<1>5. ASSUME Goto(t, "send", d)
      PROVE  /\ Asking(t, e)' = One(e, d) /\ Putting(e)' = Putting(e)
             /\ \A u \in {"node", "timer"} \ {t} : Asking(u, e)' = Asking(u, e)
  BY <1>1, <1>5, GotoCounts
<1>6. Asking("node", e) \in Nat /\ Asking("timer", e) \in Nat /\ One(e, d) \in Nat
  BY PartsAreNat DEF One
<1>7. CASE t = "node"
  BY <1>2, <1>3, <1>4, <1>5, <1>6, <1>7
<1>8. CASE t = "timer"
  BY <1>2, <1>3, <1>4, <1>5, <1>6, <1>8
<1> QED  BY <1>1, <1>7, <1>8

\* What the caller counts for where it has been, where it is not about to ask.
LEMMA CallerEnters ==
  ASSUME Types, NEW t \in Caller, NEW d \in Asked, NEW e \in Asked,
         at[t].step \notin {"look", "send"}
  PROVE  /\ Goto(t, "look", d)
              => Asking("node", e)' + Asking("timer", e)'
                   = Asking("node", e) + Asking("timer", e) + One(e, d)
         /\ Return(t)
              => /\ Asking("node", e)' = Asking("node", e)
                 /\ Asking("timer", e)' = Asking("timer", e)
         /\ Return(t) \/ Goto(t, "look", d) => Putting(e)' = Putting(e)
<1>1. t \in Thread /\ t # "udpIn" /\ "udpIn" \in Thread
        /\ "node" \in Thread /\ "timer" \in Thread /\ t \in {"node", "timer"}
  BY DEF Thread, Caller
<1>2. Asking(t, e) = 0
  BY DEF Asking, Holds
<1>3. ASSUME Return(t)
      PROVE  /\ Asking(t, e)' = 0 /\ Putting(e)' = Putting(e)
             /\ \A u \in {"node", "timer"} \ {t} : Asking(u, e)' = Asking(u, e)
  BY <1>1, <1>3, ReturnCounts
<1>4. ASSUME Goto(t, "look", d)
      PROVE  /\ Asking(t, e)' = One(e, d) /\ Putting(e)' = Putting(e)
             /\ \A u \in {"node", "timer"} \ {t} : Asking(u, e)' = Asking(u, e)
  BY <1>1, <1>4, GotoCounts
<1>5. Asking("node", e) \in Nat /\ Asking("timer", e) \in Nat /\ One(e, d) \in Nat
  BY PartsAreNat DEF One
<1>6. CASE t = "node"
  BY <1>2, <1>3, <1>4, <1>5, <1>6
<1>7. CASE t = "timer"
  BY <1>2, <1>3, <1>4, <1>5, <1>7
<1> QED  BY <1>1, <1>6, <1>7

\* The other threads: the reader while it waits to put, and those that never ask.
LEMMA OthersHold ==
  ASSUME Types, NEW t \in {"oracle", "tcpIn", "udpIn"}, NEW d \in Asked, NEW e \in Asked,
         Return(t) \/ UNCHANGED at \/ (t = "udpIn" /\ Goto(t, "put", d))
  PROVE  /\ Asking("node", e)' = Asking("node", e)
         /\ Asking("timer", e)' = Asking("timer", e)
         /\ Putting(e)' = IF t # "udpIn" \/ UNCHANGED at THEN Putting(e)
                          ELSE IF Return(t) THEN 0 ELSE One(e, d)
<1>1. t \in Thread /\ "udpIn" \in Thread /\ "node" \in Thread \ {t} /\ "timer" \in Thread \ {t}
  BY DEF Thread, Caller
<1>2. CASE UNCHANGED at
  BY <1>2, StayHolds DEF Asking, Putting
<1>3. CASE Return(t) /\ ~UNCHANGED at
  BY <1>1, <1>3, ReturnCounts
<1>4. CASE t = "udpIn" /\ Goto(t, "put", d) /\ ~UNCHANGED at /\ ~Return(t)
  BY <1>1, <1>4, GotoCounts
<1> QED  BY <1>2, <1>3, <1>4

LEMMA Sums ==
  ASSUME Types, NEW e \in Asked
  PROVE  /\ OwedBy(e) = Asking("node", e) + Asking("timer", e) + Occurrences(requests, e)
                        + Flying(e) + Putting(e) + Occurrences(replies, e)
         /\ OwedBy(e)' = Asking("node", e)' + Asking("timer", e)' + Occurrences(requests, e)'
                         + Flying(e)' + Putting(e)' + Occurrences(replies, e)'
         /\ Asking("node", e) \in Nat /\ Asking("timer", e) \in Nat
         /\ Occurrences(requests, e) \in Nat /\ Flying(e) \in Nat
         /\ Putting(e) \in Nat /\ Occurrences(replies, e) \in Nat /\ Told(e) \in Nat
         /\ Asking("node", e)' \in Nat /\ Asking("timer", e)' \in Nat /\ Putting(e)' \in Nat
         /\ \A d : One(e, d) \in Nat
<1>1. Asking("node", e)' \in Nat /\ Asking("timer", e)' \in Nat /\ Putting(e)' \in Nat
  BY DEF Asking, Putting, Holds
<1>2. \A d : One(e, d) \in Nat
  BY DEF One
<1> QED  BY <1>1, <1>2, OwedIsSum, NextOwedIsSum, PartsAreNat

LEMMA LookMaps ==
  ASSUME Types, Types', NEW t \in Caller, Look(t)
  PROVE  Mapped
<1> DEFINE d == at[t].peer
<1>0. d \in Asked /\ at[t].step = "look" /\ UNCHANGED <<requests, replies, air>>
  BY DEF Types, TypeOK, Thread, Look
<1>1. \A e : /\ Occurrences(requests, e)' = Occurrences(requests, e)
             /\ Occurrences(replies, e)' = Occurrences(replies, e)
             /\ Flying(e)' = Flying(e)
  BY <1>0 DEF Flying
<1>2. ASSUME Return(t), NEW e \in Asked
      PROVE  OwedBy(e) = OwedBy(e)' + One(e, d)
  <2>1. /\ Asking("node", e) + Asking("timer", e)
             = Asking("node", e)' + Asking("timer", e)' + One(e, d)
        /\ Putting(e)' = Putting(e)
    BY <1>0, <1>2, CallerHolds
  <2> QED  BY <1>1, <2>1, Sums
<1>3. CASE HasCost(d) /\ Notify(Cost(d)) /\ Return(t)
  <2>1. \A e \in Asked : Told(e)' = Told(e) + One(e, d)
    BY <1>3, NotifyTells DEF HasCost
  <2> QED  BY <1>0, <1>2, <1>3, <2>1, TellMaps
<1>4. CASE Overflow(t)
  <2>1. Return(t) /\ \A e \in Asked : Told(e)' = Told(e)
    BY <1>4 DEF Overflow, Told
  <2> QED  BY <1>0, <1>2, <2>1, ForgetMaps
<1>5. CASE Goto(t, "send", d) /\ UNCHANGED inbox
  <2>1. ASSUME NEW e \in Asked PROVE OwedBy(e)' = OwedBy(e) /\ Told(e)' = Told(e)
    <3>1. /\ Asking("node", e)' = Asking("node", e)
          /\ Asking("timer", e)' = Asking("timer", e)
          /\ Putting(e)' = Putting(e)
      BY <1>0, <1>5, CallerHolds
    <3> QED  BY <1>1, <1>5, <3>1, Sums DEF Told
  <2> QED  BY <2>1, StayMaps
<1> QED  BY <1>3, <1>4, <1>5 DEF Look

LEMMA SendPingMaps ==
  ASSUME Types, NEW t \in Caller, SendPing(t)
  PROVE  Mapped
<1> DEFINE d == at[t].peer
<1>0. /\ d \in Asked /\ at[t].step = "send" /\ UNCHANGED <<inbox, replies, air>>
      /\ Goto(t, "record", d) /\ requests' = Append(requests, d) /\ requests \in Seq(Asked)
  BY DEF Types, TypeOK, Thread, SendPing
<1>1. ASSUME NEW e \in Asked PROVE OwedBy(e)' = OwedBy(e) /\ Told(e)' = Told(e)
  <2>1. /\ Asking("node", e) + Asking("timer", e)
             = Asking("node", e)' + Asking("timer", e)' + One(e, d)
        /\ Putting(e)' = Putting(e)
    BY <1>0, CallerHolds
  <2>2. Occurrences(requests, e)' = Occurrences(requests, e) + One(e, d)
    BY <1>0, OccursInAppend DEF One
  <2>3. Flying(e)' = Flying(e) /\ Occurrences(replies, e)' = Occurrences(replies, e)
          /\ Told(e)' = Told(e)
    BY <1>0 DEF Flying, Told
  <2> QED  BY <2>1, <2>2, <2>3, Sums
<1> QED  BY <1>1, StayMaps

LEMMA RecordMaps ==
  ASSUME Types, NEW t \in Caller, Record(t)
  PROVE  Mapped
<1>0. at[t].step = "record" /\ Return(t) /\ UNCHANGED <<inbox, requests, replies, air>>
        /\ at[t].peer \in Asked
  BY DEF Types, TypeOK, Thread, Record, queueVars
<1>1. ASSUME NEW e \in Asked PROVE OwedBy(e)' = OwedBy(e) /\ Told(e)' = Told(e)
  <2>1. /\ Asking("node", e)' = Asking("node", e)
        /\ Asking("timer", e)' = Asking("timer", e)
        /\ Putting(e)' = Putting(e)
    BY <1>0, CallerEnters
  <2>2. /\ Flying(e)' = Flying(e) /\ Occurrences(replies, e)' = Occurrences(replies, e)
        /\ Occurrences(requests, e)' = Occurrences(requests, e) /\ Told(e)' = Told(e)
    BY <1>0 DEF Flying, Told
  <2> QED  BY <2>1, <2>2, Sums
<1> QED  BY <1>1, StayMaps

LEMMA NodeTakesMaps ==
  ASSUME Types, Types', NodeTakes
  PROVE  Mapped
<1> DEFINE n == Head(inbox)
<1>0. /\ inbox \in Seq(Notification) /\ inbox # <<>> /\ inbox' = Tail(inbox)
      /\ n \in Notification /\ n.peer \in Peer /\ n.peer \in Asked
      /\ UNCHANGED <<requests, replies, air>>
      /\ "node" \in Caller /\ at["node"].step \notin {"look", "send"}
  <2>1. inbox \in Seq(Notification) /\ inbox # <<>>
    BY DEF NodeTakes, Types, TypeOK, Notification
  <2>2. n \in Notification
    BY <2>1
  <2>3. n.peer \in Peer /\ n.peer \in Asked
    BY <2>2 DEF Notification, Asked
  <2> QED  BY <2>1, <2>2, <2>3 DEF NodeTakes, Ready, Idle, Caller
<1>1. \A e : /\ Occurrences(requests, e)' = Occurrences(requests, e)
             /\ Occurrences(replies, e)' = Occurrences(replies, e)
             /\ Flying(e)' = Flying(e)
  BY <1>0 DEF Flying
<1>2. \A e : Told(e) = Told(e)' + (IF n = Cost(e) THEN 1 ELSE 0)
  BY <1>0, OccursInTail DEF Told
<1>3. CASE n.type = "message" /\ Goto("node", "look", n.peer)
  <2>1. ASSUME NEW e \in Asked
        PROVE  OwedBy(e)' = OwedBy(e) + One(e, n.peer) /\ Told(e)' = Told(e)
    <3>1. /\ Asking("node", e)' + Asking("timer", e)'
               = Asking("node", e) + Asking("timer", e) + One(e, n.peer)
          /\ Putting(e)' = Putting(e)
      BY <1>0, <1>3, CallerEnters
    <3>2. n # Cost(e) /\ Told(e)' \in Nat
      BY <1>3, CountsNext DEF Cost
    <3> QED  BY <1>1, <1>2, <3>1, <3>2, Sums
  <2> QED  BY <1>0, <2>1, AskMaps
<1>4. CASE UNCHANGED at
  <2>1. ASSUME NEW e \in Asked PROVE OwedBy(e)' = OwedBy(e)
    <3>1. /\ Asking("node", e)' = Asking("node", e)
          /\ Asking("timer", e)' = Asking("timer", e)
          /\ Putting(e)' = Putting(e)
      BY <1>4, StayHolds DEF Asking, Putting
    <3> QED  BY <1>1, <3>1, Sums
  <2>2. CASE n.type = "cost"
    <3>1. \A e : n = Cost(e) <=> e = n.peer
      BY <1>0, <2>2 DEF Cost, Notification
    <3>2. \A e : Told(e) = Told(e)' + One(e, n.peer)
      BY <1>2, <3>1 DEF One
    <3> QED  BY <1>0, <2>1, <3>2, TakeMaps
  <2>3. CASE n.type # "cost"
    <3>1. \A e \in Asked : n # Cost(e) /\ Told(e)' \in Nat
      BY <2>3, CountsNext DEF Cost
    <3>2. \A e \in Asked : Told(e)' = Told(e)
      BY <1>2, <3>1
    <3> QED  BY <2>1, <3>2, StayMaps
  <2> QED  BY <2>2, <2>3
<1> QED  BY <1>3, <1>4 DEF NodeTakes

LEMMA TimerAsksMaps ==
  ASSUME Types, TimerAsks
  PROVE  Mapped
<1>1. PICK d \in Asked : Goto("timer", "look", d)
  BY DEF TimerAsks
<1>2. /\ "timer" \in Caller /\ at["timer"].step \notin {"look", "send"}
      /\ UNCHANGED <<inbox, requests, replies, air>>
  BY DEF TimerAsks, Ready, Idle, Caller, queueVars
<1>3. ASSUME NEW e \in Asked
      PROVE  OwedBy(e)' = OwedBy(e) + One(e, d) /\ Told(e)' = Told(e)
  <2>1. /\ Asking("node", e)' + Asking("timer", e)'
             = Asking("node", e) + Asking("timer", e) + One(e, d)
        /\ Putting(e)' = Putting(e)
    BY <1>1, <1>2, CallerEnters
  <2>2. /\ Flying(e)' = Flying(e) /\ Occurrences(replies, e)' = Occurrences(replies, e)
        /\ Occurrences(requests, e)' = Occurrences(requests, e) /\ Told(e)' = Told(e)
    BY <1>2 DEF Flying, Told
  <2> QED  BY <2>1, <2>2, Sums
<1> QED  BY <1>3, AskMaps

LEMMA MessageArrivesMaps ==
  ASSUME Types, MessageArrives
  PROVE  Mapped
<1>0. UNCHANGED <<requests, replies, air>> /\ (Return("tcpIn") \/ UNCHANGED at) /\ NoPeer \in Asked
  BY DEF MessageArrives, Overflow, Asked
<1>1. ASSUME NEW e \in Asked PROVE OwedBy(e)' = OwedBy(e) /\ Told(e)' = Told(e)
  <2>1. /\ Asking("node", e)' = Asking("node", e)
        /\ Asking("timer", e)' = Asking("timer", e)
        /\ Putting(e)' = Putting(e)
    BY <1>0, OthersHold
  <2>2. /\ Flying(e)' = Flying(e) /\ Occurrences(replies, e)' = Occurrences(replies, e)
        /\ Occurrences(requests, e)' = Occurrences(requests, e)
    BY <1>0 DEF Flying
  <2>3. Told(e)' = Told(e)
    <3>1. CASE \E d \in Peer : Notify(Message(d))
      BY <3>1, MessageTellsNothing
    <3>2. CASE Overflow("tcpIn")
      BY <3>2 DEF Overflow, Told
    <3> QED  BY <3>1, <3>2 DEF MessageArrives
  <2> QED  BY <2>1, <2>2, <2>3, Sums
<1> QED  BY <1>1, StayMaps

LEMMA FulfillMaps ==
  ASSUME Types, Types', Fulfill
  PROVE  Mapped
<1> DEFINE d == Head(requests)
<1>0. /\ requests \in Seq(Asked) /\ requests # <<>> /\ requests' = Tail(requests)
      /\ d \in Asked /\ UNCHANGED <<inbox, replies, at>> /\ "tcpIn" \in {"oracle", "tcpIn", "udpIn"}
  BY DEF Fulfill, Types, TypeOK
<1>1. ASSUME NEW e \in Asked
      PROVE  /\ Asking("node", e)' = Asking("node", e)
             /\ Asking("timer", e)' = Asking("timer", e)
             /\ Putting(e)' = Putting(e)
             /\ Told(e)' = Told(e) /\ Occurrences(replies, e)' = Occurrences(replies, e)
             /\ Occurrences(requests, e) = Occurrences(requests, e)' + One(e, d)
             /\ Occurrences(requests, e)' \in Nat
  <2>1. Occurrences(requests, e) = Occurrences(requests, e)' + One(e, d)
    BY <1>0, OccursInTail DEF One
  <2>2. Occurrences(requests, e)' \in Nat
    <3>1. requests' \in Seq(Asked)
      BY <1>0
    <3> QED  BY <3>1, PositionsFinite
  <2> QED  BY <1>0, <2>1, <2>2, OthersHold DEF Told
<1>2. CASE UNCHANGED air
  <2>1. ASSUME NEW e \in Asked
        PROVE  OwedBy(e) = OwedBy(e)' + One(e, d) /\ Told(e)' = Told(e)
    <3>1. Flying(e)' = Flying(e)
      BY <1>2 DEF Flying
    <3> QED  BY <1>1, <3>1, Sums
  <2> QED  BY <1>0, <2>1, ForgetMaps
<1>3. CASE d # NoPeer /\ air' = [air EXCEPT ![d] = @ + 1]
  <2>1. ASSUME NEW e \in Asked PROVE OwedBy(e)' = OwedBy(e) /\ Told(e)' = Told(e)
    <3>1. d \in Peer /\ air \in [Peer -> 0..MaxInFlight]
      BY <1>0, <1>3 DEF Asked, Types, TypeOK
    <3>2. Flying(e)' = Flying(e) + One(e, d)
      BY <1>3, <3>1, SizeAssumption DEF Flying, One
    <3> QED  BY <1>1, <3>2, Sums
  <2> QED  BY <2>1, StayMaps
<1> QED  BY <1>2, <1>3 DEF Fulfill

LEMMA PingBackMaps ==
  ASSUME Types, Types', NEW d \in Peer, PingBack(d)
  PROVE  Mapped
<1>0. /\ d \in Asked /\ at["udpIn"] = Idle /\ UNCHANGED <<inbox, requests, replies>>
      /\ air' = [air EXCEPT ![d] = @ - 1] /\ air \in [Peer -> 0..MaxInFlight]
  BY DEF PingBack, Ready, queueVars, Asked, Types, TypeOK
<1>1. ASSUME NEW e \in Asked
      PROVE  /\ Flying(e) = Flying(e)' + One(e, d) /\ Flying(e)' \in Int
             /\ Occurrences(requests, e)' = Occurrences(requests, e)
             /\ Occurrences(replies, e)' = Occurrences(replies, e)
             /\ Told(e)' = Told(e)
  BY <1>0, SizeAssumption DEF Flying, One, Told
<1>2. CASE Goto("udpIn", "put", d)
  <2>1. ASSUME NEW e \in Asked PROVE OwedBy(e)' = OwedBy(e) /\ Told(e)' = Told(e)
    <3>1. Putting(e) = 0 /\ ~UNCHANGED at /\ ~Return("udpIn")
      <4>1. at \in [Thread -> [step : Step, peer : Asked]] /\ "udpIn" \in Thread
        BY DEF Types, TypeOK, Thread
      <4>2. at'["udpIn"].step = "put"
        BY <1>2, <4>1 DEF Goto
      <4> QED  BY <1>0, <4>1, <4>2 DEF Putting, Holds, Return, Idle
    <3>2. /\ Asking("node", e)' = Asking("node", e)
          /\ Asking("timer", e)' = Asking("timer", e)
          /\ Putting(e)' = One(e, d)
      BY <1>0, <1>2, <3>1, OthersHold
    <3> QED  BY <1>1, <3>1, <3>2, Sums
  <2> QED  BY <2>1, StayMaps
<1>3. CASE UNCHANGED at
  <2>1. ASSUME NEW e \in Asked
        PROVE  OwedBy(e) = OwedBy(e)' + One(e, d) /\ Told(e)' = Told(e)
    <3>1. /\ Asking("node", e)' = Asking("node", e)
          /\ Asking("timer", e)' = Asking("timer", e)
          /\ Putting(e)' = Putting(e)
      BY <1>3, StayHolds DEF Asking, Putting
    <3> QED  BY <1>1, <3>1, Sums
  <2> QED  BY <1>0, <2>1, ForgetMaps
<1> QED  BY <1>2, <1>3 DEF PingBack

LEMMA PutReplyMaps ==
  ASSUME Types, PutReply
  PROVE  Mapped
<1> DEFINE d == at["udpIn"].peer
<1>0. /\ d \in Peer /\ d \in Asked /\ at["udpIn"].step = "put" /\ Return("udpIn")
      /\ replies \in Seq(Peer) /\ replies' = Append(replies, d)
      /\ UNCHANGED <<inbox, requests, air>>
  BY DEF PutReply, Types, TypeOK, Places, Thread, Asked
<1>1. ASSUME NEW e \in Asked PROVE OwedBy(e)' = OwedBy(e) /\ Told(e)' = Told(e)
  <2>1. /\ Asking("node", e)' = Asking("node", e)
        /\ Asking("timer", e)' = Asking("timer", e)
        /\ Putting(e) = One(e, d) /\ Putting(e)' = 0
    <3>1. at \in [Thread -> [step : Step, peer : Asked]] /\ "udpIn" \in Thread
      BY DEF Types, TypeOK, Thread
    <3>2. at'["udpIn"].step = "idle"
      BY <1>0, <3>1 DEF Return, Idle
    <3>3. ~UNCHANGED at
      BY <1>0, <3>2
    <3> QED  BY <1>0, <3>3, OthersHold DEF Putting, Holds, One
  <2>2. Occurrences(replies, e)' = Occurrences(replies, e) + One(e, d)
    BY <1>0, OccursInAppend DEF One
  <2>3. /\ Flying(e)' = Flying(e) /\ Told(e)' = Told(e)
        /\ Occurrences(requests, e)' = Occurrences(requests, e)
    BY <1>0 DEF Flying, Told
  <2> QED  BY <2>1, <2>2, <2>3, Sums
<1> QED  BY <1>1, StayMaps

LEMMA OracleTellsMaps ==
  ASSUME Types, Types', OracleTells
  PROVE  Mapped
<1> DEFINE d == Head(replies)
<1>0. /\ replies \in Seq(Peer) /\ replies # <<>> /\ replies' = Tail(replies)
      /\ d \in Peer /\ d \in Asked /\ UNCHANGED <<requests, air>>
      /\ Return("oracle") \/ Goto("oracle", "forget", d)
  BY DEF OracleTells, Overflow, Types, TypeOK, Asked
<1>1. ASSUME NEW e \in Asked PROVE OwedBy(e) = OwedBy(e)' + One(e, d)
  <2>1. /\ Asking("node", e)' = Asking("node", e)
        /\ Asking("timer", e)' = Asking("timer", e)
        /\ Putting(e)' = Putting(e)
    <3>1. "oracle" \in {"oracle", "tcpIn", "udpIn"} /\ "oracle" # "udpIn"
      OBVIOUS
    <3>2. CASE Return("oracle")
      BY <1>0, <3>1, <3>2, OthersHold
    <3>3. CASE Goto("oracle", "forget", d)
      <4>1. "oracle" \in Thread /\ {"node", "timer"} \subseteq Thread \ {"oracle"}
        BY DEF Thread, Caller
      <4> QED  BY <3>1, <3>3, <4>1, GotoCounts
    <3> QED  BY <1>0, <3>2, <3>3
  <2>2. Occurrences(replies, e) = Occurrences(replies, e)' + One(e, d)
    BY <1>0, OccursInTail DEF One
  <2>4. Occurrences(replies, e)' \in Nat
    <3>1. replies' \in Seq(Peer)
      BY <1>0
    <3> QED  BY <3>1, PositionsFinite
  <2>3. Flying(e)' = Flying(e) /\ Occurrences(requests, e)' = Occurrences(requests, e)
    BY <1>0 DEF Flying
  <2> QED  BY <2>1, <2>2, <2>3, <2>4, Sums
<1>2. CASE Notify(Cost(d))
  <2>1. \A e \in Asked : Told(e)' = Told(e) + One(e, d)
    BY <1>0, <1>2, NotifyTells
  <2> QED  BY <1>0, <1>1, <2>1, TellMaps
<1>3. CASE Overflow("oracle")
  <2>1. \A e \in Asked : Told(e)' = Told(e)
    BY <1>3 DEF Overflow, Told
  <2> QED  BY <1>0, <1>1, <2>1, ForgetMaps
<1> QED  BY <1>2, <1>3 DEF OracleTells

LEMMA QuietMaps ==
  ASSUME Types, OracleForgets \/ CostAges \/ UNCHANGED vars
  PROVE  Mapped
<1>0. /\ UNCHANGED <<inbox, requests, replies, air>> /\ (Return("oracle") \/ UNCHANGED at)
      /\ NoPeer \in Asked
  BY DEF OracleForgets, CostAges, vars, queueVars, Asked
<1>1. ASSUME NEW e \in Asked PROVE OwedBy(e)' = OwedBy(e) /\ Told(e)' = Told(e)
  <2>1. /\ Asking("node", e)' = Asking("node", e)
        /\ Asking("timer", e)' = Asking("timer", e)
        /\ Putting(e)' = Putting(e)
    BY <1>0, OthersHold
  <2>2. /\ Flying(e)' = Flying(e) /\ Occurrences(replies, e)' = Occurrences(replies, e)
        /\ Occurrences(requests, e)' = Occurrences(requests, e) /\ Told(e)' = Told(e)
    BY <1>0 DEF Flying, Told
  <2> QED  BY <2>1, <2>2, Sums
<1> QED  BY <1>1, StayMaps

\* Whatever threads, queues and losses do, the oracle is the service of
\* CostService: the node is told at most one cost for each time it asked.
THEOREM ImplementsServiceHolds == Spec => ImplementsService
<1>1. Init => Service!ServiceInit
  <2> SUFFICES ASSUME Init PROVE Service!ServiceInit
    OBVIOUS
  <2>1. ASSUME NEW x PROVE Occurrences(<<>>, x) = 0
    BY FS_EmptySet DEF Occurrences
  <2>2. \A e \in Asked : OwedBy(e) = 0
    BY <2>1 DEF Init, OwedBy, Holds, Idle, Thread, Caller
  <2> QED  BY <2>1, <2>2 DEF Init, Service!ServiceInit
<1>2. Types /\ Types' /\ [Next]_vars => [Service!ServiceNext]_(Service!service)
  <2> SUFFICES ASSUME Types, Types', [Next]_vars PROVE Mapped
    BY DEF Mapped
  <2>1. CASE \E t \in Caller : GetCost(t)
    BY <2>1, LookMaps, SendPingMaps, RecordMaps DEF GetCost
  <2>2. CASE NodeTakes \/ TimerAsks \/ MessageArrives
    BY <2>2, NodeTakesMaps, TimerAsksMaps, MessageArrivesMaps
  <2>3. CASE Fulfill \/ PutReply \/ \E d \in Peer : PingBack(d)
    BY <2>3, FulfillMaps, PutReplyMaps, PingBackMaps
  <2>4. CASE Oracle \/ CostAges \/ UNCHANGED vars
    BY <2>4, OracleTellsMaps, QuietMaps DEF Oracle
  <2> QED  BY <2>1, <2>2, <2>3, <2>4 DEF Next
<1> QED  BY <1>1, <1>2, InitTypes, StepTypes, PTL DEF Spec, ImplementsService, Service!ServiceSpec
=============================================================================
