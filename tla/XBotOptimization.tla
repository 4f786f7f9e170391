-------------------------- MODULE XBotOptimization --------------------------
(***************************************************************************)
(* The optimization half of protocol/xbot: XBotNode.optimize() on its timer*)
(* with XBotInit, XBotCand and XBotDisco, running while the overlay of     *)
(* XBotMembership is joined, measured and disconnected.                    *)
(*                                                                         *)
(* A cycle goes init -> cand -> disco -> old.  The second half of it never *)
(* runs: bytes() of a ReplaceReply overflows its buffer whatever the reply *)
(* (ReplaceReplyMessage l.46), which ends the node thread of the disco     *)
(* before anything is sent, so that handleReplaceReply, handleSwitch and   *)
(* handleConnectionToOld are dead code, and what they read (cands, discos, *)
(* olds, the costs of a Replace) is left out.  No NeighbourhoodListener is *)
(* registered, so cantOptimize() is false.  Setting init, and setting it   *)
(* back because the biased view is empty, are one step of the timer.       *)
(***************************************************************************)
EXTENDS XBotMembership

CONSTANTS
  Nobody,      \* null, for a peer
  MaxCycles    \* bound: MaxCycles[n]: how often the timer of n begins a cycle

ASSUME NobodyAssumption == Nobody \notin Node
ASSUME CyclesAssumption == MaxCycles \in [Node -> Nat]
\* What a read swallows besides a cycle's messages is not modelled.
ASSUME OneFrameAReadAssumption == ~Coalesce

VARIABLES
  init,     \* init[n]: XBotNode.init, null as NoCycle
  timer,    \* timer[n]: where optimize() stands, and its own old and cand
  edge,     \* edge[n][p]: the XBotInit or XBotDisco in costsWaiting under p
  owed,     \* owed[n]: costs the oracle owes besides node[n].asked, and who asked
  udp,      \* udp[n]: the sender of n's UDP network
  begun     \* begun[n]: cycles begun so far

cycleVars == <<init, timer, edge, owed, udp, begun>>
allVars == <<vars, cycleVars>>

Optimization(old)     == [type |-> "Optimization", old |-> old]
OptimizationReply(ok) == [type |-> "OptimizationReply", accept |-> ok]
Replace(old)          == [type |-> "Replace", old |-> old]
CycleMessage ==
  {Optimization(o) : o \in Node} \cup {OptimizationReply(ok) : ok \in BOOLEAN}
    \cup {Replace(o) : o \in Node}

Cycle   == [old : Node \cup {Nobody}, cand : Node \cup {Nobody}]
NoCycle == [none |-> TRUE]
NewCycle == [old |-> Nobody, cand |-> Nobody]
NoEdge  == [role |-> "none"]
InitEdge(c)  == [role |-> "init", old |-> c.old, cand |-> c.cand]
DiscoEdge(o, c) == [role |-> "disco", old |-> o, cand |-> c]

-----------------------------------------------------------------------------
(* costsWaiting holds one waiter for a peer: the last that was put.  XBotViews *)
(* keeps the peers whose waiter is null in waiting.                            *)

PutEdge(n, s, peers, e) ==
  /\ edge' = [edge EXCEPT ![n] = [p \in Node |-> IF p \in peers THEN e ELSE @[p]]]
  /\ node' = [node EXCEPT ![n] = [s EXCEPT !.waiting = @ \ peers]]

Waiter(n, p) == IF p \in node[n].waiting THEN [role |-> "null"] ELSE edge[n][p]

-----------------------------------------------------------------------------
(* optimize(), on the timer thread. *)

Timer(n, step) == timer[n].step = step /\ n \in started
Step(n, step, c) == timer' = [timer EXCEPT ![n] = [step |-> step, old |-> c.old, cand |-> c.cand]]

OptimizeBegins(n) ==
  /\ Timer(n, "idle") /\ begun[n] < MaxCycles[n]
  /\ init[n] = NoCycle /\ node[n].biased # {}
  /\ init' = [init EXCEPT ![n] = NewCycle] /\ Step(n, "pick", NewCycle)
  /\ begun' = [begun EXCEPT ![n] = @ + 1]
  /\ UNCHANGED <<vars, edge, owed, udp>>

\* last() of a view that was emptied meanwhile ends the timer.
OptimizePicks(n) ==
  LET s == node[n] IN
  /\ Timer(n, "pick")
  /\ \/ /\ s.biased = {}
        /\ Step(n, "dead", NewCycle) /\ UNCHANGED init
     \/ /\ s.biased # {}
        /\ \E p \in IF s.passive = {} THEN {Nobody} ELSE s.passive :
             LET pair == [old |-> WorstBiasedPeer(s), cand |-> p] IN
             /\ Step(n, "ask", pair)
             /\ init' = [init EXCEPT ![n] = IF @ = NoCycle THEN @ ELSE pair]
  /\ UNCHANGED <<vars, edge, owed, udp, begun>>

\* oracle.getCost(cand): a ping to null ends the sender of the UDP network.
OptimizeAsks(n) ==
  /\ Timer(n, "ask")
  /\ Step(n, "put", timer[n])
  /\ \/ timer[n].cand = Nobody /\ udp' = [udp EXCEPT ![n] = "dead"] /\ UNCHANGED owed
     \/ /\ timer[n].cand # Nobody
        /\ owed' = [owed EXCEPT ![n] = @ \cup {<<"init", timer[n].cand>>}] /\ UNCHANGED udp
  /\ UNCHANGED <<vars, init, edge, begun>>

\* costsWaiting.put(cand, init)
OptimizeWaits(n) ==
  /\ Timer(n, "put")
  /\ Step(n, "idle", NewCycle)
  /\ PutEdge(n, node[n], {timer[n].cand} \cap Node, InitEdge(timer[n]))
  /\ UNCHANGED <<started, link, init, owed, udp, begun>>

-----------------------------------------------------------------------------
(* The handlers, on the node thread. *)

\* Mutated, not the code: the cost of a connection that has none is taken.
MoveUnmeasured(s, p) ==
  IF p \notin s.passive THEN s
  ELSE AddMeasuredPeerToActiveView([s EXCEPT !.passive = @ \ {p}], p, -1)

\* movePeerToActiveView(peer)
MovePeerToActiveView(s, p) ==
  IF p \notin s.passive THEN s
  ELSE AddNewPeerToActiveView([s EXCEPT !.passive = @ \ {p}], p)

\* isntActiveViewFull()
IsntFull(s) == Cardinality(s.active) + FutureSize(s) < ActiveMax

\* Mutated, not the code: a candidate without biased peers does not answer.
HandleOptimizationSilently(s, from, old) ==
  CASE s.biased = {} -> s
    [] s.biased # {} /\ IsntFull(s) -> Send(s, from, OptimizationReply(TRUE))
    [] OTHER -> Send(s, WorstBiasedPeer(s), Replace(old))

\* XBotCand.handleOptimization: an accepting candidate takes nobody in.
HandleOptimization(s, from, old) ==
  CASE s.biased = {} -> Send(s, from, OptimizationReply(FALSE))
    [] s.biased # {} /\ IsntFull(s) -> Send(s, from, OptimizationReply(TRUE))
    [] OTHER -> Send(s, WorstBiasedPeer(s), Replace(old))

\* Mutated, not the code: old is taken out of the active view alone.
ReplyLeavingBiased(s, c, accept) ==
  IF accept THEN MovePeerToActiveView([s EXCEPT !.active = @ \ {c.old}], c.cand) ELSE s

\* Mutated, not the code: the connection to old is dropped, and old not told.
ReplyDropping(s, c, accept) ==
  IF accept
  THEN [MovePeerToActiveView(MovePeerToPassiveView(s, c.old), c.cand) EXCEPT !.conn = @ \ {c.old}]
  ELSE s

\* XBotInit.handleOptimizationReply, of whatever cycle is init now.
HandleOptimizationReply(s, c, accept) ==
  IF accept THEN MovePeerToActiveView(MovePeerToPassiveView(s, c.old), c.cand) ELSE s

CanReadCycle(n, m, type) ==
  /\ CanRead(n, m) /\ Head(link[m][n]) \in CycleMessage
  /\ Head(link[m][n]).type = type /\ node[n].thread = "running"

ReadOptimization(n, m) ==
  /\ CanReadCycle(n, m, "Optimization")
  /\ Commit(n, HandleOptimization(node[n], m, Head(link[m][n]).old), AfterRead(m, n, 0))
  /\ UNCHANGED cycleVars

\* init == null is a NullPointerException; finishCycle() sets it to null.
ReadOptimizationReply(n, m) ==
  /\ CanReadCycle(n, m, "OptimizationReply")
  /\ \/ /\ init[n] = NoCycle
        /\ Commit(n, Die(node[n]), AfterRead(m, n, 0)) /\ UNCHANGED init
     \/ /\ init[n] # NoCycle
        /\ Commit(n, HandleOptimizationReply(node[n], init[n], Head(link[m][n]).accept),
                  AfterRead(m, n, 0))
        /\ init' = [init EXCEPT ![n] = NoCycle]
  /\ UNCHANGED <<timer, edge, owed, udp, begun>>

\* XBotDisco.handleReplace asks for the costs of old and of the candidate.
ReadReplace(n, m) ==
  LET old == Head(link[m][n]).old IN
  /\ CanReadCycle(n, m, "Replace")
  /\ PutEdge(n, node[n], {old, m}, DiscoEdge(old, m))
  /\ link' = AfterRead(m, n, 0)
  /\ owed' = [owed EXCEPT ![n] = @ \cup {<<"disco", old>>, <<"disco", m>>}]
  /\ UNCHANGED <<started, init, timer, udp, begun>>

\* A message read after the node thread has ended is put in a queue nobody takes.
DropCycleMessage(n, m) ==
  /\ CanRead(n, m) /\ Head(link[m][n]) \in CycleMessage /\ node[n].thread # "running"
  /\ Commit(n, node[n], AfterRead(m, n, 0))
  /\ UNCHANGED cycleVars

\* handleCost, by the waiter; both branches of XBotDisco.reply() overflow.
Told(n, p, s) ==
  LET w == Waiter(n, p) IN
  CASE w.role = "null"  -> AddMeasuredPeerToActiveView(s, p, Cost[n][p])
    [] w.role = "none"  -> s
    [] w.role = "init"  -> IF s.biased = {} THEN s ELSE Send(s, w.cand, Optimization(w.old))
    [] w.role = "disco" -> Die(s)

TellCost(n, p) ==
  /\ OracleAnswers /\ node[n].thread = "running" /\ udp[n] = "running"
  /\ \/ /\ p \in node[n].asked
        /\ Commit(n, Told(n, p, [node[n] EXCEPT !.asked = @ \ {p}]), link)
        /\ UNCHANGED owed
     \/ \E who \in {"init", "disco"} :
          /\ <<who, p>> \in owed[n]
          /\ Commit(n, Told(n, p, node[n]), link)
          /\ owed' = [owed EXCEPT ![n] = @ \ {<<who, p>>}]
  /\ UNCHANGED <<init, timer, edge, udp, begun>>

-----------------------------------------------------------------------------

CycleInit ==
  /\ Init
  /\ init = [n \in Node |-> NoCycle]
  /\ timer = [n \in Node |-> [step |-> "idle", old |-> Nobody, cand |-> Nobody]]
  /\ edge = [n \in Node |-> [p \in Node |-> NoEdge]]
  /\ owed = [n \in Node |-> {}]
  /\ udp = [n \in Node |-> "running"]
  /\ begun = [n \in Node |-> 0]

Membership ==
  /\ \/ \E n, m \in Node : JoinAt(n, m) \/ ReadId(n, m) \/ ReadMessage(n, m) \/ ReadHangUp(n, m)
     \/ \E n \in Node : SendNext(n) \/ SendUnconnected(n)
  /\ UNCHANGED cycleVars

Optimize(n) ==
  OptimizeBegins(n) \/ OptimizePicks(n) \/ OptimizeAsks(n) \/ OptimizeWaits(n)

CycleHandlers ==
  \/ \E n, m \in Node : ReadOptimization(n, m) \/ ReadOptimizationReply(n, m)
                          \/ ReadReplace(n, m) \/ DropCycleMessage(n, m)
  \/ \E n, p \in Node : TellCost(n, p)

CycleNext == Membership \/ (\E n \in Node : Optimize(n)) \/ CycleHandlers

CycleSpec == CycleInit /\ [][CycleNext]_allVars

\* Some thread that has something to do goes on, in whatever order: nothing
\* says that a node joins or that a timer runs again.
Progress ==
  \/ Membership /\ UNCHANGED started
  \/ \E n \in Node : OptimizePicks(n) \/ OptimizeAsks(n) \/ OptimizeWaits(n)
  \/ CycleHandlers

FairCycleSpec == CycleSpec /\ WF_allVars(Progress)

-----------------------------------------------------------------------------
(* Properties. *)

\* Every variable has its type.
CycleTypeOK ==
  /\ started \subseteq Node
  /\ \A n \in Node :
       /\ [node[n] EXCEPT !.requests = <<>>] \in NodeState
       /\ node[n].requests \in Seq([to : Node, msg : Message \cup CycleMessage])
  /\ link \in [Node -> [Node -> Seq(Frame \cup CycleMessage)]]
  /\ init \in [Node -> Cycle \cup {NoCycle}]
  /\ timer \in [Node -> [step : {"idle", "pick", "ask", "put", "dead"},
                         old : Node \cup {Nobody}, cand : Node \cup {Nobody}]]
  /\ edge \in [Node -> [Node -> [role : {"none"}]
                 \cup [role : {"init", "disco"}, old : Node, cand : Node]]]
  /\ owed \in [Node -> SUBSET ({"init", "disco"} \X Node)]
  /\ udp \in [Node -> {"running", "dead"}]
  /\ begun \in [Node -> Nat] /\ \A n \in Node : begun[n] <= MaxCycles[n]

Runs(n) == node[n].thread = "running" /\ node[n].sender = "running" /\ node[n].reader = "running"
Linked(n, m) == m \notin node[n].closed \cup node[n].hung /\ n \notin node[m].closed \cup node[m].hung
Carries(seq, type) == \E i \in DOMAIN seq : seq[i].type = type
Asks(m) == \E i \in DOMAIN node[m].requests : node[m].requests[i].msg.type = "Replace"

\* A cycle whose Optimization has been written ends, or the candidate hands it
\* on with a Replace: whatever joins, evictions and other cycles happen, no
\* answer is lost while both nodes run and their connection stands.
OptimizationIsAnswered ==
  \A n, m \in Node :
    Carries(link[n][m], "Optimization")
      ~> (init[n] = NoCycle \/ Asks(m) \/ ~Runs(n) \/ ~Runs(m) \/ ~Linked(n, m))

\* The overlay falls silent after the joins and the cycles: giving up a
\* neighbour for a candidate starts no endless exchange of Disconnects, costs
\* and moves.
CycleSettles == <>[][FALSE]_allVars
=============================================================================
