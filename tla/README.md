# PlumbotProtocol in TLA+

PlumbotProtocol is a peer-to-peer broadcast overlay in Java: X-BOT keeps each
node's neighbours (and prefers cheap ones), Plumtree broadcasts along them. The
repository holds three generations of it side by side:

1. the runnable one, started by `src/src/test/BasicApp.java`: `protocol/`,
   `network/`, `message/`, `common/`, `notifications/`, `interfaces/`;
2. a rewrite as a stack of event-passing protocols: `refactor/`;
3. a Netty transport for that rewrite: `nettyFoutoRefactor/`.

This directory models the parts that carry the program's own logic. Paths below
are relative to `src/src/`. `PROJECT.json` lists for every definition the lines
it stands for, for every run the properties it checks, and every hazard.

## Inventory

| Component | State | Operations | Talks to |
|---|---|---|---|
| X-BOT membership, `protocol/xbot/XBotNode.java` | unbiased, biased, active and passive view, `futureConnections`, `costsWaiting`, `joining` | `join`, handlers of Join, AcceptJoin, ForwardJoin, Disconnect, connection and cost notifications | TCP (frames, `connect`, `disconnect`), the oracle (`getCost`), Plumtree (neighbour up and down) |
| X-BOT optimization, `XBotNode`, `XBotInit`, `XBotCand`, `XBotOld`, `XBotDisco` | a cycle per role, its costs and timers | optimize, replace, switch and their replies | the same, and `MappedTimerManager` |
| TCP network, `network/TCP.java`, `network/Network.java` | `connections`, the request queue, selector keys | `connect`, `disconnect`, id exchange, read, `fulfill` | its node's notification queue, its twin at the other end |
| Cost oracle, `protocol/oracle/TimeCostOracle.java`, `network/UDP.java` | costs, pings under way, expiry | `getCost`, ping, pong | the X-BOT node |
| Plumtree, `protocol/PlumtreeNode.java` | eager and lazy peers, received and missing messages, lazy queue, timers | broadcast, IHave, Graft, Prune, neighbour up and down | TCP, X-BOT (called on its thread) |
| Timers, `common/MappedTimerManager.java` | map of timers | schedule, stop | all nodes |
| Wiring, `protocol/PlumBotInstance.java`, `test/BasicApp.java` | the nodes, which network carries which message type | create, join | everything |
| Outgoing connection, `nettyFoutoRefactor/network/PeerOutConnection.java` with `pipeline/OutHandshakeHandler.java` | status, channel, attempts, backlog, transient channels, reconnect timer | `sendMessage`, `sendMessageTransientChannel`, `reconnect`, `terminate`, the channel callbacks | Netty event loops, `NetworkService`, node listeners |
| Network service, `nettyFoutoRefactor/network/NetworkService.java` | known peers, consumers, serializers | `addPeer`, `removePeer`, `sendMessage`, broadcast | the outgoing connections, the server channel |
| Incoming connections, `nettyFoutoRefactor/network/pipeline/In*.java`, `MessageDecoder` | handshake state, read buffer | handshake, decode, deliver | message consumers |
| Refactored X-BOT, `refactor/protocol/xbot/`, `refactor/utils/` | views, a pool of rounds, sorted map of neighbours | as X-BOT above | the protocol stack |
| Protocol stack, `refactor/framework/` | event queues and links of protocols | deliver, batch | all refactored protocols |

What is hard in it:

- **Threads.** A first-generation node runs a node thread, a sender and a reader
  joined by bounded queues, and timers; an exception that nobody catches ends
  one of them and leaves the others running. In `PeerOutConnection` the
  application's threads, the timer and the event loops share fields of which
  only `status` and the collections are thread-safe.
- **Messages.** Joins walk the overlay while views change; both ends of a
  connection may dial at once; frames that arrive together in one buffer are
  dropped but for the first (`TCP.java:184`); a `Disconnect` crosses an `AcceptJoin`.
- **Failure.** Peers become unreachable, channels close at any moment, the
  handshake or a send races with it, `terminate()` races with a reconnect.
- **Limits.** View sizes, ttls, queues of ten, a number of attempts.

Correct means, per component: *membership* - the views agree with each other, no
node is its own neighbour, a connection is not half known, everybody who joins
gets a neighbour, and the overlay falls silent; *outgoing connection* - no
message is written twice or left behind, no two channels at once, no reconnect
after removal, the listeners hear of a loss, a reachable peer gets connected and
the class's assertions hold; *optimization* - a cycle that is asked for is
answered, the overlay keeps all of the above through it, and falls silent
again; *cost oracle* - a cost is told at most once per question, callers
are not kept waiting for ever, and costs keep coming.

## Modules

| Module | What it is |
|---|---|
| `XBotViews` | a node's state and what the private methods of `XBotNode` do to it, as operators |
| `XBotMembership` | the overlay: nodes, their frames, their threads; membership handlers of `XBotNode` over `TCP`; properties |
| `MCXBotMembership`, `XBotEvictions.cfg`, `XBotWired.cfg`, `XBotMeasured.cfg` | instances for TLC |
| `XBotViews_proofs` | lemmas: what each operator of `XBotViews` preserves |
| `XBotMembership_proofs` | the inductive invariant and the theorems about the overlay |
| `XBotOptimization` | the same overlay with the optimization timer of `XBotNode`, `XBotInit`, `XBotCand` and `XBotDisco`; properties |
| `MCXBotOptimization`, `XBotCycles.cfg` | an instance for TLC |
| `XBotOptimization_proofs` | the overlay's theorems again, while it is optimized |
| `CostService` | what `Oracle` offers its user: each question is answered at most once |
| `TimeCostOracle` | the oracle with its maps, queues and threads on `UDP`; properties, and the refinement mapping to `CostService` |
| `MCTimeCostOracle`, `Oracle.cfg`, `OracleTtl.cfg` | instances for TLC |
| `TimeCostOracle_proofs` | types, the bound on the costs kept, and the refinement |
| `PeerOutbox` | what `PeerOutConnection` promises who sends on it |
| `PeerOutConnection` | the Netty connection to one peer, its callbacks and its callers; properties, and the refinement mapping to `PeerOutbox` |
| `MCPeerOutConnection`, `Out*.cfg` | instances for TLC |
| `PeerOutConnection_proofs` | the theorem about `removePeer` |
| `PeerOutbox_proofs` | types, at most one write, and the refinement |
| `PeerOutReconnect_proofs` | one reconnection at a time, and what follows from it |

Definitions whose comment begins with "Mutated, not the code" are no part of
the specifications: they are plausible slips (a dropped test, `peek()` for
`poll()`, a missing cancel), each of which makes a property of a run fail when
put in place of the operator that follows it. They show that the property can fail.

### XBotViews and XBotMembership

A node is a record (`NodeState`) whose fields carry the names of the Java ones
or a comment that gives them; `link[m][n]` is the sequence of frames m wrote to
n. One action is one notification handled or one frame sent or read:

| Action | Code |
|---|---|
| `JoinAt` | `BasicApp` creates a node and calls `XBotNode.join` |
| `SendNext`, `SendUnconnected` | `TCP.fulfill`, with a channel and without |
| `ReadId` | `TCP.handleIdExchange`, then `XBotNode.handleConnection` |
| `ReadMessage` | `TCP.read`, then `handleJoin`, `handleAcceptJoin`, `handleForwardJoin` or `handleDisconnect` |
| `ReadHangUp` | `TCP.read` of a `d` frame |
| `HandleCost` | `XBotNode.handleCost` of a peer nobody else waits for |

A handler takes a node's state and gives the set of states it may leave it in,
because peers are drawn at random (`removeRandomFromPassiveView`, the walk of a
forward join). Exceptions are outcomes, not excluded: a request to a peer without
a channel kills the sender, a `d` kills the reader, `last()` of an empty biased
view kills the node thread, and the loop in `handleForwardJoin` that looks for a
peer other than the sender and the joiner spins when there is none.

Abstracted: the two queues between the threads of a node are unbounded, and a
notification is handled in the step in which it is read; accepting and finishing
a connection is one step with dialling; frames in one direction are one sequence
even when both ends dialled. Costs are fixed per peer and distinct (no ties in
the `TreeSet`). The optimization timer is left to `XBotOptimization`. `leave()`, which exits the
process, and the resizing of views are left out. The connection timeout does
nothing in the code (`fireConnectionTimeout` has an empty body).

### XBotOptimization

`XBotOptimization` EXTENDS `XBotMembership` and adds what the optimization timer
and the roles of a cycle keep; every membership action goes on beside it.

| Code | Actions |
|---|---|
| `XBotNode.optimize`, `XBotInit.optimize` (the timer's thread) | `OptimizeBegins`, `OptimizePicks`, `OptimizeAsks`, `OptimizeWaits` |
| `XBotCand.handleOptimization` | `ReadOptimization` |
| `XBotInit.handleOptimizationReply`, `finishCycle` | `ReadOptimizationReply` |
| `XBotDisco.handleReplace` | `ReadReplace` |
| `XBotNode.handleCost`, `XBotInit.handleCost`, `XBotDisco.handleCost` | `TellCost` |
| a notification to a node whose thread has ended | `DropCycleMessage` |

The timer is cut between its test of the biased view and `last()`, between the
choice and `oracle.getCost`, and between that and `costsWaiting.put`: the node
thread may change the views, answer or tell the cost in between. `costsWaiting`
keeps one waiter per peer (`Waiter`), the last that was put.

A cycle goes initiator, candidate, disconnected, old. Its second half never
runs: `size()` of a `ReplaceReplyMessage` (l.46) leaves out an address that
`bytes()` writes, the buffer overflows, and the exception ends the node thread of
the disconnected node before anything is sent. That is what the model does
(`Told`), and `handleReplaceReply`, `handleSwitch` and `handleConnectionToOld`,
which nothing reaches, are left out with the costs a cycle compares. (The
comparison would be wrong as well: `CostComparer` declares its arguments in
another order than `XBotDisco.basicComparer` takes them.)

### TimeCostOracle and CostService

`at[t]` says where thread t stands in its method and about which peer. A method
is cut wherever it touches a map or a queue another thread uses.

| Code | Actions |
|---|---|
| `getCost`, on the node's thread or the timer's | `Look`, `SendPing` (waits for room in `UDP.requests`), `Record` |
| `XBotNode.processNotification`, `XBotInit.optimize` | `NodeTakes`, `TimerAsks` |
| `TCP.read` on its own thread, which fills the same queue | `MessageArrives` |
| `UDP.fulfill`, the network | `Fulfill` |
| `TimeCostOracle.notify`, on UDP's reader | `PingBack`, `PutReply` |
| `TimeCostOracle.processNotification` | `OracleTells`, `OracleForgets` |
| the clock | `CostAges` |

`put` on a full queue waits; `add` on one throws and ends its thread (`dead`).
A time is only older or younger than the ttl, an operation on a `HashMap` is one
step although the class does not promise that, and datagrams are lost and
reordered but not duplicated. A null candidate reaches `getCost` and ends the
sender of UDP.

`CostService` counts, per peer, the answers owed and the answers told. The
mapping counts as owed every place a question can be: a caller that has not sent,
the queue of UDP, the air, the reader and the queue of the oracle. A question is
forgotten when its datagram is lost, when the answer comes to nobody, or when a
full queue ends the thread that carries it.

### PeerOutConnection

Here the steps are finer: a method is cut wherever it reads or writes something
another thread may touch. `pc[t]` says where sender or event loop t stands, `rc`
the thread in `reconnect()`, `ts[t]` each transient send, `kill` the thread in
`terminate()`.

| Code | Actions |
|---|---|
| `reconnect()` and the timer task | `ReconnectStart`, `ReconnectConnect`, `ReconnectAssign`, `ReconnectListen`, `TimerFires` |
| `channelActiveCallback` | `Connected`, `SetHandshaking` |
| `handshakeCompletedCallback` | `HelloWritten`, `SetActive`, `NotifyUp` and twice `WriteBacklog` |
| `operationComplete` (the channel closed) | `CloseChannel`, `CloseIgnored`, `CloseForgets`, `SetDisconnected`, `SwapStatus`, `RestoreTerminated`, `ScheduleReconnect` |
| `sendMessage` | `SendBegins` ... `SendRechecks` and `WriteBacklog` |
| `writeBacklog` | `CheckActive`, `Poll`, `PutPolled` |
| `sendMessageTransientChannel` | `TransientBegins` ... `TransientListens` |
| `terminate` | `TerminateBegins` ... `TerminateTransients` |

An assertion that fails puts its line number into `failed`, and the step goes on
as the thrown error makes it. Netty (`io.netty`) is outside the repository and
modelled from how the class uses it: callbacks of one channel run one after the
other, a write from another thread is a task of the channel's loop, an error in
`channelActive` reaches the pipeline, which closes the channel, and an error in a
listener is logged. Not modelled: the visibility of fields that are not volatile
(every read sees the last write), and a hello whose write fails.

`PeerOutbox` is the specification it implements: messages taken, a queue, those
handed to a channel, those written. The mapping takes the queue for the backlog
and counts as handed over what a thread has polled (`hand`) and what waits for an
event loop (`tasks`). What waits in the queue is lost by nothing, in particular
by no close, removal or reconnection.

`attempts` is only ever compared with `RECONNECT_ATTEMPTS_BEFORE_DOWN` and
stops one above it. The bounds are `Persistent` and `Transient` (channels that
may exist at once; an id is used again when its channel is done), `Sender` and
`MaxSent`.

## What TLC checks

| Run | Instance | Shows |
|---|---|---|
| `evictions` | 4 nodes, unbiased 1, active 2, passive 1, costs answered, reads may swallow frames | `TypeOK`, `NoSelf`, `ViewsAgree`, `ConnectionsAgree` |
| `wired` | 4 nodes, active 3, no ping answered, as `PlumBotInstance` wires the oracle | `WiredDegree`, `JoinerGetsANeighbour` |
| `measured` | 3 nodes, costs answered, reads may swallow frames | `Settles`, `JoinerGetsANeighbour` |
| `cycles` | 3 nodes, unbiased 0, active 2, passive 1, costs answered, one node begins two cycles | `CycleTypeOK`, `NoSelf`, `ViewsAgree`, `ConnectionsAgree`, `OptimizationIsAnswered`, `CycleSettles` |
| `oracle` | 1 peer, all queues and bounds of one, six threads, fair | `TypeOK`, `ImplementsService`, `CallersComeBack`, `ReaderComesBack`, `CostsKeepComing` |
| `oracle_ttl` | the same | a comment about fresh costs is not kept (below) |
| `out_sending` | 2 channels, 2 senders of 1 message each | `TypeOK`, `AtMostOnce`, `NoMessageStranded`, `OnlyEarlyActiveFails`, `ImplementsOutbox` |
| `out_removed` | 2 channels, 1 transient message, `removePeer` | `ReconnectFindsNoneOpen`, `NoReconnectOnceRemoved` |
| `out_live` | 1 channel, 1 sender, 2 attempts before down, fair | `DownIsReported`, `Reconnects` |
| `out_early_active`, `out_transient_hello`, `out_shared_attribute` | 1 channel | three of the class's assertions fail (below) |

*Bounds.* Four nodes are the fewest with which a forward join is forwarded by a
node that is neither contact nor joiner and can be drawn back; sizes of one and
two make every fourth peer evict another and every passive view overflow; a ttl
of two lets a walk pass, fill a passive view and end. With the sizes of
`PlumBotInstance` (7, 2, 10) four nodes would never evict. Two persistent
channels are enough for an old one to close while the next is opened, two
senders for two threads to be in `writeBacklog()` with the event loop. With three
nodes one is initiator, candidate and disconnected to the others in turn, and a
second cycle meets the replies, the waiters and the views the first has left.
A queue of one is full and empty within two steps, so that every wait and every
overflow happens beside every other step; the peers of the oracle share nothing
but the queues and the bound on the costs, which `CostsFitHolds` proves for any
number of them. (`RequestsSize = 2` passes as well, in two and a half minutes.)
Deadlock is not checked: an overlay that everybody has joined is meant to fall
silent, and no sender has to send.

*Fairness.* `XBotMembership.FairSpec` is weakly fair to every thread of every
node: a sender with a request, a reader with a frame and an oracle that owes a
cost get to it. Joins are not fair. `XBotOptimization.FairCycleSpec` asks less: some
thread that has something to do goes on; that a timer runs again is not assumed.
`TimeCostOracle` is weakly fair to the node, the oracle, UDP's sender and its
reader, and strongly fair to `getCost`, because two callers compete for the room
in one queue and `ArrayBlockingQueue.put` serves whoever waits in the end. Nobody
has to send a message, to optimize or to answer a ping: `CostsKeepComing` supposes
the answers, as the peers of `PlumBotInstance` give none. `PeerOutConnection.FairSpec` is weakly
fair to every started call, every event loop and the timer, and to nothing that
the application or the network decides. `Reconnects` supposes in addition
that the early activation of l.196 does not refuse channels for ever: nothing in
the code excludes that, it is only unlikely.

*What fails.* A comment in `TimeCostOracle` (l.34) says costs are kept "so we
don't waste time recalculating", until a timeout. `isExpired()` (l.197) is true
while the ttl has *not* passed: a fresh cost is thrown away and measured again,
an old one is told for ever (run `oracle_ttl`). And three assertions of
`PeerOutConnection` can fail:

- l.197, "Channel active without being in disconnected state": `reconnect()`
  stores the channel after `connect()` returned (l.114), and the event loop may
  run `channelActive` before that. The fresh connection is closed, and a later
  attempt replaces it.
- l.174, "Handshake completed without being in handshake state": a transient
  message is put into its map (l.72) after the connection was begun (l.71); if the
  hello is written first, the message is never written.
- l.124, "Future called for not current channel": `attr()` and `connect()` on the
  one `Bootstrap` are two steps, so a channel may be created with the attribute
  the other kind of send has just set.

*Seen while modelling, stated by no doc.* A forward join that ends adds its
joiner to the active view without a connection, so that the next message to it
kills the sender thread. The active view steps over `activeViewMaxSize`, because
the room kept for `futureConnections` moves both ways. A passive connection that
completes begins a new one and is never added to the passive view. Messages of
one sender may be swapped when it drains the backlog together with the event
loop. `status.set(DISCONNECTED)` (l.130) may overwrite `TERMINATED`; what
prevents a reconnect then is the cancelled timer alone - a task of it that has
begun before goes on. In the optimization: a waiter told twice sends two
Optimizations, and the reply to the second finds `init == null` and ends the node
thread; the cost of a candidate may come before `costsWaiting.put` and be taken
for that of somebody else's question; the biased view may be emptied between the
timer's test and `last()`, which ends the timer; a candidate that accepts takes
nobody in, so that an exchange is only ever half of one. The second of two
Optimizations can also be answered after the next cycle has begun: the stale
reply ends that cycle, and its old is given up although its candidate has left
the passive view meanwhile, so for nobody. (TLC found this by simulation with six
nodes that begin two cycles each; the three nodes of `cycles` are too few for it.) In the oracle: the
record of a ping that was sent again is removed with that of the first (l.178),
and an answer that is faster than l.86 is ignored.

## What is proved

All theorems hold for every value of the constants that satisfies the `ASSUME`s
of the modules: any finite set of nodes, sizes with `UnbiasedMax < ActiveMax` and
a positive `PassiveMax`, natural ttls; any sets of channels, senders and
transient messages that do not overlap; any finite set of peers and any positive
queue sizes. Every `ASSUME` belongs to a module that
a run extends, so TLC evaluates it.

| Theorem | States |
|---|---|
| `InvHolds` | `Spec => []Inv`, the inductive invariant of the overlay |
| `TypeCorrect`, `NoSelfHolds`, `ViewsAgreeHolds`, `WiredDegreeHolds` | the invariant of that name, for the runs `evictions` and `wired` |
| `ConnectionsAgreeHolds` | `Spec => []ConnectionsAgree` |
| `CycleTypeOKHolds`, `NoSelfWhileOptimizing`, `ViewsAgreeWhileOptimizing`, `ConnectionsAgreeWhileOptimizing` | the four invariants of the run `cycles`, of `CycleSpec` |
| `CycleInvHolds` | `CycleSpec => []CycleInv`, the inductive invariant of the overlay and its cycles |
| `NoReconnectOnceRemovedHolds` | the action property of the run `out_removed` |
| `TypeOKHolds`, `AtMostOnceHolds`, `ImplementsOutboxHolds` (`PeerOutbox_proofs`) | types, at most one write, and that the connection implements `PeerOutbox` |
| `ReconnectFindsNoneOpenHolds`, `NoMessageStrandedHolds` | the invariants of that name, of the runs `out_removed` and `out_sending` |
| `OnlyEarlyActiveFailsHolds` | the invariant of that name, without transient sends and `terminate()` |
| `TypeOKHolds`, `CostsFitHolds`, `ImplementsServiceHolds` (`TimeCostOracle_proofs`) | types, `costsSize` bounds the costs kept, and that the oracle implements `CostService` |

*The overlay.* None of the four invariants is inductive. That a node has no
neighbour of its own address depends on what it is told: no frame under way to n,
and no request queued for n, may introduce n. `Inv` says so of every request and
frame (`Sound`, `ProperLinks`), and of every node that it is in a state of
`StateOf(n, X)`, which has its types, the agreement of the views and the bound on the
unbiased view. `XBotViews_proofs` shows for each operator that it maps such
states to such states; `XBotMembership_proofs` lifts that to handlers, then to
actions (one lemma each), then to `Next`. `ConnectionsAgree` needs a second
invariant, `ConnInv`: an `a` under way comes from a node that has registered the
channel with its receiver or has hung up on it.

*The optimization.* `CycleSpec` does not implement `Spec`: an accepting reply moves
peers between the views as no step of the membership does. What the two share is
shared in the proofs instead. Every lemma about the membership is stated for a set
X of messages of other protocols that queues and links may carry, so that its steps
keep `Inv(CycleMessage)` as they keep `Inv({})`, and only a cycle's steps are left.
These work on a peer that was chosen earlier; `CycleInv` adds that every cycle, on
the timer or waiting for a cost, has an old and a candidate that is not the node
itself (`CandidateIsAnother`). Where the code takes `last()` of the biased view, the
model CHOOSEs a worst peer: `SomebodyIsWorst` shows that a finite view that is not
empty has one, by taking the peer that the fewest others cost more than.

*The outgoing connection.* From `reconnectTimer.cancel()` on the timer has no task
(`TimerOff`): nothing but the timer moves `rc` out of `idle`, and
nothing but `ScheduleReconnect` sets a task, which a cancelled timer refuses.

*The outbox.* That nothing is written twice is not inductive: it depends on where
every message is. `Inv` is `Types` with `Messages`: each of the wire, the backlog,
the tasks of a loop, the hand of a thread and the callers (`Place`) holds a message
at most once, no two of them hold the same, and all hold only messages that were
accepted. Every step either leaves the places alone (`StaysPut`), or moves one
message from a place to another, or loses some that had been handed to a channel
(`Moves`); for each kind one lemma shows that `Messages` is kept and which step of
`PeerOutbox` it is. `Types` needs to know where each thread can stand, and that
only a thread about to write holds a polled message.

*The reconnection.* Nothing in the class says that it reconnects once at a time; it
follows from who may begin (`OneReconnect`). `reconnect()` hands the right on to the
channel it stores, the channel's close listener, which runs once, to the timer, and
the timer's task back to `reconnect()`; while the right is with any of them but the
channel, `channel` is null. That takes the order inside `reconnect()` (the channel
is stored before its listener is registered, `FreshIsYoung`), that a callback past
its first test is the current channel's (`CallbacksAreCurrent`), and that nobody
reconnects while the status is `ACTIVE` (`ActiveIsOpen`). `ReconnectFindsNoneOpen` is
then immediate, and `NoMessageStranded` is `SomebodyWrites`, a part of the same
invariant: the callback drains the backlog once before and once after the status
is `ACTIVE`, and a sender looks again after its `add`, so that whichever comes last finds
the message. `OnlyEarlyActiveFailsHolds` supposes `Transient = {}` and
`MayTerminate = FALSE`, as the run does: with transient messages l.124 and l.174 can
fail, which the runs `out_shared_attribute` and `out_transient_hello` show.

*The oracle.* `Types` adds to the type invariant where each thread can stand
(`Places`). The refinement is a count: `OccursInAppend` and `OccursInTail` say how
an element's occurrences in a queue change, `GotoCounts` and `ReturnCounts` how a
thread's move changes what is owed, and each action's lemma adds up the six
summands of `OwedBy` and names the step of the service, or none. `CostsFit` holds
because only UDP's reader puts a cost, and a caller between its test and its
`put` can only make more room.

Checked by TLC only: liveness (`JoinerGetsANeighbour`, `Settles`, `CycleSettles`,
`OptimizationIsAnswered`, `DownIsReported`, `Reconnects`, `CallersComeBack`,
`ReaderComesBack`, `CostsKeepComing`), which the prover does not do under
fairness. Every invariant, action property and refinement
that a passing run checks is proved.
`JoinerGetsANeighbour` is the one to read with its bounds in mind: it is checked on
three and four nodes, and nothing here says that a joiner is served in larger
overlays, where more threads may have ended.

## Not modelled

- **Plumtree** (`PlumtreeNode`). `handleMessage` switches on `msgNoti.type()`, which
  is `MessageNotification.TYPE` for every message: no message of Plumtree ever
  reaches its handler in the program. A model of the handlers would be a model of
  something that does not run, and one of the code would do nothing.
- **The second half of a cycle** (`XBotOld`, `handleReplaceReply`, `handleSwitch`):
  not reached, see XBotOptimization above.
- **Refactored node and stack** (`refactor/`): unfinished, no program runs them.
- **`MappedTimerManager`**: what it runs is the period of the optimization timer, which
  `XBotOptimization` has, a connection timeout that does nothing, the wait of an old
  node, which is not reached, and Plumtree's graft.
- **Incoming connections**: `InHandshakeHandler` and the framing of `MessageDecoder`
  keep no state beyond a channel's; `NetworkService`'s server side with them.
- **`leave()`**, which exits the process, the resizing of views, the queue between
  a node's threads in `XBotMembership` and `XBotOptimization` (it is in
  `TimeCostOracle`), byte layouts but for the one that matters, the console of
  `BasicApp`, logging.
- **`output/`** is generated javadoc with the scripts (jQuery) it ships with. They
  are the only JavaScript of the repository and no part of the protocol; all
  definitions here stand for lines of Java.

## Plan

1. An abstract specification of the two ends of a TCP connection (dial, accept, hang
   up), which `XBotMembership` implements, with the proof.
2. The accepting side of a Netty connection, composed with `PeerOutConnection`.
3. `FixedSizeRandomSortedMap` against a reference definition of a bounded map, once
   the refactored node uses it.

## Running

    tlc -config XBotEvictions.cfg MCXBotMembership.tla
    tlc -config OutSending.cfg MCPeerOutConnection.tla
    tlapm XBotMembership_proofs.tla

The runs take up to a minute each; `PeerOutbox_proofs` takes some eight minutes,
the other proofs a few.
