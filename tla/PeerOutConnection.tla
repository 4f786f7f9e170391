-------------------------- MODULE PeerOutConnection --------------------------
(***************************************************************************)
(* nettyFoutoRefactor/network/PeerOutConnection.java: the outgoing         *)
(* connection to one peer, with the pipeline handler that calls it back    *)
(* (OutHandshakeHandler) and the calls NetworkService makes on it.         *)
(*                                                                         *)
(* Nothing in the class but reconnect() is synchronized, and its methods   *)
(* run on different threads: the application's (sendMessage, terminate),   *)
(* the reconnect timer's, and the event loop of each Netty channel.  A     *)
(* method is a sequence of steps between which the others run; pc says     *)
(* where each sender and each event loop stands, rc the thread that is in  *)
(* reconnect(), ts each transient send, kill the thread in terminate().    *)
(*                                                                         *)
(* Netty is modelled by what this class relies on.  A channel runs its     *)
(* callbacks one after the other; a write or close called on another       *)
(* thread is a task behind the callback that runs; closing notifies the    *)
(* close future before it fails what was not written.  A channel id is     *)
(* used again when its channel is closed and done with.                    *)
(***************************************************************************)
EXTENDS Integers, Sequences, FiniteSets

CONSTANTS
  Persistent,          \* ids of the channels reconnect() opens
  Transient,           \* transient messages, each with a channel of its own
  NoChannel,           \* null
  Sender,              \* application threads that call sendMessage
  MaxSent,             \* bound: messages each of them sends
  AttemptsBeforeDown,  \* RECONNECT_ATTEMPTS_BEFORE_DOWN
  MayTerminate         \* whether NetworkService.removePeer may be called

Channel == Persistent \cup Transient
Message == Sender \X (1..MaxSent)

ASSUME ChannelAssumption ==
  /\ NoChannel \notin Channel \cup Sender
  /\ Persistent \cap Transient = {} /\ Channel \cap Sender = {}
ASSUME CountAssumption ==
  MaxSent \in Nat /\ AttemptsBeforeDown \in Nat \ {0} /\ MayTerminate \in BOOLEAN

VARIABLES
  status,      \* the AtomicReference
  channel,     \* the current channel, or NoChannel
  attempts,    \* reconnectAttempts; only compared, so it stops one above the limit
  up,          \* outsideNodeUp
  backlog,     \* the ConcurrentLinkedQueue
  pending,     \* keys of transientChannels
  attr,        \* the TRANSIENT_KEY the shared Bootstrap holds now
  timer,       \* reconnectTimer: idle, scheduled, cancelled or dead
  rc, fresh,   \* the thread in reconnect(): where it stands, the channel it got
  chan,        \* Netty: free, connecting, open or closed
  isTransient, \* Netty: the TRANSIENT_KEY a channel was created with
  listening,   \* channels whose close future holds this listener
  closeAsked,  \* channels close() was called on
  tasks,       \* writes other threads handed to an event loop
  pc, hand, pass,  \* senders and event loops: position, message polled, flush
  sent,        \* messages each sender has begun to send
  ts,          \* each transient send: where it stands
  kill,        \* where the thread in terminate() stands
  wire,        \* messages written to an open channel, in order
  net,         \* whether the peer can be reached
  failed       \* lines of the assertions that failed

connVars   == <<status, channel, attempts, up>>
timerVars  == <<timer, rc, fresh>>
nettyVars  == <<chan, isTransient, listening, closeAsked>>
callVars   == <<hand, pass>>
threadVars == <<pc, callVars>>
dataVars   == <<backlog, tasks, wire, pending>>
appVars    == <<sent, ts, kill, attr, net>>    \* the application, and the outside
vars == <<connVars, dataVars, timerVars, nettyVars, threadVars, appVars, failed>>

Goto(t, label) == pc' = [pc EXCEPT ![t] = label]

IsOpen(c) == c # NoChannel /\ chan[c] \in {"connecting", "open"}

\* Neither in a callback nor with one that was never run.
Free(c) == pc[c] \in {"idle", "hello"}

-----------------------------------------------------------------------------
(* reconnect(), called by the constructor and by the timer. *)

ReconnectStart ==
  /\ rc = "start"
  /\ attempts' = IF attempts > AttemptsBeforeDown THEN attempts ELSE attempts + 1
  /\ \/ /\ IsOpen(channel)
        /\ failed' = failed \cup {112} /\ rc' = "idle" /\ timer' = "dead"
        /\ UNCHANGED attr
     \/ /\ ~IsOpen(channel)
        /\ attr' = FALSE /\ rc' = "connect"
        /\ UNCHANGED <<failed, timer>>
  /\ UNCHANGED <<status, channel, up, dataVars, fresh, nettyVars, threadVars, sent, ts, kill,
                 net>>

\* Bootstrap.connect(): the channel takes the attribute the Bootstrap has now.
Open(c) ==
  /\ chan[c] = "free"
  /\ chan' = [chan EXCEPT ![c] = "connecting"]
  /\ isTransient' = [isTransient EXCEPT ![c] = attr]
  /\ UNCHANGED <<listening, closeAsked>>

ReconnectConnect ==
  /\ rc = "connect"
  /\ \E c \in Persistent : Open(c) /\ fresh' = c
  /\ rc' = "assign"
  /\ UNCHANGED <<connVars, dataVars, timer, threadVars, appVars, failed>>

ReconnectAssign ==
  /\ rc = "assign"
  /\ channel' = fresh /\ rc' = "listen"
  /\ UNCHANGED <<status, attempts, up, dataVars, timer, fresh, nettyVars, threadVars, appVars,
                 failed>>

\* A listener added to a future that is complete is called at once.
Listen(c) ==
  /\ listening' = listening \cup {c}
  /\ Goto(c, IF pc[c] = "gone" THEN "closed" ELSE pc[c])

ReconnectListen ==
  /\ rc = "listen"
  /\ Listen(fresh)
  /\ rc' = "idle" /\ fresh' = NoChannel
  /\ UNCHANGED <<connVars, dataVars, timer, chan, isTransient, closeAsked, callVars, appVars,
                 failed>>

\* Mutated, not the code: schedule() with a period.
TimerKeepsFiring ==
  /\ timer = "scheduled" /\ rc = "idle"
  /\ \/ /\ status = "DISCONNECTED"
        /\ rc' = "start" /\ UNCHANGED <<timer, failed>>
     \/ /\ status # "DISCONNECTED"
        /\ timer' = "dead" /\ failed' = failed \cup {148} /\ UNCHANGED rc
  /\ UNCHANGED <<connVars, dataVars, fresh, nettyVars, threadVars, appVars>>

TimerFires ==
  /\ timer = "scheduled" /\ rc = "idle"
  /\ \/ /\ status = "DISCONNECTED"
        /\ timer' = "idle" /\ rc' = "start" /\ UNCHANGED failed
     \/ /\ status # "DISCONNECTED"
        /\ timer' = "dead" /\ failed' = failed \cup {148} /\ UNCHANGED rc
  /\ UNCHANGED <<connVars, dataVars, fresh, nettyVars, threadVars, appVars>>

Reconnect ==
  ReconnectStart \/ ReconnectConnect \/ ReconnectAssign \/ ReconnectListen \/ TimerFires

-----------------------------------------------------------------------------
(* The event loop of a channel: connected, handshake sent, closed. *)

\* channelActive: the check of channelActiveCallback, whose AssertionError
\* makes the pipeline close the channel.
Connected(c) ==
  /\ chan[c] = "connecting" /\ net /\ c \notin closeAsked
  /\ chan' = [chan EXCEPT ![c] = "open"]
  /\ \/ /\ isTransient[c]
        /\ Goto(c, "hello") /\ UNCHANGED <<closeAsked, failed>>
     \/ /\ ~isTransient[c] /\ status = "DISCONNECTED" /\ c = channel
        /\ Goto(c, "connected") /\ UNCHANGED <<closeAsked, failed>>
     \/ /\ ~isTransient[c] /\ ~(status = "DISCONNECTED" /\ c = channel)
        /\ failed' = failed \cup {197} /\ closeAsked' = closeAsked \cup {c}
        /\ UNCHANGED pc
  /\ UNCHANGED <<connVars, dataVars, timerVars, isTransient, listening, callVars, appVars>>

SetHandshaking(c) ==
  /\ pc[c] = "connected"
  /\ status' = "HANDSHAKING" /\ Goto(c, "hello")
  /\ UNCHANGED <<channel, attempts, up, dataVars, timerVars, nettyVars, callVars, appVars,
                 failed>>

\* handshakeCompletedCallback: an AssertionError in a listener is only logged.
\* By now the pipeline closes a transient channel behind what is written on it.
HelloWritten(c) ==
  /\ pc[c] = "hello" /\ chan[c] = "open"
  /\ \/ /\ c \in pending                       \* the transient message is written
        /\ closeAsked' = IF isTransient[c] THEN closeAsked \cup {c} ELSE closeAsked
        /\ Goto(c, "idle") /\ UNCHANGED <<pass, failed>>
     \/ /\ c \notin pending /\ status = "HANDSHAKING" /\ c = channel
        /\ Goto(c, "check") /\ pass' = [pass EXCEPT ![c] = 1]
        /\ UNCHANGED <<closeAsked, failed>>
     \/ /\ c \notin pending /\ ~(status = "HANDSHAKING" /\ c = channel)
        /\ failed' = failed \cup {174}
        /\ Goto(c, "idle") /\ UNCHANGED <<closeAsked, pass>>
  /\ UNCHANGED <<connVars, dataVars, timerVars, chan, isTransient, listening, hand, appVars>>

\* Mutated, not the code: the backlog is not written again after ACTIVE.
SetActiveOnly(c) ==
  /\ pc[c] = "activate"
  /\ status' = "ACTIVE" /\ Goto(c, "notify")
  /\ UNCHANGED <<channel, attempts, up, dataVars, timerVars, nettyVars, callVars, appVars,
                 failed>>

SetActive(c) ==
  /\ pc[c] = "activate"
  /\ status' = "ACTIVE" /\ Goto(c, "check") /\ pass' = [pass EXCEPT ![c] = 2]
  /\ UNCHANGED <<channel, attempts, up, dataVars, timerVars, nettyVars, hand, appVars, failed>>

\* nodeUp or nodeConnectionReestablished
NotifyUp(c) ==
  /\ pc[c] = "notify"
  /\ up' = TRUE /\ attempts' = 0 /\ Goto(c, "idle")
  /\ UNCHANGED <<status, channel, dataVars, timerVars, nettyVars, callVars, appVars, failed>>

\* A channel closes when it is told to, when the peer cannot be reached, or
\* when connecting to it fails.  What was not written yet is lost.
CloseChannel(c) ==
  /\ IsOpen(c) /\ Free(c)
  /\ c \in closeAsked \/ ~net
  /\ chan' = [chan EXCEPT ![c] = "closed"]
  /\ tasks' = [tasks EXCEPT ![c] = <<>>]
  /\ Goto(c, IF c \in listening THEN "closed" ELSE "gone")
  /\ UNCHANGED <<connVars, backlog, wire, pending, timerVars, isTransient, listening,
                 closeAsked, callVars, appVars, failed>>

\* The channel is done with, and its id free.
Done(c) ==
  /\ Goto(c, "idle")
  /\ chan' = [chan EXCEPT ![c] = "free"]
  /\ isTransient' = [isTransient EXCEPT ![c] = FALSE]
  /\ listening' = listening \ {c} /\ closeAsked' = closeAsked \ {c}

IsCurrent(c) == ~isTransient[c] /\ channel = c /\ status # "TERMINATED"

\* operationComplete: returns early, or throws, ...
CloseIgnored(c) ==
  /\ pc[c] = "closed" /\ ~IsCurrent(c)
  /\ failed' = IF ~isTransient[c] /\ channel \notin {c, NoChannel}
               THEN failed \cup {124} ELSE failed
  /\ Done(c)
  /\ UNCHANGED <<connVars, dataVars, timerVars, callVars, appVars>>

\* ... or forgets the channel, ...
CloseForgets(c) ==
  /\ pc[c] = "closed" /\ IsCurrent(c)
  /\ channel' = NoChannel /\ Goto(c, "disconnect")
  /\ UNCHANGED <<status, attempts, up, dataVars, timerVars, nettyVars, callVars, appVars, failed>>

\* Mutated, not the code: > for ==, and reconnectAttempts is never that high.
SetDisconnectedLate(c) ==
  /\ pc[c] = "disconnect"
  /\ status' = "DISCONNECTED"
  /\ up' = (up /\ ~(attempts > AttemptsBeforeDown + 1))
  /\ Goto(c, "swap")
  /\ UNCHANGED <<channel, attempts, dataVars, timerVars, nettyVars, callVars, appVars, failed>>

\* ... is disconnected, and reports nodeDown at the right attempt, ...
SetDisconnected(c) ==
  /\ pc[c] = "disconnect"
  /\ status' = "DISCONNECTED"
  /\ up' = (up /\ attempts # AttemptsBeforeDown)
  /\ Goto(c, "swap")
  /\ UNCHANGED <<channel, attempts, dataVars, timerVars, nettyVars, callVars, appVars, failed>>

\* ... looks with getAndSet whether terminate() came in between, ...
SwapStatus(c) ==
  /\ pc[c] = "swap"
  /\ status' = "DISCONNECTED"
  /\ Goto(c, IF status = "TERMINATED" THEN "restore" ELSE "schedule")
  /\ UNCHANGED <<channel, attempts, up, dataVars, timerVars, nettyVars, callVars, appVars,
                 failed>>

RestoreTerminated(c) ==
  /\ pc[c] = "restore"
  /\ status' = "TERMINATED" /\ Done(c)
  /\ UNCHANGED <<channel, attempts, up, dataVars, timerVars, callVars, appVars, failed>>

\* ... and schedules the next reconnect, which a cancelled timer refuses.
ScheduleReconnect(c) ==
  /\ pc[c] = "schedule"
  /\ timer' = IF timer = "idle" THEN "scheduled" ELSE timer
  /\ Done(c)
  /\ UNCHANGED <<connVars, dataVars, rc, fresh, callVars, appVars, failed>>

Append2Wire(c, m) == IF chan[c] = "open" THEN Append(wire, m) ELSE wire

\* A write of another thread, once the loop gets to it.
RunTask(c) ==
  /\ Free(c) /\ tasks[c] # <<>>
  /\ wire' = Append2Wire(c, Head(tasks[c]))
  /\ tasks' = [tasks EXCEPT ![c] = Tail(@)]
  /\ UNCHANGED <<connVars, backlog, pending, timerVars, nettyVars, threadVars, appVars, failed>>

EventLoop(c) ==
  \/ Connected(c) \/ SetHandshaking(c) \/ HelloWritten(c) \/ SetActive(c) \/ NotifyUp(c)
  \/ CloseChannel(c) \/ CloseIgnored(c) \/ CloseForgets(c) \/ SetDisconnected(c)
  \/ SwapStatus(c) \/ RestoreTerminated(c) \/ ScheduleReconnect(c) \/ RunTask(c)

-----------------------------------------------------------------------------
(* writeBacklog(), on an event loop or on the thread of a sender. *)

\* Where thread t goes on when it returns, pass[t] telling the calls apart.
Return(t) == Goto(t, CASE pass[t] = 0 -> "idle"
                       [] pass[t] = 1 -> "activate"
                       [] pass[t] = 2 -> "notify")

\* A NullPointerException where there is no channel any more ends the caller.
CheckActive(t) ==
  /\ pc[t] = "check"
  /\ \/ channel = NoChannel /\ Goto(t, "idle")
     \/ channel # NoChannel /\ chan[channel] = "open" /\ Goto(t, "poll")
     \/ channel # NoChannel /\ chan[channel] # "open" /\ Return(t)
  /\ UNCHANGED <<connVars, dataVars, timerVars, nettyVars, callVars, appVars, failed>>

\* Mutated, not the code: peek() for poll().
Peek(t) ==
  /\ pc[t] = "poll"
  /\ \/ backlog = <<>> /\ Return(t) /\ UNCHANGED hand
     \/ backlog # <<>> /\ hand' = [hand EXCEPT ![t] = <<Head(backlog)>>] /\ Goto(t, "put")
  /\ UNCHANGED <<connVars, dataVars, timerVars, nettyVars, pass, appVars, failed>>

Poll(t) ==
  /\ pc[t] = "poll"
  /\ \/ backlog = <<>> /\ Return(t) /\ UNCHANGED <<backlog, hand>>
     \/ /\ backlog # <<>>
        /\ hand' = [hand EXCEPT ![t] = <<Head(backlog)>>] /\ backlog' = Tail(backlog)
        /\ Goto(t, "put")
  /\ UNCHANGED <<connVars, tasks, wire, pending, timerVars, nettyVars, pass, appVars, failed>>

\* channel.writeAndFlush(m) by thread t
Write(t, m) ==
  IF t = channel
  THEN wire' = Append2Wire(channel, m) /\ UNCHANGED tasks
  ELSE /\ tasks' = IF IsOpen(channel)
                   THEN [tasks EXCEPT ![channel] = Append(@, m)] ELSE tasks
       /\ UNCHANGED wire

\* Mutated, not the code: the message polled outlives the loop.
PutKeeping(t) ==
  /\ pc[t] = "put"
  /\ Write(t, Head(hand[t]))
  /\ Goto(t, IF channel = NoChannel THEN "idle" ELSE "check")
  /\ UNCHANGED <<connVars, backlog, pending, timerVars, nettyVars, callVars, appVars, failed>>

PutPolled(t) ==
  /\ pc[t] = "put"
  /\ Write(t, Head(hand[t]))
  /\ hand' = [hand EXCEPT ![t] = <<>>]
  /\ Goto(t, IF channel = NoChannel THEN "idle" ELSE "check")
  /\ UNCHANGED <<connVars, backlog, pending, timerVars, nettyVars, pass, appVars, failed>>

WriteBacklog(t) == CheckActive(t) \/ Poll(t) \/ PutPolled(t)

-----------------------------------------------------------------------------
(* sendMessage(), called while NetworkService knows the peer. *)

SendBegins(s) ==
  /\ pc[s] = "idle" /\ sent[s] < MaxSent /\ kill # "done"
  /\ sent' = [sent EXCEPT ![s] = @ + 1]
  /\ Goto(s, IF status = "ACTIVE" THEN "write" ELSE "read")
  /\ UNCHANGED <<connVars, dataVars, timerVars, nettyVars, callVars, ts, kill, attr, net, failed>>

SendWrites(s) ==
  /\ pc[s] = "write"
  /\ Write(s, <<s, sent[s]>>) /\ Goto(s, "idle")
  /\ UNCHANGED <<connVars, backlog, pending, timerVars, nettyVars, callVars, appVars, failed>>

SendReadsAgain(s) ==
  /\ pc[s] = "read"
  /\ Goto(s, IF status = "TERMINATED" THEN "idle" ELSE "add")
  /\ UNCHANGED <<connVars, dataVars, timerVars, nettyVars, callVars, appVars, failed>>

SendAdds(s) ==
  /\ pc[s] = "add"
  /\ backlog' = Append(backlog, <<s, sent[s]>>) /\ Goto(s, "recheck")
  /\ UNCHANGED <<connVars, tasks, wire, pending, timerVars, nettyVars, callVars, appVars, failed>>

\* Mutated, not the code: without the second look at the status.
SendNeverRechecks(s) ==
  /\ pc[s] = "recheck"
  /\ Goto(s, "idle")
  /\ UNCHANGED <<connVars, dataVars, timerVars, nettyVars, callVars, appVars, failed>>

SendRechecks(s) ==
  /\ pc[s] = "recheck"
  /\ Goto(s, IF status = "ACTIVE" THEN "check" ELSE "idle")
  /\ UNCHANGED <<connVars, dataVars, timerVars, nettyVars, callVars, appVars, failed>>

SendMessage(s) ==
  \/ SendBegins(s) \/ SendWrites(s) \/ SendReadsAgain(s) \/ SendAdds(s) \/ SendRechecks(s)
  \/ WriteBacklog(s)

-----------------------------------------------------------------------------
(* sendMessageTransientChannel(), each call on a thread of its own. *)

TransientBegins(t) ==
  /\ ts[t] = "ready" /\ kill # "done"
  /\ attr' = TRUE /\ ts' = [ts EXCEPT ![t] = "connect"]
  /\ UNCHANGED <<connVars, dataVars, timerVars, nettyVars, threadVars, sent, kill, net, failed>>

TransientConnects(t) ==
  /\ ts[t] = "connect"
  /\ Open(t) /\ ts' = [ts EXCEPT ![t] = "put"]
  /\ UNCHANGED <<connVars, dataVars, timerVars, threadVars, sent, kill, attr, net, failed>>

TransientPuts(t) ==
  /\ ts[t] = "put"
  /\ pending' = pending \cup {t} /\ ts' = [ts EXCEPT ![t] = "listen"]
  /\ UNCHANGED <<connVars, backlog, tasks, wire, timerVars, nettyVars, threadVars, sent, kill,
                 attr, net, failed>>

TransientListens(t) ==
  /\ ts[t] = "listen"
  /\ Listen(t) /\ ts' = [ts EXCEPT ![t] = "sent"]
  /\ UNCHANGED <<connVars, dataVars, timerVars, chan, isTransient, closeAsked, callVars, sent,
                 kill, attr, net, failed>>

SendMessageTransientChannel(t) ==
  TransientBegins(t) \/ TransientConnects(t) \/ TransientPuts(t) \/ TransientListens(t)

-----------------------------------------------------------------------------
(* NetworkService.removePeer(): terminate(), then the peer is forgotten. *)

TerminateBegins ==
  /\ MayTerminate /\ kill = "ready"
  /\ status' = "TERMINATED" /\ kill' = "cancel"
  /\ UNCHANGED <<channel, attempts, up, dataVars, timerVars, nettyVars, threadVars, sent, ts,
                 attr, net, failed>>

\* Mutated, not the code: the timer is not cancelled.
CancelsNothing ==
  /\ kill = "cancel"
  /\ kill' = "test"
  /\ UNCHANGED <<connVars, dataVars, timerVars, nettyVars, threadVars, sent, ts, attr, net,
                 failed>>

\* A task that the timer runs already goes on.
TerminateCancels ==
  /\ kill = "cancel"
  /\ timer' = "cancelled" /\ kill' = "test"
  /\ UNCHANGED <<connVars, dataVars, rc, fresh, nettyVars, threadVars, sent, ts, attr, net,
                 failed>>

TerminateTests ==
  /\ kill = "test"
  /\ kill' = IF channel = NoChannel THEN "transients" ELSE "unlisten"
  /\ UNCHANGED <<connVars, dataVars, timerVars, nettyVars, threadVars, sent, ts, attr, net,
                 failed>>

\* The field is read again for each call on it: where it has become null, the
\* NullPointerException leaves removePeer with the peer still known.
TerminateUnlistens ==
  /\ kill = "unlisten"
  /\ kill' = IF channel = NoChannel THEN "thrown" ELSE "close"
  /\ listening' = listening \ {channel}
  /\ UNCHANGED <<connVars, dataVars, timerVars, chan, isTransient, closeAsked, threadVars,
                 sent, ts, attr, net, failed>>

AskToClose(cs) ==
  closeAsked' = closeAsked \cup {c \in cs : IsOpen(c)}

TerminateCloses ==
  /\ kill = "close"
  /\ kill' = IF channel = NoChannel THEN "thrown" ELSE "transients"
  /\ AskToClose({channel})
  /\ UNCHANGED <<connVars, dataVars, timerVars, chan, isTransient, listening, threadVars, sent,
                 ts, attr, net, failed>>

TerminateTransients ==
  /\ kill = "transients"
  /\ AskToClose(pending)
  /\ pending' = {} /\ kill' = "done"
  /\ UNCHANGED <<connVars, backlog, tasks, wire, timerVars, chan, isTransient, listening,
                 threadVars, sent, ts, attr, net, failed>>

Terminate ==
  \/ TerminateCancels \/ TerminateTests \/ TerminateUnlistens \/ TerminateCloses
  \/ TerminateTransients

-----------------------------------------------------------------------------
(* The peer becomes reachable or unreachable. *)

NetChanges ==
  /\ net' = ~net
  /\ UNCHANGED <<connVars, dataVars, timerVars, nettyVars, threadVars, sent, ts, kill, attr,
                 failed>>

Thread == Channel \cup Sender

\* The constructor has set the fields and calls reconnect().
Init ==
  /\ status = "DISCONNECTED" /\ channel = NoChannel /\ attempts = 0 /\ up = FALSE
  /\ backlog = <<>> /\ pending = {} /\ attr = FALSE
  /\ timer = "idle" /\ rc = "start" /\ fresh = NoChannel
  /\ chan = [c \in Channel |-> "free"] /\ isTransient = [c \in Channel |-> FALSE]
  /\ listening = {} /\ closeAsked = {} /\ tasks = [c \in Channel |-> <<>>]
  /\ pc = [t \in Thread |-> "idle"] /\ hand = [t \in Thread |-> <<>>]
  /\ pass = [t \in Thread |-> 0]
  /\ sent = [s \in Sender |-> 0] /\ ts = [t \in Transient |-> "ready"]
  /\ kill = "ready" /\ wire = <<>> /\ net \in BOOLEAN /\ failed = {}

Next ==
  \/ Reconnect
  \/ \E c \in Channel : EventLoop(c)
  \/ \E c \in Persistent : WriteBacklog(c)
  \/ \E s \in Sender : SendMessage(s)
  \/ \E t \in Transient : SendMessageTransientChannel(t)
  \/ TerminateBegins \/ Terminate
  \/ NetChanges

Spec == Init /\ [][Next]_vars

\* Threads that are runnable run, and a timer fires.  Nobody has to send, to
\* remove the peer, or to repair the network.
Fairness ==
  /\ WF_vars(Reconnect) /\ WF_vars(Terminate)
  /\ \A c \in Channel : WF_vars(EventLoop(c))
  /\ \A c \in Persistent : WF_vars(WriteBacklog(c))
  /\ \A s \in Sender : WF_vars(pc[s] # "idle" /\ SendMessage(s))
  /\ \A t \in Transient : WF_vars(ts[t] # "ready" /\ SendMessageTransientChannel(t))

FairSpec == Spec /\ Fairness

-----------------------------------------------------------------------------
(* Properties *)

\* Each variable has its type, and a thread's position its message.
TypeOK ==
  /\ status \in {"DISCONNECTED", "HANDSHAKING", "ACTIVE", "TERMINATED"}
  /\ channel \in Persistent \cup {NoChannel} /\ fresh \in Persistent \cup {NoChannel}
  /\ attempts \in 0..(AttemptsBeforeDown + 1) /\ up \in BOOLEAN /\ attr \in BOOLEAN
  /\ backlog \in Seq(Message) /\ wire \in Seq(Message)
  /\ pending \subseteq Transient
  /\ timer \in {"idle", "scheduled", "cancelled", "dead"}
  /\ rc \in {"idle", "start", "connect", "assign", "listen"}
  /\ chan \in [Channel -> {"free", "connecting", "open", "closed"}]
  /\ isTransient \in [Channel -> BOOLEAN]
  /\ listening \subseteq Channel /\ closeAsked \subseteq Channel
  /\ tasks \in [Channel -> Seq(Message)]
  /\ \A t \in Thread : hand[t] = <<>> \/ (pc[t] = "put" /\ hand[t] \in Seq(Message))
  /\ pass \in [Thread -> 0..2] /\ sent \in [Sender -> 0..MaxSent]
  /\ net \in BOOLEAN /\ failed \subseteq {112, 124, 148, 174, 197}

Elements(seq) == {seq[i] : i \in DOMAIN seq}

Quiet(t) == pc[t] = "idle"

\* sendMessage and the handshake miss no message between them: the second look
\* at the status after backlog.add (l.86), and the second writeBacklog after
\* ACTIVE (l.180), leave nothing in the backlog of an active connection once
\* both are through.
NoMessageStranded ==
  (/\ status = "ACTIVE" /\ channel # NoChannel /\ chan[channel] = "open"
   /\ \A t \in Thread : Quiet(t))
  => backlog = <<>>

\* No message is written twice, by the two threads that may be in
\* writeBacklog() together or across reconnections.
AtMostOnce == \A i, j \in 1..Len(wire) : wire[i] = wire[j] => i = j

\* Of the class's five assertions only that of channelActiveCallback (l.197)
\* can fail while nobody terminates the connection or sends on a transient
\* channel: a reconnect waits for the close of the last channel, the timer for
\* DISCONNECTED, the end of the handshake for HANDSHAKING.
OnlyEarlyActiveFails == failed \subseteq {197}

\* Whatever terminate() and transient sends do meanwhile, reconnect() never
\* finds a channel open (l.112).
ReconnectFindsNoneOpen == 112 \notin failed

\* Once removePeer has returned no reconnect begins: TERMINATED may have been
\* overwritten by the close of the channel (l.130), but the timer is cancelled.
NoReconnectOnceRemoved == [][kill = "done" /\ rc = "idle" => rc' = "idle"]_vars

\* The peer that stays away is reported down, and not reported up again.
DownIsReported == (<>[]~net) => <>[]~up

\* A peer that stays reachable ends up connected, its backlog written, unless
\* channels go on becoming active before reconnect() has stored them and are
\* closed for it (l.196).
Refused(c) == chan[c] = "open" /\ c \in closeAsked
Reconnects ==
  (<>[]net /\ <>[](\A c \in Persistent : ~Refused(c)))
  => <>[](status = "ACTIVE" /\ backlog = <<>>)

\* All of this implements the outbox: whatever reconnections, terminate() and
\* the threads in writeBacklog() do, a message is queued, handed to one channel
\* and written at most once, in the order of the backlog, and one that waits in
\* the backlog is never lost (l.82-98, 149-160).
Outbox ==
  INSTANCE PeerOutbox WITH
    accepted <- {m \in Message : m[2] <= sent[m[1]]},
    taken    <- {<<s, sent[s]>> : s \in {t \in Sender : pc[t] \in {"write", "read", "add"}}},
    queue    <- backlog,
    leaving  <- (UNION {Elements(hand[t]) : t \in Thread})
                  \cup (UNION {Elements(tasks[c]) : c \in Channel})
ImplementsOutbox == Outbox!OutboxSpec

\* Stated by the AssertionErrors of the source; the code violates them.
\* l.197: a channel becomes active when it is the current one, disconnected.
ActiveFindsItDisconnected == 197 \notin failed
\* l.174: a handshake that is no transient message's ends in HANDSHAKING.
HandshakeFindsItHandshaking == 174 \notin failed
\* l.124: what closes, and is not transient, is the current channel.
CloseIsOfCurrentChannel == 124 \notin failed
=============================================================================
