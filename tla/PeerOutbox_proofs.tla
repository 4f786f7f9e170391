-------------------------- MODULE PeerOutbox_proofs --------------------------
(***************************************************************************)
(* Theorems of PeerOutConnection about the messages it carries: its type   *)
(* invariant, that none is written twice, and that the connection, with    *)
(* all its threads and reconnections, implements PeerOutbox.               *)
(***************************************************************************)
EXTENDS PeerOutConnection, TLAPS

-----------------------------------------------------------------------------
(* Type correctness. *)

ChannelLabel ==
  {"idle", "connected", "hello", "check", "poll", "put", "activate", "notify",
   "closed", "gone", "disconnect", "swap", "restore", "schedule"}
SenderLabel == {"idle", "write", "read", "add", "recheck", "check", "poll", "put"}

ConnTypes ==
  /\ status \in {"DISCONNECTED", "HANDSHAKING", "ACTIVE", "TERMINATED"}
  /\ channel \in Persistent \cup {NoChannel} /\ fresh \in Persistent \cup {NoChannel}
  /\ attempts \in 0..(AttemptsBeforeDown + 1)
  /\ pending \subseteq Transient
  /\ timer \in {"idle", "scheduled", "cancelled", "dead"}
  /\ rc \in {"idle", "start", "connect", "assign", "listen"}
  /\ failed \subseteq {112, 124, 148, 174, 197}

FlagTypes == up \in BOOLEAN /\ attr \in BOOLEAN /\ net \in BOOLEAN

NettyTypes ==
  /\ chan \in [Channel -> {"free", "connecting", "open", "closed"}]
  /\ isTransient \in [Channel -> BOOLEAN]
  /\ listening \subseteq Channel /\ closeAsked \subseteq Channel
  /\ fresh \in Persistent \cup {NoChannel}
  /\ rc \in {"assign", "listen"} => fresh \in Persistent

\* A sender never calls writeBacklog from the handshake, and holds a message
\* it has begun to send; whoever has polled a message is about to write it.
ThreadTypes ==
  /\ pc \in [Thread -> ChannelLabel \cup SenderLabel]
  /\ \A s \in Sender : pc[s] \in SenderLabel /\ pass[s] = 0
  /\ \A c \in Channel : pc[c] \in ChannelLabel
  /\ pass \in [Thread -> 0..2] /\ sent \in [Sender -> 0..MaxSent]
  /\ \A s \in Sender : pc[s] \in {"write", "read", "add"} => sent[s] > 0

DataTypes ==
  /\ backlog \in Seq(Message) /\ wire \in Seq(Message)
  /\ tasks \in [Channel -> Seq(Message)]

HandTypes ==
  /\ hand \in [Thread -> Seq(Message)]
  /\ \A t \in Thread : IF pc[t] = "put" THEN Len(hand[t]) = 1 ELSE hand[t] = <<>>

LoopTypes == \A c \in Channel : chan[c] \in {"free", "connecting"} => pc[c] = "idle"

Types ==
  /\ ConnTypes /\ FlagTypes /\ NettyTypes /\ ThreadTypes /\ LoopTypes
  /\ DataTypes /\ HandTypes

LEMMA InitTypes == Init => Types
<1> SUFFICES ASSUME Init PROVE Types
  OBVIOUS
<1> USE DEF Init
<1>1. ConnTypes BY CountAssumption DEF ConnTypes
<1>2. NettyTypes BY DEF NettyTypes
<1>3. ThreadTypes
  BY CountAssumption DEF ThreadTypes, ChannelLabel, SenderLabel, Thread
<1>4. DataTypes BY DEF DataTypes
<1>5. HandTypes BY DEF HandTypes
<1>6. FlagTypes BY DEF FlagTypes
<1>7. LoopTypes BY DEF LoopTypes, Thread
<1> QED BY <1>1, <1>2, <1>3, <1>4, <1>5, <1>6, <1>7 DEF Types

\* reconnect() stores only channels it has opened.
LEMMA ConnStep == Types /\ [Next]_vars => ConnTypes'
<1> SUFFICES ASSUME Types, [Next]_vars PROVE ConnTypes'
  OBVIOUS
<1> USE CountAssumption, ChannelAssumption DEF Types, ConnTypes, NettyTypes, connVars, timerVars, nettyVars, callVars, threadVars, dataVars, appVars
<1>1. CASE Reconnect
  <2>1. CASE ReconnectStart
    <3>1. attempts' \in 0..(AttemptsBeforeDown + 1)
      <4>1. attempts \in 0..(AttemptsBeforeDown + 1) /\ AttemptsBeforeDown \in Nat
        BY CountAssumption
      <4>2. attempts' = IF attempts > AttemptsBeforeDown THEN attempts ELSE attempts + 1
        BY <2>1 DEF ReconnectStart
      <4> QED BY ONLY <4>1, <4>2
    <3>2. failed' \subseteq {112, 124, 148, 174, 197}
      <4>1. failed' = failed \cup {112} \/ failed' = failed
        BY <2>1 DEF ReconnectStart
      <4>2. failed \subseteq {112, 124, 148, 174, 197}
        OBVIOUS
      <4> QED BY ONLY <4>1, <4>2
    <3>3. timer' \in {"idle", "scheduled", "cancelled", "dead"} /\ rc' \in {"idle", "connect"}
      BY <2>1 DEF ReconnectStart
    <3> QED BY <2>1, <3>1, <3>2, <3>3 DEF ReconnectStart
  <2>2. CASE ReconnectConnect BY <2>2 DEF ReconnectConnect, Open
  <2>3. CASE ReconnectAssign BY <2>3 DEF ReconnectAssign
  <2>4. CASE ReconnectListen BY <2>4 DEF ReconnectListen, Listen
  <2>5. CASE TimerFires BY <2>5 DEF TimerFires
  <2> QED BY <1>1, <2>1, <2>2, <2>3, <2>4, <2>5 DEF Reconnect
<1>2. ASSUME NEW c \in Channel, EventLoop(c) PROVE ConnTypes'
  <2>1. CASE Connected(c)
    <3>1. failed' \in {failed, failed \cup {197}}
      BY <2>1 DEF Connected
    <3> QED BY <2>1, <3>1 DEF Connected
  <2>2. CASE SetHandshaking(c) BY <2>2 DEF SetHandshaking
  <2>3. CASE HelloWritten(c)
    <3>1. failed' \in {failed, failed \cup {174}}
      BY <2>3 DEF HelloWritten
    <3> QED BY <2>3, <3>1 DEF HelloWritten
  <2>4. CASE SetActive(c) BY <2>4 DEF SetActive
  <2>5. CASE NotifyUp(c) BY <2>5 DEF NotifyUp
  <2>6. CASE CloseChannel(c) BY <2>6 DEF CloseChannel
  <2>7. CASE CloseIgnored(c) BY <2>7 DEF CloseIgnored, Done
  <2>8. CASE CloseForgets(c) BY <2>8 DEF CloseForgets
  <2>9. CASE SetDisconnected(c) BY <2>9 DEF SetDisconnected
  <2>10. CASE SwapStatus(c) BY <2>10 DEF SwapStatus
  <2>11. CASE RestoreTerminated(c) BY <2>11 DEF RestoreTerminated, Done
  <2>12. CASE ScheduleReconnect(c) BY <2>12 DEF ScheduleReconnect, Done
  <2>13. CASE RunTask(c) BY <2>13 DEF RunTask
  <2> QED BY <1>2, <2>1, <2>2, <2>3, <2>4, <2>5, <2>6, <2>7, <2>8, <2>9, <2>10, <2>11, <2>12,
             <2>13 DEF EventLoop
<1>3. ASSUME NEW t \in Persistent \cup Sender, WriteBacklog(t) PROVE ConnTypes'
  <2>1. CASE CheckActive(t) BY <2>1 DEF CheckActive
  <2>2. CASE Poll(t) BY <2>2 DEF Poll
  <2>3. CASE PutPolled(t) BY <2>3 DEF PutPolled
  <2> QED BY <1>3, <2>1, <2>2, <2>3 DEF WriteBacklog
<1>4. ASSUME NEW s \in Sender, SendMessage(s) PROVE ConnTypes'
  <2>1. CASE SendBegins(s) BY <2>1 DEF SendBegins
  <2>2. CASE SendWrites(s) BY <2>2 DEF SendWrites
  <2>3. CASE SendReadsAgain(s) BY <2>3 DEF SendReadsAgain
  <2>4. CASE SendAdds(s) BY <2>4 DEF SendAdds
  <2>5. CASE SendRechecks(s) BY <2>5 DEF SendRechecks
  <2>6. CASE WriteBacklog(s) BY <1>3, <2>6
  <2> QED BY <1>4, <2>1, <2>2, <2>3, <2>4, <2>5, <2>6 DEF SendMessage
<1>5. ASSUME NEW t \in Transient, SendMessageTransientChannel(t) PROVE ConnTypes'
  <2>1. CASE TransientBegins(t) BY <2>1 DEF TransientBegins
  <2>2. CASE TransientConnects(t) BY <2>2 DEF TransientConnects
  <2>3. CASE TransientPuts(t) BY <2>3 DEF TransientPuts
  <2>4. CASE TransientListens(t) BY <2>4 DEF TransientListens
  <2> QED BY <1>5, <2>1, <2>2, <2>3, <2>4 DEF SendMessageTransientChannel
<1>6. CASE TerminateBegins BY <1>6 DEF TerminateBegins
<1>7. CASE Terminate
  <2>1. CASE TerminateCancels BY <2>1 DEF TerminateCancels
  <2>2. CASE TerminateTests BY <2>2 DEF TerminateTests
  <2>3. CASE TerminateUnlistens BY <2>3 DEF TerminateUnlistens
  <2>4. CASE TerminateCloses BY <2>4 DEF TerminateCloses
  <2>5. CASE TerminateTransients BY <2>5 DEF TerminateTransients
  <2> QED BY <1>7, <2>1, <2>2, <2>3, <2>4, <2>5 DEF Terminate
<1>8. CASE NetChanges BY <1>8 DEF NetChanges
<1>9. CASE UNCHANGED vars BY <1>9 DEF vars
<1> QED BY <1>1, <1>2, <1>3, <1>4, <1>5, <1>6, <1>7, <1>8, <1>9 DEF Next

\* The flags are assigned truth values.
LEMMA FlagStep == Types /\ [Next]_vars => FlagTypes'
<1> SUFFICES ASSUME Types, [Next]_vars PROVE FlagTypes'
  OBVIOUS
<1> USE DEF Types, FlagTypes, connVars, timerVars, nettyVars, callVars, threadVars, dataVars, appVars
<1>1. CASE Reconnect
  <2>1. CASE ReconnectStart BY <2>1 DEF ReconnectStart
  <2>2. CASE ReconnectConnect BY <2>2 DEF ReconnectConnect
  <2>3. CASE ReconnectAssign BY <2>3 DEF ReconnectAssign
  <2>4. CASE ReconnectListen BY <2>4 DEF ReconnectListen
  <2>5. CASE TimerFires BY <2>5 DEF TimerFires
  <2> QED BY <1>1, <2>1, <2>2, <2>3, <2>4, <2>5 DEF Reconnect
<1>2. ASSUME NEW c \in Channel, EventLoop(c) PROVE FlagTypes'
  <2>1. CASE Connected(c) BY <2>1 DEF Connected
  <2>2. CASE SetHandshaking(c) BY <2>2 DEF SetHandshaking
  <2>3. CASE HelloWritten(c) BY <2>3 DEF HelloWritten
  <2>4. CASE SetActive(c) BY <2>4 DEF SetActive
  <2>5. CASE NotifyUp(c) BY <2>5 DEF NotifyUp
  <2>6. CASE CloseChannel(c) BY <2>6 DEF CloseChannel
  <2>7. CASE CloseIgnored(c) BY <2>7 DEF CloseIgnored
  <2>8. CASE CloseForgets(c) BY <2>8 DEF CloseForgets
  <2>9. CASE SetDisconnected(c) BY <2>9 DEF SetDisconnected
  <2>10. CASE SwapStatus(c) BY <2>10 DEF SwapStatus
  <2>11. CASE RestoreTerminated(c) BY <2>11 DEF RestoreTerminated
  <2>12. CASE ScheduleReconnect(c) BY <2>12 DEF ScheduleReconnect
  <2>13. CASE RunTask(c) BY <2>13 DEF RunTask
  <2> QED BY <1>2, <2>1, <2>2, <2>3, <2>4, <2>5, <2>6, <2>7, <2>8, <2>9, <2>10, <2>11, <2>12,
             <2>13 DEF EventLoop
<1>3. ASSUME NEW t \in Persistent \cup Sender, WriteBacklog(t) PROVE FlagTypes'
  <2>1. CASE CheckActive(t) BY <2>1 DEF CheckActive
  <2>2. CASE Poll(t) BY <2>2 DEF Poll
  <2>3. CASE PutPolled(t) BY <2>3 DEF PutPolled
  <2> QED BY <1>3, <2>1, <2>2, <2>3 DEF WriteBacklog
<1>4. ASSUME NEW s \in Sender, SendMessage(s) PROVE FlagTypes'
  <2>1. CASE SendBegins(s) BY <2>1 DEF SendBegins
  <2>2. CASE SendWrites(s) BY <2>2 DEF SendWrites
  <2>3. CASE SendReadsAgain(s) BY <2>3 DEF SendReadsAgain
  <2>4. CASE SendAdds(s) BY <2>4 DEF SendAdds
  <2>5. CASE SendRechecks(s) BY <2>5 DEF SendRechecks
  <2>6. CASE WriteBacklog(s) BY <1>3, <2>6
  <2> QED BY <1>4, <2>1, <2>2, <2>3, <2>4, <2>5, <2>6 DEF SendMessage
<1>5. ASSUME NEW t \in Transient, SendMessageTransientChannel(t) PROVE FlagTypes'
  <2>1. CASE TransientBegins(t) BY <2>1 DEF TransientBegins
  <2>2. CASE TransientConnects(t) BY <2>2 DEF TransientConnects
  <2>3. CASE TransientPuts(t) BY <2>3 DEF TransientPuts
  <2>4. CASE TransientListens(t) BY <2>4 DEF TransientListens
  <2> QED BY <1>5, <2>1, <2>2, <2>3, <2>4 DEF SendMessageTransientChannel
<1>6. CASE TerminateBegins BY <1>6 DEF TerminateBegins
<1>7. CASE Terminate
  <2>1. CASE TerminateCancels BY <2>1 DEF TerminateCancels
  <2>2. CASE TerminateTests BY <2>2 DEF TerminateTests
  <2>3. CASE TerminateUnlistens BY <2>3 DEF TerminateUnlistens
  <2>4. CASE TerminateCloses BY <2>4 DEF TerminateCloses
  <2>5. CASE TerminateTransients BY <2>5 DEF TerminateTransients
  <2> QED BY <1>7, <2>1, <2>2, <2>3, <2>4, <2>5 DEF Terminate
<1>8. CASE NetChanges BY <1>8 DEF NetChanges
<1>9. CASE UNCHANGED vars BY <1>9 DEF vars
<1> QED BY <1>1, <1>2, <1>3, <1>4, <1>5, <1>6, <1>7, <1>8, <1>9 DEF Next

\* A channel's state is Netty's.
LEMMA NettyStep == Types /\ [Next]_vars => NettyTypes'
<1> SUFFICES ASSUME Types, [Next]_vars PROVE NettyTypes'
  OBVIOUS
<1> USE DEF Types, NettyTypes, connVars, timerVars, nettyVars, callVars, threadVars, dataVars, appVars
<1>1. CASE Reconnect
  <2>1. CASE ReconnectStart BY <2>1 DEF ReconnectStart
  <2>2. CASE ReconnectConnect
    <3>1. chan' \in [Channel -> {"free", "connecting", "open", "closed"}]
      BY <2>2 DEF ReconnectConnect, Open
    <3>2. isTransient' \in [Channel -> BOOLEAN]
      <4>1. attr \in BOOLEAN BY DEF FlagTypes
      <4> QED BY <2>2, <4>1, Zenon DEF ReconnectConnect, Open
    <3>3. listening' \subseteq Channel /\ closeAsked' \subseteq Channel
      BY <2>2 DEF ReconnectConnect, Open
    <3>4. fresh' \in Persistent \cup {NoChannel} /\ (rc' \in {"assign", "listen"} => fresh' \in Persistent)
      BY <2>2 DEF ReconnectConnect, Open
    <3> QED BY <3>1, <3>2, <3>3, <3>4
  <2>3. CASE ReconnectAssign BY <2>3 DEF ReconnectAssign
  <2>4. CASE ReconnectListen
    <3>1. chan' \in [Channel -> {"free", "connecting", "open", "closed"}]
      BY <2>4 DEF ReconnectListen, Listen, Channel
    <3>2. isTransient' \in [Channel -> BOOLEAN]
      BY <2>4 DEF ReconnectListen, Listen, Channel
    <3>3. listening' \subseteq Channel /\ closeAsked' \subseteq Channel
      BY <2>4 DEF ReconnectListen, Listen, Channel
    <3>4. fresh' \in Persistent \cup {NoChannel} /\ (rc' \in {"assign", "listen"} => fresh' \in Persistent)
      BY <2>4 DEF ReconnectListen, Listen, Channel
    <3> QED BY <3>1, <3>2, <3>3, <3>4
  <2>5. CASE TimerFires BY <2>5 DEF TimerFires
  <2> QED BY <1>1, <2>1, <2>2, <2>3, <2>4, <2>5 DEF Reconnect
<1>2. ASSUME NEW c \in Channel, EventLoop(c) PROVE NettyTypes'
  <2>1. CASE Connected(c) BY <2>1 DEF Connected
  <2>2. CASE SetHandshaking(c) BY <2>2 DEF SetHandshaking
  <2>3. CASE HelloWritten(c) BY <2>3 DEF HelloWritten
  <2>4. CASE SetActive(c) BY <2>4 DEF SetActive
  <2>5. CASE NotifyUp(c) BY <2>5 DEF NotifyUp
  <2>6. CASE CloseChannel(c) BY <2>6 DEF CloseChannel
  <2>7. CASE CloseIgnored(c) BY <2>7 DEF CloseIgnored, Done
  <2>8. CASE CloseForgets(c) BY <2>8 DEF CloseForgets
  <2>9. CASE SetDisconnected(c) BY <2>9 DEF SetDisconnected
  <2>10. CASE SwapStatus(c) BY <2>10 DEF SwapStatus
  <2>11. CASE RestoreTerminated(c) BY <2>11 DEF RestoreTerminated, Done
  <2>12. CASE ScheduleReconnect(c) BY <2>12 DEF ScheduleReconnect, Done
  <2>13. CASE RunTask(c) BY <2>13 DEF RunTask
  <2> QED BY <1>2, <2>1, <2>2, <2>3, <2>4, <2>5, <2>6, <2>7, <2>8, <2>9, <2>10, <2>11, <2>12,
             <2>13 DEF EventLoop
<1>3. ASSUME NEW t \in Persistent \cup Sender, WriteBacklog(t) PROVE NettyTypes'
  <2>1. CASE CheckActive(t) BY <2>1 DEF CheckActive
  <2>2. CASE Poll(t) BY <2>2 DEF Poll
  <2>3. CASE PutPolled(t) BY <2>3 DEF PutPolled
  <2> QED BY <1>3, <2>1, <2>2, <2>3 DEF WriteBacklog
<1>4. ASSUME NEW s \in Sender, SendMessage(s) PROVE NettyTypes'
  <2>1. CASE SendBegins(s) BY <2>1 DEF SendBegins
  <2>2. CASE SendWrites(s) BY <2>2 DEF SendWrites
  <2>3. CASE SendReadsAgain(s) BY <2>3 DEF SendReadsAgain
  <2>4. CASE SendAdds(s) BY <2>4 DEF SendAdds
  <2>5. CASE SendRechecks(s) BY <2>5 DEF SendRechecks
  <2>6. CASE WriteBacklog(s) BY <1>3, <2>6
  <2> QED BY <1>4, <2>1, <2>2, <2>3, <2>4, <2>5, <2>6 DEF SendMessage
<1>5. ASSUME NEW t \in Transient, SendMessageTransientChannel(t) PROVE NettyTypes'
  <2>1. CASE TransientBegins(t) BY <2>1 DEF TransientBegins
  <2>2. CASE TransientConnects(t)
    <3>1. chan' \in [Channel -> {"free", "connecting", "open", "closed"}]
      BY <2>2 DEF TransientConnects, Open
    <3>2. isTransient' \in [Channel -> BOOLEAN]
      <4>1. attr \in BOOLEAN BY DEF FlagTypes
      <4> QED BY <2>2, <4>1, Zenon DEF TransientConnects, Open
    <3>3. listening' \subseteq Channel /\ closeAsked' \subseteq Channel
      BY <2>2 DEF TransientConnects, Open
    <3>4. fresh' \in Persistent \cup {NoChannel} /\ (rc' \in {"assign", "listen"} => fresh' \in Persistent)
      BY <2>2 DEF TransientConnects, Open
    <3> QED BY <3>1, <3>2, <3>3, <3>4
  <2>3. CASE TransientPuts(t) BY <2>3 DEF TransientPuts
  <2>4. CASE TransientListens(t)
    <3>1. chan' \in [Channel -> {"free", "connecting", "open", "closed"}]
      BY <2>4 DEF TransientListens, Listen, Channel
    <3>2. isTransient' \in [Channel -> BOOLEAN]
      BY <2>4 DEF TransientListens, Listen, Channel
    <3>3. listening' \subseteq Channel /\ closeAsked' \subseteq Channel
      BY <2>4 DEF TransientListens, Listen, Channel
    <3>4. fresh' \in Persistent \cup {NoChannel} /\ (rc' \in {"assign", "listen"} => fresh' \in Persistent)
      BY <2>4 DEF TransientListens, Listen, Channel
    <3> QED BY <3>1, <3>2, <3>3, <3>4
  <2> QED BY <1>5, <2>1, <2>2, <2>3, <2>4 DEF SendMessageTransientChannel
<1>6. CASE TerminateBegins BY <1>6 DEF TerminateBegins
<1>7. CASE Terminate
  <2>1. CASE TerminateCancels BY <2>1 DEF TerminateCancels
  <2>2. CASE TerminateTests BY <2>2 DEF TerminateTests
  <2>3. CASE TerminateUnlistens BY <2>3 DEF TerminateUnlistens
  <2>4. CASE TerminateCloses
    <3>1. chan' \in [Channel -> {"free", "connecting", "open", "closed"}]
      BY <2>4 DEF TerminateCloses, AskToClose, IsOpen, Channel, ConnTypes
    <3>2. isTransient' \in [Channel -> BOOLEAN]
      BY <2>4 DEF TerminateCloses, AskToClose, IsOpen, Channel, ConnTypes
    <3>3. listening' \subseteq Channel /\ closeAsked' \subseteq Channel
      BY <2>4 DEF TerminateCloses, AskToClose, IsOpen, Channel, ConnTypes
    <3>4. fresh' \in Persistent \cup {NoChannel} /\ (rc' \in {"assign", "listen"} => fresh' \in Persistent)
      BY <2>4 DEF TerminateCloses, AskToClose, IsOpen, Channel, ConnTypes
    <3> QED BY <3>1, <3>2, <3>3, <3>4
  <2>5. CASE TerminateTransients
    <3>1. chan' \in [Channel -> {"free", "connecting", "open", "closed"}]
      BY <2>5 DEF TerminateTransients, AskToClose, Channel, ConnTypes
    <3>2. isTransient' \in [Channel -> BOOLEAN]
      BY <2>5 DEF TerminateTransients, AskToClose, Channel, ConnTypes
    <3>3. listening' \subseteq Channel /\ closeAsked' \subseteq Channel
      BY <2>5 DEF TerminateTransients, AskToClose, Channel, ConnTypes
    <3>4. fresh' \in Persistent \cup {NoChannel} /\ (rc' \in {"assign", "listen"} => fresh' \in Persistent)
      BY <2>5 DEF TerminateTransients, AskToClose, Channel, ConnTypes
    <3> QED BY <3>1, <3>2, <3>3, <3>4
  <2> QED BY <1>7, <2>1, <2>2, <2>3, <2>4, <2>5 DEF Terminate
<1>8. CASE NetChanges BY <1>8 DEF NetChanges
<1>9. CASE UNCHANGED vars BY <1>9 DEF vars
<1> QED BY <1>1, <1>2, <1>3, <1>4, <1>5, <1>6, <1>7, <1>8, <1>9 DEF Next

\* A thread only goes to positions of its own.
LEMMA ThreadStep == Types /\ [Next]_vars => ThreadTypes'
<1> SUFFICES ASSUME Types, [Next]_vars PROVE ThreadTypes'
  OBVIOUS
<1> USE ChannelAssumption, CountAssumption DEF Types, ThreadTypes, ChannelLabel, SenderLabel, Thread, Channel, Goto, connVars, timerVars, nettyVars, callVars, threadVars, dataVars, appVars
<1>1. CASE Reconnect
  <2>1. CASE ReconnectStart BY <2>1 DEF ReconnectStart
  <2>2. CASE ReconnectConnect BY <2>2 DEF ReconnectConnect
  <2>3. CASE ReconnectAssign BY <2>3 DEF ReconnectAssign
  <2>4. CASE ReconnectListen BY <2>4 DEF ReconnectListen, Listen
  <2>5. CASE TimerFires BY <2>5 DEF TimerFires
  <2> QED BY <1>1, <2>1, <2>2, <2>3, <2>4, <2>5 DEF Reconnect
<1>2. ASSUME NEW c \in Channel, EventLoop(c) PROVE ThreadTypes'
  <2>1. CASE Connected(c) BY <2>1 DEF Connected
  <2>2. CASE SetHandshaking(c) BY <2>2 DEF SetHandshaking
  <2>3. CASE HelloWritten(c) BY <2>3 DEF HelloWritten
  <2>4. CASE SetActive(c) BY <2>4 DEF SetActive
  <2>5. CASE NotifyUp(c) BY <2>5 DEF NotifyUp
  <2>6. CASE CloseChannel(c) BY <2>6 DEF CloseChannel
  <2>7. CASE CloseIgnored(c) BY <2>7 DEF CloseIgnored, Done
  <2>8. CASE CloseForgets(c) BY <2>8 DEF CloseForgets
  <2>9. CASE SetDisconnected(c) BY <2>9 DEF SetDisconnected
  <2>10. CASE SwapStatus(c) BY <2>10 DEF SwapStatus
  <2>11. CASE RestoreTerminated(c) BY <2>11 DEF RestoreTerminated, Done
  <2>12. CASE ScheduleReconnect(c) BY <2>12 DEF ScheduleReconnect, Done
  <2>13. CASE RunTask(c) BY <2>13 DEF RunTask
  <2> QED BY <1>2, <2>1, <2>2, <2>3, <2>4, <2>5, <2>6, <2>7, <2>8, <2>9, <2>10, <2>11, <2>12,
             <2>13 DEF EventLoop
<1>3. ASSUME NEW t \in Persistent \cup Sender, WriteBacklog(t) PROVE ThreadTypes'
  <2>1. CASE CheckActive(t) BY <2>1 DEF CheckActive, Return
  <2>2. CASE Poll(t)
    <3>1. CASE backlog = <<>>
      BY <2>2, <3>1 DEF Poll, Return
    <3>2. CASE backlog # <<>>
      BY <2>2, <3>2 DEF Poll
    <3> QED BY <3>1, <3>2
  <2>3. CASE PutPolled(t) BY <2>3 DEF PutPolled
  <2> QED BY <1>3, <2>1, <2>2, <2>3 DEF WriteBacklog
<1>4. ASSUME NEW s \in Sender, SendMessage(s) PROVE ThreadTypes'
  <2>1. CASE SendBegins(s) BY <2>1 DEF SendBegins
  <2>2. CASE SendWrites(s) BY <2>2 DEF SendWrites
  <2>3. CASE SendReadsAgain(s) BY <2>3 DEF SendReadsAgain
  <2>4. CASE SendAdds(s) BY <2>4 DEF SendAdds
  <2>5. CASE SendRechecks(s) BY <2>5 DEF SendRechecks
  <2>6. CASE WriteBacklog(s) BY <1>3, <2>6
  <2> QED BY <1>4, <2>1, <2>2, <2>3, <2>4, <2>5, <2>6 DEF SendMessage
<1>5. ASSUME NEW t \in Transient, SendMessageTransientChannel(t) PROVE ThreadTypes'
  <2>1. CASE TransientBegins(t) BY <2>1 DEF TransientBegins
  <2>2. CASE TransientConnects(t) BY <2>2 DEF TransientConnects
  <2>3. CASE TransientPuts(t) BY <2>3 DEF TransientPuts
  <2>4. CASE TransientListens(t) BY <2>4 DEF TransientListens, Listen
  <2> QED BY <1>5, <2>1, <2>2, <2>3, <2>4 DEF SendMessageTransientChannel
<1>6. CASE TerminateBegins BY <1>6 DEF TerminateBegins
<1>7. CASE Terminate
  <2>1. CASE TerminateCancels BY <2>1 DEF TerminateCancels
  <2>2. CASE TerminateTests BY <2>2 DEF TerminateTests
  <2>3. CASE TerminateUnlistens BY <2>3 DEF TerminateUnlistens
  <2>4. CASE TerminateCloses BY <2>4 DEF TerminateCloses
  <2>5. CASE TerminateTransients BY <2>5 DEF TerminateTransients
  <2> QED BY <1>7, <2>1, <2>2, <2>3, <2>4, <2>5 DEF Terminate
<1>8. CASE NetChanges BY <1>8 DEF NetChanges
<1>9. CASE UNCHANGED vars BY <1>9 DEF vars
<1> QED BY <1>1, <1>2, <1>3, <1>4, <1>5, <1>6, <1>7, <1>8, <1>9 DEF Next
\* What a sender holds is a message.
LEMMA HeldIsMessage ==
  ASSUME Types, NEW s \in Sender, pc[s] \in {"write", "read", "add"}
  PROVE  <<s, sent[s]>> \in Message
<1>1. sent[s] \in 0..MaxSent /\ sent[s] > 0
  BY DEF Types, ThreadTypes
<1>2. MaxSent \in Nat
  BY CountAssumption
<1>3. sent[s] \in 1..MaxSent
  BY ONLY <1>1, <1>2
<1> QED BY <1>3 DEF Message

LEMMA WriteTypes ==
  ASSUME Types, NEW t, NEW m \in Message, Write(t, m), UNCHANGED backlog
  PROVE  DataTypes'
<1>1. Append(wire, m) \in Seq(Message)
  BY DEF Types, DataTypes
<1>2. \A c \in Channel : Append(tasks[c], m) \in Seq(Message)
  BY DEF Types, DataTypes
<1>3. wire' \in Seq(Message)
  BY <1>1 DEF Types, DataTypes, Write, Append2Wire
<1>4. CASE tasks' = tasks
  BY <1>3, <1>4 DEF Types, DataTypes
<1>5. CASE tasks' = [tasks EXCEPT ![channel] = Append(@, m)] /\ IsOpen(channel)
  <2>1. channel \in Channel
    BY <1>5 DEF Types, ConnTypes, IsOpen, Channel
  <2> QED BY <1>2, <1>3, <1>5, <2>1 DEF Types, DataTypes
<1>6. tasks' = tasks \/ (tasks' = [tasks EXCEPT ![channel] = Append(@, m)] /\ IsOpen(channel))
  BY DEF Write
<1> QED BY <1>4, <1>5, <1>6

\* Messages go where messages belong.
LEMMA DataStep == Types /\ [Next]_vars => DataTypes'
<1> SUFFICES ASSUME Types, [Next]_vars PROVE DataTypes'
  OBVIOUS
<1> USE DEF Types, DataTypes, connVars, timerVars, nettyVars, callVars, threadVars, dataVars, appVars
<1>1. CASE Reconnect
  <2>1. CASE ReconnectStart BY <2>1 DEF ReconnectStart
  <2>2. CASE ReconnectConnect BY <2>2 DEF ReconnectConnect
  <2>3. CASE ReconnectAssign BY <2>3 DEF ReconnectAssign
  <2>4. CASE ReconnectListen BY <2>4 DEF ReconnectListen
  <2>5. CASE TimerFires BY <2>5 DEF TimerFires
  <2> QED BY <1>1, <2>1, <2>2, <2>3, <2>4, <2>5 DEF Reconnect
<1>2. ASSUME NEW c \in Channel, EventLoop(c) PROVE DataTypes'
  <2>1. CASE Connected(c) BY <2>1 DEF Connected
  <2>2. CASE SetHandshaking(c) BY <2>2 DEF SetHandshaking
  <2>3. CASE HelloWritten(c) BY <2>3 DEF HelloWritten
  <2>4. CASE SetActive(c) BY <2>4 DEF SetActive
  <2>5. CASE NotifyUp(c) BY <2>5 DEF NotifyUp
  <2>6. CASE CloseChannel(c) BY <2>6 DEF CloseChannel
  <2>7. CASE CloseIgnored(c) BY <2>7 DEF CloseIgnored
  <2>8. CASE CloseForgets(c) BY <2>8 DEF CloseForgets
  <2>9. CASE SetDisconnected(c) BY <2>9 DEF SetDisconnected
  <2>10. CASE SwapStatus(c) BY <2>10 DEF SwapStatus
  <2>11. CASE RestoreTerminated(c) BY <2>11 DEF RestoreTerminated
  <2>12. CASE ScheduleReconnect(c) BY <2>12 DEF ScheduleReconnect
  <2>13. CASE RunTask(c)
    <3>1. Head(tasks[c]) \in Message /\ Tail(tasks[c]) \in Seq(Message)
      BY <2>13 DEF RunTask
    <3> QED BY <2>13, <3>1 DEF RunTask, Append2Wire
  <2> QED BY <1>2, <2>1, <2>2, <2>3, <2>4, <2>5, <2>6, <2>7, <2>8, <2>9, <2>10, <2>11, <2>12,
             <2>13 DEF EventLoop
<1>3. ASSUME NEW t \in Persistent \cup Sender, WriteBacklog(t) PROVE DataTypes'
  <2>1. CASE CheckActive(t) BY <2>1 DEF CheckActive
  <2>2. CASE Poll(t)
    <3>1. backlog' = backlog \/ (backlog # <<>> /\ backlog' = Tail(backlog))
      BY <2>2 DEF Poll
    <3>2. backlog' \in Seq(Message)
      BY <3>1
    <3> QED BY <2>2, <3>2 DEF Poll
  <2>3. CASE PutPolled(t)
    <3>1. t \in Thread /\ Len(hand[t]) = 1
      BY <2>3 DEF PutPolled, Thread, Channel, HandTypes
    <3>2. Head(hand[t]) \in Message
      <4>1. hand[t] \in Seq(Message)
        BY <3>1 DEF HandTypes
      <4> QED BY ONLY <3>1, <4>1
    <3>3. Write(t, Head(hand[t])) /\ UNCHANGED backlog
      BY <2>3 DEF PutPolled
    <3> QED BY <3>2, <3>3, WriteTypes
  <2> QED BY <1>3, <2>1, <2>2, <2>3 DEF WriteBacklog
<1>4. ASSUME NEW s \in Sender, SendMessage(s) PROVE DataTypes'
  <2>1. CASE SendBegins(s) BY <2>1 DEF SendBegins
  <2>2. CASE SendWrites(s)
    <3>1. <<s, sent[s]>> \in Message
      BY <2>2, HeldIsMessage DEF SendWrites
    <3>2. Write(s, <<s, sent[s]>>) /\ UNCHANGED backlog
      BY <2>2 DEF SendWrites
    <3> QED BY <3>1, <3>2, WriteTypes
  <2>3. CASE SendReadsAgain(s) BY <2>3 DEF SendReadsAgain
  <2>4. CASE SendAdds(s)
    <3>1. <<s, sent[s]>> \in Message
      BY <2>4, HeldIsMessage DEF SendAdds
    <3> QED BY <2>4, <3>1 DEF SendAdds
  <2>5. CASE SendRechecks(s) BY <2>5 DEF SendRechecks
  <2>6. CASE WriteBacklog(s) BY <1>3, <2>6
  <2> QED BY <1>4, <2>1, <2>2, <2>3, <2>4, <2>5, <2>6 DEF SendMessage
<1>5. ASSUME NEW t \in Transient, SendMessageTransientChannel(t) PROVE DataTypes'
  <2>1. CASE TransientBegins(t) BY <2>1 DEF TransientBegins
  <2>2. CASE TransientConnects(t) BY <2>2 DEF TransientConnects
  <2>3. CASE TransientPuts(t) BY <2>3 DEF TransientPuts
  <2>4. CASE TransientListens(t) BY <2>4 DEF TransientListens
  <2> QED BY <1>5, <2>1, <2>2, <2>3, <2>4 DEF SendMessageTransientChannel
<1>6. CASE TerminateBegins BY <1>6 DEF TerminateBegins
<1>7. CASE Terminate
  <2>1. CASE TerminateCancels BY <2>1 DEF TerminateCancels
  <2>2. CASE TerminateTests BY <2>2 DEF TerminateTests
  <2>3. CASE TerminateUnlistens BY <2>3 DEF TerminateUnlistens
  <2>4. CASE TerminateCloses BY <2>4 DEF TerminateCloses
  <2>5. CASE TerminateTransients BY <2>5 DEF TerminateTransients
  <2> QED BY <1>7, <2>1, <2>2, <2>3, <2>4, <2>5 DEF Terminate
<1>8. CASE NetChanges BY <1>8 DEF NetChanges
<1>9. CASE UNCHANGED vars BY <1>9 DEF vars
<1> QED BY <1>1, <1>2, <1>3, <1>4, <1>5, <1>6, <1>7, <1>8, <1>9 DEF Next

\* Nothing runs on the event loop of a channel that is not open yet.
LEMMA LoopStep == Types /\ [Next]_vars => LoopTypes'
<1> SUFFICES ASSUME Types, [Next]_vars PROVE LoopTypes'
  OBVIOUS
<1> USE ChannelAssumption DEF Types, LoopTypes, NettyTypes, ThreadTypes, Thread, Channel, Goto, connVars, timerVars, nettyVars, callVars, threadVars, dataVars, appVars
<1>1. CASE Reconnect
  <2>1. CASE ReconnectStart BY <2>1 DEF ReconnectStart
  <2>2. CASE ReconnectConnect BY <2>2 DEF ReconnectConnect, Open
  <2>3. CASE ReconnectAssign BY <2>3 DEF ReconnectAssign
  <2>4. CASE ReconnectListen BY <2>4 DEF ReconnectListen, Listen
  <2>5. CASE TimerFires BY <2>5 DEF TimerFires
  <2> QED BY <1>1, <2>1, <2>2, <2>3, <2>4, <2>5 DEF Reconnect
<1>2. ASSUME NEW c \in Channel, EventLoop(c) PROVE LoopTypes'
  <2>1. CASE Connected(c) BY <2>1 DEF Connected
  <2>2. CASE SetHandshaking(c) BY <2>2 DEF SetHandshaking
  <2>3. CASE HelloWritten(c) BY <2>3 DEF HelloWritten
  <2>4. CASE SetActive(c) BY <2>4 DEF SetActive
  <2>5. CASE NotifyUp(c) BY <2>5 DEF NotifyUp
  <2>6. CASE CloseChannel(c) BY <2>6 DEF CloseChannel, IsOpen
  <2>7. CASE CloseIgnored(c) BY <2>7 DEF CloseIgnored, Done
  <2>8. CASE CloseForgets(c) BY <2>8 DEF CloseForgets
  <2>9. CASE SetDisconnected(c) BY <2>9 DEF SetDisconnected
  <2>10. CASE SwapStatus(c) BY <2>10 DEF SwapStatus
  <2>11. CASE RestoreTerminated(c) BY <2>11 DEF RestoreTerminated, Done
  <2>12. CASE ScheduleReconnect(c) BY <2>12 DEF ScheduleReconnect, Done
  <2>13. CASE RunTask(c) BY <2>13 DEF RunTask
  <2> QED BY <1>2, <2>1, <2>2, <2>3, <2>4, <2>5, <2>6, <2>7, <2>8, <2>9, <2>10, <2>11, <2>12,
             <2>13 DEF EventLoop
<1>3. ASSUME NEW t \in Persistent \cup Sender, WriteBacklog(t) PROVE LoopTypes'
  <2>1. CASE CheckActive(t) BY <2>1 DEF CheckActive, Return
  <2>2. CASE Poll(t) BY <2>2 DEF Poll, Return
  <2>3. CASE PutPolled(t) BY <2>3 DEF PutPolled
  <2> QED BY <1>3, <2>1, <2>2, <2>3 DEF WriteBacklog
<1>4. ASSUME NEW s \in Sender, SendMessage(s) PROVE LoopTypes'
  <2>1. CASE SendBegins(s) BY <2>1 DEF SendBegins
  <2>2. CASE SendWrites(s) BY <2>2 DEF SendWrites
  <2>3. CASE SendReadsAgain(s) BY <2>3 DEF SendReadsAgain
  <2>4. CASE SendAdds(s) BY <2>4 DEF SendAdds
  <2>5. CASE SendRechecks(s) BY <2>5 DEF SendRechecks
  <2>6. CASE WriteBacklog(s) BY <1>3, <2>6
  <2> QED BY <1>4, <2>1, <2>2, <2>3, <2>4, <2>5, <2>6 DEF SendMessage
<1>5. ASSUME NEW t \in Transient, SendMessageTransientChannel(t) PROVE LoopTypes'
  <2>1. CASE TransientBegins(t) BY <2>1 DEF TransientBegins
  <2>2. CASE TransientConnects(t) BY <2>2 DEF TransientConnects, Open
  <2>3. CASE TransientPuts(t) BY <2>3 DEF TransientPuts
  <2>4. CASE TransientListens(t) BY <2>4 DEF TransientListens, Listen
  <2> QED BY <1>5, <2>1, <2>2, <2>3, <2>4 DEF SendMessageTransientChannel
<1>6. CASE TerminateBegins BY <1>6 DEF TerminateBegins
<1>7. CASE Terminate
  <2>1. CASE TerminateCancels BY <2>1 DEF TerminateCancels
  <2>2. CASE TerminateTests BY <2>2 DEF TerminateTests
  <2>3. CASE TerminateUnlistens BY <2>3 DEF TerminateUnlistens
  <2>4. CASE TerminateCloses BY <2>4 DEF TerminateCloses
  <2>5. CASE TerminateTransients BY <2>5 DEF TerminateTransients
  <2> QED BY <1>7, <2>1, <2>2, <2>3, <2>4, <2>5 DEF Terminate
<1>8. CASE NetChanges BY <1>8 DEF NetChanges
<1>9. CASE UNCHANGED vars BY <1>9 DEF vars
<1> QED BY <1>1, <1>2, <1>3, <1>4, <1>5, <1>6, <1>7, <1>8, <1>9 DEF Next

\* A message polled is put before anything else happens on that thread.
LEMMA HandStep == Types /\ [Next]_vars => HandTypes'
<1> SUFFICES ASSUME Types, [Next]_vars PROVE HandTypes'
  OBVIOUS
<1> USE ChannelAssumption DEF Types, HandTypes, ThreadTypes, Thread, Channel, Goto, ChannelLabel, SenderLabel, connVars, timerVars, nettyVars, callVars, threadVars, dataVars, appVars
<1>1. CASE Reconnect
  <2>1. CASE ReconnectStart BY <2>1 DEF ReconnectStart
  <2>2. CASE ReconnectConnect BY <2>2 DEF ReconnectConnect
  <2>3. CASE ReconnectAssign BY <2>3 DEF ReconnectAssign
  <2>4. CASE ReconnectListen BY <2>4 DEF ReconnectListen, Listen
  <2>5. CASE TimerFires BY <2>5 DEF TimerFires
  <2> QED BY <1>1, <2>1, <2>2, <2>3, <2>4, <2>5 DEF Reconnect
<1>2. ASSUME NEW c \in Channel, EventLoop(c) PROVE HandTypes'
  <2>1. CASE Connected(c) BY <2>1 DEF Connected, LoopTypes
  <2>2. CASE SetHandshaking(c) BY <2>2 DEF SetHandshaking
  <2>3. CASE HelloWritten(c) BY <2>3 DEF HelloWritten
  <2>4. CASE SetActive(c) BY <2>4 DEF SetActive
  <2>5. CASE NotifyUp(c) BY <2>5 DEF NotifyUp
  <2>6. CASE CloseChannel(c) BY <2>6 DEF CloseChannel, Free
  <2>7. CASE CloseIgnored(c) BY <2>7 DEF CloseIgnored, Done
  <2>8. CASE CloseForgets(c) BY <2>8 DEF CloseForgets
  <2>9. CASE SetDisconnected(c) BY <2>9 DEF SetDisconnected
  <2>10. CASE SwapStatus(c) BY <2>10 DEF SwapStatus
  <2>11. CASE RestoreTerminated(c) BY <2>11 DEF RestoreTerminated, Done
  <2>12. CASE ScheduleReconnect(c) BY <2>12 DEF ScheduleReconnect, Done
  <2>13. CASE RunTask(c) BY <2>13 DEF RunTask
  <2> QED BY <1>2, <2>1, <2>2, <2>3, <2>4, <2>5, <2>6, <2>7, <2>8, <2>9, <2>10, <2>11, <2>12,
             <2>13 DEF EventLoop
<1>3. ASSUME NEW t \in Persistent \cup Sender, WriteBacklog(t) PROVE HandTypes'
  <2>1. CASE CheckActive(t) BY <2>1 DEF CheckActive, Return
  <2>2. CASE Poll(t)
    <3>1. CASE backlog = <<>>
      BY <2>2, <3>1 DEF Poll, Return
    <3>2. CASE backlog # <<>>
      <4>1. Head(backlog) \in Message
        BY <3>2 DEF DataTypes
      <4>2. <<Head(backlog)>> \in Seq(Message) /\ Len(<<Head(backlog)>>) = 1
        BY <4>1
      <4> DEFINE q == <<Head(backlog)>>
      <4>3. hand' = [hand EXCEPT ![t] = q] /\ pc' = [pc EXCEPT ![t] = "put"]
        BY <2>2, <3>2 DEF Poll
      <4> HIDE DEF q
      <4>4. q \in Seq(Message) /\ Len(q) = 1
        BY <4>2 DEF q
      <4> QED BY <4>3, <4>4
    <3> QED BY <3>1, <3>2
  <2>3. CASE PutPolled(t) BY <2>3 DEF PutPolled
  <2> QED BY <1>3, <2>1, <2>2, <2>3 DEF WriteBacklog
<1>4. ASSUME NEW s \in Sender, SendMessage(s) PROVE HandTypes'
  <2>1. CASE SendBegins(s) BY <2>1 DEF SendBegins
  <2>2. CASE SendWrites(s) BY <2>2 DEF SendWrites
  <2>3. CASE SendReadsAgain(s) BY <2>3 DEF SendReadsAgain
  <2>4. CASE SendAdds(s) BY <2>4 DEF SendAdds
  <2>5. CASE SendRechecks(s) BY <2>5 DEF SendRechecks
  <2>6. CASE WriteBacklog(s) BY <1>3, <2>6
  <2> QED BY <1>4, <2>1, <2>2, <2>3, <2>4, <2>5, <2>6 DEF SendMessage
<1>5. ASSUME NEW t \in Transient, SendMessageTransientChannel(t) PROVE HandTypes'
  <2>1. CASE TransientBegins(t) BY <2>1 DEF TransientBegins
  <2>2. CASE TransientConnects(t) BY <2>2 DEF TransientConnects
  <2>3. CASE TransientPuts(t) BY <2>3 DEF TransientPuts
  <2>4. CASE TransientListens(t) BY <2>4 DEF TransientListens, Listen
  <2> QED BY <1>5, <2>1, <2>2, <2>3, <2>4 DEF SendMessageTransientChannel
<1>6. CASE TerminateBegins BY <1>6 DEF TerminateBegins
<1>7. CASE Terminate
  <2>1. CASE TerminateCancels BY <2>1 DEF TerminateCancels
  <2>2. CASE TerminateTests BY <2>2 DEF TerminateTests
  <2>3. CASE TerminateUnlistens BY <2>3 DEF TerminateUnlistens
  <2>4. CASE TerminateCloses BY <2>4 DEF TerminateCloses
  <2>5. CASE TerminateTransients BY <2>5 DEF TerminateTransients
  <2> QED BY <1>7, <2>1, <2>2, <2>3, <2>4, <2>5 DEF Terminate
<1>8. CASE NetChanges BY <1>8 DEF NetChanges
<1>9. CASE UNCHANGED vars BY <1>9 DEF vars
<1> QED BY <1>1, <1>2, <1>3, <1>4, <1>5, <1>6, <1>7, <1>8, <1>9 DEF Next

LEMMA TypesHold == Spec => []Types
<1>1. Types /\ [Next]_vars => Types'
  BY ConnStep, FlagStep, NettyStep, ThreadStep, LoopStep, DataStep, HandStep DEF Types
<1> QED BY InitTypes, <1>1, PTL DEF Spec

\* Every variable keeps its type through all interleavings.
THEOREM TypeOKHolds == Spec => []TypeOK
<1>1. Types => TypeOK
  <2> SUFFICES ASSUME Types PROVE TypeOK
    OBVIOUS
  <2>1. \A t \in Thread : hand[t] = <<>> \/ (pc[t] = "put" /\ hand[t] \in Seq(Message))
    BY DEF Types, HandTypes
  <2>2. up \in BOOLEAN /\ attr \in BOOLEAN /\ net \in BOOLEAN
    BY DEF Types, FlagTypes
  <2>3. isTransient \in [Channel -> BOOLEAN]
    BY DEF Types, NettyTypes
  <2> QED BY <2>1, <2>2, <2>3 DEF TypeOK, Types, ConnTypes, NettyTypes, ThreadTypes, DataTypes
<1> QED BY <1>1, TypesHold, PTL

-----------------------------------------------------------------------------
(* Where the messages are: each in one place at most. *)

Injective(seq) == \A i, j \in DOMAIN seq : seq[i] = seq[j] => i = j

Holding == {s \in Sender : pc[s] \in {"write", "read", "add"}}

OnWire  == <<"wire", NoChannel>>
InQueue == <<"queue", NoChannel>>
Place ==
  {OnWire, InQueue} \cup ({"tasks"} \X Channel) \cup ({"hand"} \X Thread)
    \cup ({"taken"} \X Sender)

Contents(w, b, t, h, n, k) ==
  [p \in Place |-> IF p[1] = "wire" THEN Elements(w)
                   ELSE IF p[1] = "queue" THEN Elements(b)
                   ELSE IF p[1] = "tasks" THEN Elements(t[p[2]])
                   ELSE IF p[1] = "hand" THEN Elements(h[p[2]])
                   ELSE IF p[2] \in k THEN {<<p[2], n[p[2]]>>} ELSE {}]

At == Contents(wire, backlog, tasks, hand, sent, Holding)

Accepted == {m \in Message : m[2] <= sent[m[1]]}

NoneTwice == Injective(wire) /\ Injective(backlog) /\ \A c \in Channel : Injective(tasks[c])
NoneTwoPlaces == \A p, q \in Place : p # q => At[p] \cap At[q] = {}
OnlyAccepted == \A p \in Place : At[p] \subseteq Accepted

Messages == NoneTwice /\ NoneTwoPlaces /\ OnlyAccepted

\* Appending and taking the head, as sets of what is in a sequence.
LEMMA AppendElements ==
  ASSUME NEW M, NEW seq \in Seq(M), NEW m \in M
  PROVE  /\ Elements(Append(seq, m)) = Elements(seq) \cup {m}
         /\ Injective(seq) /\ m \notin Elements(seq) => Injective(Append(seq, m))
<1> DEFINE app == Append(seq, m)
<1>1. /\ Len(seq) \in Nat /\ DOMAIN seq = 1..Len(seq) /\ DOMAIN app = 1..(Len(seq) + 1)
      /\ \A i \in 1..Len(seq) : app[i] = seq[i]
      /\ app[Len(seq) + 1] = m
  OBVIOUS
<1> HIDE DEF app
<1>2. Elements(app) \subseteq Elements(seq) \cup {m}
  <2> SUFFICES ASSUME NEW i \in DOMAIN app PROVE app[i] \in Elements(seq) \cup {m}
    BY DEF Elements
  <2>1. i \in 1..Len(seq) \/ i = Len(seq) + 1
    BY <1>1
  <2> QED BY <1>1, <2>1 DEF Elements
<1>3. Elements(seq) \cup {m} \subseteq Elements(app)
  <2>1. ASSUME NEW i \in DOMAIN seq PROVE seq[i] \in Elements(app)
    <3>1. i \in DOMAIN app /\ app[i] = seq[i]
      BY <1>1
    <3> QED BY <3>1 DEF Elements
  <2>2. m \in Elements(app)
    <3>1. Len(seq) + 1 \in DOMAIN app
      BY <1>1
    <3> QED BY <1>1, <3>1 DEF Elements
  <2> QED BY <2>1, <2>2 DEF Elements
<1>4. ASSUME Injective(seq), m \notin Elements(seq) PROVE Injective(app)
  <2> SUFFICES ASSUME NEW i \in DOMAIN app, NEW j \in DOMAIN app, app[i] = app[j]
               PROVE  i = j
    BY DEF Injective
  <2>1. \A k \in 1..Len(seq) : app[k] # m
    BY <1>1, <1>4 DEF Elements
  <2>2. /\ i \in 1..Len(seq) \/ i = Len(seq) + 1
        /\ j \in 1..Len(seq) \/ j = Len(seq) + 1
    BY <1>1
  <2>3. CASE i \in 1..Len(seq) /\ j \in 1..Len(seq)
    <3>1. seq[i] = seq[j] /\ i \in DOMAIN seq /\ j \in DOMAIN seq
      BY <1>1, <2>3
    <3> QED BY <1>4, <3>1 DEF Injective
  <2> QED BY <1>1, <2>1, <2>2, <2>3
<1> QED BY <1>2, <1>3, <1>4 DEF app

LEMMA TailElements ==
  ASSUME NEW M, NEW seq \in Seq(M), seq # <<>>
  PROVE  /\ Head(seq) \in M /\ Tail(seq) \in Seq(M)
         /\ Elements(seq) = Elements(Tail(seq)) \cup {Head(seq)}
         /\ Injective(seq) => Injective(Tail(seq)) /\ Head(seq) \notin Elements(Tail(seq))
<1> DEFINE tl == Tail(seq)
<1>1. /\ Len(seq) \in Nat /\ Len(seq) > 0 /\ DOMAIN seq = 1..Len(seq)
      /\ DOMAIN tl = 1..(Len(seq) - 1)
      /\ \A i \in 1..(Len(seq) - 1) : tl[i] = seq[i + 1]
      /\ Head(seq) = seq[1] /\ Head(seq) \in M /\ tl \in Seq(M)
  OBVIOUS
<1> HIDE DEF tl
<1>2. Elements(tl) \subseteq Elements(seq)
  <2> SUFFICES ASSUME NEW i \in DOMAIN tl PROVE tl[i] \in Elements(seq)
    BY DEF Elements
  <2>1. i + 1 \in DOMAIN seq /\ tl[i] = seq[i + 1]
    BY <1>1
  <2> QED BY <2>1 DEF Elements
<1>3. Head(seq) \in Elements(seq)
  <2>1. 1 \in DOMAIN seq
    BY <1>1
  <2> QED BY <1>1, <2>1 DEF Elements
<1>4. Elements(seq) \subseteq Elements(tl) \cup {Head(seq)}
  <2> SUFFICES ASSUME NEW i \in DOMAIN seq PROVE seq[i] \in Elements(tl) \cup {Head(seq)}
    BY DEF Elements
  <2>1. CASE i = 1
    BY <1>1, <2>1
  <2>2. CASE i # 1
    <3>1. i - 1 \in DOMAIN tl /\ tl[i - 1] = seq[i]
      BY <1>1, <2>2
    <3> QED BY <3>1 DEF Elements
  <2> QED BY <2>1, <2>2
<1>5. ASSUME Injective(seq) PROVE Injective(tl) /\ Head(seq) \notin Elements(tl)
  <2>1. ASSUME NEW i \in DOMAIN tl PROVE tl[i] # Head(seq)
    <3>1. /\ i + 1 \in DOMAIN seq /\ 1 \in DOMAIN seq /\ i + 1 # 1
          /\ tl[i] = seq[i + 1] /\ Head(seq) = seq[1]
      BY <1>1
    <3> QED BY <1>5, <3>1 DEF Injective
  <2>2. ASSUME NEW i \in DOMAIN tl, NEW j \in DOMAIN tl, tl[i] = tl[j] PROVE i = j
    <3>1. /\ i + 1 \in DOMAIN seq /\ j + 1 \in DOMAIN seq /\ i \in Int /\ j \in Int
          /\ tl[i] = seq[i + 1] /\ tl[j] = seq[j + 1]
      BY <1>1
    <3>2. i + 1 = j + 1
      BY <1>5, <2>2, <3>1 DEF Injective
    <3> QED BY <3>1, <3>2
  <2> QED BY <2>1, <2>2 DEF Elements, Injective
<1> QED BY <1>1, <1>2, <1>3, <1>4, <1>5 DEF tl

\* If every two places held different messages before, and m has only moved
\* to b, out of every other place, they still do.
LEMMA MovedApart ==
  ASSUME NEW f, NEW g, NEW b \in Place, NEW m,
         \A p, q \in Place : p # q => f[p] \cap f[q] = {},
         \A p \in Place : p # b => g[p] \subseteq f[p] /\ m \notin g[p],
         g[b] \subseteq f[b] \cup {m}
  PROVE  \A p, q \in Place : p # q => g[p] \cap g[q] = {}
OBVIOUS

LEMMA LostApart ==
  ASSUME NEW f, NEW g,
         \A p, q \in Place : p # q => f[p] \cap f[q] = {},
         \A p \in Place : g[p] \subseteq f[p]
  PROVE  \A p, q \in Place : p # q => g[p] \cap g[q] = {}
OBVIOUS

\* The places, and what is there.
LEMMA PlaceFacts ==
  /\ OnWire \in Place /\ InQueue \in Place
  /\ \A c \in Channel : <<"tasks", c>> \in Place
  /\ \A t \in Thread : <<"hand", t>> \in Place
  /\ \A s \in Sender : <<"taken", s>> \in Place
  /\ \A p \in Place : \/ p = OnWire \/ p = InQueue
                      \/ \E c \in Channel : p = <<"tasks", c>>
                      \/ \E t \in Thread : p = <<"hand", t>>
                      \/ \E s \in Sender : p = <<"taken", s>>
BY DEF Place, OnWire, InQueue

LEMMA ContentsFacts ==
  ASSUME NEW w, NEW b, NEW t, NEW h, NEW n, NEW k
  PROVE  LET f == Contents(w, b, t, h, n, k)
         IN  /\ f[OnWire] = Elements(w) /\ f[InQueue] = Elements(b)
             /\ \A c \in Channel : f[<<"tasks", c>>] = Elements(t[c])
             /\ \A u \in Thread : f[<<"hand", u>>] = Elements(h[u])
             /\ \A s \in Sender : f[<<"taken", s>>] = IF s \in k THEN {<<s, n[s]>>} ELSE {}
BY PlaceFacts DEF Contents, OnWire, InQueue

\* A place of each kind, and what is there before and after a step.
LEMMA AtPlace ==
  ASSUME NEW p \in Place
  PROVE  \/ p = OnWire  /\ At[p] = Elements(wire) /\ At'[p] = Elements(wire')
         \/ p = InQueue /\ At[p] = Elements(backlog) /\ At'[p] = Elements(backlog')
         \/ \E c \in Channel : /\ p = <<"tasks", c>>
                               /\ At[p] = Elements(tasks[c]) /\ At'[p] = Elements(tasks'[c])
         \/ \E t \in Thread : /\ p = <<"hand", t>>
                              /\ At[p] = Elements(hand[t]) /\ At'[p] = Elements(hand'[t])
         \/ \E s \in Sender :
              /\ p = <<"taken", s>>
              /\ At[p]  = (IF s \in Holding  THEN {<<s, sent[s]>>}  ELSE {})
              /\ At'[p] = (IF s \in Holding' THEN {<<s, sent'[s]>>} ELSE {})
<1>1. CASE p = OnWire
  BY <1>1, ContentsFacts DEF At
<1>2. CASE p = InQueue
  BY <1>2, ContentsFacts DEF At
<1>3. ASSUME NEW c \in Channel, p = <<"tasks", c>>
      PROVE  At[p] = Elements(tasks[c]) /\ At'[p] = Elements(tasks'[c])
  BY <1>3, ContentsFacts DEF At
<1>4. ASSUME NEW t \in Thread, p = <<"hand", t>>
      PROVE  At[p] = Elements(hand[t]) /\ At'[p] = Elements(hand'[t])
  BY <1>4, ContentsFacts DEF At
<1>5. ASSUME NEW s \in Sender, p = <<"taken", s>>
      PROVE  /\ At[p]  = (IF s \in Holding  THEN {<<s, sent[s]>>}  ELSE {})
             /\ At'[p] = (IF s \in Holding' THEN {<<s, sent'[s]>>} ELSE {})
  BY <1>5, ContentsFacts DEF At
<1> QED BY <1>1, <1>2, <1>3, <1>4, <1>5, PlaceFacts

Inv == Types /\ Messages

InHands == UNION {Elements(hand[t]) : t \in Thread}
InLoops == UNION {Elements(tasks[c]) : c \in Channel}
Leaving == InHands \cup InLoops
Taken   == {<<s, sent[s]>> : s \in Holding}

LEMMA InLeaving ==
  ASSUME NEW x
  PROVE  /\ x \in Leaving <=> \/ \E t \in Thread : x \in Elements(hand[t])
                              \/ \E c \in Channel : x \in Elements(tasks[c])
         /\ x \in Leaving' <=> \/ \E t \in Thread : x \in Elements(hand'[t])
                               \/ \E c \in Channel : x \in Elements(tasks'[c])
<1>1. x \in InHands <=> \E t \in Thread : x \in Elements(hand[t])
  BY Zenon DEF InHands
<1>2. x \in InLoops <=> \E c \in Channel : x \in Elements(tasks[c])
  BY Zenon DEF InLoops
<1>3. x \in InHands' <=> \E t \in Thread : x \in Elements(hand'[t])
  BY Zenon DEF InHands
<1>4. x \in InLoops' <=> \E c \in Channel : x \in Elements(tasks'[c])
  BY Zenon DEF InLoops
<1> QED BY <1>1, <1>2, <1>3, <1>4 DEF Leaving

\* A step that neither moves a message nor begins or ends a send.
LEMMA QuietStep ==
  ASSUME Messages, UNCHANGED <<backlog, tasks, wire, hand, sent>>, Holding' = Holding
  PROVE  Messages' /\ UNCHANGED <<Accepted, Taken, backlog, Leaving, wire>>
<1>1. At' = At
  BY DEF At
<1>2. Accepted' = Accepted
  BY DEF Accepted
<1> QED BY <1>1, <1>2 DEF Messages, NoneTwice, NoneTwoPlaces, OnlyAccepted, Leaving, InHands, InLoops, Taken

\* A step that moves m from a to b, ...
LEMMA MoveStep ==
  ASSUME Messages, NEW a \in Place, NEW b \in Place, a # b, NEW m \in At[a],
         At'[a] \subseteq At[a] \ {m}, At'[b] \subseteq At[b] \cup {m},
         \A p \in Place : p # a /\ p # b => At'[p] = At[p],
         Accepted' = Accepted
  PROVE  NoneTwoPlaces' /\ OnlyAccepted'
<1>1. \A p \in Place : p # a => m \notin At[p]
  BY DEF Messages, NoneTwoPlaces
<1>2. \A p \in Place : p # b => At'[p] \subseteq At[p] /\ m \notin At'[p]
  BY <1>1
<1>3. NoneTwoPlaces'
  BY <1>2, MovedApart DEF Messages, NoneTwoPlaces
<1>4. m \in Accepted
  BY DEF Messages, OnlyAccepted
<1> QED BY <1>2, <1>3, <1>4 DEF Messages, OnlyAccepted

\* ... and one that only loses messages.
LEMMA LossStep ==
  ASSUME Messages, \A p \in Place : At'[p] \subseteq At[p], Accepted' = Accepted
  PROVE  NoneTwoPlaces' /\ OnlyAccepted'
<1>1. NoneTwoPlaces'
  BY LostApart DEF Messages, NoneTwoPlaces
<1> QED BY <1>1 DEF Messages, OnlyAccepted

\* What waits on the event loop of one channel is nowhere else that is leaving.
LEMMA TaskIsThere ==
  ASSUME Messages, NEW c \in Channel, NEW m \in Elements(tasks[c])
  PROVE  /\ <<"tasks", c>> \in Place /\ m \in At[<<"tasks", c>>]
         /\ \A t \in Thread : m \notin Elements(hand[t])
         /\ \A d \in Channel : d # c => m \notin Elements(tasks[d])
<1> DEFINE from == <<"tasks", c>>
<1>1. from \in Place /\ At[from] = Elements(tasks[c])
  BY PlaceFacts, ContentsFacts DEF At
<1>2. ASSUME NEW t \in Thread PROVE m \notin Elements(hand[t])
  <2>1. <<"hand", t>> \in Place /\ At[<<"hand", t>>] = Elements(hand[t]) /\ <<"hand", t>> # from
    BY PlaceFacts, ContentsFacts DEF At
  <2> QED BY <1>1, <2>1 DEF Messages, NoneTwoPlaces
<1>3. ASSUME NEW d \in Channel, d # c PROVE m \notin Elements(tasks[d])
  <2>1. <<"tasks", d>> \in Place /\ At[<<"tasks", d>>] = Elements(tasks[d]) /\ <<"tasks", d>> # from
    BY <1>3, PlaceFacts, ContentsFacts DEF At
  <2> QED BY <1>1, <2>1 DEF Messages, NoneTwoPlaces
<1> QED BY <1>1, <1>2, <1>3

LEMMA HandIsThere ==
  ASSUME Messages, NEW u \in Thread, NEW m \in Elements(hand[u])
  PROVE  /\ <<"hand", u>> \in Place /\ m \in At[<<"hand", u>>]
         /\ \A t \in Thread : t # u => m \notin Elements(hand[t])
         /\ \A d \in Channel : m \notin Elements(tasks[d])
<1> DEFINE from == <<"hand", u>>
<1>1. from \in Place /\ At[from] = Elements(hand[u])
  BY PlaceFacts, ContentsFacts DEF At
<1>2. ASSUME NEW t \in Thread, t # u PROVE m \notin Elements(hand[t])
  <2>1. <<"hand", t>> \in Place /\ At[<<"hand", t>>] = Elements(hand[t]) /\ <<"hand", t>> # from
    BY <1>2, PlaceFacts, ContentsFacts DEF At
  <2> QED BY <1>1, <2>1 DEF Messages, NoneTwoPlaces
<1>3. ASSUME NEW d \in Channel PROVE m \notin Elements(tasks[d])
  <2>1. <<"tasks", d>> \in Place /\ At[<<"tasks", d>>] = Elements(tasks[d]) /\ <<"tasks", d>> # from
    BY PlaceFacts, ContentsFacts DEF At
  <2> QED BY <1>1, <2>1 DEF Messages, NoneTwoPlaces
<1> QED BY <1>1, <1>2, <1>3

\* What PeerOutbox makes of a step.
LEMMA DropIs ==
  ASSUME NEW S \in SUBSET Message, S \subseteq Leaving, Leaving' = Leaving \ S,
         UNCHANGED <<Accepted, Taken, backlog, wire>>
  PROVE  Outbox!OutboxNext
<1>1. Outbox!Drop(S)
  BY DEF Outbox!Drop, Leaving, InHands, InLoops, Accepted, Taken, Holding
<1> QED BY <1>1 DEF Outbox!OutboxNext

LEMMA WriteOutIs ==
  ASSUME NEW m \in Message, m \in Leaving, Leaving' = Leaving \ {m}, wire' = Append(wire, m),
         UNCHANGED <<Accepted, Taken, backlog>>
  PROVE  Outbox!OutboxNext
<1>1. Outbox!WriteOut(m)
  BY DEF Outbox!WriteOut, Leaving, InHands, InLoops, Accepted, Taken, Holding
<1> QED BY <1>1 DEF Outbox!OutboxNext

LEMMA RunTaskStep ==
  ASSUME Inv, NEW c \in Channel, RunTask(c)
  PROVE  Messages' /\ Outbox!OutboxNext
<1> DEFINE m == Head(tasks[c])
           from == <<"tasks", c>>
<1>1. tasks[c] \in Seq(Message) /\ tasks[c] # <<>> /\ wire \in Seq(Message)
  BY DEF Inv, Types, DataTypes, RunTask
<1>2. /\ m \in Message /\ Elements(tasks[c]) = Elements(Tail(tasks[c])) \cup {m}
      /\ Injective(Tail(tasks[c])) /\ m \notin Elements(Tail(tasks[c]))
  BY <1>1, TailElements DEF Inv, Messages, NoneTwice
<1>3. tasks' = [tasks EXCEPT ![c] = Tail(tasks[c])] /\ UNCHANGED <<backlog, hand, sent, pc>>
  BY DEF RunTask, threadVars, callVars, appVars
<1>4. tasks \in [Channel -> Seq(Message)] /\ hand \in [Thread -> Seq(Message)]
  BY DEF Inv, Types, DataTypes, HandTypes
<1>5. Holding' = Holding /\ Accepted' = Accepted /\ Taken' = Taken
  BY <1>3 DEF Holding, Accepted, Taken
<1> HIDE DEF m
<1>6. /\ from \in Place /\ m \in At[from]
      /\ \A t \in Thread : m \notin Elements(hand[t])
      /\ \A d \in Channel : d # c => m \notin Elements(tasks[d])
  BY <1>2, TaskIsThere DEF Inv
<1>7. \A d \in Channel : Elements(tasks'[d]) = Elements(tasks[d]) \ {m} /\ Injective(tasks'[d])
  <2> SUFFICES ASSUME NEW d \in Channel
               PROVE  Elements(tasks'[d]) = Elements(tasks[d]) \ {m} /\ Injective(tasks'[d])
    OBVIOUS
  <2>1. CASE d = c
    BY <1>2, <1>3, <1>4, <2>1
  <2>2. CASE d # c
    <3>1. tasks'[d] = tasks[d]
      BY <1>3, <1>4, <2>2
    <3> QED BY <1>6, <2>2, <3>1 DEF Inv, Messages, NoneTwice
  <2> QED BY <2>1, <2>2
<1>8. Leaving' = Leaving \ {m} /\ m \in Leaving
  <2>1. m \in Leaving
    BY <1>2, InLeaving
  <2>2. ASSUME NEW x PROVE x \in Leaving' <=> x \in Leaving /\ x # m
    BY <1>3, <1>6, <1>7, InLeaving
  <2> QED BY <2>1, <2>2
<1>9. ASSUME NEW p \in Place, p # OnWire
      PROVE  At'[p] = At[p] \ {m}
  <2>1. CASE p = from
    <3>1. At[p] = Elements(tasks[c]) /\ At'[p] = Elements(tasks'[c])
      BY <1>6, <2>1, ContentsFacts DEF At
    <3> QED BY <1>7, <3>1
  <2>2. CASE p # from
    <3>1. m \notin At[p]
      BY <1>6, <2>2 DEF Inv, Messages, NoneTwoPlaces
    <3>2. At'[p] = At[p] \/ At'[p] = At[p] \ {m}
      BY <1>3, <1>5, <1>7, <1>9, AtPlace
    <3> QED BY <3>1, <3>2
  <2> QED BY <2>1, <2>2
<1>10. CASE wire' = wire
  <2>1. \A p \in Place : At'[p] \subseteq At[p]
    BY <1>9, <1>10, PlaceFacts, ContentsFacts DEF At
  <2>2. NoneTwoPlaces' /\ OnlyAccepted'
    BY <1>5, <2>1, LossStep DEF Inv
  <2>3. Messages'
    BY <1>3, <1>7, <1>10, <2>2 DEF Inv, Messages, NoneTwice
  <2> QED BY <1>2, <1>3, <1>5, <1>8, <1>10, <2>3, DropIs
<1>11. CASE wire' = Append(wire, m)
  <2>1. At[OnWire] = Elements(wire) /\ At'[OnWire] = Elements(wire') /\ OnWire \in Place /\ from # OnWire
    BY PlaceFacts, ContentsFacts DEF At, OnWire
  <2>2. m \notin Elements(wire)
    BY <1>6, <2>1 DEF Inv, Messages, NoneTwoPlaces
  <2>3. Elements(wire') = Elements(wire) \cup {m} /\ Injective(wire')
    BY <1>1, <1>2, <1>11, <2>2, AppendElements DEF Inv, Messages, NoneTwice
  <2>4. NoneTwoPlaces' /\ OnlyAccepted'
    <3>1. \A p \in Place : p # from /\ p # OnWire => At'[p] = At[p]
      <4> SUFFICES ASSUME NEW p \in Place, p # from, p # OnWire PROVE At'[p] = At[p]
        OBVIOUS
      <4>1. m \notin At[p]
        BY <1>6 DEF Inv, Messages, NoneTwoPlaces
      <4> QED BY <1>9, <4>1
    <3>2. At'[from] \subseteq At[from] \ {m}
      BY <1>6, <1>9, <2>1
    <3> HIDE DEF from
    <3> QED BY <1>5, <1>6, <2>1, <2>3, <3>1, <3>2, MoveStep DEF Inv
  <2>5. Messages'
    BY <1>3, <1>7, <2>3, <2>4 DEF Inv, Messages, NoneTwice
  <2> QED BY <1>2, <1>3, <1>5, <1>8, <1>11, <2>5, WriteOutIs
<1> QED BY <1>10, <1>11 DEF RunTask, Append2Wire, m
LEMMA AcceptIs ==
  ASSUME NEW m \in Message, m \notin Accepted, Accepted' = Accepted \cup {m}, Taken' = Taken \cup {m},
         UNCHANGED <<backlog, Leaving, wire>>
  PROVE  Outbox!OutboxNext
<1>1. Outbox!Accept(m)
  BY DEF Outbox!Accept, Leaving, InHands, InLoops, Accepted, Taken, Holding
<1> QED BY <1>1 DEF Outbox!OutboxNext

LEMMA EnqueueIs ==
  ASSUME NEW m \in Message, m \in Taken, Taken' = Taken \ {m}, backlog' = Append(backlog, m),
         UNCHANGED <<Accepted, Leaving, wire>>
  PROVE  Outbox!OutboxNext
<1>1. Outbox!Enqueue(m)
  BY DEF Outbox!Enqueue, Leaving, InHands, InLoops, Accepted, Taken, Holding
<1> QED BY <1>1 DEF Outbox!OutboxNext

LEMMA HandOverIs ==
  ASSUME NEW m \in Message, m \in Taken, Taken' = Taken \ {m}, Leaving' = Leaving \cup {m},
         UNCHANGED <<Accepted, backlog, wire>>
  PROVE  Outbox!OutboxNext
<1>1. Outbox!HandOver(m)
  BY DEF Outbox!HandOver, Leaving, InHands, InLoops, Accepted, Taken, Holding
<1> QED BY <1>1 DEF Outbox!OutboxNext

LEMMA RefuseIs ==
  ASSUME NEW m \in Message, m \in Taken, Taken' = Taken \ {m},
         UNCHANGED <<Accepted, backlog, Leaving, wire>>
  PROVE  Outbox!OutboxNext
<1>1. Outbox!Refuse(m)
  BY DEF Outbox!Refuse, Leaving, InHands, InLoops, Accepted, Taken, Holding
<1> QED BY <1>1 DEF Outbox!OutboxNext

LEMMA DequeueIs ==
  ASSUME backlog # <<>>, backlog' = Tail(backlog), Leaving' = Leaving \cup {Head(backlog)},
         UNCHANGED <<Accepted, Taken, wire>>
  PROVE  Outbox!OutboxNext
<1>1. Outbox!Dequeue
  BY DEF Outbox!Dequeue, Leaving, InHands, InLoops, Accepted, Taken, Holding
<1> QED BY <1>1 DEF Outbox!OutboxNext

\* What a sender holds, as the contents of a place.
LEMMA AtTaken ==
  ASSUME NEW s \in Sender
  PROVE  /\ <<"taken", s>> \in Place
         /\ s \in Holding => At[<<"taken", s>>] = {<<s, sent[s]>>}
         /\ s \notin Holding => At[<<"taken", s>>] = {}
         /\ s \in Holding' => At'[<<"taken", s>>] = {<<s, sent'[s]>>}
         /\ s \notin Holding' => At'[<<"taken", s>>] = {}
<1>1. /\ <<"taken", s>> \in Place
      /\ At[<<"taken", s>>]  = IF s \in Holding  THEN {<<s, sent[s]>>}  ELSE {}
  BY PlaceFacts, ContentsFacts DEF At
<1>2. At'[<<"taken", s>>] = IF s \in Holding' THEN {<<s, sent'[s]>>} ELSE {}
  BY PlaceFacts, ContentsFacts DEF At
<1> QED BY <1>1, <1>2

\* A sender begins, and lets go of, its message.
LEMMA SendBeginsStep ==
  ASSUME Inv, NEW s \in Sender, SendBegins(s)
  PROVE  Messages' /\ Outbox!OutboxNext
<1> DEFINE m == <<s, sent[s] + 1>>
           to == <<"taken", s>>
<1>1. /\ sent \in [Sender -> 0..MaxSent] /\ sent[s] < MaxSent /\ pc[s] = "idle"
      /\ sent' = [sent EXCEPT ![s] = sent[s] + 1] /\ UNCHANGED <<backlog, tasks, wire, hand>>
      /\ pc' = [pc EXCEPT ![s] = IF status = "ACTIVE" THEN "write" ELSE "read"]
      /\ s \in DOMAIN pc /\ MaxSent \in Nat
  BY CountAssumption
     DEF Inv, Types, ThreadTypes, SendBegins, Goto, Thread, dataVars, callVars
<1>2. m \in Message /\ m \notin Accepted
  <2>1. sent[s] + 1 \in 1..MaxSent /\ ~(sent[s] + 1 <= sent[s])
    BY <1>1
  <2> QED BY <2>1 DEF Message, Accepted
<1>3. Accepted' = Accepted \cup {m}
  <2>1. ASSUME NEW x \in Message PROVE x[2] <= sent'[x[1]] <=> x[2] <= sent[x[1]] \/ x = m
    <3>1. PICK a \in Sender, k \in 1..MaxSent : x = <<a, k>>
      BY DEF Message
    <3>2. CASE a = s
      <4>1. x[1] = s /\ x[2] = k /\ (x = m <=> k = sent[s] + 1)
        BY <3>1, <3>2
      <4>2. sent'[s] = sent[s] + 1 /\ sent[s] \in Nat /\ k \in Nat
        BY <1>1
      <4> QED BY <4>1, <4>2
    <3>3. CASE a # s
      BY <1>1, <3>1, <3>3
    <3> QED BY <3>2, <3>3
  <2> HIDE DEF m
  <2> QED BY <1>2, <2>1 DEF Accepted
<1>4. Holding' = Holding \cup {s} /\ s \notin Holding
  BY <1>1 DEF Holding, Inv, Types, ThreadTypes
<1>5. Taken' = Taken \cup {m}
  <2>1. \A a \in Holding : sent'[a] = sent[a]
    BY <1>1, <1>4 DEF Holding
  <2>2. sent'[s] = sent[s] + 1
    BY <1>1
  <2> QED BY <1>4, <2>1, <2>2 DEF Taken
<1>6. Leaving' = Leaving
  BY <1>1 DEF Leaving, InHands, InLoops
<1>7. Outbox!OutboxNext
  <2> HIDE DEF m
  <2> QED BY <1>1, <1>2, <1>3, <1>5, <1>6, AcceptIs
<1>8. /\ to \in Place /\ At'[to] = {m}
      /\ \A p \in Place : p # to => At'[p] = At[p]
  <2>1. to \in Place /\ At'[to] = {m}
    BY <1>1, <1>4, AtTaken
  <2>2. ASSUME NEW p \in Place, p # to PROVE At'[p] = At[p]
    <3>1. \A a \in Sender : a # s => sent'[a] = sent[a] /\ (a \in Holding' <=> a \in Holding)
      BY <1>1, <1>4
    <3> QED BY <1>1, <2>2, <3>1, AtPlace
  <2> QED BY <2>1, <2>2
<1>9. NoneTwoPlaces'
  <2>1. \A p \in Place : m \notin At[p]
    BY <1>2 DEF Inv, Messages, OnlyAccepted
  <2> HIDE DEF m, to
  <2>2. \A p \in Place : p # to => At'[p] \subseteq At[p] /\ m \notin At'[p]
    BY <1>8, <2>1
  <2> QED BY <1>8, <2>2, MovedApart DEF Inv, Messages, NoneTwoPlaces
<1>10. OnlyAccepted'
  <2> HIDE DEF m, to
  <2> QED BY <1>3, <1>8 DEF Inv, Messages, OnlyAccepted
<1> QED BY <1>1, <1>7, <1>9, <1>10 DEF Inv, Messages, NoneTwice

LEMMA HeldIsThere ==
  ASSUME Inv, NEW s \in Holding
  PROVE  LET m == <<s, sent[s]>> IN
         /\ m \in Message /\ s \in Sender /\ <<"taken", s>> \in Place
         /\ At[<<"taken", s>>] = {m} /\ m \in Taken /\ m \in Accepted
         /\ \A p \in Place : p # <<"taken", s>> => m \notin At[p]
<1> DEFINE m == <<s, sent[s]>>
           from == <<"taken", s>>
<1>1. s \in Sender /\ m \in Message
  BY HeldIsMessage DEF Inv, Holding
<1>2. from \in Place /\ At[from] = {m}
  BY <1>1, AtTaken
<1>3. \A p \in Place : p # from => m \notin At[p]
  <2> HIDE DEF m, from
  <2> QED BY <1>2 DEF Inv, Messages, NoneTwoPlaces
<1>4. m \in Accepted
  BY <1>2 DEF Inv, Messages, OnlyAccepted
<1> QED BY <1>1, <1>2, <1>3, <1>4 DEF Taken

LEMMA LetsGo ==
  ASSUME Inv, NEW s \in Sender, s \in Holding, NEW l, Goto(s, l), l \notin {"write", "read", "add"},
         UNCHANGED sent
  PROVE  /\ Holding' = Holding \ {s} /\ Taken' = Taken \ {<<s, sent[s]>>}
         /\ Accepted' = Accepted /\ At'[<<"taken", s>>] = {}
         /\ \A a \in Sender : a # s => At'[<<"taken", a>>] = At[<<"taken", a>>]
<1>1. Holding' = Holding \ {s}
  BY DEF Holding, Goto, Inv, Types, ThreadTypes, Thread
<1>2. At'[<<"taken", s>>] = {}
  BY <1>1, AtTaken
<1>3. \A a \in Sender : a # s => At'[<<"taken", a>>] = At[<<"taken", a>>]
  BY <1>1, AtTaken
<1>4. Accepted' = Accepted
  BY DEF Accepted
<1>5. Taken' = Taken \ {<<s, sent[s]>>}
  BY <1>1 DEF Taken
<1> QED BY <1>1, <1>2, <1>3, <1>4, <1>5

\* It is refused, ...
LEMMA RefuseStep ==
  ASSUME Inv, NEW s \in Sender, s \in Holding, NEW l, Goto(s, l), l \notin {"write", "read", "add"},
         UNCHANGED <<sent, backlog, tasks, wire, hand>>
  PROVE  Messages' /\ Outbox!OutboxNext
<1> DEFINE m == <<s, sent[s]>>
<1>1. m \in Message /\ m \in Taken
  BY HeldIsThere
<1>2. Taken' = Taken \ {m} /\ Accepted' = Accepted /\ At'[<<"taken", s>>] = {}
      /\ \A a \in Sender : a # s => At'[<<"taken", a>>] = At[<<"taken", a>>]
  BY LetsGo
<1>3. Outbox!OutboxNext
  <2>1. Leaving' = Leaving
    BY DEF Leaving, InHands, InLoops
  <2> HIDE DEF m
  <2> QED BY <1>1, <1>2, <2>1, RefuseIs
<1>4. \A p \in Place : At'[p] \subseteq At[p]
  <2> SUFFICES ASSUME NEW p \in Place PROVE At'[p] \subseteq At[p]
    OBVIOUS
  <2>1. CASE \E a \in Sender : p = <<"taken", a>>
    BY <1>2, <2>1
  <2>2. CASE ~\E a \in Sender : p = <<"taken", a>>
    BY <2>2, AtPlace
  <2> QED BY <2>1, <2>2
<1>5. Messages'
  BY <1>2, <1>4, LossStep DEF Inv, Messages, NoneTwice
<1> QED BY <1>3, <1>5

\* ... or waits in the backlog, ...
LEMMA SendAddsStep ==
  ASSUME Inv, NEW s \in Sender, SendAdds(s)
  PROVE  Messages' /\ Outbox!OutboxNext
<1> DEFINE m == <<s, sent[s]>>
           from == <<"taken", s>>
<1>1. /\ s \in Holding /\ Goto(s, "recheck") /\ backlog' = Append(backlog, m)
      /\ UNCHANGED <<sent, tasks, wire, hand>>
  BY DEF SendAdds, Holding, callVars, appVars
<1>2. /\ m \in Message /\ m \in Taken /\ from \in Place /\ At[from] = {m} /\ InQueue \in Place
      /\ \A p \in Place : p # from => m \notin At[p]
  BY <1>1, HeldIsThere, PlaceFacts
<1>3. /\ Taken' = Taken \ {m} /\ Accepted' = Accepted /\ At'[from] = {}
      /\ \A a \in Sender : a # s => At'[<<"taken", a>>] = At[<<"taken", a>>]
  BY <1>1, LetsGo
<1>4. At[InQueue] = Elements(backlog) /\ At'[InQueue] = Elements(backlog') /\ from # InQueue
  BY ContentsFacts, PlaceFacts DEF At, InQueue
<1>5. \A p \in Place : p # from /\ p # InQueue => At'[p] = At[p]
  <2> SUFFICES ASSUME NEW p \in Place, p # from, p # InQueue PROVE At'[p] = At[p]
    OBVIOUS
  <2>1. CASE \E a \in Sender : p = <<"taken", a>>
    BY <1>3, <2>1
  <2>2. CASE ~\E a \in Sender : p = <<"taken", a>>
    BY <1>1, <2>2, AtPlace
  <2> QED BY <2>1, <2>2
<1> HIDE DEF m, from
<1>6. Elements(backlog') = Elements(backlog) \cup {m} /\ Injective(backlog')
  <2>1. backlog \in Seq(Message) /\ m \notin Elements(backlog) /\ Injective(backlog)
    BY <1>2, <1>4 DEF Inv, Types, DataTypes, Messages, NoneTwice
  <2> QED BY <1>1, <1>2, <2>1, AppendElements
<1>7. NoneTwoPlaces' /\ OnlyAccepted'
  BY <1>2, <1>3, <1>4, <1>5, <1>6, MoveStep DEF Inv
<1>8. Messages'
  BY <1>1, <1>6, <1>7 DEF Inv, Messages, NoneTwice
<1>9. Leaving' = Leaving
  BY <1>1 DEF Leaving, InHands, InLoops
<1> QED BY <1>1, <1>2, <1>3, <1>8, <1>9, EnqueueIs

\* ... or is given to the event loop of the channel: what that does to Leaving
\* and to what waits there.
LEMMA GivenToLoop ==
  ASSUME Inv, NEW m \in Message, IsOpen(channel),
         tasks' = [tasks EXCEPT ![channel] = Append(tasks[channel], m)]
  PROVE  /\ channel \in Channel
         /\ Elements(tasks'[channel]) = Elements(tasks[channel]) \cup {m}
         /\ \A d \in Channel : d # channel => tasks'[d] = tasks[d]
         /\ InLoops' = InLoops \cup {m}
         /\ m \notin Elements(tasks[channel]) => \A d \in Channel : Injective(tasks'[d])
<1>1. channel \in Channel
  BY DEF Inv, Types, ConnTypes, IsOpen, Channel
<1>2. tasks \in [Channel -> Seq(Message)] /\ tasks[channel] \in Seq(Message)
  BY <1>1 DEF Inv, Types, DataTypes
<1>3. tasks'[channel] = Append(tasks[channel], m) /\ \A d \in Channel : d # channel => tasks'[d] = tasks[d]
  BY <1>1, <1>2
<1>4. Elements(tasks'[channel]) = Elements(tasks[channel]) \cup {m}
  BY <1>2, <1>3, AppendElements
<1>5. InLoops' = InLoops \cup {m}
  <2>1. ASSUME NEW x PROVE x \in InLoops <=> \E c \in Channel : x \in Elements(tasks[c])
    BY Zenon DEF InLoops
  <2>2. ASSUME NEW x PROVE x \in InLoops' <=> \E c \in Channel : x \in Elements(tasks'[c])
    BY Zenon DEF InLoops
  <2>3. ASSUME NEW x PROVE x \in InLoops' <=> x \in InLoops \/ x = m
    BY <1>1, <1>3, <1>4, <2>1, <2>2
  <2> QED BY <2>3
<1>6. ASSUME m \notin Elements(tasks[channel]) PROVE \A d \in Channel : Injective(tasks'[d])
  <2>1. Injective(tasks'[channel])
    BY <1>1, <1>2, <1>3, <1>6, AppendElements DEF Inv, Messages, NoneTwice
  <2> QED BY <1>3, <2>1 DEF Inv, Messages, NoneTwice
<1> QED BY <1>1, <1>3, <1>4, <1>5, <1>6

LEMMA SendWritesStep ==
  ASSUME Inv, NEW s \in Sender, SendWrites(s)
  PROVE  Messages' /\ Outbox!OutboxNext
<1> DEFINE m == <<s, sent[s]>>
           from == <<"taken", s>>
           to == <<"tasks", channel>>
<1>1. s \in Holding /\ Goto(s, "idle") /\ UNCHANGED <<sent, backlog, wire, hand>>
  <2>1. s # channel
    BY ChannelAssumption DEF Inv, Types, ConnTypes, Channel
  <2> QED BY <2>1 DEF SendWrites, Write, Holding, callVars, appVars
<1>2. CASE ~IsOpen(channel)
  <2>1. tasks' = tasks
    <3>1. s # channel
      BY ChannelAssumption DEF Inv, Types, ConnTypes, Channel
    <3> QED BY <1>2, <3>1 DEF SendWrites, Write
  <2> QED BY <1>1, <2>1, RefuseStep
<1>3. CASE IsOpen(channel)
  <2>1. tasks' = [tasks EXCEPT ![channel] = Append(tasks[channel], m)]
    <3>1. s # channel
      BY ChannelAssumption DEF Inv, Types, ConnTypes, Channel
    <3> QED BY <1>3, <3>1 DEF SendWrites, Write
  <2>2. /\ m \in Message /\ m \in Taken /\ from \in Place /\ At[from] = {m}
        /\ \A p \in Place : p # from => m \notin At[p]
    BY <1>1, HeldIsThere
  <2>3. /\ Taken' = Taken \ {m} /\ Accepted' = Accepted /\ At'[from] = {}
        /\ \A a \in Sender : a # s => At'[<<"taken", a>>] = At[<<"taken", a>>]
    BY <1>1, LetsGo
  <2>4. /\ channel \in Channel
        /\ Elements(tasks'[channel]) = Elements(tasks[channel]) \cup {m}
        /\ \A d \in Channel : d # channel => tasks'[d] = tasks[d]
        /\ InLoops' = InLoops \cup {m}
        /\ m \notin Elements(tasks[channel]) => \A d \in Channel : Injective(tasks'[d])
    <3> HIDE DEF m
    <3> QED BY <1>3, <2>1, <2>2, GivenToLoop
  <2>5. /\ to \in Place /\ to # from
        /\ At[to] = Elements(tasks[channel]) /\ At'[to] = Elements(tasks'[channel])
    BY <2>4, ContentsFacts, PlaceFacts DEF At
  <2>6. \A p \in Place : p # from /\ p # to => At'[p] = At[p]
    <3> SUFFICES ASSUME NEW p \in Place, p # from, p # to PROVE At'[p] = At[p]
      OBVIOUS
    <3>1. CASE \E a \in Sender : p = <<"taken", a>>
      BY <2>3, <3>1
    <3>2. CASE ~\E a \in Sender : p = <<"taken", a>>
      BY <1>1, <2>4, <3>2, AtPlace
    <3> QED BY <3>1, <3>2
  <2> HIDE DEF m, from, to
  <2>7. NoneTwoPlaces' /\ OnlyAccepted'
    BY <2>2, <2>3, <2>4, <2>5, <2>6, MoveStep DEF Inv
  <2>8. Messages'
    <3>1. m \notin Elements(tasks[channel])
      BY <2>2, <2>5
    <3> QED BY <1>1, <2>4, <2>7, <3>1 DEF Inv, Messages, NoneTwice
  <2>9. Leaving' = Leaving \cup {m}
    <3>1. InHands' = InHands
      BY <1>1 DEF InHands
    <3> QED BY <2>4, <3>1 DEF Leaving
  <2> QED BY <1>1, <2>2, <2>3, <2>8, <2>9, HandOverIs
<1> QED BY <1>2, <1>3

LEMMA OneElement ==
  ASSUME NEW M, NEW seq \in Seq(M), Len(seq) = 1
  PROVE  Head(seq) \in M /\ Elements(seq) = {Head(seq)}
<1>1. DOMAIN seq = {1} /\ Head(seq) = seq[1] /\ seq[1] \in M
  OBVIOUS
<1> QED BY <1>1 DEF Elements

LEMMA NoElement == Elements(<<>>) = {}
BY DEF Elements

\* The hands, as the contents of a place.
LEMMA AtHand ==
  ASSUME NEW t \in Thread
  PROVE  /\ <<"hand", t>> \in Place
         /\ At[<<"hand", t>>] = Elements(hand[t]) /\ At'[<<"hand", t>>] = Elements(hand'[t])
<1>1. At[<<"hand", t>>] = Elements(hand[t])
  BY PlaceFacts, ContentsFacts DEF At
<1>2. At'[<<"hand", t>>] = Elements(hand'[t])
  BY PlaceFacts, ContentsFacts DEF At
<1> QED BY <1>1, <1>2, PlaceFacts

\* A step of writeBacklog() begins and ends no send.
LEMMA SameHolding ==
  ASSUME Inv, NEW t \in Thread, NEW l, Goto(t, l), l \notin {"write", "read", "add"},
         pc[t] \notin {"write", "read", "add"}, UNCHANGED sent
  PROVE  /\ Holding' = Holding /\ Accepted' = Accepted /\ Taken' = Taken
         /\ \A s \in Sender : At'[<<"taken", s>>] = At[<<"taken", s>>]
<1>1. Holding' = Holding
  BY DEF Holding, Goto, Inv, Types, ThreadTypes
<1>2. \A s \in Sender : At'[<<"taken", s>>] = At[<<"taken", s>>]
  BY <1>1, AtTaken
<1> QED BY <1>1, <1>2 DEF Accepted, Taken

\* poll() takes the message that has waited longest.
LEMMA PollStep ==
  ASSUME Inv, NEW t \in Thread, Poll(t), backlog # <<>>
  PROVE  Messages' /\ Outbox!OutboxNext
<1> DEFINE m == Head(backlog)
           to == <<"hand", t>>
<1>1. /\ pc[t] = "poll" /\ hand[t] = <<>> /\ Goto(t, "put") /\ backlog' = Tail(backlog)
      /\ hand' = [hand EXCEPT ![t] = <<m>>] /\ UNCHANGED <<sent, tasks, wire>>
  BY DEF Poll, Inv, Types, HandTypes, appVars
<1>2. backlog \in Seq(Message) /\ hand \in [Thread -> Seq(Message)] /\ Injective(backlog)
  BY DEF Inv, Types, DataTypes, HandTypes, Messages, NoneTwice
<1>3. /\ m \in Message /\ Elements(backlog) = Elements(Tail(backlog)) \cup {m}
      /\ Injective(Tail(backlog)) /\ m \notin Elements(Tail(backlog))
  BY <1>2, TailElements
<1>4. /\ Holding' = Holding /\ Accepted' = Accepted /\ Taken' = Taken
      /\ \A s \in Sender : At'[<<"taken", s>>] = At[<<"taken", s>>]
  BY <1>1, SameHolding
<1>5. At[InQueue] = Elements(backlog) /\ At'[InQueue] = Elements(backlog') /\ to # InQueue
      /\ InQueue \in Place
  BY ContentsFacts, PlaceFacts DEF At, InQueue
<1>6. to \in Place /\ At[to] = {} /\ At'[to] = {m}
  <2>1. Elements(hand'[t]) = {m}
    <3>1. hand'[t] = <<m>>
      BY <1>1, <1>2
    <3>2. <<m>> \in Seq(Message) /\ Len(<<m>>) = 1 /\ Head(<<m>>) = m
      BY <1>3
    <3> HIDE DEF m
    <3> QED BY <3>1, <3>2, OneElement
  <2> QED BY <1>1, <2>1, AtHand, NoElement
<1>7. \A u \in Thread : u # t => hand'[u] = hand[u]
  BY <1>1, <1>2
<1>8. \A p \in Place : p # InQueue /\ p # to => At'[p] = At[p]
  <2> SUFFICES ASSUME NEW p \in Place, p # InQueue, p # to PROVE At'[p] = At[p]
    OBVIOUS
  <2>1. CASE \E a \in Sender : p = <<"taken", a>>
    BY <1>4, <2>1
  <2>2. CASE ~\E a \in Sender : p = <<"taken", a>>
    BY <1>1, <1>7, <2>2, AtPlace
  <2> QED BY <2>1, <2>2
<1> HIDE DEF m, to
<1>9. NoneTwoPlaces' /\ OnlyAccepted'
  BY <1>1, <1>3, <1>4, <1>5, <1>6, <1>8, MoveStep DEF Inv
<1>10. Messages'
  BY <1>1, <1>3, <1>9 DEF Inv, Messages, NoneTwice
<1>11. Leaving' = Leaving \cup {m}
  <2>1. ASSUME NEW x PROVE x \in Leaving' <=> x \in Leaving \/ x = m
    <3>1. Elements(hand'[t]) = {m} /\ Elements(hand[t]) = {}
      BY <1>6, AtHand DEF to
    <3> QED BY <1>1, <1>7, <3>1, InLeaving
  <2> QED BY <2>1
<1> QED BY <1>1, <1>4, <1>10, <1>11, DequeueIs DEF m

\* A channel that closes fails what waits on its event loop, and nothing else.
LEMMA CloseChannelStep ==
  ASSUME Inv, NEW c \in Channel, CloseChannel(c)
  PROVE  Messages' /\ Outbox!OutboxNext
<1> DEFINE lost == Elements(tasks[c])
<1>1. /\ \E l \in {"closed", "gone"} : Goto(c, l)
      /\ tasks' = [tasks EXCEPT ![c] = <<>>] /\ pc[c] \notin {"write", "read", "add"}
      /\ UNCHANGED <<sent, backlog, wire, hand>>
  BY DEF CloseChannel, Free, appVars, callVars
<1>2. /\ Holding' = Holding /\ Accepted' = Accepted /\ Taken' = Taken
      /\ \A s \in Sender : At'[<<"taken", s>>] = At[<<"taken", s>>]
  BY <1>1, SameHolding DEF Thread
<1>3. tasks'[c] = <<>> /\ \A d \in Channel : d # c => tasks'[d] = tasks[d]
  BY <1>1 DEF Inv, Types, DataTypes
<1>4. Elements(tasks'[c]) = {}
  BY <1>3, NoElement
<1>5. \A p \in Place : At'[p] \subseteq At[p]
  <2> SUFFICES ASSUME NEW p \in Place PROVE At'[p] \subseteq At[p]
    OBVIOUS
  <2>1. CASE \E a \in Sender : p = <<"taken", a>>
    BY <1>2, <2>1
  <2>2. CASE ~\E a \in Sender : p = <<"taken", a>>
    BY <1>1, <1>3, <1>4, <2>2, AtPlace
  <2> QED BY <2>1, <2>2
<1>6. \A d \in Channel : Injective(tasks'[d])
  BY <1>3 DEF Injective, Inv, Messages, NoneTwice
<1>7. Messages'
  <2>1. NoneTwoPlaces' /\ OnlyAccepted'
    BY <1>2, <1>5, LossStep DEF Inv
  <2> QED BY <1>1, <1>6, <2>1 DEF Inv, Messages, NoneTwice
<1>8. lost \subseteq Message
  <2>1. tasks[c] \in Seq(Message)
    BY DEF Inv, Types, DataTypes
  <2> QED BY <2>1 DEF Elements
<1>9. lost \subseteq Leaving /\ Leaving' = Leaving \ lost
  <2>1. \A t \in Thread : Elements(hand[t]) \cap lost = {}
    BY TaskIsThere DEF Inv
  <2>2. \A d \in Channel : d # c => Elements(tasks[d]) \cap lost = {}
    BY TaskIsThere DEF Inv
  <2>3. ASSUME NEW x PROVE x \in Leaving' <=> x \in Leaving /\ x \notin lost
    BY <1>1, <1>3, <1>4, <2>1, <2>2, InLeaving
  <2>4. lost \subseteq Leaving
    BY InLeaving
  <2> QED BY <2>3, <2>4
<1>10. PICK S \in SUBSET Message : S = lost
  BY <1>8
<1> QED BY <1>1, <1>2, <1>7, <1>9, <1>10, DropIs

\* The message polled leaves the hand of its thread: it is written, waits on
\* the event loop of the channel, or is lost with a channel that has closed.
LEMMA PutPolledStep ==
  ASSUME Inv, NEW t \in Thread, PutPolled(t)
  PROVE  /\ Messages'
         /\ Outbox!OutboxNext \/ UNCHANGED <<Accepted, Taken, backlog, Leaving, wire>>
<1> DEFINE m == Head(hand[t])
           from == <<"hand", t>>
           to == <<"tasks", channel>>
<1>1. /\ pc[t] = "put" /\ Write(t, m) /\ UNCHANGED <<sent, backlog>>
      /\ hand' = [hand EXCEPT ![t] = <<>>] /\ \E l \in {"idle", "check"} : Goto(t, l)
  BY DEF PutPolled, appVars
<1>2. hand \in [Thread -> Seq(Message)] /\ Len(hand[t]) = 1 /\ wire \in Seq(Message)
  BY <1>1 DEF Inv, Types, DataTypes, HandTypes
<1>3. m \in Message /\ Elements(hand[t]) = {m}
  BY <1>2, OneElement
<1>4. /\ Holding' = Holding /\ Accepted' = Accepted /\ Taken' = Taken
      /\ \A s \in Sender : At'[<<"taken", s>>] = At[<<"taken", s>>]
  BY <1>1, SameHolding
<1>5. Elements(hand'[t]) = {} /\ \A u \in Thread : u # t => hand'[u] = hand[u]
  BY <1>1, <1>2, NoElement
<1>6. from \in Place /\ At[from] = {m} /\ At'[from] = {}
  BY <1>3, <1>5, AtHand
<1>7. /\ \A u \in Thread : u # t => m \notin Elements(hand[u])
      /\ \A d \in Channel : m \notin Elements(tasks[d])
  BY <1>3, HandIsThere DEF Inv
<1> HIDE DEF m
<1>8. m \in Leaving
  BY <1>3, InLeaving
<1>9. ASSUME tasks' = tasks PROVE Leaving' = Leaving \ {m}
  <2>1. ASSUME NEW x PROVE x \in Leaving' <=> x \in Leaving /\ x # m
    BY <1>3, <1>5, <1>7, <1>9, InLeaving
  <2> QED BY <2>1
<1>10. ASSUME NEW p \in Place, p # from, p # OnWire, \A c \in Channel : p # <<"tasks", c>>
       PROVE  At'[p] = At[p]
  <2>1. CASE \E a \in Sender : p = <<"taken", a>>
    BY <1>4, <2>1
  <2>2. CASE ~\E a \in Sender : p = <<"taken", a>>
    BY <1>1, <1>5, <1>10, <2>2, AtPlace
  <2> QED BY <2>1, <2>2
<1>11. CASE tasks' = tasks /\ wire' = wire
  <2>1. \A p \in Place : At'[p] \subseteq At[p]
    <3> SUFFICES ASSUME NEW p \in Place PROVE At'[p] \subseteq At[p]
      OBVIOUS
    <3>1. CASE p = from
      BY <1>6, <3>1
    <3>2. CASE p = OnWire \/ \E c \in Channel : p = <<"tasks", c>>
      BY <1>11, <3>2, AtPlace DEF OnWire, InQueue
    <3> QED BY <1>10, <3>1, <3>2
  <2>2. Messages'
    BY <1>1, <1>4, <1>11, <2>1, LossStep DEF Inv, Messages, NoneTwice
  <2>3. PICK S \in SUBSET Message : S = {m}
    BY <1>3
  <2>4. S \subseteq Leaving /\ Leaving' = Leaving \ S
    BY <1>8, <1>9, <1>11, <2>3
  <2> QED BY <1>1, <1>4, <1>11, <2>2, <2>4, DropIs
<1>12. CASE tasks' = tasks /\ wire' = Append(wire, m)
  <2>1. At[OnWire] = Elements(wire) /\ At'[OnWire] = Elements(wire') /\ OnWire \in Place /\ from # OnWire
    BY PlaceFacts, ContentsFacts DEF At, OnWire
  <2>2. m \notin Elements(wire)
    BY <1>6, <2>1 DEF Inv, Messages, NoneTwoPlaces
  <2>3. Elements(wire') = Elements(wire) \cup {m} /\ Injective(wire')
    BY <1>2, <1>3, <1>12, <2>2, AppendElements DEF Inv, Messages, NoneTwice
  <2>4. \A p \in Place : p # from /\ p # OnWire => At'[p] = At[p]
    <3> SUFFICES ASSUME NEW p \in Place, p # from, p # OnWire PROVE At'[p] = At[p]
      OBVIOUS
    <3>1. CASE \E c \in Channel : p = <<"tasks", c>>
      BY <1>12, <3>1, AtPlace DEF OnWire, InQueue
    <3> QED BY <1>10, <3>1
  <2> HIDE DEF from
  <2>5. NoneTwoPlaces' /\ OnlyAccepted'
    BY <1>4, <1>6, <2>1, <2>3, <2>4, MoveStep DEF Inv
  <2>6. Messages'
    BY <1>1, <1>12, <2>3, <2>5 DEF Inv, Messages, NoneTwice
  <2> QED BY <1>1, <1>3, <1>4, <1>8, <1>9, <1>12, <2>6, WriteOutIs
<1>13. CASE wire' = wire /\ IsOpen(channel)
            /\ tasks' = [tasks EXCEPT ![channel] = Append(tasks[channel], m)]
  <2>1. /\ channel \in Channel
        /\ Elements(tasks'[channel]) = Elements(tasks[channel]) \cup {m}
        /\ \A d \in Channel : d # channel => tasks'[d] = tasks[d]
        /\ InLoops' = InLoops \cup {m}
        /\ m \notin Elements(tasks[channel]) => \A d \in Channel : Injective(tasks'[d])
    BY <1>3, <1>13, GivenToLoop
  <2>2. /\ to \in Place /\ to # from
        /\ At[to] = Elements(tasks[channel]) /\ At'[to] = Elements(tasks'[channel])
    BY <2>1, ContentsFacts, PlaceFacts DEF At
  <2>3. \A p \in Place : p # from /\ p # to => At'[p] = At[p]
    <3> SUFFICES ASSUME NEW p \in Place, p # from, p # to PROVE At'[p] = At[p]
      OBVIOUS
    <3>1. CASE p = OnWire \/ \E c \in Channel : p = <<"tasks", c>>
      BY <1>13, <2>1, <3>1, AtPlace DEF OnWire, InQueue
    <3> QED BY <1>10, <3>1
  <2> HIDE DEF from, to
  <2>4. NoneTwoPlaces' /\ OnlyAccepted'
    BY <1>4, <1>6, <2>1, <2>2, <2>3, MoveStep DEF Inv
  <2>5. Messages'
    BY <1>1, <1>7, <1>13, <2>1, <2>4 DEF Inv, Messages, NoneTwice
  <2>6. Leaving' = Leaving
    <3>1. ASSUME NEW x PROVE x \in Leaving' <=> x \in Leaving
      BY <1>3, <1>5, <2>1, InLeaving
    <3> QED BY <3>1
  <2> QED BY <1>1, <1>4, <1>13, <2>5, <2>6
<1>14. \/ tasks' = tasks /\ wire' \in {wire, Append(wire, m)}
       \/ /\ wire' = wire /\ IsOpen(channel)
          /\ tasks' = [tasks EXCEPT ![channel] = Append(tasks[channel], m)]
  <2>1. CASE t = channel
    BY <1>1, <2>1 DEF Write, Append2Wire
  <2>2. CASE t # channel
    BY <1>1, <2>2 DEF Write
  <2> QED BY <2>1, <2>2
<1> QED BY <1>11, <1>12, <1>13, <1>14

\* The steps that move messages, or begin or end a send.
Moves ==
  \/ \E c \in Channel : RunTask(c) \/ CloseChannel(c)
  \/ \E s \in Sender : SendBegins(s) \/ SendWrites(s) \/ SendAdds(s)
  \/ \E s \in Sender : SendReadsAgain(s) /\ status = "TERMINATED" /\ s \in Holding
  \/ \E t \in Thread : PutPolled(t) \/ (Poll(t) /\ backlog # <<>>)

StaysPut ==
  /\ backlog' = backlog /\ tasks' = tasks /\ wire' = wire /\ hand' = hand /\ sent' = sent
  /\ Holding' = Holding

\* Every other step leaves the messages where they are.
LEMMA StaysOrMoves == Inv /\ [Next]_vars => StaysPut \/ Moves
<1> SUFFICES ASSUME Inv, [Next]_vars PROVE StaysPut \/ Moves
  OBVIOUS
<1> USE ChannelAssumption DEF StaysPut, Inv, Types, ThreadTypes, Holding, Goto, connVars, timerVars, nettyVars, callVars, threadVars, dataVars, appVars, Thread, Channel
<1>1. CASE Reconnect
  <2>1. CASE ReconnectStart BY <2>1 DEF ReconnectStart
  <2>2. CASE ReconnectConnect BY <2>2 DEF ReconnectConnect
  <2>3. CASE ReconnectAssign BY <2>3 DEF ReconnectAssign
  <2>4. CASE ReconnectListen BY <2>4 DEF ReconnectListen, Listen
  <2>5. CASE TimerFires BY <2>5 DEF TimerFires
  <2> QED BY <1>1, <2>1, <2>2, <2>3, <2>4, <2>5 DEF Reconnect
<1>2. ASSUME NEW c \in Channel, EventLoop(c) PROVE StaysPut \/ Moves
  <2>1. CASE Connected(c) BY <2>1 DEF Connected
  <2>2. CASE SetHandshaking(c) BY <2>2 DEF SetHandshaking
  <2>3. CASE HelloWritten(c) BY <2>3 DEF HelloWritten
  <2>4. CASE SetActive(c) BY <2>4 DEF SetActive
  <2>5. CASE NotifyUp(c) BY <2>5 DEF NotifyUp
  <2>6. CASE CloseChannel(c) BY <2>6 DEF Moves
  <2>7. CASE CloseIgnored(c) BY <2>7 DEF CloseIgnored, Done
  <2>8. CASE CloseForgets(c) BY <2>8 DEF CloseForgets
  <2>9. CASE SetDisconnected(c) BY <2>9 DEF SetDisconnected
  <2>10. CASE SwapStatus(c) BY <2>10 DEF SwapStatus
  <2>11. CASE RestoreTerminated(c) BY <2>11 DEF RestoreTerminated, Done
  <2>12. CASE ScheduleReconnect(c) BY <2>12 DEF ScheduleReconnect, Done
  <2>13. CASE RunTask(c) BY <2>13 DEF Moves
  <2> QED BY <1>2, <2>1, <2>2, <2>3, <2>4, <2>5, <2>6, <2>7, <2>8, <2>9, <2>10, <2>11, <2>12,
             <2>13 DEF EventLoop
<1>3. ASSUME NEW t \in Persistent \cup Sender, WriteBacklog(t) PROVE StaysPut \/ Moves
  <2>1. CASE CheckActive(t) BY <2>1 DEF CheckActive, Return
  <2>2. CASE Poll(t)
    <3>1. CASE backlog = <<>> BY <2>2, <3>1 DEF Poll, Return
    <3>2. CASE backlog # <<>> BY <2>2, <3>2 DEF Moves
    <3> QED BY <3>1, <3>2
  <2>3. CASE PutPolled(t) BY <2>3 DEF Moves
  <2> QED BY <1>3, <2>1, <2>2, <2>3 DEF WriteBacklog
<1>4. ASSUME NEW s \in Sender, SendMessage(s) PROVE StaysPut \/ Moves
  <2>1. CASE SendBegins(s) BY <2>1 DEF Moves
  <2>2. CASE SendWrites(s) BY <2>2 DEF Moves
  <2>3. CASE SendReadsAgain(s)
    <3>1. CASE status = "TERMINATED"
      <4>1. s \in Holding BY <2>3 DEF SendReadsAgain
      <4> QED BY <2>3, <3>1, <4>1 DEF Moves
    <3>2. CASE status # "TERMINATED" BY <2>3, <3>2 DEF SendReadsAgain
    <3> QED BY <3>1, <3>2
  <2>4. CASE SendAdds(s) BY <2>4 DEF Moves
  <2>5. CASE SendRechecks(s) BY <2>5 DEF SendRechecks
  <2>6. CASE WriteBacklog(s) BY <1>3, <2>6
  <2> QED BY <1>4, <2>1, <2>2, <2>3, <2>4, <2>5, <2>6 DEF SendMessage
<1>5. ASSUME NEW t \in Transient, SendMessageTransientChannel(t) PROVE StaysPut \/ Moves
  <2>1. CASE TransientBegins(t) BY <2>1 DEF TransientBegins
  <2>2. CASE TransientConnects(t) BY <2>2 DEF TransientConnects
  <2>3. CASE TransientPuts(t) BY <2>3 DEF TransientPuts
  <2>4. CASE TransientListens(t) BY <2>4 DEF TransientListens, Listen
  <2> QED BY <1>5, <2>1, <2>2, <2>3, <2>4 DEF SendMessageTransientChannel
<1>6. CASE TerminateBegins BY <1>6 DEF TerminateBegins
<1>7. CASE Terminate
  <2>1. CASE TerminateCancels BY <2>1 DEF TerminateCancels
  <2>2. CASE TerminateTests BY <2>2 DEF TerminateTests
  <2>3. CASE TerminateUnlistens BY <2>3 DEF TerminateUnlistens
  <2>4. CASE TerminateCloses BY <2>4 DEF TerminateCloses
  <2>5. CASE TerminateTransients BY <2>5 DEF TerminateTransients
  <2> QED BY <1>7, <2>1, <2>2, <2>3, <2>4, <2>5 DEF Terminate
<1>8. CASE NetChanges BY <1>8 DEF NetChanges
<1>9. CASE UNCHANGED vars BY <1>9 DEF vars
<1> QED BY <1>1, <1>2, <1>3, <1>4, <1>5, <1>6, <1>7, <1>8, <1>9 DEF Next

\* Every step keeps the messages apart and is a step of PeerOutbox or none.
LEMMA Carries ==
  Inv /\ [Next]_vars =>
    Messages' /\ (Outbox!OutboxNext \/ UNCHANGED <<Accepted, Taken, backlog, Leaving, wire>>)
<1> DEFINE Carried ==
      Messages' /\ (Outbox!OutboxNext \/ UNCHANGED <<Accepted, Taken, backlog, Leaving, wire>>)
<1> SUFFICES ASSUME Inv, [Next]_vars PROVE Carried
  OBVIOUS
<1>1. CASE StaysPut
  <2>1. Messages /\ UNCHANGED <<backlog, tasks, wire, hand, sent>> /\ Holding' = Holding
    BY <1>1 DEF StaysPut, Inv
  <2> QED BY <2>1, QuietStep
<1>2. ASSUME NEW c \in Channel, RunTask(c) \/ CloseChannel(c) PROVE Carried
  BY <1>2, RunTaskStep, CloseChannelStep
<1>3. ASSUME NEW s \in Sender, SendBegins(s) \/ SendWrites(s) \/ SendAdds(s) PROVE Carried
  BY <1>3, SendBeginsStep, SendWritesStep, SendAddsStep
<1>4. ASSUME NEW s \in Sender, SendReadsAgain(s), status = "TERMINATED", s \in Holding
      PROVE  Carried
  <2>1. Goto(s, "idle") /\ UNCHANGED <<sent, backlog, tasks, wire, hand>>
    BY <1>4 DEF SendReadsAgain, dataVars, callVars, appVars
  <2> QED BY <1>4, <2>1, RefuseStep
<1>5. ASSUME NEW t \in Thread, PutPolled(t) PROVE Carried
  BY <1>5, PutPolledStep
<1>6. ASSUME NEW t \in Thread, Poll(t), backlog # <<>> PROVE Carried
  BY <1>6, PollStep
<1> HIDE DEF Carried
<1> QED BY <1>1, <1>2, <1>3, <1>4, <1>5, <1>6, StaysOrMoves DEF Moves

LEMMA InitMessages == Init => Messages
<1> SUFFICES ASSUME Init PROVE Messages
  OBVIOUS
<1>1. Holding = {}
  BY DEF Init, Holding, Thread
<1>2. /\ wire = <<>> /\ backlog = <<>> /\ \A c \in Channel : tasks[c] = <<>>
      /\ \A t \in Thread : hand[t] = <<>>
  BY DEF Init
<1>3. \A p \in Place : At[p] = {}
  <2> SUFFICES ASSUME NEW p \in Place PROVE At[p] = {}
    OBVIOUS
  <2>1. CASE \E s \in Sender : p = <<"taken", s>>
    BY <1>1, <2>1, AtTaken
  <2>2. CASE ~\E s \in Sender : p = <<"taken", s>>
    BY <1>2, <2>2, AtPlace, NoElement
  <2> QED BY <2>1, <2>2
<1>4. NoneTwice
  BY <1>2 DEF NoneTwice, Injective
<1> QED BY <1>3, <1>4 DEF Messages, NoneTwoPlaces, OnlyAccepted

LEMMA InvHolds == Spec => []Inv
<1>1. Init => Inv
  BY InitTypes, InitMessages DEF Inv
<1>2. Inv /\ [Next]_vars => Messages'
  BY Carries
<1> QED BY <1>1, <1>2, TypesHold, PTL DEF Spec, Inv

\* No message is written twice, whatever the number of threads, channels and
\* messages: none is ever in two places, nor twice in one.
THEOREM AtMostOnceHolds == Spec => []AtMostOnce
<1>1. Inv => AtMostOnce
  BY DEF Inv, Types, DataTypes, Messages, NoneTwice, Injective, AtMostOnce
<1> QED BY <1>1, InvHolds, PTL

\* The connection with all its threads implements the outbox.
THEOREM ImplementsOutboxHolds == Spec => ImplementsOutbox
<1>1. Init => Outbox!OutboxInit
  <2> SUFFICES ASSUME Init PROVE Outbox!OutboxInit
    OBVIOUS
  <2>1. \A m \in Message : ~(m[2] <= sent[m[1]])
    BY CountAssumption DEF Init, Message
  <2>2. \A s \in Sender : pc[s] = "idle"
    BY DEF Init, Thread
  <2>3. \A t \in Thread : Elements(hand[t]) = {}
    BY NoElement DEF Init
  <2>4. \A c \in Channel : Elements(tasks[c]) = {}
    BY NoElement DEF Init
  <2> QED BY <2>1, <2>2, <2>3, <2>4 DEF Outbox!OutboxInit, Init
<1>2. Inv /\ [Next]_vars => [Outbox!OutboxNext]_Outbox!outbox
  <2>1. UNCHANGED <<Accepted, Taken, backlog, Leaving, wire>> => UNCHANGED Outbox!outbox
    BY DEF Outbox!outbox, Accepted, Taken, Leaving, InHands, InLoops, Holding
  <2> QED BY <2>1, Carries
<1>3. ImplementsOutbox <=> Outbox!OutboxInit /\ [][Outbox!OutboxNext]_Outbox!outbox
  BY DEF ImplementsOutbox, Outbox!OutboxSpec
<1> QED BY <1>1, <1>2, <1>3, InvHolds, PTL DEF Spec
=============================================================================
