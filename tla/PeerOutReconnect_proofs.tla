----------------------- MODULE PeerOutReconnect_proofs -----------------------
(***************************************************************************)
(* Theorems of PeerOutConnection about its reconnections: reconnect()      *)
(* never finds a channel open, nothing stays in the backlog of an active   *)
(* connection, and which of the class's assertions can fail.               *)
(*                                                                         *)
(* What they rest on: there is one reconnection at a time.  The right to   *)
(* begin one passes from the thread in reconnect() to the channel it has   *)
(* stored, from its close listener to the timer, and back to reconnect();  *)
(* channel is null while it is not with a channel (OneReconnect).          *)
(***************************************************************************)
EXTENDS PeerOutbox_proofs

\* A close listener that has forgotten its channel.
Closing == {"disconnect", "swap", "restore", "schedule"}

\* An event loop in a callback that only the current channel's gets to.
Callback == {"connected", "check", "poll", "put", "activate", "notify"}

OneReconnect ==
  /\ rc \in {"start", "connect", "assign"} => channel = NoChannel
  /\ rc = "listen" => channel = fresh
  /\ timer = "scheduled" => channel = NoChannel /\ rc = "idle"
  /\ \A c \in Channel : pc[c] \in Closing =>
       /\ channel = NoChannel /\ rc = "idle" /\ timer # "scheduled"
       /\ \A d \in Channel : pc[d] \in Closing => d = c
  /\ 112 \notin failed

\* The channel reconnect() works on has no close listener yet, so that nothing
\* but reconnect() moves on while it does.
FreshIsYoung ==
  /\ rc \in {"assign", "listen"} =>
       /\ fresh \notin listening /\ chan[fresh] # "free"
       /\ pc[fresh] \notin Closing \cup {"closed"}
  /\ \A c \in Persistent : chan[c] = "free" => c \notin listening

CallbacksAreCurrent == \A c \in Channel : pc[c] \in Callback => channel = c

\* Nothing leads from ACTIVE to another channel but the close of this one,
\* which leaves ACTIVE first.
ActiveIsOpen ==
  status = "ACTIVE" =>
    /\ rc \notin {"start", "connect", "assign"} /\ timer # "scheduled"
    /\ \A c \in Channel : pc[c] # "schedule"
    /\ channel # NoChannel => chan[channel] # "connecting"

\* What is in the backlog of an active connection has somebody to write it.
SomebodyWrites ==
  (status = "ACTIVE" /\ channel # NoChannel /\ chan[channel] = "open")
  => backlog = <<>> \/ \E t \in Thread : pc[t] \in {"recheck", "check", "poll", "put"}

ReconnectInv ==
  Types /\ OneReconnect /\ FreshIsYoung /\ CallbacksAreCurrent /\ ActiveIsOpen
    /\ SomebodyWrites

-----------------------------------------------------------------------------
(* Each part is kept. *)

\* reconnect() hands on to the channel, the channel to the timer, the timer to
\* reconnect(), and none of them twice.
LEMMA OneReconnectStep == Types /\ OneReconnect /\ FreshIsYoung /\ [Next]_vars => OneReconnect'
<1> SUFFICES ASSUME Types, OneReconnect, FreshIsYoung, [Next]_vars PROVE OneReconnect'
  OBVIOUS
<1> USE ChannelAssumption DEF OneReconnect, FreshIsYoung, Closing, Types, ConnTypes,
      NettyTypes, ThreadTypes, LoopTypes, Thread, Channel, Goto, ChannelLabel, SenderLabel,
      connVars, dataVars, timerVars, nettyVars, threadVars, callVars, appVars
<1>1. CASE Reconnect
  <2>1. CASE ReconnectStart BY <2>1 DEF ReconnectStart, IsOpen
  <2>2. CASE ReconnectConnect BY <2>2 DEF ReconnectConnect, Open
  <2>3. CASE ReconnectAssign BY <2>3 DEF ReconnectAssign
  <2>4. CASE ReconnectListen BY <2>4 DEF ReconnectListen, Listen
  <2>5. CASE TimerFires BY <2>5 DEF TimerFires
  <2> QED BY <1>1, <2>1, <2>2, <2>3, <2>4, <2>5 DEF Reconnect
<1>2. ASSUME NEW c \in Channel, EventLoop(c) PROVE OneReconnect'
  <2>1. CASE Connected(c) BY <2>1 DEF Connected
  <2>2. CASE SetHandshaking(c) BY <2>2 DEF SetHandshaking
  <2>3. CASE HelloWritten(c) BY <2>3 DEF HelloWritten
  <2>4. CASE SetActive(c) BY <2>4 DEF SetActive
  <2>5. CASE NotifyUp(c) BY <2>5 DEF NotifyUp
  <2>6. CASE CloseChannel(c) BY <2>6 DEF CloseChannel, Free, IsOpen
  <2>7. CASE CloseIgnored(c) BY <2>7 DEF CloseIgnored, Done, IsCurrent
  <2>8. CASE CloseForgets(c) BY <2>8 DEF CloseForgets, IsCurrent
  <2>9. CASE SetDisconnected(c) BY <2>9 DEF SetDisconnected
  <2>10. CASE SwapStatus(c) BY <2>10 DEF SwapStatus
  <2>11. CASE RestoreTerminated(c) BY <2>11 DEF RestoreTerminated, Done
  <2>12. CASE ScheduleReconnect(c) BY <2>12 DEF ScheduleReconnect, Done
  <2>13. CASE RunTask(c) BY <2>13 DEF RunTask
  <2> QED BY <1>2, <2>1, <2>2, <2>3, <2>4, <2>5, <2>6, <2>7, <2>8, <2>9, <2>10, <2>11, <2>12,
        <2>13 DEF EventLoop
<1>3. ASSUME NEW t \in Persistent \cup Sender, WriteBacklog(t) PROVE OneReconnect'
  <2>1. CASE CheckActive(t) BY <2>1 DEF CheckActive, Return
  <2>2. CASE Poll(t) BY <2>2 DEF Poll, Return
  <2>3. CASE PutPolled(t) BY <2>3 DEF PutPolled
  <2> QED BY <1>3, <2>1, <2>2, <2>3 DEF WriteBacklog
<1>4. ASSUME NEW s \in Sender, SendMessage(s) PROVE OneReconnect'
  <2>1. CASE SendBegins(s) BY <2>1 DEF SendBegins
  <2>2. CASE SendWrites(s) BY <2>2 DEF SendWrites
  <2>3. CASE SendReadsAgain(s) BY <2>3 DEF SendReadsAgain
  <2>4. CASE SendAdds(s) BY <2>4 DEF SendAdds
  <2>5. CASE SendRechecks(s) BY <2>5 DEF SendRechecks
  <2>6. CASE WriteBacklog(s) BY <1>3, <2>6
  <2> QED BY <1>4, <2>1, <2>2, <2>3, <2>4, <2>5, <2>6 DEF SendMessage
<1>5. ASSUME NEW t \in Transient, SendMessageTransientChannel(t) PROVE OneReconnect'
  <2>1. CASE TransientBegins(t) BY <2>1 DEF TransientBegins
  <2>2. CASE TransientConnects(t) BY <2>2 DEF TransientConnects, Open
  <2>3. CASE TransientPuts(t) BY <2>3 DEF TransientPuts
  <2>4. CASE TransientListens(t) BY <2>4 DEF TransientListens, Listen
  <2> QED BY <1>5, <2>1, <2>2, <2>3, <2>4 DEF SendMessageTransientChannel
<1>6. CASE TerminateBegins BY <1>6 DEF TerminateBegins
<1>7. CASE Terminate
  <2>1. CASE TerminateCancels BY <2>1 DEF TerminateCancels
  <2>2. CASE TerminateTests BY <2>2 DEF TerminateTests
  <2>3. CASE TerminateUnlistens BY <2>3 DEF TerminateUnlistens
  <2>4. CASE TerminateCloses BY <2>4 DEF TerminateCloses, AskToClose
  <2>5. CASE TerminateTransients BY <2>5 DEF TerminateTransients, AskToClose
  <2> QED BY <1>7, <2>1, <2>2, <2>3, <2>4, <2>5 DEF Terminate
<1>8. CASE NetChanges BY <1>8 DEF NetChanges
<1>9. CASE UNCHANGED vars BY <1>9 DEF vars
<1> QED BY <1>1, <1>2, <1>3, <1>4, <1>5, <1>6, <1>7, <1>8, <1>9 DEF Next

\* Only reconnect() adds a listener to a persistent channel, its last step.
LEMMA FreshStep == Types /\ OneReconnect /\ FreshIsYoung /\ [Next]_vars => FreshIsYoung'
<1> SUFFICES ASSUME Types, OneReconnect, FreshIsYoung, [Next]_vars PROVE FreshIsYoung'
  OBVIOUS
<1> USE ChannelAssumption DEF OneReconnect, FreshIsYoung, Closing, Types, ConnTypes,
      NettyTypes, ThreadTypes, LoopTypes, Thread, Channel, Goto, ChannelLabel, SenderLabel,
      connVars, dataVars, timerVars, nettyVars, threadVars, callVars, appVars
<1>1. CASE Reconnect
  <2>1. CASE ReconnectStart BY <2>1 DEF ReconnectStart, IsOpen
  <2>2. CASE ReconnectConnect BY <2>2 DEF ReconnectConnect, Open
  <2>3. CASE ReconnectAssign BY <2>3 DEF ReconnectAssign
  <2>4. CASE ReconnectListen BY <2>4 DEF ReconnectListen, Listen
  <2>5. CASE TimerFires BY <2>5 DEF TimerFires
  <2> QED BY <1>1, <2>1, <2>2, <2>3, <2>4, <2>5 DEF Reconnect
<1>2. ASSUME NEW c \in Channel, EventLoop(c) PROVE FreshIsYoung'
  <2>1. CASE Connected(c) BY <2>1 DEF Connected
  <2>2. CASE SetHandshaking(c) BY <2>2 DEF SetHandshaking
  <2>3. CASE HelloWritten(c) BY <2>3 DEF HelloWritten
  <2>4. CASE SetActive(c) BY <2>4 DEF SetActive
  <2>5. CASE NotifyUp(c) BY <2>5 DEF NotifyUp
  <2>6. CASE CloseChannel(c) BY <2>6 DEF CloseChannel, Free, IsOpen
  <2>7. CASE CloseIgnored(c) BY <2>7 DEF CloseIgnored, Done, IsCurrent
  <2>8. CASE CloseForgets(c) BY <2>8 DEF CloseForgets, IsCurrent
  <2>9. CASE SetDisconnected(c) BY <2>9 DEF SetDisconnected
  <2>10. CASE SwapStatus(c) BY <2>10 DEF SwapStatus
  <2>11. CASE RestoreTerminated(c) BY <2>11 DEF RestoreTerminated, Done
  <2>12. CASE ScheduleReconnect(c) BY <2>12 DEF ScheduleReconnect, Done
  <2>13. CASE RunTask(c) BY <2>13 DEF RunTask
  <2> QED BY <1>2, <2>1, <2>2, <2>3, <2>4, <2>5, <2>6, <2>7, <2>8, <2>9, <2>10, <2>11, <2>12,
        <2>13 DEF EventLoop
<1>3. ASSUME NEW t \in Persistent \cup Sender, WriteBacklog(t) PROVE FreshIsYoung'
  <2>1. CASE CheckActive(t) BY <2>1 DEF CheckActive, Return
  <2>2. CASE Poll(t) BY <2>2 DEF Poll, Return
  <2>3. CASE PutPolled(t) BY <2>3 DEF PutPolled
  <2> QED BY <1>3, <2>1, <2>2, <2>3 DEF WriteBacklog
<1>4. ASSUME NEW s \in Sender, SendMessage(s) PROVE FreshIsYoung'
  <2>1. CASE SendBegins(s) BY <2>1 DEF SendBegins
  <2>2. CASE SendWrites(s) BY <2>2 DEF SendWrites
  <2>3. CASE SendReadsAgain(s) BY <2>3 DEF SendReadsAgain
  <2>4. CASE SendAdds(s) BY <2>4 DEF SendAdds
  <2>5. CASE SendRechecks(s) BY <2>5 DEF SendRechecks
  <2>6. CASE WriteBacklog(s) BY <1>3, <2>6
  <2> QED BY <1>4, <2>1, <2>2, <2>3, <2>4, <2>5, <2>6 DEF SendMessage
<1>5. ASSUME NEW t \in Transient, SendMessageTransientChannel(t) PROVE FreshIsYoung'
  <2>1. CASE TransientBegins(t) BY <2>1 DEF TransientBegins
  <2>2. CASE TransientConnects(t) BY <2>2 DEF TransientConnects, Open
  <2>3. CASE TransientPuts(t) BY <2>3 DEF TransientPuts
  <2>4. CASE TransientListens(t) BY <2>4 DEF TransientListens, Listen
  <2> QED BY <1>5, <2>1, <2>2, <2>3, <2>4 DEF SendMessageTransientChannel
<1>6. CASE TerminateBegins BY <1>6 DEF TerminateBegins
<1>7. CASE Terminate
  <2>1. CASE TerminateCancels BY <2>1 DEF TerminateCancels
  <2>2. CASE TerminateTests BY <2>2 DEF TerminateTests
  <2>3. CASE TerminateUnlistens BY <2>3 DEF TerminateUnlistens
  <2>4. CASE TerminateCloses BY <2>4 DEF TerminateCloses, AskToClose
  <2>5. CASE TerminateTransients BY <2>5 DEF TerminateTransients, AskToClose
  <2> QED BY <1>7, <2>1, <2>2, <2>3, <2>4, <2>5 DEF Terminate
<1>8. CASE NetChanges BY <1>8 DEF NetChanges
<1>9. CASE UNCHANGED vars BY <1>9 DEF vars
<1> QED BY <1>1, <1>2, <1>3, <1>4, <1>5, <1>6, <1>7, <1>8, <1>9 DEF Next

\* channel changes where it is null, or when the loop of its channel is done.
LEMMA CallbackStep == Types /\ OneReconnect /\ CallbacksAreCurrent /\ [Next]_vars =>
      CallbacksAreCurrent'
<1> SUFFICES ASSUME Types, OneReconnect, CallbacksAreCurrent, [Next]_vars PROVE
      CallbacksAreCurrent'
  OBVIOUS
<1> USE ChannelAssumption DEF OneReconnect, CallbacksAreCurrent, Callback, Types, ConnTypes,
      NettyTypes, ThreadTypes, LoopTypes, Thread, Channel, Goto, ChannelLabel, SenderLabel,
      connVars, dataVars, timerVars, nettyVars, threadVars, callVars, appVars
<1>1. CASE Reconnect
  <2>1. CASE ReconnectStart BY <2>1 DEF ReconnectStart, IsOpen
  <2>2. CASE ReconnectConnect BY <2>2 DEF ReconnectConnect, Open
  <2>3. CASE ReconnectAssign BY <2>3 DEF ReconnectAssign
  <2>4. CASE ReconnectListen BY <2>4 DEF ReconnectListen, Listen
  <2>5. CASE TimerFires BY <2>5 DEF TimerFires
  <2> QED BY <1>1, <2>1, <2>2, <2>3, <2>4, <2>5 DEF Reconnect
<1>2. ASSUME NEW c \in Channel, EventLoop(c) PROVE CallbacksAreCurrent'
  <2>1. CASE Connected(c) BY <2>1 DEF Connected
  <2>2. CASE SetHandshaking(c) BY <2>2 DEF SetHandshaking
  <2>3. CASE HelloWritten(c) BY <2>3 DEF HelloWritten
  <2>4. CASE SetActive(c) BY <2>4 DEF SetActive
  <2>5. CASE NotifyUp(c) BY <2>5 DEF NotifyUp
  <2>6. CASE CloseChannel(c) BY <2>6 DEF CloseChannel, Free, IsOpen
  <2>7. CASE CloseIgnored(c) BY <2>7 DEF CloseIgnored, Done, IsCurrent
  <2>8. CASE CloseForgets(c) BY <2>8 DEF CloseForgets, IsCurrent
  <2>9. CASE SetDisconnected(c) BY <2>9 DEF SetDisconnected
  <2>10. CASE SwapStatus(c) BY <2>10 DEF SwapStatus
  <2>11. CASE RestoreTerminated(c) BY <2>11 DEF RestoreTerminated, Done
  <2>12. CASE ScheduleReconnect(c) BY <2>12 DEF ScheduleReconnect, Done
  <2>13. CASE RunTask(c) BY <2>13 DEF RunTask
  <2> QED BY <1>2, <2>1, <2>2, <2>3, <2>4, <2>5, <2>6, <2>7, <2>8, <2>9, <2>10, <2>11, <2>12,
        <2>13 DEF EventLoop
<1>3. ASSUME NEW t \in Persistent \cup Sender, WriteBacklog(t) PROVE CallbacksAreCurrent'
  <2>1. CASE CheckActive(t) BY <2>1 DEF CheckActive, Return
  <2>2. CASE Poll(t) BY <2>2 DEF Poll, Return
  <2>3. CASE PutPolled(t) BY <2>3 DEF PutPolled
  <2> QED BY <1>3, <2>1, <2>2, <2>3 DEF WriteBacklog
<1>4. ASSUME NEW s \in Sender, SendMessage(s) PROVE CallbacksAreCurrent'
  <2>1. CASE SendBegins(s) BY <2>1 DEF SendBegins
  <2>2. CASE SendWrites(s) BY <2>2 DEF SendWrites
  <2>3. CASE SendReadsAgain(s) BY <2>3 DEF SendReadsAgain
  <2>4. CASE SendAdds(s) BY <2>4 DEF SendAdds
  <2>5. CASE SendRechecks(s) BY <2>5 DEF SendRechecks
  <2>6. CASE WriteBacklog(s) BY <1>3, <2>6
  <2> QED BY <1>4, <2>1, <2>2, <2>3, <2>4, <2>5, <2>6 DEF SendMessage
<1>5. ASSUME NEW t \in Transient, SendMessageTransientChannel(t) PROVE CallbacksAreCurrent'
  <2>1. CASE TransientBegins(t) BY <2>1 DEF TransientBegins
  <2>2. CASE TransientConnects(t) BY <2>2 DEF TransientConnects, Open
  <2>3. CASE TransientPuts(t) BY <2>3 DEF TransientPuts
  <2>4. CASE TransientListens(t) BY <2>4 DEF TransientListens, Listen
  <2> QED BY <1>5, <2>1, <2>2, <2>3, <2>4 DEF SendMessageTransientChannel
<1>6. CASE TerminateBegins BY <1>6 DEF TerminateBegins
<1>7. CASE Terminate
  <2>1. CASE TerminateCancels BY <2>1 DEF TerminateCancels
  <2>2. CASE TerminateTests BY <2>2 DEF TerminateTests
  <2>3. CASE TerminateUnlistens BY <2>3 DEF TerminateUnlistens
  <2>4. CASE TerminateCloses BY <2>4 DEF TerminateCloses, AskToClose
  <2>5. CASE TerminateTransients BY <2>5 DEF TerminateTransients, AskToClose
  <2> QED BY <1>7, <2>1, <2>2, <2>3, <2>4, <2>5 DEF Terminate
<1>8. CASE NetChanges BY <1>8 DEF NetChanges
<1>9. CASE UNCHANGED vars BY <1>9 DEF vars
<1> QED BY <1>1, <1>2, <1>3, <1>4, <1>5, <1>6, <1>7, <1>8, <1>9 DEF Next

\* The loop that sets ACTIVE is that of the current channel, which is open.
LEMMA ActiveStep == Types /\ OneReconnect /\ CallbacksAreCurrent /\ ActiveIsOpen /\ [Next]_vars
      => ActiveIsOpen'
<1> SUFFICES ASSUME Types, OneReconnect, CallbacksAreCurrent, ActiveIsOpen, [Next]_vars PROVE
      ActiveIsOpen'
  OBVIOUS
<1> USE ChannelAssumption DEF OneReconnect, CallbacksAreCurrent, ActiveIsOpen, Callback,
      Closing, Types, ConnTypes, NettyTypes, ThreadTypes, LoopTypes, Thread, Channel, Goto,
      ChannelLabel, SenderLabel, connVars, dataVars, timerVars, nettyVars, threadVars,
      callVars, appVars
<1>1. CASE Reconnect
  <2>1. CASE ReconnectStart BY <2>1 DEF ReconnectStart, IsOpen
  <2>2. CASE ReconnectConnect BY <2>2 DEF ReconnectConnect, Open
  <2>3. CASE ReconnectAssign BY <2>3 DEF ReconnectAssign
  <2>4. CASE ReconnectListen BY <2>4 DEF ReconnectListen, Listen
  <2>5. CASE TimerFires BY <2>5 DEF TimerFires
  <2> QED BY <1>1, <2>1, <2>2, <2>3, <2>4, <2>5 DEF Reconnect
<1>2. ASSUME NEW c \in Channel, EventLoop(c) PROVE ActiveIsOpen'
  <2>1. CASE Connected(c) BY <2>1 DEF Connected
  <2>2. CASE SetHandshaking(c) BY <2>2 DEF SetHandshaking
  <2>3. CASE HelloWritten(c) BY <2>3 DEF HelloWritten
  <2>4. CASE SetActive(c) BY <2>4 DEF SetActive
  <2>5. CASE NotifyUp(c) BY <2>5 DEF NotifyUp
  <2>6. CASE CloseChannel(c) BY <2>6 DEF CloseChannel, Free, IsOpen
  <2>7. CASE CloseIgnored(c) BY <2>7 DEF CloseIgnored, Done, IsCurrent
  <2>8. CASE CloseForgets(c) BY <2>8 DEF CloseForgets, IsCurrent
  <2>9. CASE SetDisconnected(c) BY <2>9 DEF SetDisconnected
  <2>10. CASE SwapStatus(c) BY <2>10 DEF SwapStatus
  <2>11. CASE RestoreTerminated(c) BY <2>11 DEF RestoreTerminated, Done
  <2>12. CASE ScheduleReconnect(c) BY <2>12 DEF ScheduleReconnect, Done
  <2>13. CASE RunTask(c) BY <2>13 DEF RunTask
  <2> QED BY <1>2, <2>1, <2>2, <2>3, <2>4, <2>5, <2>6, <2>7, <2>8, <2>9, <2>10, <2>11, <2>12,
        <2>13 DEF EventLoop
<1>3. ASSUME NEW t \in Persistent \cup Sender, WriteBacklog(t) PROVE ActiveIsOpen'
  <2>1. CASE CheckActive(t) BY <2>1 DEF CheckActive, Return
  <2>2. CASE Poll(t) BY <2>2 DEF Poll, Return
  <2>3. CASE PutPolled(t) BY <2>3 DEF PutPolled
  <2> QED BY <1>3, <2>1, <2>2, <2>3 DEF WriteBacklog
<1>4. ASSUME NEW s \in Sender, SendMessage(s) PROVE ActiveIsOpen'
  <2>1. CASE SendBegins(s) BY <2>1 DEF SendBegins
  <2>2. CASE SendWrites(s) BY <2>2 DEF SendWrites
  <2>3. CASE SendReadsAgain(s) BY <2>3 DEF SendReadsAgain
  <2>4. CASE SendAdds(s) BY <2>4 DEF SendAdds
  <2>5. CASE SendRechecks(s) BY <2>5 DEF SendRechecks
  <2>6. CASE WriteBacklog(s) BY <1>3, <2>6
  <2> QED BY <1>4, <2>1, <2>2, <2>3, <2>4, <2>5, <2>6 DEF SendMessage
<1>5. ASSUME NEW t \in Transient, SendMessageTransientChannel(t) PROVE ActiveIsOpen'
  <2>1. CASE TransientBegins(t) BY <2>1 DEF TransientBegins
  <2>2. CASE TransientConnects(t) BY <2>2 DEF TransientConnects, Open
  <2>3. CASE TransientPuts(t) BY <2>3 DEF TransientPuts
  <2>4. CASE TransientListens(t) BY <2>4 DEF TransientListens, Listen
  <2> QED BY <1>5, <2>1, <2>2, <2>3, <2>4 DEF SendMessageTransientChannel
<1>6. CASE TerminateBegins BY <1>6 DEF TerminateBegins
<1>7. CASE Terminate
  <2>1. CASE TerminateCancels BY <2>1 DEF TerminateCancels
  <2>2. CASE TerminateTests BY <2>2 DEF TerminateTests
  <2>3. CASE TerminateUnlistens BY <2>3 DEF TerminateUnlistens
  <2>4. CASE TerminateCloses BY <2>4 DEF TerminateCloses, AskToClose
  <2>5. CASE TerminateTransients BY <2>5 DEF TerminateTransients, AskToClose
  <2> QED BY <1>7, <2>1, <2>2, <2>3, <2>4, <2>5 DEF Terminate
<1>8. CASE NetChanges BY <1>8 DEF NetChanges
<1>9. CASE UNCHANGED vars BY <1>9 DEF vars
<1> QED BY <1>1, <1>2, <1>3, <1>4, <1>5, <1>6, <1>7, <1>8, <1>9 DEF Next

\* Whoever leaves writeBacklog() finds the backlog empty or the channel not
\* open; whoever adds a message looks at the status after it.
LEMMA WriterStep == Types /\ OneReconnect /\ ActiveIsOpen /\ SomebodyWrites /\ [Next]_vars =>
      SomebodyWrites'
<1> SUFFICES ASSUME Types, OneReconnect, ActiveIsOpen, SomebodyWrites, [Next]_vars PROVE
      SomebodyWrites'
  OBVIOUS
<1> USE ChannelAssumption DEF OneReconnect, ActiveIsOpen, SomebodyWrites, Types, ConnTypes,
      NettyTypes, ThreadTypes, LoopTypes, Thread, Channel, Goto, ChannelLabel, SenderLabel,
      connVars, dataVars, timerVars, nettyVars, threadVars, callVars, appVars
<1>1. CASE Reconnect
  <2>1. CASE ReconnectStart BY <2>1 DEF ReconnectStart, IsOpen
  <2>2. CASE ReconnectConnect BY <2>2 DEF ReconnectConnect, Open
  <2>3. CASE ReconnectAssign BY <2>3 DEF ReconnectAssign
  <2>4. CASE ReconnectListen BY <2>4 DEF ReconnectListen, Listen
  <2>5. CASE TimerFires BY <2>5 DEF TimerFires
  <2> QED BY <1>1, <2>1, <2>2, <2>3, <2>4, <2>5 DEF Reconnect
<1>2. ASSUME NEW c \in Channel, EventLoop(c) PROVE SomebodyWrites'
  <2>1. CASE Connected(c) BY <2>1 DEF Connected
  <2>2. CASE SetHandshaking(c) BY <2>2 DEF SetHandshaking
  <2>3. CASE HelloWritten(c) BY <2>3 DEF HelloWritten
  <2>4. CASE SetActive(c) BY <2>4 DEF SetActive
  <2>5. CASE NotifyUp(c) BY <2>5 DEF NotifyUp
  <2>6. CASE CloseChannel(c) BY <2>6 DEF CloseChannel, Free, IsOpen
  <2>7. CASE CloseIgnored(c) BY <2>7 DEF CloseIgnored, Done, IsCurrent
  <2>8. CASE CloseForgets(c) BY <2>8 DEF CloseForgets, IsCurrent
  <2>9. CASE SetDisconnected(c) BY <2>9 DEF SetDisconnected
  <2>10. CASE SwapStatus(c) BY <2>10 DEF SwapStatus
  <2>11. CASE RestoreTerminated(c) BY <2>11 DEF RestoreTerminated, Done
  <2>12. CASE ScheduleReconnect(c) BY <2>12 DEF ScheduleReconnect, Done
  <2>13. CASE RunTask(c) BY <2>13 DEF RunTask
  <2> QED BY <1>2, <2>1, <2>2, <2>3, <2>4, <2>5, <2>6, <2>7, <2>8, <2>9, <2>10, <2>11, <2>12,
        <2>13 DEF EventLoop
<1>3. ASSUME NEW t \in Persistent \cup Sender, WriteBacklog(t) PROVE SomebodyWrites'
  <2>1. CASE CheckActive(t) BY <2>1 DEF CheckActive, Return
  <2>2. CASE Poll(t) BY <2>2 DEF Poll, Return
  <2>3. CASE PutPolled(t) BY <2>3 DEF PutPolled
  <2> QED BY <1>3, <2>1, <2>2, <2>3 DEF WriteBacklog
<1>4. ASSUME NEW s \in Sender, SendMessage(s) PROVE SomebodyWrites'
  <2>1. CASE SendBegins(s) BY <2>1 DEF SendBegins
  <2>2. CASE SendWrites(s) BY <2>2 DEF SendWrites
  <2>3. CASE SendReadsAgain(s) BY <2>3 DEF SendReadsAgain
  <2>4. CASE SendAdds(s) BY <2>4 DEF SendAdds
  <2>5. CASE SendRechecks(s) BY <2>5 DEF SendRechecks
  <2>6. CASE WriteBacklog(s) BY <1>3, <2>6
  <2> QED BY <1>4, <2>1, <2>2, <2>3, <2>4, <2>5, <2>6 DEF SendMessage
<1>5. ASSUME NEW t \in Transient, SendMessageTransientChannel(t) PROVE SomebodyWrites'
  <2>1. CASE TransientBegins(t) BY <2>1 DEF TransientBegins
  <2>2. CASE TransientConnects(t) BY <2>2 DEF TransientConnects, Open
  <2>3. CASE TransientPuts(t) BY <2>3 DEF TransientPuts
  <2>4. CASE TransientListens(t) BY <2>4 DEF TransientListens, Listen
  <2> QED BY <1>5, <2>1, <2>2, <2>3, <2>4 DEF SendMessageTransientChannel
<1>6. CASE TerminateBegins BY <1>6 DEF TerminateBegins
<1>7. CASE Terminate
  <2>1. CASE TerminateCancels BY <2>1 DEF TerminateCancels
  <2>2. CASE TerminateTests BY <2>2 DEF TerminateTests
  <2>3. CASE TerminateUnlistens BY <2>3 DEF TerminateUnlistens
  <2>4. CASE TerminateCloses BY <2>4 DEF TerminateCloses, AskToClose
  <2>5. CASE TerminateTransients BY <2>5 DEF TerminateTransients, AskToClose
  <2> QED BY <1>7, <2>1, <2>2, <2>3, <2>4, <2>5 DEF Terminate
<1>8. CASE NetChanges BY <1>8 DEF NetChanges
<1>9. CASE UNCHANGED vars BY <1>9 DEF vars
<1> QED BY <1>1, <1>2, <1>3, <1>4, <1>5, <1>6, <1>7, <1>8, <1>9 DEF Next

LEMMA InitReconnectInv == Init => ReconnectInv
<1> SUFFICES ASSUME Init PROVE ReconnectInv
  OBVIOUS
<1>1. Types
  BY InitTypes
<1>2. OneReconnect /\ FreshIsYoung /\ CallbacksAreCurrent
  BY DEF Init, OneReconnect, FreshIsYoung, CallbacksAreCurrent, Closing, Callback, Thread, Channel
<1>3. ActiveIsOpen /\ SomebodyWrites
  BY DEF Init, ActiveIsOpen, SomebodyWrites
<1> QED BY <1>1, <1>2, <1>3 DEF ReconnectInv

LEMMA ReconnectInvHolds == Spec => []ReconnectInv
<1>1. Init => ReconnectInv
  BY InitReconnectInv
<1>2. ReconnectInv /\ Types' /\ [Next]_vars => ReconnectInv'
  BY OneReconnectStep, FreshStep, CallbackStep, ActiveStep, WriterStep DEF ReconnectInv
<1> QED BY <1>1, <1>2, TypesHold, PTL DEF Spec

\* Whatever terminate(), the senders and transient sends do meanwhile, and
\* however many channels come and go, reconnect() never finds one open (l.112).
THEOREM ReconnectFindsNoneOpenHolds == Spec => []ReconnectFindsNoneOpen
<1>1. ReconnectInv => ReconnectFindsNoneOpen
  BY DEF ReconnectInv, OneReconnect, ReconnectFindsNoneOpen
<1> QED BY <1>1, ReconnectInvHolds, PTL

\* Between them the second look at the status (l.86) and the second
\* writeBacklog() (l.180) leave no message in the backlog of an active
\* connection, also where transient sends and terminate() interfere.
THEOREM NoMessageStrandedHolds == Spec => []NoMessageStranded
<1>1. ReconnectInv => NoMessageStranded
  BY DEF ReconnectInv, SomebodyWrites, NoMessageStranded, Quiet
<1> QED BY <1>1, ReconnectInvHolds, PTL

-----------------------------------------------------------------------------
(* While nobody terminates the connection or sends on a transient channel. *)

NoneTransient == attr = FALSE /\ \A c \in Channel : isTransient[c] = FALSE

\* A handshake ends in the state it began in, every channel that closes is the
\* current one, and what the timer waits for is DISCONNECTED.
CalmLoop(c) ==
  /\ pc[c] = "hello" => channel = c /\ status = "HANDSHAKING"
  /\ pc[c] = "closed" => channel = c
  /\ c \in listening => channel = c \/ pc[c] \in Closing
  /\ pc[c] # "restore" /\ (pc[c] = "schedule" => status = "DISCONNECTED")

Calm ==
  /\ status # "TERMINATED" /\ kill = "ready"
  /\ \A c \in Channel : CalmLoop(c)
  /\ timer = "scheduled" => status = "DISCONNECTED"
  /\ failed \subseteq {197}

\* Only a transient send sets the attribute of the shared Bootstrap.
LEMMA NoneTransientStep ==
  ASSUME Transient = {}
  PROVE  Types /\ NoneTransient /\ [Next]_vars => NoneTransient'
<1> SUFFICES ASSUME Types, NoneTransient, [Next]_vars PROVE NoneTransient'
  OBVIOUS
<1> USE ChannelAssumption DEF NoneTransient, Types, ConnTypes, NettyTypes, ThreadTypes,
      LoopTypes, Thread, Channel, Goto, ChannelLabel, SenderLabel, connVars, dataVars,
      timerVars, nettyVars, threadVars, callVars, appVars
<1>1. CASE Reconnect
  <2>1. CASE ReconnectStart BY <2>1 DEF ReconnectStart, IsOpen
  <2>2. CASE ReconnectConnect BY <2>2 DEF ReconnectConnect, Open
  <2>3. CASE ReconnectAssign BY <2>3 DEF ReconnectAssign
  <2>4. CASE ReconnectListen BY <2>4 DEF ReconnectListen, Listen
  <2>5. CASE TimerFires BY <2>5 DEF TimerFires
  <2> QED BY <1>1, <2>1, <2>2, <2>3, <2>4, <2>5 DEF Reconnect
<1>2. ASSUME NEW c \in Channel, EventLoop(c) PROVE NoneTransient'
  <2>1. CASE Connected(c) BY <2>1 DEF Connected
  <2>2. CASE SetHandshaking(c) BY <2>2 DEF SetHandshaking
  <2>3. CASE HelloWritten(c) BY <2>3 DEF HelloWritten
  <2>4. CASE SetActive(c) BY <2>4 DEF SetActive
  <2>5. CASE NotifyUp(c) BY <2>5 DEF NotifyUp
  <2>6. CASE CloseChannel(c) BY <2>6 DEF CloseChannel, Free, IsOpen
  <2>7. CASE CloseIgnored(c) BY <2>7 DEF CloseIgnored, Done, IsCurrent
  <2>8. CASE CloseForgets(c) BY <2>8 DEF CloseForgets, IsCurrent
  <2>9. CASE SetDisconnected(c) BY <2>9 DEF SetDisconnected
  <2>10. CASE SwapStatus(c) BY <2>10 DEF SwapStatus
  <2>11. CASE RestoreTerminated(c) BY <2>11 DEF RestoreTerminated, Done
  <2>12. CASE ScheduleReconnect(c) BY <2>12 DEF ScheduleReconnect, Done
  <2>13. CASE RunTask(c) BY <2>13 DEF RunTask
  <2> QED BY <1>2, <2>1, <2>2, <2>3, <2>4, <2>5, <2>6, <2>7, <2>8, <2>9, <2>10, <2>11, <2>12,
        <2>13 DEF EventLoop
<1>3. ASSUME NEW t \in Persistent \cup Sender, WriteBacklog(t) PROVE NoneTransient'
  <2>1. CASE CheckActive(t) BY <2>1 DEF CheckActive, Return
  <2>2. CASE Poll(t) BY <2>2 DEF Poll, Return
  <2>3. CASE PutPolled(t) BY <2>3 DEF PutPolled
  <2> QED BY <1>3, <2>1, <2>2, <2>3 DEF WriteBacklog
<1>4. ASSUME NEW s \in Sender, SendMessage(s) PROVE NoneTransient'
  <2>1. CASE SendBegins(s) BY <2>1 DEF SendBegins
  <2>2. CASE SendWrites(s) BY <2>2 DEF SendWrites
  <2>3. CASE SendReadsAgain(s) BY <2>3 DEF SendReadsAgain
  <2>4. CASE SendAdds(s) BY <2>4 DEF SendAdds
  <2>5. CASE SendRechecks(s) BY <2>5 DEF SendRechecks
  <2>6. CASE WriteBacklog(s) BY <1>3, <2>6
  <2> QED BY <1>4, <2>1, <2>2, <2>3, <2>4, <2>5, <2>6 DEF SendMessage
<1>5. ASSUME NEW t \in Transient, SendMessageTransientChannel(t) PROVE NoneTransient'
  <2>1. CASE TransientBegins(t) BY <2>1 DEF TransientBegins
  <2>2. CASE TransientConnects(t) BY <2>2 DEF TransientConnects, Open
  <2>3. CASE TransientPuts(t) BY <2>3 DEF TransientPuts
  <2>4. CASE TransientListens(t) BY <2>4 DEF TransientListens, Listen
  <2> QED BY <1>5, <2>1, <2>2, <2>3, <2>4 DEF SendMessageTransientChannel
<1>6. CASE TerminateBegins BY <1>6 DEF TerminateBegins
<1>7. CASE Terminate
  <2>1. CASE TerminateCancels BY <2>1 DEF TerminateCancels
  <2>2. CASE TerminateTests BY <2>2 DEF TerminateTests
  <2>3. CASE TerminateUnlistens BY <2>3 DEF TerminateUnlistens
  <2>4. CASE TerminateCloses BY <2>4 DEF TerminateCloses, AskToClose
  <2>5. CASE TerminateTransients BY <2>5 DEF TerminateTransients, AskToClose
  <2> QED BY <1>7, <2>1, <2>2, <2>3, <2>4, <2>5 DEF Terminate
<1>8. CASE NetChanges BY <1>8 DEF NetChanges
<1>9. CASE UNCHANGED vars BY <1>9 DEF vars
<1> QED BY <1>1, <1>2, <1>3, <1>4, <1>5, <1>6, <1>7, <1>8, <1>9 DEF Next

\* Of the steps that store a status only those of the current channel's loop
\* do so, and a close listener's runs where there is no current channel.
LEMMA CalmStep ==
  ASSUME Transient = {}, MayTerminate = FALSE
  PROVE  Types /\ OneReconnect /\ FreshIsYoung /\ CallbacksAreCurrent /\ NoneTransient
            /\ Calm /\ [Next]_vars
           => Calm'
<1> SUFFICES ASSUME Types, OneReconnect, FreshIsYoung, CallbacksAreCurrent, NoneTransient, Calm,
      [Next]_vars PROVE Calm'
  OBVIOUS
<1> USE ChannelAssumption DEF OneReconnect, FreshIsYoung, CallbacksAreCurrent, Callback,
      Calm, CalmLoop, Closing, Types, ConnTypes, NettyTypes, ThreadTypes, LoopTypes, Thread,
      Channel, Goto, ChannelLabel, SenderLabel, connVars, dataVars, timerVars, nettyVars,
      threadVars, callVars, appVars
<1>1. CASE Reconnect
  <2>1. CASE ReconnectStart
    <3>1. ~IsOpen(channel)
      BY <2>1 DEF ReconnectStart, IsOpen
    <3>2. UNCHANGED <<status, kill, channel, pc, listening, timer, failed>>
      BY <2>1, <3>1 DEF ReconnectStart
    <3> QED BY <3>2
  <2>2. CASE ReconnectConnect BY <2>2 DEF ReconnectConnect, Open
  <2>3. CASE ReconnectAssign BY <2>3 DEF ReconnectAssign
  <2>4. CASE ReconnectListen
    <3>1. /\ fresh \in Channel /\ channel = fresh /\ listening' = listening \cup {fresh}
          /\ pc' = [pc EXCEPT ![fresh] = IF pc[fresh] = "gone" THEN "closed" ELSE pc[fresh]]
          /\ UNCHANGED <<status, kill, channel, timer, failed>>
      BY <2>4 DEF ReconnectListen, Listen
    <3>2. ASSUME NEW d \in Channel PROVE CalmLoop(d)'
      <4>1. d # fresh => pc'[d] = pc[d]
        BY <3>1
      <4>2. pc'[fresh] \in {pc[fresh], "closed"}
        BY <3>1
      <4> QED BY <3>1, <4>1, <4>2
    <3> QED BY <3>1, <3>2
  <2>5. CASE TimerFires
    <3>1. timer' = "idle" /\ UNCHANGED <<status, kill, channel, pc, listening, failed>>
      BY <2>5 DEF TimerFires
    <3> QED BY <3>1
  <2> QED BY <1>1, <2>1, <2>2, <2>3, <2>4, <2>5 DEF Reconnect
<1>2. ASSUME NEW c \in Channel, EventLoop(c) PROVE Calm'
  <2>1. CASE Connected(c)
    <3>1. /\ failed' \subseteq {197}
          /\ UNCHANGED <<status, kill, channel, listening, timer>>
      BY <2>1 DEF Connected, NoneTransient
    <3>2. \A d \in Channel : pc'[d] = pc[d] \/ pc'[d] = "connected"
      BY <2>1 DEF Connected, NoneTransient
    <3>3. ASSUME NEW d \in Channel PROVE CalmLoop(d)'
      <4>1. pc[d] \in Closing => pc'[d] = pc[d]
        BY <2>1 DEF Connected, NoneTransient
      <4> QED BY <3>1, <3>2, <4>1
    <3> QED BY <3>1, <3>3
  <2>2. CASE SetHandshaking(c) BY <2>2 DEF SetHandshaking
  <2>3. CASE HelloWritten(c)
    <3>1. UNCHANGED <<status, kill, channel, listening, timer>>
      BY <2>3 DEF HelloWritten
    <3>2. failed' \subseteq {197}
      <4>1. status = "HANDSHAKING" /\ c = channel
        BY <2>3 DEF HelloWritten
      <4> QED BY <2>3, <4>1 DEF HelloWritten
    <3>3. /\ \A d \in Channel : d # c => pc'[d] = pc[d]
          /\ pc[c] = "hello" /\ pc'[c] \in {"idle", "check"}
      BY <2>3 DEF HelloWritten
    <3>4. ASSUME NEW d \in Channel PROVE CalmLoop(d)'
      BY <3>1, <3>3
    <3> QED BY <3>1, <3>2, <3>4
  <2>4. CASE SetActive(c) BY <2>4 DEF SetActive
  <2>5. CASE NotifyUp(c) BY <2>5 DEF NotifyUp
  <2>6. CASE CloseChannel(c) BY <2>6 DEF CloseChannel, Free, IsOpen
  <2>7. CASE CloseIgnored(c) BY <2>7 DEF CloseIgnored, Done, IsCurrent, NoneTransient
  <2>8. CASE CloseForgets(c) BY <2>8 DEF CloseForgets, IsCurrent, NoneTransient
  <2>9. CASE SetDisconnected(c) BY <2>9 DEF SetDisconnected
  <2>10. CASE SwapStatus(c) BY <2>10 DEF SwapStatus
  <2>11. CASE RestoreTerminated(c) BY <2>11 DEF RestoreTerminated, Done
  <2>12. CASE ScheduleReconnect(c) BY <2>12 DEF ScheduleReconnect, Done
  <2>13. CASE RunTask(c) BY <2>13 DEF RunTask
  <2> QED BY <1>2, <2>1, <2>2, <2>3, <2>4, <2>5, <2>6, <2>7, <2>8, <2>9, <2>10, <2>11, <2>12,
        <2>13 DEF EventLoop
<1>3. ASSUME NEW t \in Persistent \cup Sender, WriteBacklog(t) PROVE Calm'
  <2>1. CASE CheckActive(t) BY <2>1 DEF CheckActive, Return
  <2>2. CASE Poll(t) BY <2>2 DEF Poll, Return
  <2>3. CASE PutPolled(t) BY <2>3 DEF PutPolled
  <2> QED BY <1>3, <2>1, <2>2, <2>3 DEF WriteBacklog
<1>4. ASSUME NEW s \in Sender, SendMessage(s) PROVE Calm'
  <2>1. CASE SendBegins(s) BY <2>1 DEF SendBegins
  <2>2. CASE SendWrites(s) BY <2>2 DEF SendWrites
  <2>3. CASE SendReadsAgain(s) BY <2>3 DEF SendReadsAgain
  <2>4. CASE SendAdds(s) BY <2>4 DEF SendAdds
  <2>5. CASE SendRechecks(s) BY <2>5 DEF SendRechecks
  <2>6. CASE WriteBacklog(s) BY <1>3, <2>6
  <2> QED BY <1>4, <2>1, <2>2, <2>3, <2>4, <2>5, <2>6 DEF SendMessage
<1>5. ASSUME NEW t \in Transient, SendMessageTransientChannel(t) PROVE Calm'
  <2>1. CASE TransientBegins(t) BY <2>1 DEF TransientBegins
  <2>2. CASE TransientConnects(t) BY <2>2 DEF TransientConnects, Open
  <2>3. CASE TransientPuts(t) BY <2>3 DEF TransientPuts
  <2>4. CASE TransientListens(t) BY <2>4 DEF TransientListens, Listen
  <2> QED BY <1>5, <2>1, <2>2, <2>3, <2>4 DEF SendMessageTransientChannel
<1>6. CASE TerminateBegins BY <1>6 DEF TerminateBegins
<1>7. CASE Terminate
  <2>1. CASE TerminateCancels BY <2>1 DEF TerminateCancels
  <2>2. CASE TerminateTests BY <2>2 DEF TerminateTests
  <2>3. CASE TerminateUnlistens BY <2>3 DEF TerminateUnlistens
  <2>4. CASE TerminateCloses BY <2>4 DEF TerminateCloses, AskToClose
  <2>5. CASE TerminateTransients BY <2>5 DEF TerminateTransients, AskToClose
  <2> QED BY <1>7, <2>1, <2>2, <2>3, <2>4, <2>5 DEF Terminate
<1>8. CASE NetChanges BY <1>8 DEF NetChanges
<1>9. CASE UNCHANGED vars BY <1>9 DEF vars
<1> QED BY <1>1, <1>2, <1>3, <1>4, <1>5, <1>6, <1>7, <1>8, <1>9 DEF Next

\* Of the class's five assertions only that of channelActiveCallback can fail:
\* a reconnect waits for the close of the last channel, a close is of the
\* current channel, the timer waits for DISCONNECTED, the end of the handshake
\* for HANDSHAKING.
THEOREM OnlyEarlyActiveFailsHolds ==
  ASSUME Transient = {}, MayTerminate = FALSE
  PROVE  Spec => []OnlyEarlyActiveFails
<1>1. Init => NoneTransient /\ Calm
  BY DEF Init, NoneTransient, Calm, CalmLoop, Channel, Thread
<1>2. ReconnectInv /\ NoneTransient /\ Calm /\ [Next]_vars => NoneTransient' /\ Calm'
  BY NoneTransientStep, CalmStep DEF ReconnectInv
<1>3. Calm => OnlyEarlyActiveFails
  BY DEF Calm, OnlyEarlyActiveFails
<1> QED BY <1>1, <1>2, <1>3, ReconnectInvHolds, PTL DEF Spec
=============================================================================
