---------------------- MODULE PeerOutConnection_proofs ----------------------
(***************************************************************************)
(* Theorems of PeerOutConnection.  NoReconnectOnceRemoved needs one fact:  *)
(* from reconnectTimer.cancel() on, the timer has no task that could fire. *)
(***************************************************************************)
EXTENDS PeerOutConnection, TLAPS

TimerOff ==
  kill \in {"test", "unlisten", "close", "transients", "thrown", "done"}
  => timer \in {"cancelled", "dead"}

\* Nothing but the timer itself starts a reconnect, and nothing but
\* operationComplete, which a cancelled timer refuses, schedules one.
LEMMA TimerOffStep ==
  TimerOff /\ [Next]_vars => TimerOff' /\ (kill = "done" /\ rc = "idle" => rc' = "idle")
<1> SUFFICES ASSUME TimerOff, [Next]_vars
             PROVE  TimerOff' /\ (kill = "done" /\ rc = "idle" => rc' = "idle")
  OBVIOUS
<1> USE DEF TimerOff, appVars
<1>1. CASE Reconnect
  <2>1. CASE ReconnectStart BY <2>1 DEF ReconnectStart
  <2>2. CASE ReconnectConnect BY <2>2 DEF ReconnectConnect
  <2>3. CASE ReconnectAssign BY <2>3 DEF ReconnectAssign
  <2>4. CASE ReconnectListen BY <2>4 DEF ReconnectListen
  <2>5. CASE TimerFires BY <2>5 DEF TimerFires
  <2> QED BY <1>1, <2>1, <2>2, <2>3, <2>4, <2>5 DEF Reconnect
<1>2. ASSUME NEW c \in Channel, EventLoop(c) PROVE TimerOff' /\ rc' = rc
  <2> USE DEF timerVars
  <2>1. CASE Connected(c) BY <2>1 DEF Connected
  <2>2. CASE SetHandshaking(c) BY <2>2 DEF SetHandshaking
  <2>3. CASE HelloWritten(c) BY <2>3 DEF HelloWritten
  <2>4. CASE SetActive(c) BY <2>4 DEF SetActive
  <2>5. CASE NotifyUp(c) BY <2>5 DEF NotifyUp
  <2>6. CASE CloseChannel(c) BY <2>6 DEF CloseChannel
  <2>7. CASE CloseIgnored(c) BY <2>7 DEF CloseIgnored
  <2>8. CASE CloseForgets(c) BY <2>8 DEF CloseForgets
  <2>9. CASE SetDisconnected(c) BY <2>9 DEF SetDisconnected
  <2>10. CASE SwapStatus(c) BY <2>10 DEF SwapStatus
  <2>11. CASE RestoreTerminated(c) BY <2>11 DEF RestoreTerminated
  <2>12. CASE ScheduleReconnect(c) BY <2>12 DEF ScheduleReconnect
  <2>13. CASE RunTask(c) BY <2>13 DEF RunTask
  <2> QED BY <1>2, <2>1, <2>2, <2>3, <2>4, <2>5, <2>6, <2>7, <2>8, <2>9, <2>10, <2>11,
             <2>12, <2>13 DEF EventLoop
<1>3. ASSUME NEW t, WriteBacklog(t) PROVE TimerOff' /\ rc' = rc
  BY <1>3 DEF WriteBacklog, CheckActive, Poll, PutPolled, timerVars
<1>4. ASSUME NEW s \in Sender, SendMessage(s) PROVE TimerOff' /\ rc' = rc
  BY <1>3, <1>4 DEF SendMessage, SendBegins, SendWrites, SendReadsAgain, SendAdds, SendRechecks,
              timerVars
<1>5. ASSUME NEW t \in Transient, SendMessageTransientChannel(t) PROVE TimerOff' /\ rc' = rc
  BY <1>5 DEF SendMessageTransientChannel, TransientBegins, TransientConnects, TransientPuts,
              TransientListens, timerVars
<1>6. CASE TerminateBegins BY <1>6 DEF TerminateBegins, timerVars
<1>7. CASE Terminate
  <2>1. CASE TerminateCancels BY <2>1 DEF TerminateCancels
  <2>2. CASE TerminateTests BY <2>2 DEF TerminateTests, timerVars
  <2>3. CASE TerminateUnlistens BY <2>3 DEF TerminateUnlistens, timerVars
  <2>4. CASE TerminateCloses BY <2>4 DEF TerminateCloses, timerVars
  <2>5. CASE TerminateTransients BY <2>5 DEF TerminateTransients, timerVars
  <2> QED BY <1>7, <2>1, <2>2, <2>3, <2>4, <2>5 DEF Terminate
<1>8. CASE NetChanges BY <1>8 DEF NetChanges, timerVars
<1>9. CASE UNCHANGED vars BY <1>9 DEF vars, timerVars
<1> QED BY <1>1, <1>2, <1>3, <1>4, <1>5, <1>6, <1>7, <1>8, <1>9 DEF Next

\* Once removePeer has returned, no reconnect begins.
THEOREM NoReconnectOnceRemovedHolds == Spec => NoReconnectOnceRemoved
<1>1. Init => TimerOff BY DEF Init, TimerOff
<1>2. TimerOff /\ [Next]_vars => TimerOff' BY TimerOffStep
<1>3. TimerOff /\ [Next]_vars => [kill = "done" /\ rc = "idle" => rc' = "idle"]_vars
  BY TimerOffStep
<1> QED BY <1>1, <1>2, <1>3, PTL DEF Spec, NoReconnectOnceRemoved
=============================================================================
