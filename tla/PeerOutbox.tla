----------------------------- MODULE PeerOutbox -----------------------------
(***************************************************************************)
(* What PeerOutConnection promises the callers of sendMessage(), without   *)
(* its connections, threads, handshakes and timers: a message is taken     *)
(* once; what waits for a connection waits in the order it was queued and  *)
(* is dropped by nobody; only what was handed to a channel, or was refused *)
(* to begin with, may be lost; and nothing is written twice.               *)
(***************************************************************************)
EXTENDS Sequences

CONSTANT Message

VARIABLES
  accepted,  \* the messages sendMessage() was called with
  taken,     \* of those, the ones a caller still holds
  queue,     \* the ones that wait for a connection, first to last
  leaving,   \* the ones handed to a channel and not yet written
  wire       \* the ones written, first to last

outbox == <<accepted, taken, queue, leaving, wire>>

OutboxInit ==
  accepted = {} /\ taken = {} /\ queue = <<>> /\ leaving = {} /\ wire = <<>>

Accept(m) ==
  /\ m \notin accepted
  /\ accepted' = accepted \cup {m} /\ taken' = taken \cup {m}
  /\ UNCHANGED <<queue, leaving, wire>>

\* The connection is not active: the message waits.
Enqueue(m) ==
  /\ m \in taken
  /\ taken' = taken \ {m} /\ queue' = Append(queue, m)
  /\ UNCHANGED <<accepted, leaving, wire>>

\* The connection is active: the message overtakes those that wait.
HandOver(m) ==
  /\ m \in taken
  /\ taken' = taken \ {m} /\ leaving' = leaving \cup {m}
  /\ UNCHANGED <<accepted, queue, wire>>

\* The peer was removed, or its channel has just been closed.
Refuse(m) ==
  /\ m \in taken
  /\ taken' = taken \ {m}
  /\ UNCHANGED <<accepted, queue, leaving, wire>>

Dequeue ==
  /\ queue # <<>>
  /\ queue' = Tail(queue) /\ leaving' = leaving \cup {Head(queue)}
  /\ UNCHANGED <<accepted, taken, wire>>

WriteOut(m) ==
  /\ m \in leaving
  /\ leaving' = leaving \ {m} /\ wire' = Append(wire, m)
  /\ UNCHANGED <<accepted, taken, queue>>

\* A channel fails with all it had not written.
Drop(S) ==
  /\ S \subseteq leaving
  /\ leaving' = leaving \ S
  /\ UNCHANGED <<accepted, taken, queue, wire>>

OutboxNext ==
  \/ \E m \in Message :
       Accept(m) \/ Enqueue(m) \/ HandOver(m) \/ Refuse(m) \/ WriteOut(m)
  \/ Dequeue
  \/ \E S \in SUBSET Message : Drop(S)

OutboxSpec == OutboxInit /\ [][OutboxNext]_outbox
=============================================================================
