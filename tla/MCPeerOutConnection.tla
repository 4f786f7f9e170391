------------------------ MODULE MCPeerOutConnection ------------------------
(* Instances of PeerOutConnection for TLC. *)
EXTENDS PeerOutConnection

CONSTANTS c1, c2, none, s1, s2, t1

OneChannel   == {c1}
TwoChannels  == {c1, c2}
NoTransient  == {}
OneTransient == {t1}
NoSender     == {}
OneSender    == {s1}
TwoSenders   == {s1, s2}
=============================================================================
