-------------------------- MODULE MCExactHeadAudit --------------------------
(* A small instance of ExactHeadAudit for TLC. *)
EXTENDS ExactHeadAudit, TLC

\* Two HEADs of packet 1, and one of packet 2, which waits.
IssueOfHead == <<1, 1, 2>>
Packet(active, head) == [active |-> active, head |-> head, handoff |-> None]
Queue == <<Packet(TRUE, 1), Packet(FALSE, 3)>>
=============================================================================
