----------------------------- MODULE MCPassCycle -----------------------------
(* A small instance of PassCycle for TLC. *)
EXTENDS PassCycle, Sequences

CONSTANTS wa, wb, ba, bb

\* Two transitions compete for packet 1, a third hands over packet 2.
First == [issue |-> 1, event |-> 1]
Chain == {First, [issue |-> 1, event |-> 2], [issue |-> 2, event |-> 3]}

Packet(status, after) ==
    [open |-> TRUE, status |-> status, queued |-> after # None,
     after |-> after, transition |-> None, next |-> None, prev |-> None,
     text |-> 0]
Active == Packet("ACTIVE", None)
Paused == Packet("PAUSED", None)
Queued(i) == Packet("PAUSED", i)

\* A loop of three packets: packet 4 shares its workstream, packet 5 its branch, and
\* packet 6, by an author who is not trusted, both.
Loops == <<wa, wa, wa, wa, wb, wa>>
Branches == <<ba, ba, ba, bb, ba, ba>>
Chained(a, b, c) == <<Active, Queued(1), Queued(2), a, b, c>>
Neighbours ==
    {Chained(Paused, Paused, Active), Chained(Active, Paused, Queued(2)),
     Chained(Paused, Active, Paused), Chained(Queued(1), Paused, Paused)}
==============================================================================
