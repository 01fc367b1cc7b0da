-------------------------- MODULE MCWorkController --------------------------
(* Small instances of WorkController for TLC. *)
EXTENDS WorkController

CONSTANTS h1, h2, wa, wb

Event(id, ws, issue, attempt, head) ==
    [id |-> id, ws |-> ws, issue |-> issue, attempt |-> attempt, head |-> head]

\* One workstream: a first completion, its rework round, and the successor's.
RoundEvents == {Event(1, wa, 1, 1, h1), Event(2, wa, 1, 2, h2),
                Event(3, wa, 2, 1, h1)}

\* One good completion.
OneEvent == {Event(1, wa, 1, 1, h1)}

\* The store before any registration, and with a registration done.
Unregistered == {None}
Registered == {NewRecord(1, h1)}

\* A record of a release that still dispatched Cursor sessions.
Old(state, attempt, pending) ==
    [NewRecord(1, h1) EXCEPT !.state = state, !.attempt = attempt,
                             !.pending = pending]

FoundRecords ==
    Unregistered
       \union {Old("REWORK_DISPATCHED", 2, None),
               Old("SUCCESSOR_DISPATCHED", 0, None)}
       \union {Old(s, 0, Event(1, wa, 1, 1, h1)) : s \in Historical}
=============================================================================
