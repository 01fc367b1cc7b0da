----------------------------- MODULE MCWatchHost -----------------------------
(* The watch host on a packet with a failing pull request on one head, that is *)
(* blocked there, and whose worktree is dirty on another head.                *)
EXTENDS WatchHost

Body(status) == [status |-> status, ambiguous |-> FALSE, audit |-> "UNKNOWN", ready |-> TRUE]
Failing == [head |-> "h1", pr |-> TRUE, ci |-> "FAIL", dirty |-> Nothing,
            resource |-> "PASS", admission |-> "ALLOW"]
Dirty == [Failing EXCEPT !.head = "h2", !.pr = FALSE, !.ci = "PENDING", !.dirty = TRUE]
MCScenes ==
    {[issue |-> Body("ACTIVE"), tree |-> Failing],
     [issue |-> Body("BLOCKED"), tree |-> Failing],
     [issue |-> Body("ACTIVE"), tree |-> Dirty]}
=============================================================================
