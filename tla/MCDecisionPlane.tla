---------------------------- MODULE MCDecisionPlane ----------------------------
(* A small instance of DecisionPlane for TLC. *)
EXTENDS DecisionPlane

CONSTANTS p1, p2, m1, m2

CHECKS == "FOCUSED_CHECK_SELECTION"

MCActivations ==
    {[id |-> id, class |-> CHECKS, scope |-> "in"] : id \in {"a1", "a2"}}
MCRequests ==
    {[id |-> id, class |-> CHECKS, scope |-> "in", max |-> 1, live |-> TRUE] :
       id \in {"r1", "r2"}}
\* A replay the model wins, and one it loses: with both the routing is false.
Replay(id, class, model) ==
    [id |-> id, class |-> class, counts |-> TRUE, current |-> TRUE,
     model |-> model, delta |-> -1, retry |-> 0]
MCObservations == {Replay("o1", CHECKS, TRUE), Replay("o2", CHECKS, FALSE)}
MCOutcomes == {[base |-> TRUE, active |-> FALSE, saved |-> TRUE],
               [base |-> FALSE, active |-> TRUE, saved |-> TRUE]}
===============================================================================
