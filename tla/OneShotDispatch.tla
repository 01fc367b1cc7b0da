--------------------------- MODULE OneShotDispatch ---------------------------
(***************************************************************************)
(* What the concurrency pipeline promises of an admission plan: it is       *)
(* reserved once, then armed, each of its nodes is handed over at most      *)
(* once, the receipt is sealed, and what it says was dispatched, and        *)
(* nothing else, is claimed, by one session.                                *)
(***************************************************************************)
CONSTANTS Plans   \* admission plans: records with the nodes they have picked

VARIABLES
    stage,        \* per plan: "none", "reserved", "armed", "sealed"
    node,         \* per plan and node: "open", "handed", "claimed"
    dispatched    \* per plan: the nodes its receipt calls dispatched

vars == <<stage, node, dispatched>>

Advance(p, from, to) == stage[p] = from /\ stage' = [stage EXCEPT ![p] = to]

Reserve(p) == Advance(p, "none", "reserved") /\ UNCHANGED <<node, dispatched>>

Arm(p) == Advance(p, "reserved", "armed") /\ UNCHANGED <<node, dispatched>>

Hand(p, n) ==
    /\ stage[p] = "armed"
    /\ node[p][n] = "open"
    /\ node' = [node EXCEPT ![p][n] = "handed"]
    /\ UNCHANGED <<stage, dispatched>>

Seal(p) ==
    /\ Advance(p, "armed", "sealed")
    /\ \E D \in SUBSET {n \in p.picked : node[p][n] = "handed"} :
          dispatched' = [dispatched EXCEPT ![p] = D]
    /\ UNCHANGED node

Claim(p, n) ==
    /\ stage[p] = "sealed"
    /\ n \in dispatched[p]
    /\ node[p][n] = "handed"
    /\ node' = [node EXCEPT ![p][n] = "claimed"]
    /\ UNCHANGED <<stage, dispatched>>

Init ==
    /\ stage = [p \in Plans |-> "none"]
    /\ node = [p \in Plans |-> [n \in p.picked |-> "open"]]
    /\ dispatched = [p \in Plans |-> {}]

Next ==
    \E p \in Plans :
        \/ Reserve(p) \/ Arm(p) \/ Seal(p)
        \/ \E n \in p.picked : Hand(p, n) \/ Claim(p, n)

Spec == Init /\ [][Next]_vars
=============================================================================
