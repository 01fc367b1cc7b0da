------------------------------- MODULE Admission -------------------------------
(***************************************************************************)
(* The concurrency planner (atlas/concurrency_admission.py): which of the    *)
(* nodes that the readiness planner selects are admitted, and to which slots. *)
(*                                                                           *)
(* A snapshot is [graph, parallel, limits, maxAge, slots]: limits gives each  *)
(* repository its max_wip, slots is a sequence in the order of the slots'     *)
(* names, of [state, gates, age], where gates is the set of the gates' states *)
(* and age how much older than the snapshot the evidence is (below 0: it is   *)
(* of the future).  Nodes also have a repo.                                   *)
(***************************************************************************)
EXTENDS ReadinessGraph, Integers

\* _slot_reasons gives none.
Assignable(S, slot) ==
    slot.state = "AVAILABLE" /\ slot.gates = {"ALLOW"} /\ slot.age \in 0..S.maxAge

ActiveIn(G, repo) == Cardinality({n \in ActiveNodes(G) : G.nodes[n].repo = repo})
AdmittedIn(G, admitted, repo) ==
    Cardinality({i \in DOMAIN admitted : G.nodes[admitted[i].node].repo = repo})

\* Variant: what is running already is not counted.
RoomIgnoringActive(S, admitted, repo) ==
    AdmittedIn(S.graph, admitted, repo) < S.limits[repo]
\* The limit of a repository leaves room for one more.
Room(S, admitted, repo) ==
    ActiveIn(S.graph, repo) + AdmittedIn(S.graph, admitted, repo) < S.limits[repo]

\* The selected nodes in the order of the plan, each with the next free slot when
\* no limit is reached.
AdmissionPlan(S) ==
    LET free == SelectSeq([i \in DOMAIN S.slots |-> i],
                          LAMBDA i : Assignable(S, S.slots[i]))
        Admit(done, n) ==
            IF /\ Len(done) < S.parallel /\ Len(done) < Len(free)
               /\ Room(S, done, S.graph.nodes[n].repo)
            THEN Append(done, [node |-> n, slot |-> free[Len(done) + 1]])
            ELSE done
    IN  FoldLeft(Admit, <<>>, InOrder(S.graph, Plan(S.graph).selected))
===============================================================================
