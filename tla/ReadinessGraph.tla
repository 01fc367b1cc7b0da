---------------------------- MODULE ReadinessGraph ----------------------------
(***************************************************************************)
(* The readiness planner (atlas/readiness_graph.py), its reconciliation with *)
(* GitHub facts (atlas/readiness_github.py) and what the single-effect       *)
(* authorization requires of a plan (atlas/readiness_authorization.py), as   *)
(* operators.                                                                *)
(*                                                                           *)
(* A graph file is [wip, nodes].  Nodes are numbered in the order of their   *)
(* names; a node has the facts [status, queue], deps (a sequence, in which   *)
(* order the cycle search follows it), res, trusted (its authority state),   *)
(* gated (an owner or human gate) and priority.  res holds the node's branch *)
(* as well, the resource every node has.                                     *)
(***************************************************************************)
EXTENDS Naturals, Sequences, FiniteSets, SequencesExt

Ids(G) == DOMAIN G.nodes
Deps(G, n) == ToSet(G.nodes[n].deps)
Known(G, n) == Deps(G, n) \intersect Ids(G)

-----------------------------------------------------------------------------
(* The search for cycles, depth first along the order of the file.           *)

CycleMembers(G) ==
    LET Searches == [color : [Ids(G) -> {"new", "open", "done"}],
                     stack : Seq(Ids(G)), cyclic : SUBSET Ids(G)]
        \* Follow these dependencies in turn, and below each that is new.
        follow[deps \in Seq(Nat), s \in Searches] ==
            IF deps = <<>> THEN s
            ELSE LET d == Head(deps)
                     opened == [s EXCEPT !.color[d] = "open", !.stack = Append(@, d)]
                     next ==
                        IF d \notin Ids(G) \/ s.color[d] = "done" THEN s
                        ELSE IF s.color[d] = "new"
                        THEN [follow[G.nodes[d].deps, opened] EXCEPT
                                 !.color[d] = "done", !.stack = s.stack]
                        ELSE [s EXCEPT !.cyclic = @ \union
                                 {s.stack[i] : i \in {j \in DOMAIN s.stack :
                                    \E k \in 1..j : s.stack[k] = d}}]
                 IN  follow[Tail(deps), next]
        start == [color |-> [n \in Ids(G) |-> "new"], stack |-> <<>>, cyclic |-> {}]
    IN  follow[SetToSortSeq(Ids(G), <), start].cyclic

-----------------------------------------------------------------------------
(* The plan.                                                                 *)

Base(x) ==
    CASE ~x.trusted \/ x.gated -> "HUMAN_REQUIRED"
      [] x.trusted /\ ~x.gated /\ x.status \in {"ACTIVE", "COMPLETE"} ->
            IF x.queue = "NONE" THEN x.status ELSE "HUMAN_REQUIRED"
      [] x.trusted /\ ~x.gated /\ x.status = "PAUSED" /\ x.queue = "QUEUED" -> "READY"
      [] OTHER -> "BLOCKED"

\* Variant: the lifecycle claims of a node are believed as they are.
SettleNothing(G, st) == st
\* ACTIVE and COMPLETE are believed only of nodes all of whose dependencies are
\* COMPLETE.  Nodes only ever become HUMAN_REQUIRED, so that the order in which
\* the code visits them does not matter.
Settle(G, st) ==
    LET Doubtful(x) == {n \in Ids(G) : /\ G.nodes[n].status \in {"ACTIVE", "COMPLETE"}
                                       /\ x[n] # "HUMAN_REQUIRED"
                                       /\ \E d \in Known(G, n) : x[d] # "COMPLETE"}
        settle[x \in [Ids(G) -> STRING]] ==
            IF Doubtful(x) = {} THEN x
            ELSE settle[[n \in Ids(G) |->
                            IF n \in Doubtful(x) THEN "HUMAN_REQUIRED" ELSE x[n]]]
    IN  settle[st]

ActiveNodes(G) == {n \in Ids(G) : G.nodes[n].status = "ACTIVE"}
Rivals(G, n) ==
    {m \in ActiveNodes(G) \ {n} : G.nodes[n].res \intersect G.nodes[m].res # {}}

\* Candidates come by priority, then by name.
InOrder(G, S) ==
    LET Before(m, n) ==
            \/ G.nodes[m].priority < G.nodes[n].priority
            \/ G.nodes[m].priority = G.nodes[n].priority /\ m < n
    IN  SetToSortSeq(S, Before)

\* One candidate of the selection: it must not use what is in use, and a slot
\* must be free.
Pick(G, s, n, slots) ==
    IF G.nodes[n].res \intersect s.taken = {} /\ Cardinality(s.picked) < slots
    THEN [picked |-> s.picked \union {n}, taken |-> s.taken \union G.nodes[n].res]
    ELSE s

Plan(G) ==
    LET cycles == CycleMembers(G)
        marked == {n \in Ids(G) : Known(G, n) # Deps(G, n) \/ n \in cycles}
        settled == Settle(G, [n \in Ids(G) |-> IF n \in marked THEN "HUMAN_REQUIRED"
                                               ELSE Base(G.nodes[n])])
        active == ActiveNodes(G)
        clashing == {n \in active : Rivals(G, n) # {}}
        st == [n \in Ids(G) |->
                 IF n \in clashing THEN "HUMAN_REQUIRED" ELSE settled[n]]
        unsafe == \/ cycles # {} \/ clashing # {} \/ Cardinality(active) > G.wip
                  \/ \E n \in Ids(G) : ~G.nodes[n].trusted
                                       \/ Known(G, n) # Deps(G, n)
                  \/ \E n \in active : st[n] = "HUMAN_REQUIRED"
        slots == IF unsafe \/ Cardinality(active) > G.wip THEN 0
                 ELSE G.wip - Cardinality(active)
        ready == {n \in Ids(G) : /\ st[n] = "READY" /\ ~unsafe
                                 /\ \A d \in Known(G, n) : st[d] = "COMPLETE"
                                 /\ Rivals(G, n) = {}}
        picked == FoldLeft(LAMBDA s, n : Pick(G, s, n, slots),
                           [picked |-> {},
                            taken |-> UNION {G.nodes[n].res : n \in active}],
                           InOrder(G, ready)).picked
    IN  [safe |-> ~unsafe, wip |-> G.wip, slots |-> slots,
         active |-> Cardinality(active), selected |-> picked,
         readiness |-> [n \in Ids(G) |->
            IF st[n] = "READY" /\ n \notin picked THEN "BLOCKED" ELSE st[n]]]

-----------------------------------------------------------------------------
(* What authorize_single_effect makes of a plan.                             *)

\* _validate_stable_plan.
Consistent(p) ==
    LET active == Cardinality({n \in DOMAIN p.readiness : p.readiness[n] = "ACTIVE"})
    IN  /\ p.selected = {n \in DOMAIN p.readiness : p.readiness[n] = "READY"}
        /\ p.safe => p.active = active
        /\ p.slots = IF p.safe /\ active < p.wip THEN p.wip - active ELSE 0
        /\ Cardinality(p.selected) <= p.slots

Allows(p) == Consistent(p) /\ p.wip = 1 /\ p.safe /\ Cardinality(p.selected) = 1

\* A node that no longer is what its file says is not trusted.
Reconcile(G, facts) ==
    [G EXCEPT !.nodes = [n \in Ids(G) |-> [G.nodes[n] EXCEPT !.trusted =
       @ /\ facts[n] = [status |-> G.nodes[n].status, queue |-> G.nodes[n].queue]]]]
===============================================================================
