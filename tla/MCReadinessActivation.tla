------------------------- MODULE MCReadinessActivation -------------------------
(* A small instance of ReadinessActivation for TLC. *)
EXTENDS ReadinessActivation

CONSTANTS c1, c2
Symmetry == Permutations({c1, c2})

Node(facts, deps, res) ==
    [status |-> facts[1], queue |-> facts[2], deps |-> deps, res |-> res,
     trusted |-> TRUE, gated |-> FALSE, priority |-> 0, repo |-> "ra"]
Q == <<"PAUSED", "QUEUED">>
C == <<"COMPLETE", "NONE">>
A == <<"ACTIVE", "NONE">>

\* Two files that select one packet each, after the packet 1.
After(n) == [wip |-> 1, nodes |->
               [m \in {1, n} |-> IF m = 1 THEN Node(C, <<>>, {"b1"})
                                 ELSE Node(Q, <<1>>, {"b2"})]]
MCFiles == {After(2), After(3)}
MCEdits == {Queued, Active, Complete}

\* Three nodes, the third in another repository.
Graph(wip, kinds, deps) ==
    [wip |-> wip, nodes |-> [n \in 1..3 |->
        [Node(kinds[n].facts, deps[n], kinds[n].res) EXCEPT
            !.trusted = kinds[n].trusted, !.gated = kinds[n].gated,
            !.priority = kinds[n].priority, !.repo = IF n = 3 THEN "rb" ELSE "ra"]]]
Kind(facts, res) == [facts |-> facts, res |-> res, trusted |-> TRUE, gated |-> FALSE,
                     priority |-> 0]

\* Every shape of dependencies between queued nodes, those of the first in every
\* order.
Rising == {SetToSortSeq(S, <) : S \in SUBSET {1, 2, 3}}
Orders == UNION {SetToSeqs(S) : S \in SUBSET {1, 2, 3}}
Shapes == {Graph(2, [n \in 1..3 |-> Kind(Q, {})], <<d, e, f>>) :
             d \in Orders, e \in Rising, f \in Rising}

\* Nodes in many states, along some acyclic shapes; 4 is no node.
Kinds == {Kind(Q, {"r"}), Kind(Q, {}), [Kind(Q, {"r"}) EXCEPT !.priority = 1],
          Kind(C, {}), [Kind(C, {}) EXCEPT !.trusted = FALSE],
          Kind(A, {"r"}), [Kind(A, {}) EXCEPT !.gated = TRUE]}
Alone3 == <<<<>>, <<>>, <<>>>>
Trees == {<<<<4>>, <<1>>, <<2>>>>, <<<<>>, <<1>>, <<1, 2>>>>, <<<<>>, <<>>, <<1>>>>}
Mixed(wip, trees) == {Graph(wip, k, t) : k \in [1..3 -> Kinds], t \in trees}

Slot(state, gates, age) == [state |-> state, gates |-> gates, age |-> age]
Good == Slot("AVAILABLE", {"ALLOW"}, 0)
Some == <<Slot("BUSY", {"ALLOW"}, 0), Slot("AVAILABLE", {"ALLOW", "DENY"}, 0), Good,
          Slot("AVAILABLE", {"ALLOW"}, -1), Slot("AVAILABLE", {"ALLOW"}, 2), Good>>
Snapshot(G, parallel, limit, slots) ==
    [graph |-> G, parallel |-> parallel, limits |-> [r \in {"ra", "rb"} |-> limit],
     maxAge |-> 1, slots |-> slots]
MCDrafts ==
    {Snapshot(G, 3, 3, <<Good, Good, Good>>) : G \in Shapes \union Mixed(2, Trees)}
       \union {Snapshot(G, p[1], p[2], p[3]) : G \in Mixed(3, {Alone3}),
                p \in {<<1, 2, Some>>, <<3, 1, Some>>, <<3, 2, Some>>}}
===============================================================================
