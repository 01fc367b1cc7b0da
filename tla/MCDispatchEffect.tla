--------------------------- MODULE MCDispatchEffect ---------------------------
(* Small instances of DispatchEffect for TLC. *)
EXTENDS DispatchEffect, TLC

CONSTANTS r1

Packet(status, queued) == [status |-> status, queued |-> queued, text |-> 0]
Queue == Packet("PAUSED", TRUE)
AllQueued == [i \in Issues |-> Queue]

\* One repository, where two packets may be ACTIVE.
OneRepository == [i \in Issues |-> r1]
TwoActive == [r \in {r1} |-> 2]
NoPredecessors == [i \in Issues |-> None]

\* Two plans that both fit it, but not together.
PlanA == [at |-> 1, wip |-> 3, active |-> {}, picked |-> {1, 2}]
PlanB == [at |-> 2, wip |-> 3, active |-> {}, picked |-> {2, 3}]
Plans == {PlanA, PlanB}

Call(k, s) == [cycle |-> k, auth |-> [id |-> k, plan |-> s], effect |-> k]
Rivals == {Call(1, PlanA), Call(2, PlanB), Call(3, PlanA)}
Symmetry == Permutations(Procs)
===============================================================================
