--------------------------- MODULE MCHandoffClaims ---------------------------
(* A small instance of HandoffClaims for TLC. *)
EXTENDS HandoffClaims, TLC

CONSTANTS r1, r2

Packet(status, queued) == [status |-> status, queued |-> queued, text |-> 0]
Queue == Packet("PAUSED", TRUE)

\* Packet 1 waits for packet 2, which is ACTIVE beside packet 3.
Found == <<Queue, Packet("ACTIVE", FALSE), Queue>>
Repos == <<r1, r2, r2>>
Limits == (r1 :> 1) @@ (r2 :> 2)
Predecessors == <<2, None, None>>

PlanA == [at |-> 1, wip |-> 3, active |-> {2}, picked |-> {1, 3}]
Plans == {PlanA}

Call(k, s) == [cycle |-> k, auth |-> [id |-> k, plan |-> s], effect |-> k]
One == {Call(1, PlanA)}
Symmetry == Permutations(Claimers) \union Permutations(Ids)
==============================================================================
