-------------------------- MODULE CompletionLedger --------------------------
(***************************************************************************)
(* What the Work Controller promises about completion events: a workstream *)
(* has at most one open event, decides it once, and is closed for good by  *)
(* a terminal decision.                                                    *)
(***************************************************************************)
CONSTANTS Workstreams, Events, None

VARIABLES
    open,       \* the accepted event that awaits its decision, or None
    decided,    \* ids of the decided events
    stage       \* absent, live or closed

vars == <<open, decided, stage>>

EventIds == {e.id : e \in Events}

Init ==
    /\ open \in [Workstreams -> Events \union {None}]
    /\ decided \in [Workstreams -> SUBSET EventIds]
    /\ stage \in [Workstreams -> {"absent", "live", "closed"}]
    /\ \A ws \in Workstreams :
          open[ws] # None => stage[ws] = "live" /\ open[ws].id \notin decided[ws]

Register(ws) ==
    /\ stage[ws] = "absent"
    /\ stage' = [stage EXCEPT ![ws] = "live"]
    /\ UNCHANGED <<open, decided>>

Accept(ws, e) ==
    /\ stage[ws] = "live"
    /\ open[ws] = None
    /\ e.id \notin decided[ws]
    /\ open' = [open EXCEPT ![ws] = e]
    /\ UNCHANGED <<decided, stage>>

Decide(ws) ==
    /\ stage[ws] = "live"
    /\ open[ws] # None
    /\ open' = [open EXCEPT ![ws] = None]
    /\ decided' = [decided EXCEPT ![ws] = @ \union {open[ws].id}]
    /\ \E s \in {"live", "closed"} : stage' = [stage EXCEPT ![ws] = s]

Next ==
    \E ws \in Workstreams :
        Register(ws) \/ Decide(ws) \/ \E e \in Events : Accept(ws, e)

Spec == Init /\ [][Next]_vars
=============================================================================
