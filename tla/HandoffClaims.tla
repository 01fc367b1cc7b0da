---------------------------- MODULE HandoffClaims ----------------------------
(***************************************************************************)
(* The second half of the concurrency pipeline, composed with the first:    *)
(* sessions claim the handoffs of an effect (atlas/concurrency_claim.py),   *)
(* the outcomes are joined (concurrency_join.py) and bound to the claims    *)
(* (concurrency_claim_join.py).                                             *)
(*                                                                          *)
(* A claim reads its sources three times, around two locked sections; a     *)
(* join reads only TERMINAL records, which do not change, and is one step.  *)
(***************************************************************************)
EXTENDS DispatchEffect

CONSTANTS
    Claimers,   \* sessions that claim
    Ids         \* claim, join and claim join ids

Outcomes == {"COMPLETE", "FAILED", "HUMAN_REQUIRED"}

VARIABLES
    claims,       \* claim ledger
    joins,        \* dispatch join ledger
    claimJoins,   \* claim-bound join ledger
    claimPc,      \* where each claimer stands
    claiming,     \* the claim it works for
    acknowledged  \* claims that were answered CLAIMED

claimVars == <<claims, joins, claimJoins, claimPc, claiming, acknowledged>>
vars == <<effectVars, claimVars>>

-----------------------------------------------------------------------------
(* claim_concurrency_handoff *)

\* _validate_source_effect
EffectDispatched(h) ==
    \E r \in effects :
        /\ r.effect = h.effect
        /\ r.auth = h.auth
        /\ r.state = "TERMINAL"
        /\ r.receipt[h.node] = "DISPATCHED"


\* _revalidate_sources: the handoff, its effect, and the packet.
Sources(h) ==
    /\ h \in handoffs
    /\ EffectDispatched(h)
    /\ gh[h.node].status = "ACTIVE"
    /\ ~gh[h.node].queued

ClaimOf(k, h, state) == [claim |-> k, handoff |-> h, state |-> state]

ClaimGoto(q, from, to) ==
    claimPc[q] = from /\ claimPc' = [claimPc EXCEPT ![q] = to]

Claimed(q, state) == ClaimOf(claiming[q].claim, claiming[q].handoff, state)

StartClaim(q, k, h) ==
    /\ ClaimGoto(q, "idle", "reserve")
    /\ Sources(h)
    /\ claiming' = [claiming EXCEPT ![q] = [claim |-> k, handoff |-> h]]
    /\ UNCHANGED <<claims, joins, claimJoins, acknowledged>>

\* Variant: a handoff may be claimed again under another id.
ReserveClaim_AnyHandoff(q) ==
    /\ ClaimGoto(q, "reserve", "recheck")
    /\ \A c \in claims : c.claim # claiming[q].claim
    /\ claims' = claims \union {Claimed(q, "IN_PROGRESS")}
    /\ UNCHANGED <<joins, claimJoins, claiming, acknowledged>>

\* _reserve_claim
ReserveClaim(q) ==
    /\ ClaimGoto(q, "reserve", "recheck")
    /\ \A c \in claims :
          /\ c.claim # claiming[q].claim
          /\ c.handoff # claiming[q].handoff
    /\ claims' = claims \union {Claimed(q, "IN_PROGRESS")}
    /\ UNCHANGED <<joins, claimJoins, claiming, acknowledged>>

RecheckClaim(q) ==
    /\ ClaimGoto(q, "recheck", "finalize")
    /\ Sources(claiming[q].handoff)
    /\ UNCHANGED <<claims, joins, claimJoins, claiming, acknowledged>>

\* _finalize_claim
FinalizeClaim(q) ==
    /\ ClaimGoto(q, "finalize", "acknowledge")
    /\ Claimed(q, "IN_PROGRESS") \in claims
    /\ claims' = Replace(claims, Claimed(q, "IN_PROGRESS"),
                         Claimed(q, "TERMINAL"))
    /\ UNCHANGED <<joins, claimJoins, claiming, acknowledged>>

\* The caller is told CLAIMED if the sources still hold.
Acknowledge(q) ==
    /\ ClaimGoto(q, "acknowledge", "idle")
    /\ Sources(claiming[q].handoff)
    /\ acknowledged' = acknowledged \union {claiming[q]}
    /\ claiming' = [claiming EXCEPT ![q] = None]
    /\ UNCHANGED <<claims, joins, claimJoins>>

\* A check fails or the claimer dies.  What was reserved stays.
Abandon(q) ==
    /\ claimPc[q] # "idle"
    /\ claimPc' = [claimPc EXCEPT ![q] = "idle"]
    /\ claiming' = [claiming EXCEPT ![q] = None]
    /\ UNCHANGED <<claims, joins, claimJoins, acknowledged>>

-----------------------------------------------------------------------------
(* Joins *)

Dispatched(r) == {n \in DOMAIN r.receipt : r.receipt[n] = "DISPATCHED"}

JoinResult(outcomes) ==
    LET Nodes(o) == {n \in DOMAIN outcomes : outcomes[n] = o} IN
    IF Nodes("HUMAN_REQUIRED") # {} THEN "HUMAN_REQUIRED"
    ELSE IF Nodes("COMPLETE") = DOMAIN outcomes THEN "PASS"
    ELSE IF Nodes("COMPLETE") # {} THEN "PARTIAL"
    ELSE "FAILED"

\* record_concurrency_dispatch_join: one outcome per dispatched node of an
\* effect that dispatched some and needs no human.
Join(k, r, outcomes) ==
    /\ r.state = "TERMINAL"
    /\ Aggregate(r.receipt) \in {"DISPATCHED", "PARTIAL"}
    /\ \A j \in joins : j.join # k /\ j.source # r
    /\ joins' = joins \union {[join |-> k, source |-> r, outcomes |-> outcomes]}
    /\ UNCHANGED <<claims, claimJoins, claimPc, claiming, acknowledged>>

\* record_concurrency_claim_bindingsjoin: one TERMINAL claim per outcome, of the
\* join's own effect, and none that another claim join used.
JoinClaims(k, j, bindings) ==
    /\ \A n \in DOMAIN j.outcomes :
          /\ bindings[n].state = "TERMINAL"
          /\ bindings[n].handoff.effect = j.source.effect
          /\ bindings[n].handoff.auth = j.source.auth
          /\ bindings[n].handoff.node = n
    /\ \A c \in claimJoins : c.id # k /\ c.join # j
    /\ \A c \in claimJoins, n \in DOMAIN j.outcomes :
          \A m \in DOMAIN c.claims : c.claims[m] # bindings[n]
    /\ claimJoins' = claimJoins
          \union {[id |-> k, join |-> j, claims |-> bindings]}
    /\ UNCHANGED <<claims, joins, claimPc, claiming, acknowledged>>

\* Variant: the nodes that were not dispatched are forgotten.
Stage_JoinOnly(x) ==
    LET Of == {j \in joins : j.source.effect = x.effect} IN
    IF x.state = "IN_PROGRESS" THEN "IN_PROGRESS"
    ELSE IF x.result \in {"FAILED", "HUMAN_REQUIRED"} THEN x.result
    ELSE IF Of = {} THEN "AWAITING_JOIN"
    ELSE IF \E j \in Of : JoinResult(j.outcomes) = "PASS" THEN "COMPLETE"
    ELSE "FAILED"

\* stage of an execution on concurrency_execution_dashboard.
Stage(x) ==
    LET Of == {j \in joins : /\ j.source.effect = x.effect
                             /\ j.source.receipt = x.receipt}
        Result == JoinResult((CHOOSE j \in Of : TRUE).outcomes)
    IN
    IF x.state = "IN_PROGRESS" THEN "IN_PROGRESS"
    ELSE IF x.result \in {"FAILED", "HUMAN_REQUIRED"} THEN x.result
    ELSE IF Of = {} THEN "AWAITING_JOIN"
    ELSE IF Result \in {"HUMAN_REQUIRED", "FAILED"} THEN Result
    ELSE IF x.result = "PARTIAL" \/ Result = "PARTIAL" THEN "PARTIAL"
    ELSE "COMPLETE"

-----------------------------------------------------------------------------
(* The specification *)

Init ==
    /\ EffectInit
    /\ claims = {}
    /\ joins = {}
    /\ claimJoins = {}
    /\ claimPc = [q \in Claimers |-> "idle"]
    /\ claiming = [q \in Claimers |-> None]
    /\ acknowledged = {}

ClaimStep(q) ==
    \/ \E k \in Ids, h \in handoffs : StartClaim(q, k, h)
    \/ ReserveClaim(q) \/ RecheckClaim(q) \/ FinalizeClaim(q)
    \/ Acknowledge(q) \/ Abandon(q)

JoinStep ==
    \/ \E k \in Ids, r \in effects :
          /\ r.state = "TERMINAL"
          /\ \E o \in [Dispatched(r) -> Outcomes] : Join(k, r, o)
    \/ \E k \in Ids, j \in joins :
          \E b \in [DOMAIN j.outcomes -> claims] : JoinClaims(k, j, b)

Next ==
    \/ EffectNext /\ UNCHANGED claimVars
    \/ (\E q \in Claimers : ClaimStep(q)) /\ UNCHANGED effectVars
    \/ JoinStep /\ UNCHANGED effectVars

Spec == Init /\ [][Next]_vars

-----------------------------------------------------------------------------
(* Properties *)

\* Every variable keeps its type.
TypeOK ==
    /\ EffectTypeOK
    /\ \A c \in claims :
          c.claim \in Ids /\ c.handoff \in handoffs
             /\ c.state \in {"IN_PROGRESS", "TERMINAL"}
    /\ \A j \in joins :
          j.join \in Ids /\ j.outcomes \in [Dispatched(j.source) -> Outcomes]
    /\ \A c \in claimJoins :
          c.id \in Ids /\ c.claims \in [DOMAIN c.join.outcomes -> claims]
    /\ claimPc \in [Claimers -> {"idle", "reserve", "recheck", "finalize",
                                 "acknowledge"}]
    /\ \A q \in Claimers :
          claiming[q] # None =>
              claiming[q] \in [claim : Ids, handoff : handoffs]
    /\ \A c \in acknowledged : c \in [claim : Ids, handoff : handoffs]

\* One session is told CLAIMED for a node of a plan, and its claim is TERMINAL; and
\* nothing is claimed that its effect does not call dispatched: the handoff of a
\* process that died, or whose write failed, is never worked on.
ClaimsAreSound ==
    /\ \A c \in claims : EffectDispatched(c.handoff)
    /\ \A c, d \in acknowledged :
          /\ ClaimOf(c.claim, c.handoff, "TERMINAL") \in claims
          /\ c.handoff.auth.plan = d.handoff.auth.plan
               /\ c.handoff.node = d.handoff.node => c = d

\* An execution shown COMPLETE has handed over every node of its plan, and
\* every one has the outcome COMPLETE.
CompleteIsTrue ==
    \A x \in executions :
        Stage(x) = "COMPLETE" =>
            /\ \A n \in x.auth.plan.picked :
                  [effect |-> x.effect, auth |-> x.auth, node |-> n] \in handoffs
            /\ \E j \in joins :
                  /\ j.source.effect = x.effect
                  /\ j.outcomes = [n \in x.auth.plan.picked |-> "COMPLETE"]

\* What follows a handoff, claims and outcomes, is true of what was handed over.
HandoffsAreFollowed == ClaimsAreSound /\ CompleteIsTrue

\* Refinement: a plan is dispatched in one shot, and claimed once.
ClaimsOf(s, n) ==
    {c \in claims : /\ c.state = "TERMINAL"
                    /\ c.handoff.auth.plan = s
                    /\ c.handoff.node = n}

NodeOf(s, n) ==
    CASE HandoffsOf(s, n) = {} -> "open"
      [] Cardinality(HandoffsOf(s, n)) = 1 /\ ClaimsOf(s, n) = {} -> "handed"
      [] Cardinality(HandoffsOf(s, n)) = 1 /\ Cardinality(ClaimsOf(s, n)) = 1 ->
            "claimed"
      [] OTHER -> "twice"

OneShot == INSTANCE OneShotDispatch WITH
    Plans <- Snapshots,
    stage <- [s \in Snapshots |-> StageOf(s)],
    node <- [s \in Snapshots |-> [n \in s.picked |-> NodeOf(s, n)]],
    dispatched <- [s \in Snapshots |-> DispatchedOf(s)]

\* The pipeline implements the one shot.
ImplementsOneShot == OneShot!Spec
=============================================================================
