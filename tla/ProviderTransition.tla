------------------------- MODULE ProviderTransition -------------------------
(***************************************************************************)
(* A provider route fails and another one takes its place: routes the owner  *)
(* approved (atlas/provider_route_config.py) are published with evidence in  *)
(* a snapshot (provider_dashboard.py), the broker ranks those the evidence   *)
(* calls eligible (provider_broker.py), a transition is planned              *)
(* (provider_transition.py), authorized for an exact current state           *)
(* (provider_transition_authorization.py), sealed into a request             *)
(* (provider_transition_effect_request.py) and handed once to an effect      *)
(* port (provider_transition_effect.py).                                     *)
(*                                                                           *)
(* All but the snapshot are functions of documents the caller supplies with  *)
(* their digests; it keeps plan, authorization and request, and reads the    *)
(* current state before each of them.  Time passes, evidence and state       *)
(* change in between.  A digest is the document it is taken of, and the      *)
(* instants that callers state are those of one clock.                       *)
(***************************************************************************)
EXTENDS Naturals, Sequences, FiniteSets, FiniteSetsExt

CONSTANTS
    Callers,     \* callers of the chain
    Routes,        \* route_id: naturals, in the order of the ids
    Preference,    \* ranks of the routes, per strategy
    Strategies,
    Lists,         \* the candidate lists that are published
    InitialRoute,
    MaxAge,        \* max_evidence_age_seconds
    MaxAttempts,   \* max_attempts of a transition
    MaxEpoch,      \* _MAX_EFFECT_EPOCH
    MaxNow,        \* bound: instants
    MaxChanges,    \* bound: changes of route set and evidence, and publications
    MaxTroubles,   \* bound: answers of the port that are lost or wrong
    None

ASSUME TransitionAssumption ==
    /\ Routes \subseteq Nat /\ IsFiniteSet(Routes) /\ InitialRoute \in Routes
    /\ Preference \in [Strategies -> [Routes -> Nat]]
    /\ MaxAge \in Nat
    /\ MaxAttempts \in Nat \ {0}
    /\ Lists \subseteq SUBSET Routes \ {{}}
    /\ None \notin Routes

VARIABLES
    now,
    approved,   \* the routes enabled in the owner's route set
    evidence,   \* per route: whether every gate allows it and capacity is left (good),
                \* and its window_end (seen)
    snapshot,   \* the published candidates: a caller plans with nothing else
    state,      \* the authoritative route state behind the port
    work,       \* per operator: the chain in progress
    prior,      \* per operator: prior_failed_route_ids of its episode
    path,       \* per operator: the routes its episode moved to (history)
    changes,
    troubles

providerVars ==
    <<now, approved, evidence, snapshot, state, work, prior, path, changes, troubles>>
world == <<now, approved, evidence, snapshot, changes>>

Evidence ==
    [good : BOOLEAN, seen : 0..(MaxNow + 1) \union {None}]

States == [route : Routes, epoch : 1..MaxEpoch]

-----------------------------------------------------------------------------
\* The broker

Candidates == DOMAIN snapshot.evidence

\* Every gate allows the route, and capacity was left in a window that ended neither
\* later than the snapshot nor too long before it.
Eligible(r) ==
    LET e == snapshot.evidence[r] IN
    /\ e.good
    /\ e.seen # None
    /\ e.seen <= snapshot.at
    /\ snapshot.at - e.seen <= MaxAge

Before(s, r, q) ==
    \/ Preference[s][r] < Preference[s][q]
    \/ Preference[s][r] = Preference[s][q] /\ r < q

EligibleRoutes(rs) == {r \in rs : Eligible(r)}

\* The route a broker plan selects.
Selected(rs, s) ==
    LET fit == EligibleRoutes(rs) IN
    IF fit = {} THEN None
    ELSE CHOOSE r \in fit : \A q \in fit \ {r} : Before(s, r, q)

\* Variant: as long as one of them stays fresh.
FreshUntil_Longest(rs) ==
    IF EligibleRoutes(rs) = {} THEN None
    ELSE Max({snapshot.evidence[r].seen + MaxAge : r \in EligibleRoutes(rs)})

\* evidence_fresh_until: the first of the eligible routes whose evidence gets stale.
FreshUntil(rs) ==
    IF EligibleRoutes(rs) = {} THEN None
    ELSE Min({snapshot.evidence[r].seen + MaxAge : r \in EligibleRoutes(rs)})

-----------------------------------------------------------------------------
\* The transition

Idle == [at |-> "idle"]

Does(o, w) == work' = [work EXCEPT ![o] = w]

\* A plan: the selected route failed, and the best of those that did not is next.
TransitionPlan(s, from, failed) ==
    LET rest == Candidates \ failed
        attempt == Cardinality(failed)
        to == IF attempt >= MaxAttempts \/ rest = {} THEN None ELSE Selected(rest, s)
    IN [from |-> from, to |-> to, failed |-> failed, made |-> snapshot.at,
        until |-> FreshUntil(rest),
        seen |-> IF to = None THEN None ELSE snapshot.evidence[to].seen]

\* Validated again whenever it is used: a recommendation is within the attempts, and
\* never goes to a route that failed.
ValidPlan(p) ==
    /\ p.from \in p.failed /\ p.to \notin p.failed
    /\ Cardinality(p.failed) <= MaxAttempts
    /\ p.to # None => Cardinality(p.failed) < MaxAttempts /\ p.until # None

InWindow(p) == p.until # None => p.made <= now /\ now <= p.until

\* A plan is of use from its making until evidence it rests on gets stale.
Usable(p) == ValidPlan(p) /\ InWindow(p)

\* What is planned is validated at once.
Keeps(o, p) == ValidPlan(p) /\ Does(o, [at |-> "planned", plan |-> p])

\* Variant: the route that failed first is a fallback again.
Plan_Forgets(o) ==
    LET from == state.route IN
    /\ work[o].at = "idle" /\ snapshot # None
    /\ {from} \union prior[o] \subseteq Candidates
    /\ Selected(Candidates \ prior[o], snapshot.strategy) = from
    /\ Keeps(o, TransitionPlan(snapshot.strategy, from, {from}))
    /\ UNCHANGED <<world, state, prior, path, troubles>>

\* The plan is refused when a route is not in the snapshot, when attempts are used up,
\* when the current route is a failed one, and when it is not the one the broker would
\* select.
Plan(o) ==
    LET from == state.route IN
    /\ work[o].at = "idle" /\ snapshot # None
    /\ {from} \union prior[o] \subseteq Candidates
    /\ Cardinality(prior[o]) < MaxAttempts
    /\ from \notin prior[o]
    /\ Selected(Candidates \ prior[o], snapshot.strategy) = from
    /\ Keeps(o, TransitionPlan(snapshot.strategy, from, prior[o] \union {from}))
    /\ UNCHANGED <<world, state, prior, path, troubles>>

\* An authorization names the state it was given for.
ValidAuthorization(w) == w.plan.to # None /\ w.state.route = w.plan.from

ValidRequest(w) == w.plan.to # w.state.route

\* A human takes over, and another episode begins.
HandsOver(o) ==
    /\ Does(o, Idle)
    /\ prior' = [prior EXCEPT ![o] = {}]
    /\ path' = [path EXCEPT ![o] = <<>>]

\* The chain ends with an error; the caller may plan again.
Refuse(o) == Does(o, Idle) /\ UNCHANGED <<prior, path>>

Authorize(o) ==
    LET p == work[o].plan IN
    /\ work[o].at = "planned"
    /\ IF ~Usable(p) THEN Refuse(o)
       ELSE IF p.to = None \/ state.route # p.from THEN HandsOver(o)
       ELSE /\ ValidAuthorization([plan |-> p, state |-> state])
            /\ Does(o, [at |-> "authorized", plan |-> p, state |-> state])
            /\ UNCHANGED <<prior, path>>
    /\ UNCHANGED <<world, state, troubles>>

\* Variant: a plan that was authorized stays of use.
Seal_AnyTime(o) ==
    LET w == work[o] IN
    /\ w.at = "authorized"
    /\ IF state = w.state
       THEN /\ Does(o, [at |-> "sealed", plan |-> w.plan, state |-> w.state,
                        sealed |-> now])
            /\ UNCHANGED <<prior, path>>
       ELSE Refuse(o)
    /\ UNCHANGED <<world, state, troubles>>

\* The authorization is for the state it names, and the plan must still be of use.
Seal(o) ==
    LET w == work[o] IN
    /\ w.at = "authorized"
    /\ IF Usable(w.plan) /\ ValidAuthorization(w) /\ state = w.state /\ ValidRequest(w)
       THEN /\ Does(o, [at |-> "sealed", plan |-> w.plan, state |-> w.state,
                        sealed |-> now])
            /\ UNCHANGED <<prior, path>>
       ELSE Refuse(o)
    /\ UNCHANGED <<world, state, troubles>>

\* The request is for the state it was sealed for, and the epoch must have a successor.
\* The evidence is not looked at any more.
Commit(o) ==
    LET w == work[o] IN
    /\ w.at = "sealed"
    /\ IF ValidRequest(w) /\ state = w.state /\ state.epoch < MaxEpoch
       THEN Does(o, [w EXCEPT !.at = "calling"]) /\ UNCHANGED <<prior, path>>
       ELSE Refuse(o)
    /\ UNCHANGED <<world, state, troubles>>

-----------------------------------------------------------------------------
\* The port, which replaces the state it is told to expect, and its answer

Successor(w) == [route |-> w.plan.to, epoch |-> w.state.epoch + 1]

\* A receipt with outcome PASS: the episode goes on from the new route.
Passed(o) ==
    /\ Does(o, [work[o] EXCEPT !.at = "passed"])
    /\ prior' = [prior EXCEPT ![o] = work[o].plan.failed]
    /\ path' = [path EXCEPT ![o] = Append(@, work[o].plan.to)]

\* A receipt with outcome HUMAN_REQUIRED.
NotPassed(o, reason) ==
    /\ Does(o, [work[o] EXCEPT !.at = reason])
    /\ UNCHANGED <<prior, path>>

PortCommits(o) ==
    /\ work[o].at = "calling"
    /\ state = work[o].state
    /\ state' = Successor(work[o])
    /\ Passed(o)
    /\ UNCHANGED <<world, troubles>>

PortRefuses(o) ==
    /\ work[o].at = "calling"
    /\ state # work[o].state
    /\ NotPassed(o, "refused")
    /\ UNCHANGED <<world, state, troubles>>

\* Variant: an answer that is not a refusal is taken for success.
PortFails_Trusted(o) ==
    /\ work[o].at = "calling"
    /\ troubles < MaxTroubles
    /\ troubles' = troubles + 1
    /\ \/ UNCHANGED state
       \/ state = work[o].state /\ state' = Successor(work[o])
    /\ Passed(o)
    /\ UNCHANGED world

\* The call raises, the port does not know, or it answers with a state that is not
\* the successor; the state may have been replaced.
PortFails(o) ==
    /\ work[o].at = "calling"
    /\ troubles < MaxTroubles
    /\ troubles' = troubles + 1
    /\ \/ UNCHANGED state
       \/ state = work[o].state /\ state' = Successor(work[o])
    /\ NotPassed(o, "unknown")
    /\ UNCHANGED world

\* After a receipt the operator goes on with its episode, or tries the request again,
\* or leaves it to a human.
GoOn(o) ==
    /\ \/ work[o].at = "passed" /\ Does(o, Idle) /\ UNCHANGED <<prior, path>>
       \/ /\ work[o].at \in {"refused", "unknown"}
          /\ Does(o, [work[o] EXCEPT !.at = "sealed"]) /\ UNCHANGED <<prior, path>>
       \/ work[o].at \in {"refused", "unknown"} /\ HandsOver(o)
    /\ UNCHANGED <<world, state, troubles>>

-----------------------------------------------------------------------------
\* The world

Tick ==
    /\ now < MaxNow
    /\ now' = now + 1
    /\ UNCHANGED <<approved, evidence, snapshot, state>>
    /\ UNCHANGED <<work, prior, path, changes, troubles>>

\* New evidence of a route; the clock of its window may be ahead.
Observe(r) ==
    /\ changes < MaxChanges
    /\ changes' = changes + 1
    /\ \E e \in Evidence :
          /\ e.seen \in {None, now, now + 1}
          /\ evidence' = [evidence EXCEPT ![r] = e]
    /\ UNCHANGED <<now, approved, snapshot, state, work, prior, path, troubles>>

\* The owner disables a route in the route set.
Disable(r) ==
    /\ changes < MaxChanges /\ r \in approved
    /\ changes' = changes + 1
    /\ approved' = approved \ {r}
    /\ UNCHANGED <<now, evidence, snapshot, state, work, prior, path, troubles>>

\* Candidate files become the snapshot.  One route that is not enabled refuses them all;
\* once published, the snapshot carries the route set it was bound to.
PublishSnapshot(rs, s) ==
    /\ changes < MaxChanges /\ rs \subseteq approved
    /\ changes' = changes + 1
    /\ snapshot' = [at |-> now, strategy |-> s, evidence |-> [r \in rs |-> evidence[r]]]
    /\ UNCHANGED <<now, approved, evidence, state, work, prior, path, troubles>>

ProviderInit ==
    /\ now = 0
    /\ approved = Routes
    /\ snapshot = None
    /\ evidence = [r \in Routes |-> [good |-> TRUE, seen |-> 0]]
    /\ state = [route |-> InitialRoute, epoch |-> 1]
    /\ work = [o \in Callers |-> Idle]
    /\ prior = [o \in Callers |-> {}]
    /\ path = [o \in Callers |-> <<>>]
    /\ changes = 0
    /\ troubles = 0

ChainStep(o) ==
    \/ Plan(o) \/ Authorize(o) \/ Seal(o) \/ Commit(o)
    \/ PortCommits(o) \/ PortRefuses(o) \/ PortFails(o) \/ GoOn(o)

ProviderNext ==
    \/ \E o \in Callers : ChainStep(o)
    \/ Tick
    \/ \E r \in Routes : Observe(r) \/ Disable(r)
    \/ \E rs \in Lists, s \in Strategies : PublishSnapshot(rs, s)

ProviderSpec == ProviderInit /\ [][ProviderNext]_providerVars

-----------------------------------------------------------------------------
(* Properties *)

\* What an operator holds a receipt for did happen, and happened once: the state is, or
\* has gone on from, the successor the request named, and each change of the state is
\* the one request's whose state it was; a retry after an unknown outcome changes nothing
\* twice.
TransitionsAreTrue ==
    /\ \A o \in Callers :
          work[o].at = "passed" =>
             \/ state = Successor(work[o])
             \/ state.epoch > work[o].state.epoch + 1
    /\ \A o, q \in Callers :
          o # q /\ work[o].at = "passed" /\ work[q].at = "passed" =>
             work[o].state.epoch # work[q].state.epoch

\* The state moves only to a route that was the broker's choice among those the episode
\* had not seen fail, and whose evidence was seen when the snapshot was published and no
\* older than allowed when the request was sealed: a route the owner disables meanwhile is
\* not sealed as a target for longer than that.
MovesAreEarned ==
    [][state' # state =>
          /\ state'.epoch = state.epoch + 1
          /\ \E o \in Callers :
                LET w == work[o] IN
                /\ w.at = "calling" /\ w.state = state /\ w.plan.to = state'.route
                /\ w.plan.to \notin w.plan.failed /\ prior[o] \subseteq w.plan.failed
                /\ w.plan.seen <= w.plan.made /\ w.plan.made <= w.sealed
                /\ w.sealed <= w.plan.seen + MaxAge]_providerVars

\* An episode moves less often than it may attempt: each of its moves costs it a route of
\* its own, and none leads to a route that failed before.
EpisodesEnd ==
    \A o \in Callers :
        /\ Len(path[o]) < MaxAttempts
        /\ Len(path[o]) = Cardinality(prior[o])
        /\ path[o] # <<>> => path[o][Len(path[o])] \notin prior[o]

\* Receipts and the episodes they belong to are true of the state.
EpisodesAreTrue == TransitionsAreTrue /\ EpisodesEnd
=============================================================================
