----------------------------- MODULE DecisionPlane -----------------------------
(***************************************************************************)
(* The decision plane: replay evidence (atlas/decision_plane.py), the one    *)
(* canary admission snapshot (decision_plane_canary.py), the effects of the  *)
(* two decision classes (decision_plane_limited_active.py and its            *)
(* focused-check twin) and the measurements that may roll a class back       *)
(* (decision_plane_measured_active.py).                                      *)
(*                                                                           *)
(* Each ledger is one file that is replaced by a rename.  Writers hold the   *)
(* data-root lock, readers do not: what runs under the lock is one action,   *)
(* and every read before or after it is an action of its own.  A digest is   *)
(* the content it stands for.                                                *)
(***************************************************************************)
EXTENDS Integers, FiniteSets, FiniteSetsExt

CONSTANTS
    Callers,        \* the processes that commit effects
    Activations,    \* the activation requests: [id, class, scope]
    Requests,       \* the canary requests: [id, class, scope, max, live]
    Observations,   \* replay evidence that may be recorded
    MeasurementIds, \* the identities measurements may carry
    Outcomes,       \* what a measurement may say: [base, active, saved]
    MinReplay,      \* verified replays an assessment needs (5 in the code)
    MinExpansion,   \* applied measurements an expansion needs
    MaxBuilds,      \* bound: admissions that are built
    MaxDeaths,      \* bound: deaths of callers
    None

ASSUME DecisionAssumption ==
    /\ MinReplay \in Nat \ {0} /\ MinExpansion \in Nat \ {0}
    /\ MaxBuilds \in Nat /\ MaxDeaths \in Nat
    /\ \A r \in Requests : r.max \in Nat \ {0}

Classes == {"OPTIONAL_CONTEXT_SELECTION", "FOCUSED_CHECK_SELECTION"}

VARIABLES
    evidence,   \* the recorded observations
    draft,      \* the admission that is built and not yet published
    admission,  \* the canary admission snapshot, or None
    effects,    \* the records of both effect ledgers
    measured,   \* the records of the measurement ledger
    at,         \* per caller: its step
    asked,      \* per caller: its activation request
    held,       \* per caller: the admission it has checked
    verdict,    \* per caller: the result its receipt will carry
    builds, deaths

vars == <<evidence, draft, admission, effects, measured, at, asked,
          held, verdict, builds, deaths>>
ledgers == <<evidence, draft, admission, builds, effects, measured>>
memory == <<asked, held>>

-----------------------------------------------------------------------------
(* Replay evidence and the canary admission.                                 *)

\* An observation is [id, class, counts, current, model, delta, retry]: counts
\* says that it is a valid replay with both outcomes verified.
Verified(c, E) == {o \in E : o.class = c /\ o.counts}
FalseRouting(c, E) == {o \in Verified(c, E) : o.current /\ ~o.model}

\* REPLAY_PASS of _class_replay_assessment.
ReplayPass(c, E) ==
    LET V == Verified(c, E)
    IN  /\ Cardinality(V) >= MinReplay
        /\ Cardinality({o \in V : o.model}) >= Cardinality({o \in V : o.current})
        /\ MapThenSumSet(LAMBDA o : o.delta, V) < 0
        /\ MapThenSumSet(LAMBDA o : o.retry, V) <= 0

\* The decision an admission derives from what is written in it.
Eligible(a) ==
    /\ a.expected = a.evidence
    /\ ReplayPass(a.request.class, a.evidence)
    /\ FalseRouting(a.request.class, a.evidence) = {}
    /\ a.request.live

\* The binding of decision_canary_dashboard to the evidence of now.
Current(a) == a # None /\ a.evidence = evidence /\ a.expected = evidence

Observe(o) ==
    /\ o \notin evidence
    /\ evidence' = evidence \union {o}
    /\ UNCHANGED <<draft, admission, builds, effects, measured, at,
                   memory, verdict, deaths>>

\* The admission is built from the evidence before the lock is taken, for an
\* operator who expected this evidence or another.
BuildAdmission(r, expected) ==
    /\ draft = None /\ builds < MaxBuilds
    /\ builds' = builds + 1
    /\ draft' = [request |-> r, expected |-> expected, evidence |-> evidence]
    /\ UNCHANGED <<evidence, admission, effects, measured, at, memory,
                   verdict, deaths>>

PublishAdmission ==
    /\ draft # None
    /\ admission' = draft /\ draft' = None
    /\ UNCHANGED <<evidence, builds, effects, measured, at, memory,
                   verdict, deaths>>

-----------------------------------------------------------------------------
(* One activation: admission check, reservation, choice, terminal receipt.   *)

Go(p, step) == at' = [at EXCEPT ![p] = step]
Forget(p) ==
    /\ Go(p, "idle") /\ asked' = [asked EXCEPT ![p] = None]
    /\ held' = [held EXCEPT ![p] = None] /\ verdict' = [verdict EXCEPT ![p] = None]

\* _current_admission.
Usable(r) ==
    /\ Current(admission) /\ Eligible(admission)
    /\ admission.request.class = r.class
    /\ admission.request.scope = r.scope

Admit(p, r) ==
    /\ at[p] = "idle" /\ Usable(r)
    /\ Go(p, "checked")
    /\ asked' = [asked EXCEPT ![p] = r] /\ held' = [held EXCEPT ![p] = admission]
    /\ UNCHANGED <<ledgers, verdict, deaths>>

Used(a, c) == {e \in effects : e.class = c /\ e.admission = a}

\* Variant: only finished activations count against the budget.
BudgetLeftTerminal(a, c) ==
    Cardinality({e \in Used(a, c) : e.state = "TERMINAL"}) < a.request.max
BudgetLeft(a, c) == Cardinality(Used(a, c)) < a.request.max
Replayed(r) == \E e \in effects : e.class = r.class /\ e.id = r.id

\* Variant: the admission is not read again under the lock.
ReservableUnchecked(p) ==
    ~Replayed(asked[p]) /\ BudgetLeft(held[p], asked[p].class)
Reservable(p) ==
    /\ Usable(asked[p]) /\ admission = held[p]
    /\ ~Replayed(asked[p])
    /\ BudgetLeft(held[p], asked[p].class)

\* A refusal leaves nothing behind; a reservation is never taken back.
Reserve(p) ==
    /\ at[p] = "checked"
    /\ UNCHANGED <<evidence, draft, admission, builds, measured, deaths>>
    /\ \/ /\ ~Reservable(p)
          /\ Forget(p) /\ UNCHANGED effects
       \/ /\ Reservable(p)
          /\ effects' = effects \union
               {[id |-> asked[p].id, class |-> asked[p].class,
                 admission |-> held[p], state |-> "IN_PROGRESS", result |-> None]}
          /\ Go(p, "reserved") /\ UNCHANGED <<memory, verdict>>

-----------------------------------------------------------------------------
(* The measured policy of a class.                                           *)

Applied(c) == {m \in measured : m.class = c /\ m.result = "APPLIED_CANARY"}
Regressions(c) == {m \in Applied(c) : m.base /\ ~m.active}

Policy(c) ==
    CASE Regressions(c) # {} -> "ROLLBACK_TO_CURRENT"
      [] /\ Regressions(c) = {}
         /\ Cardinality(Applied(c)) >= MinExpansion
         /\ Cardinality({m \in Applied(c) : m.active})
              >= Cardinality({m \in Applied(c) : m.base})
         /\ \E m \in Applied(c) : m.saved -> "MEASURED_EXPANSION_ELIGIBLE"
      [] OTHER -> "LIMITED_ACTIVE_CONTINUE"

RolledBack(c) == Policy(c) = "ROLLBACK_TO_CURRENT"

Decide(p, result) ==
    /\ verdict' = [verdict EXCEPT ![p] = result] /\ Go(p, "decided")

\* The policy is read after the reservation and outside the lock.  A focused
\* check whose changes affect no check needs no choice.
\* Variant: the reservation already counts as the permission to choose.
ConsultNobody(p) ==
    /\ at[p] = "reserved" /\ Go(p, "selecting")
    /\ UNCHANGED <<ledgers, memory, verdict, deaths>>
Consult(p) ==
    /\ at[p] = "reserved"
    /\ UNCHANGED <<ledgers, memory, deaths>>
    /\ \/ asked[p].class = "FOCUSED_CHECK_SELECTION" /\ Decide(p, "NO_EFFECT")
       \/ RolledBack(asked[p].class) /\ Decide(p, "FALLBACK")
       \/ /\ ~RolledBack(asked[p].class)
          /\ Go(p, "selecting") /\ UNCHANGED verdict

\* The selector answers, outside the lock too: its choice is applied, or it
\* raises or answers with what _normalize_selector_result does not accept.
Select(p) ==
    /\ at[p] = "selecting"
    /\ \E result \in {"APPLIED_CANARY", "FALLBACK"} : Decide(p, result)
    /\ UNCHANGED <<ledgers, memory, deaths>>

\* The caller's own reservation: the ledger admits one record per activation.
Reservation(p) ==
    {e \in effects : /\ e.class = asked[p].class /\ e.id = asked[p].id
                     /\ e.state = "IN_PROGRESS"}

Finalize(p) ==
    /\ at[p] = "decided"
    /\ effects' = (effects \ Reservation(p)) \union
         {[e EXCEPT !.state = "TERMINAL", !.result = verdict[p]] :
            e \in Reservation(p)}
    /\ Forget(p)
    /\ UNCHANGED <<evidence, draft, admission, builds, measured, deaths>>

Die(p) ==
    /\ at[p] # "idle" /\ deaths < MaxDeaths
    /\ deaths' = deaths + 1
    /\ Forget(p)
    /\ UNCHANGED <<ledgers>>

-----------------------------------------------------------------------------
(* A measurement of a finished activation.                                   *)

\* _source_effect: the exact effect, terminal, with the same receipt.
Source(m) ==
    {e \in effects : /\ e.class = m.class /\ e.id = m.source
                     /\ e.state = "TERMINAL" /\ e.result = m.result}

NewMeasurement(m) ==
    /\ Source(m) # {}
    /\ \A n \in measured : n.id # m.id /\ <<n.class, n.source>> # <<m.class, m.source>>

\* The record is built before the lock is taken, from a source that is terminal
\* and so the same later: the build needs no step of its own.  A repeated or
\* conflicting measurement leaves the ledger as it is.
Measure(id, e, out) ==
    LET m == [id |-> id, class |-> e.class, source |-> e.id, result |-> e.result,
              base |-> out.base, active |-> out.active, saved |-> out.saved]
    IN  /\ e.state = "TERMINAL" /\ NewMeasurement(m)
        /\ measured' = measured \union {m}
        /\ UNCHANGED <<evidence, draft, admission, builds, effects, at, memory,
                       verdict, deaths>>

-----------------------------------------------------------------------------
Init ==
    /\ evidence = {} /\ draft = None /\ admission = None
    /\ effects = {} /\ measured = {}
    /\ at = [p \in Callers |-> "idle"] /\ asked = [p \in Callers |-> None]
    /\ held = [p \in Callers |-> None] /\ verdict = [p \in Callers |-> None]
    /\ builds = 0 /\ deaths = 0

Operate ==
    \/ \E o \in Observations : Observe(o)
    \/ \E r \in Requests, E \in {evidence, {}} : BuildAdmission(r, E)
    \/ PublishAdmission
    \/ \E id \in MeasurementIds, e \in effects, out \in Outcomes :
         Measure(id, e, out)

Step(p) == Reserve(p) \/ Consult(p) \/ Select(p) \/ Finalize(p)

Next ==
    \/ Operate
    \/ \E p \in Callers : Step(p) \/ Die(p) \/ \E r \in Activations : Admit(p, r)

Spec == Init /\ [][Next]_vars

\* A caller that has begun goes on: the lock is waited for, and it is always
\* released.  Nobody has to begin, to measure or to publish.
FairSpec == Spec /\ \A p \in Callers : WF_vars(Step(p))

-----------------------------------------------------------------------------
TypeOK ==
    /\ evidence \subseteq Observations
    /\ \A e \in effects : /\ e.class \in Classes /\ e.admission # None
                          /\ e.state \in {"IN_PROGRESS", "TERMINAL"}
    /\ at \in [Callers -> {"idle", "checked", "reserved", "selecting", "decided"}]
    /\ asked \in [Callers -> Activations \union {None}]
    /\ builds \in 0..MaxBuilds /\ deaths \in 0..MaxDeaths

\* However many callers commit at once, and whatever dies on the way, no
\* admission decides more often than it allows.
BudgetHolds ==
    \A e \in effects :
        Cardinality(Used(e.admission, e.class)) <= e.admission.request.max

\* A reservation is only recorded while the admission it uses is the published
\* one, the replay evidence of that very moment is the evidence it was granted
\* on, and that passes for its class without false routing: though the caller
\* had checked all this before it had the lock.
ReservedOnEvidence ==
    [][\A e \in effects' \ effects : e.state = "IN_PROGRESS" =>
         /\ e.admission = admission /\ e.admission.evidence = evidence
         /\ ReplayPass(e.class, evidence) /\ FalseRouting(e.class, evidence) = {}]_vars

\* An activation that is reserved and undecided when its class has been rolled
\* back never applies the selector's choice: it ends without one, or its caller
\* dies, and the class is still rolled back by then.
RollbackReaches ==
    \A p \in Callers, r \in Activations :
        (at[p] = "reserved" /\ asked[p] = r /\ RolledBack(r.class)) ~>
            /\ asked[p] # r /\ RolledBack(r.class)
            /\ \A e \in effects : e.class = r.class /\ e.id = r.id =>
                                   e.result # "APPLIED_CANARY"
===============================================================================
