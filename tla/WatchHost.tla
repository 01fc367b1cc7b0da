------------------------------- MODULE WatchHost -------------------------------
(***************************************************************************)
(* One pass of the coordinator's watch host: run_once of                   *)
(* tools/coordinator_watch_host.py, with the planner (tools/coordinator.py), *)
(* the watch evaluator (coordinator_watch.py), the effect's authorization   *)
(* (worker_adapter.py) and the dispatch reservations (skills-contract.py).  *)
(*                                                                         *)
(* A pass collects facts, takes the lock of the watch they belong to, and   *)
(* sends at most one effect: an issue comment that wakes the coordinator, or *)
(* a notice to the owner.  A journal file per watch goes INTENT, SENDING,   *)
(* RECEIPT; a marker file per dispatch is reserved and then consumed.  The  *)
(* process may die between any two writes, and inside a write of a marker.  *)
(*                                                                         *)
(* One packet revision and one watch class (exact_head_ci): a watch is then *)
(* named by the head it is about.  The facts are those the host's collector *)
(* can produce: it never reports a worker, a failure, a review that is clear, *)
(* a mergeable pull request, or a wait, so the planner's branches on them   *)
(* are not taken here.                                                      *)
(***************************************************************************)
EXTENDS Naturals, FiniteSets

CONSTANTS
    Hosts,       \* the processes that run a pass
    Scenes,      \* what the packet's issue, branch and host go through
    Dispatches,  \* the ids of the dispatches the trusted signer issues
    MaxChanges,  \* bound: changes of what is observed
    MaxFaults,   \* bound: deaths, lost answers, and requests that do not fit
    Torn,        \* a marker file that a death left empty
    Nothing

\* What a collector reads from the issue, and from elsewhere.  dirty is Nothing when
\* no worktree is pinned; the audit is that of the packet's revision.
IssueFacts ==
    [status : {"ACTIVE", "PAUSED", "BLOCKED", "COMPLETE"}, ambiguous : BOOLEAN,
     audit : {"PASS", "FAIL", "UNKNOWN"}, ready : BOOLEAN]
TreeFacts ==
    [head : STRING, pr : BOOLEAN, ci : {"PENDING", "PASS", "FAIL"},
     dirty : BOOLEAN \union {Nothing}, resource : {"PASS", "BLOCK"},
     admission : {"ALLOW", "DENY", "UNKNOWN"}]

ASSUME WatchAssumption ==
    /\ \A o \in Scenes :
          /\ o \in [issue : IssueFacts, tree : TreeFacts]
          /\ o.tree.resource = "BLOCK" <=> o.tree.admission = "DENY"
    /\ Nothing \notin Hosts \union Dispatches /\ Torn # Nothing
    /\ MaxChanges \in Nat /\ MaxFaults \in Nat

VARIABLES
    scene,       \* what is to be observed
    watch,       \* per watch: watch-state.json
    journal,     \* per watch: effect-journal.json, or Nothing
    ledger,      \* per watch: ledger.json
    marker,      \* per dispatch: its marker file, Nothing, or torn by a death
    posts,       \* which effects were sent, each with its dispatch
    again,       \* the effects that were sent once more
    stage, seen, reread, \* per host: its step, its first and its second collection
    newer,       \* per host: those that have collected in a later second
    older,       \* the hosts whose observation is older than the watch's
    dispatch,    \* per host: the dispatch its effect is authorized with
    changes, faults

world == <<scene, changes>>
files == <<watch, journal, ledger, marker>>
sent == <<posts, again>>
order == <<newer, older>>
local == <<stage, seen, reread, dispatch, order>>
watchVars == <<world, files, sent, local, faults>>

Heads == {o.tree.head : o \in Scenes}
Phases == {"INTENT", "SENDING", "RECEIPT", "AMBIGUOUS"}
Wakes == {"ADMIT_IMPLEMENTATION", "AUDIT_DIRTY_TREE", "AUTHORIZE_PUBLICATION",
          "AUDIT_REVIEW", "REPLAN_SEMANTIC_FAILURE"}
Waits == {"WAIT_EXTERNAL", "WAIT_EXACT_HEAD_CI"}
Decisions == Wakes \union Waits \union
    {"NOOP_COMPLETE", "NOOP_PAUSED", "BLOCK_HUMAN", "RECONCILE_AMBIGUOUS",
     "YIELD_RESOURCE"}
\* The effect of a decision; the packet's status is part of a wake's digest.
Effects == [head : Heads, decision : Wakes \union {"BLOCK_HUMAN"},
            status : {"ACTIVE", "PAUSED", "BLOCKED"}]
\* What a journal and a marker hold.
Files == [phase : Phases, effect : Effects, dispatch : Dispatches]
Markers == [state : {"reserved", "consumed"}, effect : Effects]

ASSUME NothingAssumption ==
    /\ Nothing \notin Files \union Decisions
    /\ {Nothing, Torn} \intersect Markers = {}

Steps == {"idle", "lock", "recollect", "check", "authorize",
          "journal", "reserve", "sending", "send", "receipt", "ambiguous",
          "record", "finalize", "apply", "persist"}

WatchTypeOK ==
    /\ scene \in Scenes
    /\ watch \in [Heads -> [decision : Decisions \union {Nothing}, closed : BOOLEAN]]
    /\ journal \in [Heads -> Files \union {Nothing}]
    /\ ledger \in [Heads -> SUBSET [decision : Decisions,
                                    outcome : {"APPLIED", "AMBIGUOUS"}]]
    /\ marker \in [Dispatches -> Markers \union {Nothing, Torn}]
    /\ posts \subseteq Effects \X Dispatches /\ again \subseteq Effects
    /\ stage \in [Hosts -> Steps]
    /\ newer \in [Hosts -> SUBSET Hosts] /\ older \subseteq Hosts
    /\ {seen, reread} \subseteq [Hosts -> Scenes \union {Nothing}]
    /\ dispatch \in [Hosts -> Dispatches \union {Nothing}]
    /\ changes \in 0..MaxChanges /\ faults \in 0..MaxFaults

-----------------------------------------------------------------------------
(* The planner, on what the collector can observe.                          *)

\* A dirty tree is audited, and published when the audit passed.
AuditOrAuthorize(i) ==
    CASE i.audit = "FAIL" -> "REPLAN_SEMANTIC_FAILURE"
      [] i.audit = "PASS" -> "AUTHORIZE_PUBLICATION"
      [] OTHER -> "AUDIT_DIRTY_TREE"

\* The collector binds the pull request and CI to the branch's head, and never
\* knows the review to be clear.
PrPipeline(t) ==
    CASE t.ci = "FAIL" -> "REPLAN_SEMANTIC_FAILURE"
      [] t.ci = "PENDING" -> "WAIT_EXACT_HEAD_CI"
      [] OTHER -> "AUDIT_REVIEW"

ImplementationPath(i, t) ==
    CASE t.dirty = TRUE -> AuditOrAuthorize(i)
      [] t.dirty = FALSE /\ t.admission = "ALLOW" -> "ADMIT_IMPLEMENTATION"
      [] OTHER -> "WAIT_EXTERNAL"

PlannedDecision(status, i, t) ==
    IF status = "COMPLETE" THEN "NOOP_COMPLETE"
    ELSE IF status = "PAUSED" THEN "NOOP_PAUSED"
    ELSE IF status = "BLOCKED" THEN "BLOCK_HUMAN"
    ELSE IF i.ambiguous THEN "RECONCILE_AMBIGUOUS"
    ELSE IF t.resource = "BLOCK" THEN "YIELD_RESOURCE"
    ELSE IF ~i.ready THEN "WAIT_EXTERNAL"
    ELSE IF t.pr THEN PrPipeline(t)
    ELSE ImplementationPath(i, t)

\* The evaluator puts an ambiguous mutation first, and plans a paused packet that
\* has a pull request as an active one.
Decide(o) ==
    IF o.issue.ambiguous THEN "RECONCILE_AMBIGUOUS"
    ELSE PlannedDecision(IF o.issue.status = "PAUSED" /\ o.tree.pr THEN "ACTIVE" ELSE o.issue.status,
              o.issue, o.tree)

Typed(decision) == decision \in Wakes \union {"BLOCK_HUMAN"}
Effect(o) == [head |-> o.tree.head, decision |-> Decide(o), status |-> o.issue.status]

-----------------------------------------------------------------------------
Watch(p) == seen[p].tree.head
Move(p, step) == stage' = [stage EXCEPT ![p] = step]
Goes(p, step) == Move(p, step) /\ UNCHANGED <<seen, reread, dispatch, order>>
\* The pass ends, and with it the lock.
Leaves(p) ==
    /\ Move(p, "idle")
    /\ newer' = [q \in Hosts |-> IF q = p THEN {} ELSE newer[q] \ {p}]
    /\ seen' = [seen EXCEPT ![p] = Nothing] /\ reread' = [reread EXCEPT ![p] = Nothing]
    /\ dispatch' = [dispatch EXCEPT ![p] = Nothing]
Ends(p) == Leaves(p) /\ older' = older \ {p}
Quiet == UNCHANGED <<watch, journal, ledger, marker, posts, again, faults, world>>
Fault == faults < MaxFaults /\ faults' = faults + 1

\* The lock of a watch is held from the evaluation to the end of the pass.
Holds(p) == stage[p] \notin {"idle", "lock"}
Locked(h) == \E p \in Hosts : Holds(p) /\ Watch(p) = h

\* The watch remembers the observation, and the pass ends.
Remember(p) ==
    /\ watch' = [watch EXCEPT ![Watch(p)] =
                    [decision |-> Decide(seen[p]),
                     closed |-> seen[p].issue.status = "COMPLETE"]]
    /\ Leaves(p)
    /\ older' = (older \ {p}) \union
                {q \in Hosts \ {p} : p \in newer[q] /\ Watch(q) = Watch(p)}

-----------------------------------------------------------------------------
\* A collection is several calls; it is one step here.
Collect(p) ==
    /\ stage[p] = "idle"
    /\ seen' = [seen EXCEPT ![p] = scene]
    /\ \E tick \in BOOLEAN :
          newer' = [q \in Hosts |-> IF tick /\ stage[q] = "lock" THEN newer[q] \union {p}
                                   ELSE newer[q]]
    /\ Move(p, "lock") /\ UNCHANGED <<reread, dispatch, older>> /\ Quiet

LockHeld(p) == stage[p] = "lock" /\ Locked(Watch(p)) /\ Ends(p) /\ Quiet

\* With the lock the observation is evaluated.  A closed watch, and an observation
\* older than the last one, change nothing.
Ignored(p) == watch[Watch(p)].closed \/ p \in older
Due(p) ==
    /\ Typed(Decide(seen[p])) /\ seen[p].issue.status # "COMPLETE"
    /\ watch[Watch(p)].decision # Decide(seen[p])

NoAction(p) ==
    /\ stage[p] = "lock" /\ ~Locked(Watch(p))
    /\ Ignored(p) \/ ~Due(p)
    /\ IF Ignored(p) THEN UNCHANGED watch /\ Ends(p) ELSE Remember(p)
    /\ UNCHANGED <<journal, ledger, marker, posts, again, faults, world>>

Act(p) ==
    /\ stage[p] = "lock" /\ ~Locked(Watch(p))
    /\ ~Ignored(p) /\ Due(p)
    /\ Move(p, "recollect") /\ newer' = [newer EXCEPT ![p] = {}]
    /\ UNCHANGED <<seen, reread, dispatch, older>> /\ Quiet

\* A typed result is confirmed by a second collection.
Recollect(p) ==
    /\ stage[p] = "recollect"
    /\ reread' = [reread EXCEPT ![p] = scene]
    /\ Move(p, "check") /\ UNCHANGED <<seen, dispatch, order>> /\ Quiet

\* What must be the same in both, and what must allow the effect.  CI's state, the
\* audit and the worktree are not compared.
Same(a, b) ==
    /\ a.issue.status = b.issue.status /\ a.tree.head = b.tree.head
    /\ a.tree.pr = b.tree.pr
    /\ a.tree.resource = b.tree.resource /\ a.tree.admission = b.tree.admission
Confirmed(p) ==
    /\ ~reread[p].issue.ambiguous /\ Same(seen[p], reread[p])
    /\ reread[p].tree.resource # "BLOCK" /\ reread[p].tree.admission # "DENY"
Entries(p) == {e \in ledger[Watch(p)] : e.decision = Decide(seen[p])}
Recorded(p) == {e.outcome : e \in Entries(p)}

Refuse(p) ==
    /\ stage[p] = "check"
    /\ ~Confirmed(p) \/ "AMBIGUOUS" \in Recorded(p)
    /\ Ends(p) /\ Quiet

\* The effect was applied, and the watch had not been told.
Dedup(p) ==
    /\ stage[p] = "check" /\ Confirmed(p) /\ Recorded(p) = {"APPLIED"}
    /\ Remember(p)
    /\ UNCHANGED <<journal, ledger, marker, posts, again, faults, world>>

Proceed(p) ==
    /\ stage[p] = "check" /\ Confirmed(p) /\ Recorded(p) = {}
    /\ Goes(p, "authorize") /\ Quiet

\* A wake is authorized only while the host's admission allows it.
Admits(p) == Decide(seen[p]) \in Wakes => reread[p].tree.admission = "ALLOW"
\* A marker names its effect and attempt.  A watch writes one INTENT in its life,
\* so the attempt is the watch, which the effect names.
Binds(m, e) == m \notin {Nothing, Torn} /\ m.effect = e
\* Variant: a reservation is refused to the effect that has it.
NotReentrant(m, e) == m = Nothing
Reservable(m, e) == m = Nothing \/ (Binds(m, e) /\ m.state = "reserved")

\* The dispatch that is reserved for this effect, or else one that is not taken.
Fits(p, d) ==
    IF \E x \in Dispatches : Binds(marker[x], Effect(seen[p]))
    THEN Binds(marker[d], Effect(seen[p])) ELSE marker[d] = Nothing

\* The request carries a dispatch that was signed for this effect; requests without
\* a valid one, or with another dispatch than fits, are counted with the faults.
AuthorizeEffect(p) ==
    /\ stage[p] = "authorize" /\ Admits(p)
    /\ \E d \in Dispatches :
          /\ dispatch' = [dispatch EXCEPT ![p] = d]
          /\ IF Fits(p, d) THEN UNCHANGED faults ELSE Fault
    /\ Move(p, "journal")
    /\ UNCHANGED <<seen, reread, order, files, sent, world>>

Deny(p) ==
    /\ stage[p] = "authorize"
    /\ IF Admits(p) /\ \E d \in Dispatches : Fits(p, d) THEN Fault ELSE UNCHANGED faults
    /\ Ends(p) /\ UNCHANGED <<files, sent, world>>

-----------------------------------------------------------------------------
Entry(p, phase) ==
    [phase |-> phase, effect |-> Effect(seen[p]), dispatch |-> dispatch[p]]
Write(p, phase) == journal' = [journal EXCEPT ![Watch(p)] = Entry(p, phase)]
\* The file it has read, or Nothing.
File(p) == journal[Watch(p)]

\* A journal that does not say what became of its effect stops every later pass.
\* Variant: only one that says so.
OnlyAmbiguous(j) == j.phase = "AMBIGUOUS"
Undecided(j) == j.phase \in {"SENDING", "AMBIGUOUS"}

Unreconciled(p) ==
    /\ stage[p] = "journal" /\ File(p) # Nothing /\ Undecided(File(p))
    /\ Ends(p) /\ Quiet

\* The journal is about another effect, whatever its phase.
OtherEffect(p) ==
    /\ stage[p] = "journal" /\ File(p) # Nothing
    /\ ~Undecided(File(p)) /\ File(p).effect # Effect(seen[p])
    /\ journal' = [journal EXCEPT ![Watch(p)].phase = "AMBIGUOUS"]
    /\ Ends(p) /\ UNCHANGED <<watch, ledger, marker, posts, again, faults, world>>

\* The effect was sent and has its receipt.
Received(p) ==
    /\ stage[p] = "journal" /\ File(p) # Nothing
    /\ File(p).phase = "RECEIPT" /\ File(p).effect = Effect(seen[p])
    /\ Goes(p, "finalize") /\ Quiet

Intend(p) ==
    /\ stage[p] = "journal"
    /\ \/ File(p) = Nothing /\ Write(p, "INTENT")
       \/ /\ File(p) # Nothing /\ File(p).phase # "RECEIPT"
          /\ ~Undecided(File(p)) /\ File(p).effect = Effect(seen[p])
          /\ UNCHANGED journal
    /\ Goes(p, "reserve") /\ UNCHANGED <<watch, ledger, marker, sent, faults, world>>

Reserve(p) ==
    /\ stage[p] = "reserve" /\ Reservable(marker[dispatch[p]], Effect(seen[p]))
    /\ marker' = [marker EXCEPT ![dispatch[p]] =
                    IF marker[dispatch[p]] = Nothing
                    THEN [state |-> "reserved", effect |-> Effect(seen[p])]
                    ELSE marker[dispatch[p]]]
    /\ Goes(p, "sending") /\ UNCHANGED <<watch, journal, ledger, sent, faults, world>>

ReserveConflict(p) ==
    /\ stage[p] = "reserve" /\ ~Reservable(marker[dispatch[p]], Effect(seen[p]))
    /\ Ends(p) /\ Quiet

Sending(p) ==
    /\ stage[p] = "sending"
    /\ Write(p, "SENDING")
    /\ Goes(p, "send") /\ UNCHANGED <<watch, ledger, marker, sent, faults, world>>

\* The comment is posted, or the owner's helper is run.
Post(p) ==
    /\ posts' = posts \union {<<Effect(seen[p]), dispatch[p]>>}
    /\ again' = again \union {e \in {x[1] : x \in posts} : e = Effect(seen[p])}

Send(p) ==
    /\ stage[p] = "send"
    /\ Post(p) /\ Goes(p, "receipt") /\ UNCHANGED <<files, faults, world>>

\* It was not sent, or it was and its answer is lost.
SendUnknown(p) ==
    /\ stage[p] = "send" /\ Fault
    /\ Post(p) \/ UNCHANGED sent
    /\ Goes(p, "ambiguous") /\ UNCHANGED <<files, world>>

Ambiguous(p) ==
    /\ stage[p] = "ambiguous"
    /\ Write(p, "AMBIGUOUS")
    /\ Goes(p, "record") /\ UNCHANGED <<watch, ledger, marker, sent, faults, world>>

Note(p, outcome) ==
    ledger' = [ledger EXCEPT ![Watch(p)] =
                 @ \union {[decision |-> Decide(seen[p]), outcome |-> outcome]}]

RecordAmbiguous(p) ==
    /\ stage[p] = "record"
    /\ Note(p, "AMBIGUOUS")
    /\ Ends(p) /\ UNCHANGED <<watch, journal, marker, sent, faults, world>>

Receipt(p) ==
    /\ stage[p] = "receipt"
    /\ Write(p, "RECEIPT")
    /\ Goes(p, "finalize") /\ UNCHANGED <<watch, ledger, marker, sent, faults, world>>

\* The reservation becomes consumed; the pass ends if it is not this effect's.
FinalizeDispatch(p) ==
    IF Binds(marker[dispatch[p]], Effect(seen[p]))
    THEN marker' = [marker EXCEPT ![dispatch[p]].state = "consumed"] /\ Goes(p, "apply")
    ELSE Ends(p) /\ UNCHANGED marker

Finalize(p) ==
    /\ stage[p] = "finalize"
    /\ FinalizeDispatch(p) /\ UNCHANGED <<watch, journal, ledger, sent, faults, world>>

\* APPLIED follows the receipt.
Apply(p) ==
    /\ stage[p] = "apply"
    /\ Note(p, "APPLIED")
    /\ Goes(p, "persist") /\ UNCHANGED <<watch, journal, marker, sent, faults, world>>

Persist(p) ==
    /\ stage[p] = "persist"
    /\ Remember(p) /\ UNCHANGED <<journal, ledger, marker, sent, faults, world>>

-----------------------------------------------------------------------------
\* A death.  A marker is created and then written, and it is truncated and then
\* written when it is finalized: a death there leaves it torn.
Die(p) ==
    /\ stage[p] # "idle" /\ Fault
    /\ \/ UNCHANGED marker
       \/ /\ \/ stage[p] = "reserve" /\ marker[dispatch[p]] = Nothing
             \/ /\ stage[p] = "finalize"
                /\ Binds(marker[dispatch[p]], Effect(seen[p]))
                /\ marker[dispatch[p]].state = "reserved"
          /\ marker' = [marker EXCEPT ![dispatch[p]] = Torn]
    /\ Ends(p) /\ UNCHANGED <<watch, journal, ledger, sent, world>>

Change ==
    /\ changes < MaxChanges /\ changes' = changes + 1
    /\ scene' \in Scenes \ {scene}
    /\ UNCHANGED <<files, sent, local, faults>>

WatchInit ==
    /\ scene \in Scenes
    /\ watch = [h \in Heads |-> [decision |-> Nothing, closed |-> FALSE]]
    /\ journal = [h \in Heads |-> Nothing] /\ ledger = [h \in Heads |-> {}]
    /\ marker = [d \in Dispatches |-> Nothing] /\ posts = {} /\ again = {}
    /\ stage = [p \in Hosts |-> "idle"] /\ older = {}
    /\ newer = [p \in Hosts |-> {}]
    /\ seen = [p \in Hosts |-> Nothing] /\ reread = [p \in Hosts |-> Nothing]
    /\ dispatch = [p \in Hosts |-> Nothing] /\ changes = 0 /\ faults = 0

PassStep(p) ==
    \/ Collect(p) \/ LockHeld(p) \/ NoAction(p) \/ Act(p)
    \/ Recollect(p) \/ Refuse(p) \/ Dedup(p) \/ Proceed(p)
    \/ AuthorizeEffect(p) \/ Deny(p) \/ Unreconciled(p) \/ OtherEffect(p) \/ Received(p)
    \/ Intend(p) \/ Reserve(p) \/ ReserveConflict(p) \/ Sending(p) \/ Send(p)
    \/ Ambiguous(p) \/ RecordAmbiguous(p) \/ Receipt(p) \/ Finalize(p) \/ Apply(p)
    \/ Persist(p)

WatchNext == Change \/ \E p \in Hosts : PassStep(p) \/ SendUnknown(p) \/ Die(p)

WatchSpec == WatchInit /\ [][WatchNext]_watchVars

\* An external cadence runs the passes again and again; every call in one has a
\* timeout.
Fairness == \A p \in Hosts : WF_watchVars(PassStep(p))
FairWatchSpec == WatchSpec /\ Fairness

-----------------------------------------------------------------------------
(* Properties.                                                              *)

Sent == {x[1] : x \in posts}

\* No effect is sent twice, whatever dies between its sending and its receipt and
\* however many passes and dispatches come after; and no dispatch, also one that
\* was signed for two effects, is spent on more than one.
SentOnce ==
    /\ again = {}
    /\ \A x \in posts, y \in posts : x[2] = y[2] => x = y

\* The watch never believes in an effect that was not sent: a decision that needs
\* one is remembered only when the ledger calls its effect applied, and what the
\* ledger calls applied is the one effect of the watch's journal, was sent with the
\* dispatch the journal names, and has consumed a dispatch.  That may be another
\* one: a pass that finds the receipt consumes the dispatch of its own request.
RememberedWasSent ==
    \A h \in Heads :
        /\ Typed(watch[h].decision) =>
              [decision |-> watch[h].decision, outcome |-> "APPLIED"] \in ledger[h]
        /\ \A e \in ledger[h] : e.outcome = "APPLIED" =>
              /\ journal[h] # Nothing
              /\ <<journal[h].effect, journal[h].dispatch>> \in posts
              /\ journal[h].effect.head = h /\ journal[h].effect.decision = e.decision
              /\ \E d \in Dispatches : /\ Binds(marker[d], journal[h].effect)
                                       /\ marker[d].state = "consumed"

\* What was sent and what is believed agree: each effect went out once, and the
\* watch remembers only what went out.
EffectsAreTrue == SentOnce /\ RememberedWasSent

\* A watch that can act no more: its journal does not say what became of its
\* effect, is about another one, or its dispatch is torn or used up.
Stuck(h, o) ==
    \/ watch[h].closed
    \/ journal[h] # Nothing /\ Undecided(journal[h])
    \/ journal[h] # Nothing /\ journal[h].effect # Effect(o)
    \/ \E d \in Dispatches : marker[d] = Torn
    \/ \A d \in Dispatches : marker[d] # Nothing
    \/ Decide(o) \in Wakes /\ o.tree.admission # "ALLOW"

\* A decision that stays is acted on: whatever died on the way, later passes bring
\* its effect to the ledger and the watch, or the watch is visibly stuck.
DecisionIsDelivered ==
    <>[](\/ ~Typed(Decide(scene))
         \/ watch[scene.tree.head].decision = Decide(scene)
         \/ Stuck(scene.tree.head, scene))
=============================================================================
