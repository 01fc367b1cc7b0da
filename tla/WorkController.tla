--------------------------- MODULE WorkController ---------------------------
(***************************************************************************)
(* The Work Controller (atlas/work_controller.py): a record per workstream *)
(* in work-controller.json, a completion inbox, and command processes that *)
(* read and replace a record without holding a lock between the two.       *)
(*                                                                         *)
(* A process runs handle-completion, drain-inbox or reconcile.  Every      *)
(* store.get and every store.put is a step of its own, so is every call of *)
(* a port (audit, Work Packet), and a process may die between any two.     *)
(***************************************************************************)
EXTENDS Naturals

CONSTANTS
    Workstreams,      \* registered control loops
    Procs,            \* command processes (CLI, hook) that may be alive
    Reconcilers,      \* those of them that may be a reconcile command
    Events,           \* completion events: [id, ws, issue, attempt, head]
    Issues,           \* issue numbers of a workstream's Work Packets, 1..n
    Heads,            \* commit identities
    MaxAttempts,      \* max_attempts of every registration
    EnforceIdentity,  \* enforce_worktree_identity
    CyclePort,        \* the Work Packet port has advance_pass_cycle
    InitialRecords,   \* records found in the store at the start, or None
    None,             \* "no value"
    MaxCrashes,       \* bound: process deaths
    MaxSends          \* bound: times one event is written to the inbox

Terminal == {"PASSED", "HUMAN_REQUIRED"}
ReworkOpen == {"REWORK_DISPATCHED", "REWORK_HANDOFF"}
SuccessorOpen == {"SUCCESSOR_DISPATCHED", "SUCCESSOR_HANDOFF"}
Unfinished == {"AWAITING_AUDIT", "AUDITING", "CYCLE_ACTIVATING"}
Historical == {"CYCLE_DISPATCH_PENDING", "CYCLE_DISPATCHING"}
States == {"IDLE"} \union Terminal \union ReworkOpen \union SuccessorOpen
              \union Unfinished \union Historical

EventIds == {e.id : e \in Events}

\* last_outcome, reduced to the event it answers and the state it reports.
Outcomes == [event : EventIds, state : States] \union {None}

Records == [state : States, issue : Issues, attempt : 0..MaxAttempts,
            head : Heads, pending : Events \union {None},
            processed : SUBSET EventIds, outcome : Outcomes]

\* A Work Packet as the controller's ports see it: the attempt its findings ask
\* for, and the event whose cycle transition completed or activated it.
Packets == [status : {"ABSENT", "QUEUED", "ACTIVE", "COMPLETE"},
            attempt : 0..MaxAttempts, by : EventIds \union {None}]

Verdicts == {"PASS", "REWORK", "HUMAN_REQUIRED"}

PCs == {"idle", "register", "drain", "receive", "lock_head", "accept",
        "load", "begin", "audit", "gate", "packet", "verified", "activating", "advance",
        "activate", "settle", "retire", "finalize", "reply"}

ASSUME ConstantsAssumption ==
    /\ Reconcilers \subseteq Procs
    /\ Issues \subseteq Nat \ {0}
    /\ 1 \in Issues
    /\ MaxAttempts \in Nat \ {0}
    /\ Events \subseteq [id : Nat, ws : Workstreams, issue : Issues,
                         attempt : 1..MaxAttempts, head : Heads]
    /\ \A e, f \in Events : e.id = f.id => e = f
    /\ EnforceIdentity \in BOOLEAN
    /\ CyclePort \in BOOLEAN
    /\ InitialRecords \subseteq Records \union {None}
    /\ MaxCrashes \in Nat
    /\ MaxSends \in Nat
    /\ None \notin Events
    /\ None \notin EventIds
    /\ None \notin Procs
    /\ None \notin Records

\* A stored record has a pending event exactly while it is unfinished, and no
\* decision about that event.
Consistent(r) ==
    /\ r.pending # None <=> r.state \in Unfinished \union Historical
    /\ r.pending # None => r.pending.id \notin r.processed

ASSUME InitialRecordsAssumption ==
    \A r \in InitialRecords : r # None => Consistent(r)

VARIABLES
    store,      \* work-controller.json: record per workstream, or None
    gh,         \* Work Packets on GitHub, per workstream and issue
    inbox,      \* events whose file is in completion-inbox/
    archive,    \* events whose file was moved to completion-processed/
    claim,      \* the inbox file a process has open and flocked, or None
    pc,         \* where each process stands
    target,     \* the workstream a process works on
    ev,         \* the completion event it works on
    rec,        \* its local copy of the record
    verdict,    \* the normalised audit verdict, later the cycle result
    todo,       \* files a drain has listed and not yet looked at
    sends,      \* how often each event was written to the inbox
    crashes     \* process deaths so far

vars == <<store, gh, inbox, archive, claim, pc, target, ev, rec, verdict,
          todo, sends, crashes>>
files == <<inbox, archive, claim>>
local == <<target, ev, rec, verdict, todo>>
env == <<sends, crashes>>

-----------------------------------------------------------------------------
(* Helpers *)

NewRecord(i, h) ==
    [state |-> "IDLE", issue |-> i, attempt |-> 0, head |-> h,
     pending |-> None, processed |-> {}, outcome |-> None]

\* Variant: an event is also accepted while another one is in flight.
Acceptable_WhileBusy(r, e) ==
    /\ r.state \notin Terminal
    /\ e.issue = r.issue

\* _assert_event_identity: the checks on the record the process has read.
\* A handoff accepts a new head; a fresh record wants the registered one.
Acceptable(r, e) ==
    /\ r.state \notin Terminal
    /\ e.issue = r.issue
    /\ \/ r.state \in SuccessorOpen /\ e.attempt = 1
       \/ r.state \in ReworkOpen /\ e.attempt = r.attempt
       \/ /\ r.state = "IDLE"
          /\ r.attempt = 0
          /\ e.head = r.head
          /\ e.attempt = 1

\* Variants: the decision is not entered, the record stays open.
Decided_NotEntered(r, e, state) ==
    [r EXCEPT !.state = state, !.pending = None,
              !.outcome = [event |-> e.id, state |-> state]]
Decided_StaysOpen(r, e, state) ==
    [r EXCEPT !.processed = @ \union {e.id},
              !.outcome = [event |-> e.id, state |-> state]]

\* _finalize, before its put.
Decided(r, e, state) ==
    [r EXCEPT !.state = state, !.pending = None,
              !.processed = @ \union {e.id},
              !.outcome = [event |-> e.id, state |-> state]]

\* sorted(inbox.glob(...)): the file with the least name.
NextFile(S) == CHOOSE e \in S : \A f \in S : e.id <= f.id

Goto(p, from, to) == pc[p] = from /\ pc' = [pc EXCEPT ![p] = to]

\* An exception, or the end of the command: the descriptor and with it the
\* claim is gone, and so is everything the process held in memory.
Leave(p) ==
    /\ pc' = [pc EXCEPT ![p] = "idle"]
    /\ claim' = [claim EXCEPT ![p] = None]
    /\ target' = [target EXCEPT ![p] = None]
    /\ ev' = [ev EXCEPT ![p] = None]
    /\ rec' = [rec EXCEPT ![p] = None]
    /\ verdict' = [verdict EXCEPT ![p] = None]
    /\ todo' = [todo EXCEPT ![p] = {}]

Raise(p) == Leave(p) /\ UNCHANGED <<store, gh, inbox, archive, env>>

\* store.get and store.put: an unlocked read, an atomic replacement.
Get(p, r) == rec' = [rec EXCEPT ![p] = r]
Put(p, r) == store' = [store EXCEPT ![target[p]] = r]

-----------------------------------------------------------------------------
(* Registration and the inbox *)

\* register_workstream reads the list of workstreams; its put is a later step.
StartRegister(p, ws, h) ==
    /\ store[ws] = None
    /\ Goto(p, "idle", "register")
    /\ target' = [target EXCEPT ![p] = ws]
    /\ Get(p, NewRecord(1, h))
    /\ UNCHANGED <<store, gh, files, ev, verdict, todo, env>>

Register(p) ==
    /\ pc[p] = "register"
    /\ Put(p, rec[p])
    /\ Leave(p)
    /\ UNCHANGED <<gh, inbox, archive, env>>

\* enqueue_completion_event refuses a name the inbox already holds.
Enqueue(e) ==
    /\ e \notin inbox
    /\ sends[e] < MaxSends
    /\ inbox' = inbox \union {e}
    /\ sends' = [sends EXCEPT ![e] = @ + 1]
    /\ UNCHANGED <<store, gh, archive, claim, pc, local, crashes>>

\* drain_completion_inbox lists the inbox once, under the data-root lock.
StartDrain(p) ==
    /\ inbox # {}
    /\ Goto(p, "idle", "drain")
    /\ todo' = [todo EXCEPT ![p] = inbox]
    /\ UNCHANGED <<store, gh, files, target, ev, rec, verdict, env>>

\* Variant: the drain does not ask for the flock.
Claim_NoLock(p) ==
    /\ pc[p] = "drain"
    /\ todo[p] # {}
    /\ LET e == NextFile(todo[p]) IN
       /\ todo' = [todo EXCEPT ![p] = @ \ {e}]
       /\ IF e \in inbox
          THEN /\ claim' = [claim EXCEPT ![p] = e]
               /\ ev' = [ev EXCEPT ![p] = e]
               /\ target' = [target EXCEPT ![p] = e.ws]
               /\ Goto(p, "drain", "receive")
          ELSE UNCHANGED <<claim, ev, target, pc>>
    /\ UNCHANGED <<store, gh, inbox, archive, rec, verdict, env>>

\* One turn of its loop: a file that is gone, or locked by another drain, is
\* skipped; otherwise the flock is taken and the event handed on.
Claim(p) ==
    /\ pc[p] = "drain"
    /\ todo[p] # {}
    /\ LET e == NextFile(todo[p]) IN
       /\ todo' = [todo EXCEPT ![p] = @ \ {e}]
       /\ IF e \in inbox /\ \A q \in Procs : claim[q] # e
          THEN /\ claim' = [claim EXCEPT ![p] = e]
               /\ ev' = [ev EXCEPT ![p] = e]
               /\ target' = [target EXCEPT ![p] = e.ws]
               /\ Goto(p, "drain", "receive")
          ELSE UNCHANGED <<claim, ev, target, pc>>
    /\ UNCHANGED <<store, gh, inbox, archive, rec, verdict, env>>

DrainDone(p) ==
    /\ pc[p] = "drain"
    /\ todo[p] = {}
    /\ Raise(p)

\* The completion command hands an event over without the inbox.
StartHandle(p, e) ==
    /\ Goto(p, "idle", "receive")
    /\ ev' = [ev EXCEPT ![p] = e]
    /\ target' = [target EXCEPT ![p] = e.ws]
    /\ UNCHANGED <<store, gh, files, rec, verdict, todo, env>>

\* The reply of handle_completion ends a command, but a drain moves the file
\* it has claimed, gives the claim back and goes on with its list.
Reply(p) ==
    /\ pc[p] = "reply"
    /\ claim[p] = None
    /\ Raise(p)

Move(p) ==
    /\ Goto(p, "reply", "drain")
    /\ claim[p] # None
    /\ inbox' = inbox \ {claim[p]}
    /\ archive' = archive \union {claim[p]}
    /\ claim' = [claim EXCEPT ![p] = None]
    /\ target' = [target EXCEPT ![p] = None]
    /\ ev' = [ev EXCEPT ![p] = None]
    /\ rec' = [rec EXCEPT ![p] = None]
    /\ verdict' = [verdict EXCEPT ![p] = None]
    /\ UNCHANGED <<store, gh, todo, env>>

-----------------------------------------------------------------------------
(* handle_completion *)

\* A processed event is answered from the record; any other must fit it.
Receive(p) ==
    /\ pc[p] = "receive"
    /\ store[target[p]] # None
    /\ LET r == store[target[p]] IN
       \/ /\ ev[p].id \in r.processed
          /\ Get(p, r)
          /\ Goto(p, "receive", "reply")
       \/ /\ ev[p].id \notin r.processed
          /\ Acceptable(r, ev[p])
          /\ IF r.state = "IDLE"
             THEN Get(p, r) /\ Goto(p, "receive", "accept")
             ELSE /\ Get(p, [r EXCEPT !.head = ev[p].head])
                  /\ Goto(p, "receive", "lock_head")
    /\ UNCHANGED <<store, gh, files, target, ev, verdict, todo, env>>

\* No such workstream, a record the event does not fit, or a worktree that is
\* not at the event's head: the exception ends a drain as well.
Refuse(p) ==
    /\ pc[p] = "receive"
    /\ store[target[p]] # None =>
          /\ ev[p].id \notin store[target[p]].processed
          /\ Acceptable(store[target[p]], ev[p]) => EnforceIdentity
    /\ Raise(p)

\* After a handoff _assert_event_identity itself stores the new head.
LockHead(p) ==
    /\ Goto(p, "lock_head", "accept")
    /\ Put(p, rec[p])
    /\ UNCHANGED <<gh, files, local, env>>

Accept(p) ==
    /\ Goto(p, "accept", "load")
    /\ Put(p, [rec[p] EXCEPT !.state = "AWAITING_AUDIT", !.pending = ev[p]])
    /\ UNCHANGED <<gh, files, local, env>>

-----------------------------------------------------------------------------
(* _run_audit_and_advance *)

\* The event comes from the record again, whatever the process was given.
Load(p) ==
    LET r == store[target[p]] IN
    /\ Goto(p, "load", "begin")
    /\ r.pending # None
    /\ Get(p, r)
    /\ ev' = [ev EXCEPT ![p] = r.pending]
    /\ UNCHANGED <<store, gh, files, target, verdict, todo, env>>

NothingPending(p) ==
    /\ pc[p] \in {"load", "retire"}
    /\ store[target[p]].pending = None
    /\ Raise(p)

Begin(p) ==
    /\ Goto(p, "begin", "audit")
    /\ Put(p, [rec[p] EXCEPT !.state = "AUDITING"])
    /\ UNCHANGED <<gh, files, local, env>>

\* The audit port: minutes pass, no lock is held, any verdict may come back.
Audit(p) ==
    /\ Goto(p, "audit", "gate")
    /\ \E v \in Verdicts : verdict' = [verdict EXCEPT ![p] = v]
    /\ UNCHANGED <<store, gh, files, target, ev, rec, todo, env>>

Stop(p, from, r) ==
    /\ Goto(p, from, "finalize")
    /\ Get(p, Decided(r, ev[p], "HUMAN_REQUIRED"))

\* Variant: one attempt too many.
Gate_OffByOne(p) ==
    /\ LET r == store[target[p]] IN
       \/ verdict[p] = "HUMAN_REQUIRED" /\ Stop(p, "gate", r)
       \/ verdict[p] = "REWORK" /\ Goto(p, "gate", "packet") /\ Get(p, r)
       \/ verdict[p] = "PASS" /\ Goto(p, "gate", "verified") /\ Get(p, r)
    /\ UNCHANGED <<store, gh, files, target, ev, verdict, todo, env>>

\* The record is read again and the verdict weighed.  PASS and REWORK need a
\* clean worktree; REWORK needs an attempt that is left.
Gate(p) ==
    /\ LET r == store[target[p]] IN
       \/ /\ \/ verdict[p] = "HUMAN_REQUIRED"
             \/ EnforceIdentity
             \/ verdict[p] = "REWORK" /\ ev[p].attempt + 1 > MaxAttempts
          /\ Stop(p, "gate", r)
       \/ /\ verdict[p] = "REWORK"
          /\ ev[p].attempt + 1 <= MaxAttempts
          /\ Goto(p, "gate", "packet")
          /\ Get(p, r)
       \/ /\ verdict[p] = "PASS"
          /\ Goto(p, "gate", "verified")
          /\ Get(p, r)
    /\ UNCHANGED <<store, gh, files, target, ev, verdict, todo, env>>

\* apply_rework_findings: the packet must be the ACTIVE one; an edit that ends
\* in an error may have landed.
ApplyRework(p) ==
    LET ws == target[p]
        i == rec[p].issue
        n == ev[p].attempt + 1
        landed == [gh EXCEPT ![ws][i].attempt = n]
    IN
    /\ pc[p] = "packet"
    /\ \/ /\ gh[ws][i].status = "ACTIVE"
          /\ gh' = landed
          /\ Goto(p, "packet", "finalize")
          /\ Get(p, Decided([rec[p] EXCEPT !.attempt = n, !.head = ev[p].head],
                            ev[p], "REWORK_HANDOFF"))
       \/ /\ Stop(p, "packet", rec[p])
          /\ gh' \in IF gh[ws][i].status = "ACTIVE" THEN {gh, landed} ELSE {gh}
    /\ UNCHANGED <<store, files, target, ev, verdict, todo, env>>

\* _complete_verified_pass reads once more, and stores CYCLE_ACTIVATING before
\* it calls the port.
Verified(p) ==
    /\ LET r == store[target[p]] IN
       IF CyclePort
       THEN Goto(p, "verified", "activating") /\ Get(p, r)
       ELSE Goto(p, "verified", "finalize") /\ Get(p, Decided(r, ev[p], "PASSED"))
    /\ UNCHANGED <<store, gh, files, target, ev, verdict, todo, env>>

Activating(p) ==
    /\ Goto(p, "activating", "advance")
    /\ Put(p, [rec[p] EXCEPT !.state = "CYCLE_ACTIVATING"])
    /\ UNCHANGED <<gh, files, local, env>>

CycleResult(p, from, kind) ==
    /\ Goto(p, from, "settle")
    /\ verdict' = [verdict EXCEPT ![p] = kind]

HasStatus(ws, i, status) == i \in Issues /\ gh[ws][i].status = status


\* advance_pass_cycle, first half: look for the successor queued after this
\* issue and complete the predecessor, or resume the transition this event
\* recorded.  Anything unexpected is a human_required result.
Advance(p) ==
    LET ws == target[p]
        i == rec[p].issue
        id == ev[p].id
    IN
    /\ pc[p] = "advance"
    /\ \/ /\ HasStatus(ws, i, "ACTIVE")
          /\ ~HasStatus(ws, i + 1, "QUEUED")
          /\ CycleResult(p, "advance", "no_successor")
          /\ UNCHANGED gh
       \/ /\ HasStatus(ws, i, "ACTIVE")
          /\ HasStatus(ws, i + 1, "QUEUED")
          /\ gh' = [gh EXCEPT ![ws][i].status = "COMPLETE", ![ws][i].by = id]
          /\ Goto(p, "advance", "activate")
          /\ UNCHANGED verdict
       \/ /\ HasStatus(ws, i, "COMPLETE") /\ gh[ws][i].by = id
          /\ HasStatus(ws, i + 1, "QUEUED")
          /\ Goto(p, "advance", "activate")
          /\ UNCHANGED <<gh, verdict>>
       \/ /\ HasStatus(ws, i, "COMPLETE") /\ gh[ws][i].by = id
          /\ HasStatus(ws, i + 1, "ACTIVE") /\ gh[ws][i + 1].by = id
          /\ CycleResult(p, "advance", "advanced")
          /\ UNCHANGED gh
       \/ /\ CycleResult(p, "advance", "human_required")
          /\ UNCHANGED gh
    /\ UNCHANGED <<store, files, target, ev, rec, todo, env>>

\* Second half: the successor is activated, if it is still queued.
Activate(p) ==
    LET ws == target[p]
        i == rec[p].issue
        active == [gh EXCEPT ![ws][i + 1].status = "ACTIVE",
                             ![ws][i + 1].by = ev[p].id]
    IN
    /\ pc[p] = "activate"
    /\ \/ /\ HasStatus(ws, i + 1, "QUEUED")
          /\ gh' = active
          /\ \E kind \in {"advanced", "human_required"} :
                CycleResult(p, "activate", kind)
       \/ CycleResult(p, "activate", "human_required") /\ UNCHANGED gh
    /\ UNCHANGED <<store, files, target, ev, rec, todo, env>>

\* Variant: the record keeps the predecessor's issue.
Settle_KeepsIssue(p) ==
    /\ Goto(p, "settle", "finalize")
    /\ Get(p, Decided([store[target[p]] EXCEPT !.attempt = 0], ev[p],
                      IF verdict[p] = "advanced" THEN "SUCCESSOR_HANDOFF"
                      ELSE "HUMAN_REQUIRED"))
    /\ UNCHANGED <<store, gh, files, target, ev, verdict, todo, env>>

\* The result is applied to the record as it is now.
Settle(p) ==
    /\ LET r == store[target[p]] IN
       \/ verdict[p] = "human_required" /\ Stop(p, "settle", r)
       \/ /\ verdict[p] = "no_successor"
          /\ Goto(p, "settle", "finalize")
          /\ Get(p, Decided(r, ev[p], "PASSED"))
       \/ /\ verdict[p] = "advanced"
          /\ Goto(p, "settle", "finalize")
          /\ Get(p, Decided([r EXCEPT !.issue = rec[p].issue + 1, !.attempt = 0,
                                      !.head = ev[p].head],
                            ev[p], "SUCCESSOR_HANDOFF"))
    /\ UNCHANGED <<store, gh, files, target, ev, verdict, todo, env>>

Finalize(p) ==
    /\ Goto(p, "finalize", "reply")
    /\ Put(p, rec[p])
    /\ UNCHANGED <<gh, files, local, env>>

-----------------------------------------------------------------------------
(* reconcile *)

\* Variant: only an event whose audit has not begun is run again.
StartReconcile_OnlyAwaiting(p, ws) ==
    /\ p \in Reconcilers
    /\ store[ws] # None
    /\ store[ws].state = "AWAITING_AUDIT"
    /\ Goto(p, "idle", "load")
    /\ target' = [target EXCEPT ![p] = ws]
    /\ UNCHANGED <<store, gh, files, ev, rec, verdict, todo, env>>

\* Unfinished work is run again; records of retired releases are closed.
StartReconcile(p, ws) ==
    /\ p \in Reconcilers
    /\ store[ws] # None
    /\ store[ws].pending # None
    /\ target' = [target EXCEPT ![p] = ws]
    /\ LET r == store[ws] IN
       \/ /\ r.state \in Unfinished
          /\ Goto(p, "idle", "load")
          /\ UNCHANGED <<ev, rec>>
       \/ /\ r.state = "CYCLE_DISPATCH_PENDING"
          /\ Goto(p, "idle", "retire")
          /\ UNCHANGED <<ev, rec>>
       \/ /\ r.state = "CYCLE_DISPATCHING"
          /\ Goto(p, "idle", "finalize")
          /\ ev' = [ev EXCEPT ![p] = r.pending]
          /\ Get(p, Decided(r, r.pending, "HUMAN_REQUIRED"))
    /\ UNCHANGED <<store, gh, files, verdict, todo, env>>

\* _dispatch_activated_successor: the Cursor runtime is gone, so stop.
Retire(p) ==
    LET r == store[target[p]] IN
    /\ Goto(p, "retire", "finalize")
    /\ r.pending # None
    /\ ev' = [ev EXCEPT ![p] = r.pending]
    /\ Get(p, Decided(r, r.pending, "HUMAN_REQUIRED"))
    /\ UNCHANGED <<store, gh, files, target, verdict, todo, env>>

-----------------------------------------------------------------------------
(* Environment, and the specification *)

\* The process dies, or a port raises something that is not a ValidationError.
Crash(p) ==
    /\ pc[p] # "idle"
    /\ crashes < MaxCrashes
    /\ crashes' = crashes + 1
    /\ Leave(p)
    /\ UNCHANGED <<store, gh, inbox, archive, sends>>

\* The owner queues the packet that follows another.
Queue(ws, i) ==
    /\ gh[ws][i].status = "ABSENT"
    /\ gh' = [gh EXCEPT ![ws][i].status = "QUEUED"]
    /\ UNCHANGED <<store, files, pc, local, env>>

\* The packet the record (or the first registration) names is ACTIVE.
FirstPackets(r) ==
    [i \in Issues |->
        [status |-> IF i = 1 THEN "ACTIVE" ELSE "ABSENT",
         attempt |-> IF i = 1 /\ r # None THEN r.attempt ELSE 0,
         by |-> None]]

Init ==
    /\ store \in [Workstreams -> InitialRecords]
    /\ \A ws \in Workstreams :
          store[ws] # None /\ store[ws].pending # None =>
              store[ws].pending.ws = ws
    /\ gh = [ws \in Workstreams |-> FirstPackets(store[ws])]
    /\ inbox = {}
    /\ archive = {}
    /\ claim = [p \in Procs |-> None]
    /\ pc = [p \in Procs |-> "idle"]
    /\ target = [p \in Procs |-> None]
    /\ ev = [p \in Procs |-> None]
    /\ rec = [p \in Procs |-> None]
    /\ verdict = [p \in Procs |-> None]
    /\ todo = [p \in Procs |-> {}]
    /\ sends = [e \in Events |-> 0]
    /\ crashes = 0

\* What a process does once it has started.
Work(p) ==
    \/ Register(p) \/ Claim(p) \/ DrainDone(p) \/ Reply(p) \/ Move(p)
    \/ Receive(p) \/ Refuse(p) \/ LockHead(p) \/ Accept(p)
    \/ Load(p) \/ NothingPending(p) \/ Begin(p) \/ Audit(p) \/ Gate(p)
    \/ ApplyRework(p) \/ Verified(p) \/ Activating(p)
    \/ Advance(p) \/ Activate(p) \/ Settle(p) \/ Finalize(p) \/ Retire(p)

Start(p) ==
    \/ StartDrain(p)
    \/ \E e \in Events : StartHandle(p, e)
    \/ \E ws \in Workstreams :
          \/ StartReconcile(p, ws)
          \/ \E h \in Heads : StartRegister(p, ws, h)

Next ==
    \/ \E p \in Procs : Start(p) \/ Work(p) \/ Crash(p)
    \/ \E e \in Events : Enqueue(e)
    \/ \E ws \in Workstreams, i \in Issues : Queue(ws, i)

Spec == Init /\ [][Next]_vars

\* A started process goes on; drain-inbox and, after a death, reconcile are
\* issued again and again (by the completion hook and by the operator).
Fairness ==
    /\ \A p \in Procs : WF_vars(Work(p))
    /\ SF_vars(\E p \in Procs : StartDrain(p))
    /\ \A ws \in Workstreams : SF_vars(\E p \in Procs : StartReconcile(p, ws))

FairSpec == Spec /\ Fairness

-----------------------------------------------------------------------------
(* Properties *)

\* Every variable keeps its type.
TypeOK ==
    /\ store \in [Workstreams -> Records \union {None}]
    /\ gh \in [Workstreams -> [Issues -> Packets]]
    /\ inbox \subseteq Events
    /\ archive \subseteq Events
    /\ claim \in [Procs -> Events \union {None}]
    /\ pc \in [Procs -> PCs]
    /\ target \in [Procs -> Workstreams \union {None}]
    /\ ev \in [Procs -> Events \union {None}]
    /\ rec \in [Procs -> Records \union {None}]
    /\ verdict \in [Procs -> Verdicts \union {"no_successor", "human_required",
                                              "advanced", None}]
    /\ todo \in [Procs -> SUBSET Events]
    /\ sends \in [Events -> 0..MaxSends]
    /\ crashes \in 0..MaxCrashes

\* A file in completion-processed/ was really decided: its event id is among
\* the processed ids of its workstream (drain_completion_inbox moves a file
\* only after handle_completion returned).
ArchivedWasDecided ==
    \A e \in archive : store[e.ws] # None /\ e.id \in store[e.ws].processed

\* An event that was decided is never audited again, whatever is delivered
\* twice, restarted or reconciled (ADR-0006, idempotency).
NoSecondAudit ==
    \A p \in Procs :
        pc[p] = "audit" => ev[p].id \notin store[target[p]].processed

\* A decision is final: what is archived was decided, and is not audited once more.
DecisionsStand == ArchivedWasDecided /\ NoSecondAudit

\* The successor the record points at is the packet that is ACTIVE on GitHub,
\* activated by the very event the record reports.
SuccessorIsActive ==
    \A ws \in Workstreams :
        store[ws] # None /\ store[ws].state = "SUCCESSOR_HANDOFF" =>
            LET r == store[ws] IN
            /\ gh[ws][r.issue].status = "ACTIVE"
            /\ gh[ws][r.issue].by = r.outcome.event
            /\ gh[ws][r.issue - 1].status = "COMPLETE"

\* PASSED closes the cycle: the packet is still the ACTIVE one and no
\* successor was started behind the record's back by an earlier, crashed run.
PassedStartedNothing ==
    \A ws \in Workstreams :
        store[ws] # None /\ store[ws].state = "PASSED" =>
            \A i \in Issues : i > store[ws].issue => gh[ws][i].status # "ACTIVE"

\* The packet never asks for more than one round beyond the record, even when
\* the controller dies between editing the packet and storing the record.
PacketOneRoundAhead ==
    \A ws \in Workstreams :
        store[ws] # None =>
            LET r == store[ws]
                asked == gh[ws][r.issue].attempt IN
            /\ asked <= MaxAttempts
            /\ r.state = "REWORK_HANDOFF" => asked = r.attempt
            /\ r.pending # None => asked <= r.pending.attempt + 1

\* However often the controller died on the way, what the record says of the
\* cycle is what happened on GitHub.
RecordMatchesPackets == SuccessorIsActive /\ PassedStartedNothing /\ PacketOneRoundAhead

\* Work in flight is the one undecided event of the record.
PendingIsUndecided ==
    \A ws \in Workstreams : store[ws] # None => Consistent(store[ws])

\* Two drains never work on one inbox file: the file a process holds is in the
\* inbox, its owner is past the listing and has not replied, and is alone.
OneFilePerDrain ==
    \A p \in Procs :
        claim[p] # None =>
            /\ claim[p] \in inbox
            /\ pc[p] \notin {"idle", "register", "drain"}
            /\ \A q \in Procs : claim[q] = claim[p] => q = p

\* An accepted event is decided sooner or later, whoever dies in between.
PendingIsDecided ==
    \A ws \in Workstreams :
        (store[ws] # None /\ store[ws].pending # None)
            ~> (store[ws] # None /\ store[ws].pending = None)

\* An event written to the inbox leaves it, if every event is one that its
\* workstream accepts when it comes first.
EventLeavesInbox == \A e \in Events : e \in inbox ~> e \notin inbox

\* No event is stranded, neither in the inbox nor half decided in a record.
EverythingIsDecided == PendingIsDecided /\ EventLeavesInbox

\* Refinement: to an outside observer a workstream is a ledger that has at
\* most one open event and decides each event once.
OpenEvents ==
    [ws \in Workstreams |-> IF store[ws] = None THEN None ELSE store[ws].pending]
DecidedIds ==
    [ws \in Workstreams |-> IF store[ws] = None THEN {} ELSE store[ws].processed]
Stages ==
    [ws \in Workstreams |->
        IF store[ws] = None THEN "absent"
        ELSE IF store[ws].state \in Terminal THEN "closed" ELSE "live"]

Ledger == INSTANCE CompletionLedger
            WITH open <- OpenEvents, decided <- DecidedIds, stage <- Stages

\* The controller implements the ledger when one process runs at a time.
ImplementsLedger == Ledger!Spec
=============================================================================
