------------------------------ MODULE PassCycle ------------------------------
(***************************************************************************)
(* advance_pass_cycle of GitHubWorkPacketAdapter (atlas/work_controller.py): *)
(* after a verified PASS the Work Packet of the issue is completed and one   *)
(* queued packet is made ACTIVE.                                             *)
(*                                                                           *)
(* Packets are GitHub issues.  Every gh call is a step of its own: a view, a *)
(* list, the recheck before an edit, the edit.  Between any two the owner    *)
(* may edit a packet, another process may run, and the process may die; it   *)
(* is then run again for the same transition.                                *)
(***************************************************************************)
EXTENDS Naturals

CONSTANTS
    Issues,          \* the [AI Work] issues of the repository
    Transitions,     \* cycle transitions: [issue, event]
    Procs,           \* controller processes
    WorkstreamOf,    \* WORKSTREAM of a packet
    BranchOf,        \* BRANCH of a packet
    Trusted,         \* packets whose author may write to the repository
    Readable,        \* packets whose metadata can be parsed
    InitialPackets,  \* the packets found at the start
    OwnerEdits,      \* what the owner does by hand
    None,            \* "no value"
    MaxEdits,        \* bound: edits by the owner
    MaxCrashes       \* bound: process deaths

\* A packet: STATUS, QUEUE_STATE=QUEUED, AFTER_ISSUE, CYCLE_TRANSITION,
\* CYCLE_SUCCESSOR, CYCLE_PREDECESSOR; text stands for the rest of the body.
Packets ==
    [open : BOOLEAN, status : {"ACTIVE", "PAUSED", "COMPLETE"},
     queued : BOOLEAN, after : Issues \union {None},
     transition : Transitions \union {None}, next : Issues \union {None},
     prev : Issues \union {None}, text : 0..MaxEdits]

EditKinds == {"queue", "unqueue", "pause", "activate", "text", "close"}

Kinds == {"no_successor", "advanced", "already_activated", "human_required"}

ASSUME PassCycleAssumption ==
    /\ Transitions \subseteq [issue : Issues, event : Nat]
    /\ Trusted \subseteq Issues
    /\ Readable \subseteq Issues
    /\ InitialPackets \subseteq [Issues -> Packets]
    /\ \A g \in InitialPackets, i \in Issues :
          g[i].transition = None /\ g[i].next = None /\ g[i].prev = None
    /\ OwnerEdits \subseteq EditKinds
    /\ MaxEdits \in Nat
    /\ MaxCrashes \in Nat
    /\ None \notin Issues
    /\ None \notin Transitions
    /\ None \notin Packets
    /\ None \notin Kinds
    /\ None \notin [by : Transitions, to : Issues, stage : {"completed", "followed"}]

PCs == {"idle", "view", "queue", "resume", "unique", "sole", "conflicts",
        "ambiguous", "succ", "pred", "check", "edit", "timed", "confirm",
        "again"}

VARIABLES
    gh,        \* the packets
    pc,        \* where each process stands
    trans,     \* the transition it works for
    succ,      \* the successor it has chosen
    phase,     \* "fresh", "resumed", or "completed" its predecessor
    base,      \* the body an edit starts from
    seen,      \* the successor as it was before the predecessor's edit
    result,    \* the process's last CycleAdvanceResult
    answered,  \* transitions whose result reached the controller's record
    edits,     \* edits by the owner so far
    crashes    \* process deaths so far

vars == <<gh, pc, trans, succ, phase, base, seen, result, answered, edits,
          crashes>>
bound == <<edits, crashes>>

-----------------------------------------------------------------------------
(* What the adapter reads off the packets *)

Pred(p) == trans[p].issue

SameLoop(i, j) == WorkstreamOf[i] = WorkstreamOf[j] /\ BranchOf[i] = BranchOf[j]

\* queued_successor_disposition: "eligible" for this predecessor.
Eligible(i, pred) ==
    /\ i \in Readable
    /\ gh[i].queued
    /\ gh[i].status = "PAUSED"
    /\ gh[i].after = pred
    /\ SameLoop(i, pred)

\* A queued packet that is not plainly somebody else's successor.
Related(i, pred) ==
    /\ gh[i].queued
    /\ \/ i \notin Readable
       \/ gh[i].status # "PAUSED"
       \/ gh[i].after \in {None, pred}

QueuedFor(pred) == {i \in Issues \ {pred} : gh[i].open /\ Related(i, pred)}

ActivePackets == {i \in Trusted : gh[i].open /\ gh[i].status = "ACTIVE"}

\* _trusted_active_workstream_issues and _other_branch_resume_issues.
ActiveInWorkstream(pred) ==
    {i \in ActivePackets : WorkstreamOf[i] = WorkstreamOf[pred]}
ActiveOnBranch(pred) == {i \in ActivePackets : BranchOf[i] = BranchOf[pred]}

\* A view is good for an open packet of a trusted author.
Usable(i) == gh[i].open /\ i \in Trusted

\* Variant: the packet names itself as its successor.
CompleteBody_NamesItself(r, t, s) ==
    [r EXCEPT !.status = "COMPLETE", !.queued = FALSE, !.transition = t,
              !.next = t.issue]

\* The two rendered bodies.
CompleteBody(r, t, s) ==
    [r EXCEPT !.status = "COMPLETE", !.queued = FALSE, !.transition = t,
              !.next = s]
ActiveBody(r, t) ==
    [r EXCEPT !.status = "ACTIVE", !.queued = FALSE, !.transition = t,
              !.prev = t.issue]

\* The packet a process is about to edit, and the body it will write.
EditedIssue(p) == IF phase[p] = "fresh" THEN Pred(p) ELSE succ[p]
NewBody(p) ==
    IF phase[p] = "fresh"
    THEN CompleteBody(base[p], trans[p], succ[p])
    ELSE ActiveBody(base[p], trans[p])

SameBody(r, s) == [r EXCEPT !.open = s.open] = s

Goto(p, from, to) == pc[p] = from /\ pc' = [pc EXCEPT ![p] = to]

\* The call returns; the controller's record is settled with the result.
Return(p, kind) ==
    /\ pc' = [pc EXCEPT ![p] = "idle"]
    /\ result' = [result EXCEPT ![p] = kind]
    /\ answered' = answered \union {trans[p]}

StepTo(p, from, to) == Goto(p, from, to) /\ UNCHANGED <<result, answered>>

Reads(p) == UNCHANGED <<gh, trans, bound>>

-----------------------------------------------------------------------------
(* advance_pass_cycle *)

\* Variant: a run is only repeated while the predecessor is ACTIVE.
Start_OnlyActive(p, t) ==
    /\ gh[t.issue].status = "ACTIVE"
    /\ t \notin answered
    /\ Goto(p, "idle", "view")
    /\ trans' = [trans EXCEPT ![p] = t]
    /\ succ' = [succ EXCEPT ![p] = None]
    /\ phase' = [phase EXCEPT ![p] = "fresh"]
    /\ base' = [base EXCEPT ![p] = None]
    /\ seen' = [seen EXCEPT ![p] = None]
    /\ result' = [result EXCEPT ![p] = None]
    /\ UNCHANGED <<gh, answered, bound>>

\* The controller settles a transition once; a run that died is repeated.
Start(p, t) ==
    /\ t \notin answered
    /\ Goto(p, "idle", "view")
    /\ trans' = [trans EXCEPT ![p] = t]
    /\ succ' = [succ EXCEPT ![p] = None]
    /\ phase' = [phase EXCEPT ![p] = "fresh"]
    /\ base' = [base EXCEPT ![p] = None]
    /\ seen' = [seen EXCEPT ![p] = None]
    /\ result' = [result EXCEPT ![p] = None]
    /\ UNCHANGED <<gh, answered, bound>>

\* A packet that does not fit, or a gh call that fails: ValidationError.
HumanRequired(p) ==
    /\ pc[p] # "idle"
    /\ Return(p, "human_required")
    /\ UNCHANGED <<gh, trans, succ, phase, base, seen, bound>>

\* Variants: a COMPLETE predecessor ends the cycle, or is resumed by anyone.
View_NoResume(p) ==
    /\ pc[p] = "view"
    /\ Usable(Pred(p))
    /\ \/ gh[Pred(p)].status = "ACTIVE" /\ StepTo(p, "view", "queue")
       \/ gh[Pred(p)].status = "COMPLETE" /\ Return(p, "no_successor")
    /\ UNCHANGED <<succ, phase, base, seen>>
    /\ Reads(p)
View_AnyTransition(p) ==
    /\ pc[p] = "view"
    /\ Usable(Pred(p))
    /\ \/ /\ gh[Pred(p)].status = "ACTIVE"
          /\ StepTo(p, "view", "queue")
          /\ UNCHANGED <<succ, phase>>
       \/ /\ gh[Pred(p)].status = "COMPLETE"
          /\ gh[Pred(p)].next # None
          /\ succ' = [succ EXCEPT ![p] = gh[Pred(p)].next]
          /\ phase' = [phase EXCEPT ![p] = "resumed"]
          /\ StepTo(p, "view", "resume")
    /\ UNCHANGED <<base, seen>>
    /\ Reads(p)

\* The predecessor is ACTIVE, or COMPLETE by this very transition.
View(p) ==
    /\ pc[p] = "view"
    /\ Usable(Pred(p))
    /\ Pred(p) \in Readable
    /\ \/ /\ gh[Pred(p)].status = "ACTIVE"
          /\ StepTo(p, "view", "queue")
          /\ UNCHANGED <<succ, phase>>
       \/ /\ gh[Pred(p)].status = "COMPLETE"
          /\ gh[Pred(p)].transition = trans[p]
          /\ gh[Pred(p)].next # None
          /\ succ' = [succ EXCEPT ![p] = gh[Pred(p)].next]
          /\ phase' = [phase EXCEPT ![p] = "resumed"]
          /\ StepTo(p, "view", "resume")
    /\ UNCHANGED <<base, seen>>
    /\ Reads(p)

\* Exactly one packet is queued for it, and that one is eligible.
ListQueue(p) ==
    /\ \/ /\ pc[p] = "queue"
          /\ QueuedFor(Pred(p)) = {}
          /\ Return(p, "no_successor")
          /\ UNCHANGED succ
       \/ /\ pc[p] = "queue"
          /\ \E i \in Trusted :
                /\ QueuedFor(Pred(p)) = {i}
                /\ Eligible(i, Pred(p))
                /\ succ' = [succ EXCEPT ![p] = i]
                /\ StepTo(p, "queue", "conflicts")
    /\ UNCHANGED <<phase, base, seen>>
    /\ Reads(p)

\* _resume_recorded_cycle: the recorded successor is this transition's ACTIVE
\* packet already, or it is still eligible.
Resume(p) ==
    /\ pc[p] = "resume"
    /\ Usable(succ[p])
    /\ \/ /\ gh[succ[p]].status = "ACTIVE"
          /\ ~gh[succ[p]].queued
          /\ gh[succ[p]].transition = trans[p]
          /\ succ[p] \in Readable
          /\ SameLoop(succ[p], Pred(p))
          /\ StepTo(p, "resume", "unique")
       \/ /\ Eligible(succ[p], Pred(p))
          /\ StepTo(p, "resume", "conflicts")
    /\ UNCHANGED <<succ, phase, base, seen>>
    /\ Reads(p)

Unique(p) ==
    /\ pc[p] = "unique"
    /\ ActiveInWorkstream(Pred(p)) = {succ[p]}
    /\ StepTo(p, "unique", "sole")
    /\ UNCHANGED <<succ, phase, base, seen>>
    /\ Reads(p)

Sole(p) ==
    /\ pc[p] = "sole"
    /\ ActiveOnBranch(Pred(p)) \subseteq {succ[p]}
    /\ Return(p, "already_activated")
    /\ UNCHANGED <<succ, phase, base, seen>>
    /\ Reads(p)

\* Variant: only the packets of the branch are looked at.
Conflicts_BranchOnly(p) ==
    /\ StepTo(p, "conflicts", "ambiguous")
    /\ UNCHANGED <<succ, phase, base, seen>>
    /\ Reads(p)

\* No other ACTIVE packet in the workstream, then none on the branch.  The
\* predecessor itself is expected as long as it has not been completed.
Conflicts(p) ==
    /\ pc[p] = "conflicts"
    /\ ActiveInWorkstream(Pred(p)) \subseteq
          (IF phase[p] = "fresh" THEN {Pred(p)} ELSE {})
    /\ StepTo(p, "conflicts", "ambiguous")
    /\ UNCHANGED <<succ, phase, base, seen>>
    /\ Reads(p)

Ambiguous(p) ==
    /\ pc[p] = "ambiguous"
    /\ ActiveOnBranch(Pred(p)) \subseteq {Pred(p)}
    /\ IF phase[p] = "completed"
       THEN StepTo(p, "ambiguous", "check")
       ELSE StepTo(p, "ambiguous", "succ")
    /\ UNCHANGED <<succ, phase, base, seen>>
    /\ Reads(p)

-----------------------------------------------------------------------------
(* _activate_successor *)

ViewSuccessor(p) ==
    /\ pc[p] = "succ"
    /\ Usable(succ[p])
    /\ Eligible(succ[p], Pred(p))
    /\ base' = [base EXCEPT ![p] = gh[succ[p]]]
    /\ seen' = [seen EXCEPT ![p] = gh[succ[p]]]
    /\ IF phase[p] = "fresh"
       THEN StepTo(p, "succ", "pred")
       ELSE StepTo(p, "succ", "check")
    /\ UNCHANGED <<succ, phase>>
    /\ Reads(p)


ViewPredecessor(p) ==
    /\ pc[p] = "pred"
    /\ gh[Pred(p)].status = "ACTIVE"
    /\ base' = [base EXCEPT ![p] = gh[Pred(p)]]
    /\ StepTo(p, "pred", "check")
    /\ UNCHANGED <<succ, phase, seen>>
    /\ Reads(p)

\* _cas_replace_issue_body: body and updatedAt are compared once more ...
Recheck(p) ==
    /\ pc[p] = "check"
    /\ gh[EditedIssue(p)] = base[p]
    /\ StepTo(p, "check", "edit")
    /\ UNCHANGED <<succ, phase, base, seen>>
    /\ Reads(p)

\* ... and the edit, which is unconditional, replaces the body.  It may be
\* refused, fail after it has landed, or time out either way.
Edit(p) ==
    LET i == EditedIssue(p)
        landed == [gh EXCEPT ![i] = [NewBody(p) EXCEPT !.open = gh[i].open]]
    IN
    /\ pc[p] = "edit"
    /\ \/ gh' = landed /\ StepTo(p, "edit", "confirm")
       \/ gh' = landed /\ Return(p, "human_required")
       \/ gh' \in {gh, landed} /\ StepTo(p, "edit", "timed")
    /\ UNCHANGED <<trans, succ, phase, base, seen, bound>>

\* After a timeout the edit counts if the body is there.
TimedOut(p) ==
    /\ pc[p] = "timed"
    /\ SameBody(gh[EditedIssue(p)], NewBody(p))
    /\ StepTo(p, "timed", "confirm")
    /\ UNCHANGED <<succ, phase, base, seen>>
    /\ Reads(p)

\* Each edit is confirmed by another view.
Confirm(p) ==
    /\ pc[p] = "confirm"
    /\ gh[EditedIssue(p)].transition = trans[p]
    /\ \/ /\ phase[p] = "fresh"
          /\ gh[Pred(p)].status = "COMPLETE"
          /\ phase' = [phase EXCEPT ![p] = "completed"]
          /\ StepTo(p, "confirm", "again")
       \/ /\ phase[p] # "fresh"
          /\ gh[succ[p]].status = "ACTIVE"
          /\ ~gh[succ[p]].queued
          /\ UNCHANGED phase
          /\ Return(p, "advanced")
    /\ UNCHANGED <<succ, base, seen>>
    /\ Reads(p)

\* The successor must not have changed while the predecessor was completed.
ViewAgain(p) ==
    /\ pc[p] = "again"
    /\ gh[succ[p]] = seen[p]
    /\ base' = [base EXCEPT ![p] = gh[succ[p]]]
    /\ StepTo(p, "again", "conflicts")
    /\ UNCHANGED <<succ, phase, seen>>
    /\ Reads(p)

-----------------------------------------------------------------------------
(* Environment, and the specification *)

Crash(p) ==
    /\ pc[p] # "idle"
    /\ crashes < MaxCrashes
    /\ crashes' = crashes + 1
    /\ pc' = [pc EXCEPT ![p] = "idle"]
    /\ result' = [result EXCEPT ![p] = None]
    /\ UNCHANGED <<gh, trans, succ, phase, base, seen, answered, edits>>

\* The owner edits a packet by hand: queues one that has not run, takes it off
\* the queue, pauses or starts one, changes its text, or closes the issue.  A
\* COMPLETE packet is not reopened.
OwnerEdit(i) ==
    LET r == gh[i]
        Rewrite(new) == gh' = [gh EXCEPT ![i] = [new EXCEPT !.text = edits + 1]]
    IN
    /\ edits < MaxEdits
    /\ edits' = edits + 1
    /\ \/ /\ "queue" \in OwnerEdits
          /\ r.status = "PAUSED" /\ ~r.queued /\ r.transition = None
          /\ \E j \in Issues \ {i} :
                Rewrite([r EXCEPT !.queued = TRUE, !.after = j])
       \/ /\ "unqueue" \in OwnerEdits /\ r.queued
          /\ Rewrite([r EXCEPT !.queued = FALSE])
       \/ /\ "pause" \in OwnerEdits /\ r.status = "ACTIVE"
          /\ Rewrite([r EXCEPT !.status = "PAUSED"])
       \/ /\ "activate" \in OwnerEdits /\ r.status = "PAUSED"
          /\ Rewrite([r EXCEPT !.status = "ACTIVE", !.queued = FALSE])
       \/ /\ "text" \in OwnerEdits
          /\ Rewrite(r)
       \/ /\ "close" \in OwnerEdits
          /\ gh' = [gh EXCEPT ![i].open = FALSE]
    /\ UNCHANGED <<pc, trans, succ, phase, base, seen, result, answered, crashes>>

Init ==
    /\ gh \in InitialPackets
    /\ pc = [p \in Procs |-> "idle"]
    /\ trans = [p \in Procs |-> None]
    /\ succ = [p \in Procs |-> None]
    /\ phase = [p \in Procs |-> "fresh"]
    /\ base = [p \in Procs |-> None]
    /\ seen = [p \in Procs |-> None]
    /\ result = [p \in Procs |-> None]
    /\ answered = {}
    /\ edits = 0
    /\ crashes = 0

Work(p) ==
    \/ View(p) \/ ListQueue(p) \/ Resume(p) \/ Unique(p) \/ Sole(p)
    \/ Conflicts(p) \/ Ambiguous(p)
    \/ ViewSuccessor(p) \/ ViewPredecessor(p) \/ Recheck(p) \/ Edit(p)
    \/ TimedOut(p) \/ Confirm(p) \/ ViewAgain(p) \/ HumanRequired(p)

Next ==
    \/ \E p \in Procs :
          \/ \E t \in Transitions : Start(p, t)
          \/ Work(p)
          \/ Crash(p)
    \/ \E i \in Issues : OwnerEdit(i)

Spec == Init /\ [][Next]_vars

\* A call goes on, and a transition without a result is run again (reconcile).
Fairness ==
    /\ \A p \in Procs : WF_vars(Work(p))
    /\ \A t \in Transitions : SF_vars(\E p \in Procs : Start(p, t))

FairSpec == Spec /\ Fairness

-----------------------------------------------------------------------------
(* Properties *)

\* Every variable keeps its type.
TypeOK ==
    /\ gh \in [Issues -> Packets]
    /\ pc \in [Procs -> PCs]
    /\ trans \in [Procs -> Transitions \union {None}]
    /\ succ \in [Procs -> Issues \union {None}]
    /\ phase \in [Procs -> {"fresh", "resumed", "completed"}]
    /\ base \in [Procs -> Packets \union {None}]
    /\ seen \in [Procs -> Packets \union {None}]
    /\ result \in [Procs -> Kinds \union {None}]
    /\ answered \subseteq Transitions
    /\ edits \in 0..MaxEdits
    /\ crashes \in 0..MaxCrashes

\* A packet that a cycle activated has a predecessor that this very cycle
\* completed and that names it as its successor (advance_pass_cycle writes
\* "predecessor ACTIVE -> COMPLETE before successor ... -> ACTIVE").
SuccessorFollowsPredecessor ==
    \A i \in Issues :
        gh[i].prev # None =>
            LET pred == gh[gh[i].prev] IN
            /\ pred.status = "COMPLETE"
            /\ pred.next = i
            /\ gh[i].status = "ACTIVE" => pred.transition = gh[i].transition

\* When a cycle makes a packet ACTIVE, no other trusted packet is ACTIVE in
\* its workstream or on its branch, so /work-resume finds the one.
ActivatesAlone ==
    [][\A i \in Issues :
          (gh[i].status # "ACTIVE" /\ gh'[i].status = "ACTIVE"
             /\ edits' = edits) =>
              \A j \in Trusted \ {i} :
                  (gh'[j].open /\ gh'[j].status = "ACTIVE") =>
                      /\ WorkstreamOf[j] # WorkstreamOf[i]
                      /\ BranchOf[j] # BranchOf[i]]_vars

\* The result the controller stores tells the truth about GitHub: a cycle that
\* reports a successor has handed over to it, and one that reports none has
\* left its predecessor alone.
AnswerIsTrue ==
    \A p \in Procs :
        LET pred == gh[Pred(p)] IN
        /\ result[p] \in {"advanced", "already_activated"} =>
              /\ pred.transition = trans[p]
              /\ pred.next = succ[p]
              /\ gh[succ[p]].prev = Pred(p)
        /\ result[p] = "no_successor" => pred.transition # trans[p]

\* The chain of packets on GitHub and what is stored about it agree: ACTIVE packets
\* follow a completed one, and a stored result tells what GitHub holds.
HandoverIsTrue == SuccessorFollowsPredecessor /\ AnswerIsTrue

\* A predecessor that was completed is followed, whoever dies in between, or
\* its transition is answered (human_required stops it for good).
HandoverEnds ==
    \A t \in Transitions :
        gh[t.issue].transition = t /\ gh[t.issue].status = "COMPLETE" ~>
            \/ gh[t.issue].next # None /\ gh[gh[t.issue].next].prev = t.issue
            \/ t \in answered

\* Refinement: the packets are handed over one step at a time.
Handed ==
    [i \in Issues |->
        IF gh[i].next = None THEN None
        ELSE [by |-> gh[i].transition, to |-> gh[i].next,
              stage |-> IF gh[gh[i].next].prev = i THEN "followed"
                        ELSE "completed"]]

Handover == INSTANCE PacketHandover WITH handed <- Handed

\* The cycle implements the handover.
ImplementsHandover == Handover!Spec
=============================================================================
