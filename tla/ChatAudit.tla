------------------------------ MODULE ChatAudit ------------------------------
(***************************************************************************)
(* The continuous chat audit: atlas/chat_audit.py over the checkpoint of   *)
(* atlas/chat_audit_github.py.  Invocations of `chat-audit run-slice` on    *)
(* several hosts share one Audit Control Packet, a file on GitHub that is   *)
(* written by compare-and-set on its blob SHA.  An invocation reads HEAD,   *)
(* claims one audit unit, runs its executor without any lock, and applies   *)
(* the result if its claim is still in the packet.                          *)
(*                                                                         *)
(* Each host has a data root, and so a file lock, of its own.               *)
(***************************************************************************)
EXTENDS Naturals, Sequences, FiniteSets

CONSTANTS
    Procs,      \* the invocations that run at a time, each on its host
    Steady,     \* those of them that a scheduler starts again and again
    Heads,      \* commits that HEAD can name
    Queue,      \* the audit units, in order
    MaxFaults,  \* bound: deaths, lost answers, bad results, marks, rollovers,
                \* and runs of the invocations that are not steady
    MaxMoves,   \* bound: moves of HEAD
    None

ASSUME ChatAssumption ==
    /\ Steady \subseteq Procs
    /\ Queue \in Seq({Queue[i] : i \in DOMAIN Queue}) /\ Len(Queue) > 0
    /\ MaxFaults \in Nat /\ MaxMoves \in Nat
    /\ None \notin Procs \union Heads

Units == {Queue[i] : i \in DOMAIN Queue}

VARIABLES
    head,       \* the commit the worktrees are at
    packet,     \* the Audit Control Packet on GitHub, or None
    bound,      \* the invocations whose blob SHA is still the server's
    pc, mine,   \* per invocation: its step, and what it holds in memory
    kept,       \* the audit fields are as a running rollover found them
    issues,     \* findings with an [AI Work] issue
    returned,   \* passes with complete evidence that executors returned
    faults, moves

vars == <<head, packet, bound, pc, mine, kept, issues, returned, faults, moves>>

-----------------------------------------------------------------------------
(* The packet.  A claim names the running invocation that wrote it; a claim *)
(* id that no running invocation knows is the holder None.                  *)

Claim == [holder : Procs \union {None}, unit : Units, live : BOOLEAN,
          state : {"executing", "timed_out", "awaiting_evidence", "failed"}]
Statuses == {"IDLE", "IN_SLICE", "AWAITING_EVIDENCE", "SLICE_COMPLETE", "PASSED",
             "FINDINGS", "FAILED_CLOSED"}
Sessions == {"ACTIVE", "STALLED", "TIMEOUT", "ROLLOVER_REQUIRED", "RESUMED"}
Outcomes == {"PASS", "FINDING"}
Packet == [target : Heads, audited : Heads \union {None}, status : Statuses,
           unit : Units \union {None}, start : DOMAIN Queue,
           done : [Units -> Outcomes \union {"none"}], open : SUBSET Units,
           claim : Claim \union {None}, session : Sessions]

ASSUME NoneAssumption ==
    None \notin Units /\ None \notin Claim /\ None \notin Packet

\* What an executor's answer amounts to for the controller.
Results == Outcomes \union {"TIMEOUT", "AWAITING", "INCOMPLETE", "INVALID"}
Phases == {"idle", "begun", "claiming", "executing", "returned", "handed",
           "reconciling", "rolling", "unsaved"}
Memory == [head : Heads \union {None}, unit : Units \union {None},
           result : Results \union {None}]
Forgotten == [head |-> None, unit |-> None, result |-> None]

TypeOK ==
    /\ head \in Heads
    /\ packet \in Packet \union {None} /\ kept \in BOOLEAN
    /\ bound \subseteq Procs
    /\ pc \in [Procs -> Phases] /\ mine \in [Procs -> Memory]
    /\ issues \subseteq Heads \X Units
    /\ returned \subseteq Heads \X Units
    /\ faults \in 0..MaxFaults /\ moves \in 0..MaxMoves

Fresh(h) ==
    [target |-> h, audited |-> None, status |-> "IDLE", unit |-> None,
     start |-> 1, done |-> [u \in Units |-> "none"], open |-> {},
     claim |-> None, session |-> "ACTIVE"]

Completed(p) == {u \in Units : p.done[u] # "none"}
Found(p) == {u \in Units : p.done[u] = "FINDING"}
Executing(p) == p.claim # None /\ p.claim.state = "executing"
GenuinelyLive(p) == Executing(p) /\ p.claim.live
Resumable(p) == p.status = "IN_SLICE" /\ p.unit # None

\* The verdict rules that a save and a load enforce.
Verdict(p) ==
    LET current == p.audited = p.target IN
    /\ p.status \notin {"PASSED", "FINDINGS"} => ~current
    /\ p.status \in {"IN_SLICE", "AWAITING_EVIDENCE"} => p.unit # None
    /\ p.status = "IN_SLICE" => p.claim # None
    /\ p.status \in {"SLICE_COMPLETE", "PASSED", "FINDINGS"} =>
           p.unit = None /\ p.claim = None
    /\ p.status = "PASSED" =>
           current /\ Completed(p) = Units /\ p.open = {} /\ Found(p) = {}
    /\ p.status = "FINDINGS" =>
           /\ Completed(p) = Units
           /\ current \/ (Found(p) # {} /\ p.open # {})

\* The first unit from p.start on, round the queue, that is not complete.
NextUnit(p) ==
    LET turn(k) == Queue[(((p.start - 1) + k) % Len(Queue)) + 1]
        left == {k \in 0..(Len(Queue) - 1) : turn(k) \notin Completed(p)}
    IN IF left = {} THEN None ELSE turn(CHOOSE k \in left : \A j \in left : k <= j)

\* A new HEAD: a new run that keeps the baseline and starts one unit later.
DeltaRun(p, h) ==
    [p EXCEPT !.target = h, !.start = (p.start % Len(Queue)) + 1, !.unit = None,
              !.done = [u \in Units |-> "none"], !.claim = None,
              !.open = {}, !.status = "IDLE"]

Claimed(p, i, u) ==
    [p EXCEPT !.status = "IN_SLICE", !.unit = u,
              !.claim = [holder |-> i, unit |-> u, live |-> TRUE,
                         state |-> "executing"]]
Marked(p, s) ==
    IF p.claim = None THEN p
    ELSE [p EXCEPT !.claim.state = s, !.claim.live = FALSE]

Finalized(p) ==
    [p EXCEPT !.open = Found(p), !.unit = None, !.claim = None,
              !.status = IF Found(p) # {} THEN "FINDINGS" ELSE "PASSED",
              !.audited = IF Found(p) # {} THEN p.audited ELSE p.target]

\* HEAD is audited: only the coordination state is looked at.
Coordinated(p, good) ==
    [p EXCEPT !.unit = None, !.claim = None,
              !.session = IF good THEN "ACTIVE" ELSE "STALLED",
              !.status = IF good /\ p.open = {} THEN "PASSED" ELSE "FINDINGS"]

-----------------------------------------------------------------------------
(* Saves.  A save succeeds when the blob SHA the invocation loaded is still  *)
(* the server's; every save gives the file a new one.                       *)

Go(i, step, memory) == pc' = [pc EXCEPT ![i] = step] /\ mine' = [mine EXCEPT ![i] = memory]

Owned(p, i) == p.claim # None /\ p.claim.holder = i

\* The claim of an invocation that is over belongs to nobody who runs.
Orphaned(p, i) ==
    IF p # None /\ Owned(p, i)
    THEN [p EXCEPT !.claim.holder = None] ELSE p

SameAudit(p) == packet # None /\ packet = [p EXCEPT !.session = packet.session]
Rolling == \E i \in Procs : pc[i] = "rolling"

Write(p, keep) ==
    /\ Verdict(p)
    /\ packet' = p /\ bound' = keep
    /\ kept' = (Rolling => kept /\ SameAudit(p))

\* A step that ends the invocation: with a save, and without one.
SaveAndEnd(i, p) == Write(Orphaned(p, i), {}) /\ Go(i, "idle", Forgotten)
End(i) ==
    /\ Go(i, "idle", Forgotten)
    /\ packet' = Orphaned(packet, i) /\ bound' = bound \ {i}
    /\ kept' = kept

NoWrite == UNCHANGED <<packet, bound, kept>>
Outside == UNCHANGED <<head, issues, returned, moves>>

Fault == faults < MaxFaults /\ faults' = faults + 1

-----------------------------------------------------------------------------
(* run_slice up to the claim.                                               *)

\* The worktree's HEAD is read before the lock is taken.
Begin(i) ==
    /\ pc[i] = "idle"
    /\ Go(i, "begun", [Forgotten EXCEPT !.head = head])
    /\ IF i \in Steady THEN UNCHANGED faults ELSE Fault
    /\ NoWrite /\ Outside

\* No checkpoint yet: one is created before anything is claimed.
Initialize(i) ==
    /\ pc[i] = "begun" /\ packet = None
    /\ Write(Fresh(mine[i].head), {i})
    /\ Go(i, "claiming", mine[i])
    /\ UNCHANGED faults /\ Outside

\* HEAD is not the packet's target.  A live claim of another run is respected.
Drifted(i) == pc[i] = "begun" /\ packet # None /\ packet.target # mine[i].head
MayRotate(i) == Drifted(i) /\ ~(packet.status = "IN_SLICE" /\ GenuinelyLive(packet))

Rotate(i) ==
    /\ MayRotate(i)
    /\ Write(DeltaRun(packet, mine[i].head), {i})
    /\ Go(i, "claiming", mine[i])
    /\ UNCHANGED faults /\ Outside

\* The rotation cannot be saved: the new packet breaks the verdict rules.
RotationRefused(i) ==
    /\ MayRotate(i)
    /\ ~Verdict(DeltaRun(packet, mine[i].head))
    /\ Go(i, "unsaved", Forgotten)
    /\ NoWrite /\ UNCHANGED faults /\ Outside

AtTarget(i) == pc[i] = "begun" /\ packet # None /\ packet.target = mine[i].head
Current(p) == p.audited = p.target

CheapNoChange(i) ==
    /\ AtTarget(i) /\ Current(packet)
    /\ \E good \in BOOLEAN : SaveAndEnd(i, Coordinated(packet, good))
    /\ UNCHANGED faults /\ Outside

\* An executing claim is taken over only when its lease is over.
\* Variant: it never is.
ReclaimsFailed(p) == p.claim.state = "failed"
Reclaimable(p) == (Executing(p) /\ ~p.claim.live) \/ p.claim.state = "failed"

Reclaim(i) ==
    /\ AtTarget(i) /\ ~Current(packet) /\ Resumable(packet)
    /\ Reclaimable(packet)
    /\ Write(Marked(packet, "timed_out"), {i})
    /\ Go(i, "claiming", mine[i])
    /\ UNCHANGED faults /\ Outside

\* The unit to run: the interrupted one, or the next.
Wanted(p) == IF Resumable(p) THEN p.unit ELSE NextUnit(p)

Claims(i) ==
    /\ Wanted(packet) # None
    /\ Write(Claimed(packet, i, Wanted(packet)), {})
    /\ Go(i, "executing", [mine[i] EXCEPT !.unit = Wanted(packet)])
    /\ UNCHANGED faults /\ Outside

\* The claim of an invocation that has saved the packet already, and of one that
\* has just loaded it.
ClaimSaved(i) == pc[i] = "claiming" /\ i \in bound /\ Claims(i)
ClaimLoaded(i) ==
    /\ AtTarget(i) /\ ~Current(packet)
    /\ ~(Resumable(packet) /\ (Executing(packet) \/ Reclaimable(packet)))
    /\ Claims(i)

Finalize(i) ==
    /\ AtTarget(i) /\ ~Current(packet) /\ ~Resumable(packet)
    /\ NextUnit(packet) = None
    /\ SaveAndEnd(i, Finalized(packet))
    /\ UNCHANGED faults /\ Outside

\* Refused: a live claim at this HEAD or at another one, a stale blob SHA.
Refused(i) ==
    /\ \/ Drifted(i) /\ ~MayRotate(i)
       \/ AtTarget(i) /\ Executing(packet) /\ ~Reclaimable(packet)
       \/ pc[i] \in {"claiming", "handed"} /\ i \notin bound
       \/ pc[i] = "unsaved"
    /\ End(i)
    /\ UNCHANGED faults /\ Outside

-----------------------------------------------------------------------------
(* The executor runs without the lock; its answer is applied under it.      *)

\* An answer that is neither a pass nor a finding counts as a fault.  INVALID
\* stands for a result that fails validation and for an executor that raises.
Execute(i) ==
    /\ pc[i] = "executing"
    /\ \E r \in Results :
          /\ Go(i, IF r = "INVALID" THEN "reconciling" ELSE "returned",
                [mine[i] EXCEPT !.result = r])
          /\ IF r \in Outcomes THEN UNCHANGED faults ELSE Fault
          /\ returned' = IF r = "PASS"
                         THEN returned \union {<<mine[i].head, mine[i].unit>>}
                         ELSE returned
    /\ NoWrite /\ UNCHANGED <<head, issues, moves>>

\* Is the claim in the packet the one this invocation wrote?
\* Variant: it is asked only when there is a claim.
HoldsUnlessOther(i) == packet.claim # None => packet.claim.holder = i
Holds(i) == Owned(packet, i)

Discard(i) ==
    /\ pc[i] = "returned" /\ ~Holds(i)
    /\ End(i)
    /\ UNCHANGED faults /\ Outside

\* The packet with result r of unit u applied.
Applied(p, u, r) ==
    IF r = "TIMEOUT" THEN
        [Marked(p, "timed_out") EXCEPT !.status = "IN_SLICE", !.session = "TIMEOUT"]
    ELSE IF r = "AWAITING" THEN
        [Marked(p, "awaiting_evidence") EXCEPT !.status = "AWAITING_EVIDENCE"]
    ELSE IF r = "INCOMPLETE" THEN
        [p EXCEPT !.status = "FAILED_CLOSED", !.claim = None]
    ELSE [p EXCEPT !.done[u] = r, !.status = "SLICE_COMPLETE",
                   !.unit = None, !.claim = None,
                   !.open = IF r = "FINDING" THEN @ \union {u} ELSE @,
                   !.session = IF @ = "TIMEOUT" THEN "ACTIVE" ELSE @]

\* A finding is handed over as an issue before it is in the packet.
NeedsHandoff(i) == pc[i] = "returned" /\ mine[i].result = "FINDING"

HandOff(i) ==
    /\ NeedsHandoff(i) /\ Holds(i)
    /\ issues' = issues \union {<<packet.target, mine[i].unit>>}
    /\ Go(i, "handed", mine[i])
    /\ bound' = bound \union {i}
    /\ UNCHANGED <<packet, kept, head, returned, moves, faults>>

\* Variant: the failure is ignored.
HandOffIgnored(i) ==
    /\ NeedsHandoff(i) /\ Holds(i)
    /\ Fault
    /\ Go(i, "handed", mine[i]) /\ bound' = bound \union {i}
    /\ UNCHANGED <<packet, kept, head, issues, returned, moves>>
HandOffFails(i) ==
    /\ NeedsHandoff(i) /\ Holds(i)
    /\ Fault
    /\ issues' \in {issues, issues \union {<<packet.target, mine[i].unit>>}}
    /\ Go(i, "reconciling", mine[i])
    /\ NoWrite /\ UNCHANGED <<head, returned, moves>>

\* A result that may be saved now: just loaded, or loaded before the handoff.
Ready(i) ==
    \/ pc[i] = "returned" /\ Holds(i) /\ ~NeedsHandoff(i)
    \/ pc[i] = "handed" /\ i \in bound
Result(i) == Applied(packet, mine[i].unit, mine[i].result)

Commit(i) ==
    /\ Ready(i)
    /\ SaveAndEnd(i, Result(i))
    /\ UNCHANGED faults /\ Outside

\* The save raises; the write may have reached the server all the same.  A packet
\* that breaks the verdict rules raises before it is sent.
CommitUnknown(i) ==
    /\ Ready(i)
    /\ IF Verdict(Result(i)) THEN Fault ELSE UNCHANGED faults
    /\ Go(i, "reconciling", mine[i])
    /\ \/ Write(Result(i), {})
       \/ packet' = packet /\ bound' = bound \ {i} /\ kept' = kept
    /\ Outside

\* What the server holds of this invocation's result, if it is no completion.
CommittedOther(i) ==
    /\ packet.unit = mine[i].unit
    /\ \/ /\ packet.status = "IN_SLICE" /\ packet.session = "TIMEOUT"
          /\ packet.claim.state = "timed_out"
       \/ /\ packet.status = "AWAITING_EVIDENCE"
          /\ packet.claim.state = "awaiting_evidence"

Failed(p, u) ==
    [Marked(p, "failed") EXCEPT !.status = "IN_SLICE", !.unit = u,
                                !.session = "STALLED"]

\* After an exception the packet is loaded again: a committed result stands, a
\* lost claim is left alone, and a claim that is still ours is marked failed.
Reconcile(i) ==
    /\ pc[i] = "reconciling"
    /\ IF Owned(packet, i) /\ packet.done[mine[i].unit] = "none" /\ ~CommittedOther(i)
       THEN SaveAndEnd(i, Failed(packet, mine[i].unit))
       ELSE End(i)
    /\ UNCHANGED faults /\ Outside

-----------------------------------------------------------------------------
(* The session: what the owner marks, and the rollover to a fresh chat.     *)

MarkSession(s) ==
    /\ packet # None /\ packet.target = head /\ Fault
    /\ LET p == IF s = "TIMEOUT" THEN Marked(packet, "timed_out") ELSE packet
       IN Write([p EXCEPT !.session = s], {})
    /\ UNCHANGED <<pc, mine>> /\ Outside

StartRollover(i) ==
    /\ pc[i] = "idle" /\ ~Rolling /\ Fault
    /\ packet # None /\ packet.target = head
    /\ packet.session \in {"ROLLOVER_REQUIRED", "TIMEOUT", "STALLED"}
    /\ packet' = packet /\ bound' = {} /\ kept' = TRUE
    /\ Go(i, "rolling", [Forgotten EXCEPT !.head = head])
    /\ Outside

\* The provider has answered.  Had an audit field changed, this would raise.
FinishRollover(i) ==
    /\ pc[i] = "rolling"
    /\ IF kept THEN SaveAndEnd(i, [packet EXCEPT !.session = "RESUMED"]) ELSE End(i)
    /\ UNCHANGED faults /\ Outside

-----------------------------------------------------------------------------
(* The environment.                                                         *)

\* The lease of 900 s passes.  A claim whose holder still runs is a fault.
Expire ==
    /\ packet # None /\ GenuinelyLive(packet)
    /\ packet' = [packet EXCEPT !.claim.live = FALSE]
    /\ IF packet.claim.holder = None THEN UNCHANGED faults ELSE Fault
    /\ UNCHANGED <<bound, kept, pc, mine>> /\ Outside

Die(i) ==
    /\ pc[i] # "idle" /\ Fault
    /\ End(i) /\ Outside

MoveHead(h) ==
    /\ h # head /\ moves < MaxMoves
    /\ head' = h /\ moves' = moves + 1
    /\ NoWrite /\ UNCHANGED <<pc, mine, issues, returned, faults>>

-----------------------------------------------------------------------------
\* No checkpoint yet, or the one of an audit that passed.
Passed(h) == [Fresh(h) EXCEPT !.audited = h, !.status = "PASSED",
                              !.done = [u \in Units |-> "PASS"]]

Init ==
    /\ head \in Heads /\ bound = {} /\ kept = TRUE
    /\ pc = [i \in Procs |-> "idle"] /\ mine = [i \in Procs |-> Forgotten]
    /\ \/ packet = None /\ returned = {}
       \/ \E h \in Heads : packet = Passed(h) /\ returned = {h} \X Units
    /\ issues = {} /\ faults = 0 /\ moves = 0

\* The steps of an invocation that has begun.
Continue(i) ==
    \/ Initialize(i) \/ Rotate(i) \/ RotationRefused(i) \/ CheapNoChange(i)
    \/ Reclaim(i) \/ ClaimSaved(i) \/ ClaimLoaded(i) \/ Finalize(i) \/ Refused(i)
    \/ Execute(i) \/ Discard(i) \/ HandOff(i) \/ HandOffFails(i)
    \/ Commit(i) \/ CommitUnknown(i) \/ Reconcile(i) \/ FinishRollover(i)

Next ==
    \/ \E i \in Procs : Begin(i) \/ Continue(i) \/ StartRollover(i) \/ Die(i)
    \/ \E s \in {"TIMEOUT", "ROLLOVER_REQUIRED"} : MarkSession(s)
    \/ Expire
    \/ \E h \in Heads : MoveHead(h)

Spec == Init /\ [][Next]_vars

\* Invocations end (every command has a timeout), time passes, and a scheduler
\* starts the steady ones again.
Fairness ==
    /\ \A i \in Procs : WF_vars(Continue(i))
    /\ \A i \in Steady : WF_vars(Begin(i))
    /\ WF_vars(Expire)

FairSpec == Spec /\ Fairness

-----------------------------------------------------------------------------
(* Properties.                                                              *)

\* A verdict and a baseline are earned: PASSED, and every audited commit, has for
\* each unit an executor's pass with complete evidence at that very commit
\* (_finalize_queue and _start_new_delta_run of chat_audit.py).
VerdictIsEarned ==
    packet # None =>
        /\ packet.status = "PASSED" => packet.audited = packet.target
        /\ packet.audited # None =>
               \A u \in Units : <<packet.audited, u>> \in returned

\* A finding is in the packet only when its issue exists: the handoff comes before
\* the commit of the result, whatever fails between the two.
FindingHasIssue ==
    packet # None =>
        \A u \in Found(packet) : <<packet.target, u>> \in issues

\* Nothing stands in the packet that was not earned: no verdict without a pass of
\* every unit, no finding without its issue.
PacketIsEarned == VerdictIsEarned /\ FindingHasIssue

\* A claim is respected.  While it is live it leaves the packet only by a step of
\* the invocation that holds it, not by another run-slice and not because HEAD has
\* moved on; and what a holder completed stays as it is while the target does: no
\* late, stolen or repeated result is applied over it.
ClaimsAreRespected ==
    [][packet # None =>
          /\ \A i \in Procs :
                (GenuinelyLive(packet) /\ packet.claim.holder = i /\ pc'[i] = pc[i]) =>
                    packet'.claim # None /\ packet'.claim.holder = i
          /\ packet'.target = packet.target =>
                \A u \in Completed(packet) : packet'.done[u] = packet.done[u]]_vars

\* Once HEAD rests and the faults are over, HEAD gets its verdict; but not when it
\* rests at the old baseline while the packet is at another target.
Judged == packet # None /\ packet.status \in {"PASSED", "FINDINGS"} /\ packet.target = head
WentBack == packet # None /\ packet.audited = head /\ packet.target # head
HeadGetsVerdict == <>[](Judged \/ WentBack)
=============================================================================
