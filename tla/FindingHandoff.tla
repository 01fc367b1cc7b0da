---------------------------- MODULE FindingHandoff ----------------------------
(***************************************************************************)
(* The handoff of one audit finding as a GitHub issue: GitHubAIWorkHandoff *)
(* of atlas/chat_audit_github.py.  Several audits may hand the finding over *)
(* at once.  A claim file, written by compare-and-set, says who creates the *)
(* issue and later which issue it is; a marker in the issue's body finds an *)
(* issue whose creator has died.                                           *)
(*                                                                         *)
(* Findings have a claim file and a marker each, so one finding is enough.  *)
(***************************************************************************)
EXTENDS Naturals, FiniteSets

CONSTANTS
    Procs,      \* the audits that hand the finding over
    MaxIssues,  \* bound: issues that can be created
    MaxFaults,  \* bound: deaths and unknown answers
    MaxLate,    \* bound: leases that end while their owner still runs
    None

ASSUME HandoffAssumption ==
    /\ MaxIssues \in Nat /\ MaxFaults \in Nat /\ MaxLate \in Nat
    /\ None \notin Procs /\ None \notin Nat

VARIABLES
    branch,     \* the control branch exists
    claim,      \* the claim file, or None
    bound,      \* the audits that know the claim file's blob SHA
    open,       \* the open issues that carry the marker
    created,    \* how many issues were created
    pc, seen,   \* per audit: its step, and the claim as it read it
    number,     \* per audit: the issue it has found or created
    answers,    \* the issues that handoffs have answered with
    faults, late

vars == <<branch, claim, bound, open, created, pc, seen, number, answers,
          faults, late>>

Numbers == 1..MaxIssues
\* A claim is pending until it has an issue number.  An owner that runs no more
\* is None; live says that the lease of a pending claim is not over.
Claim == [owner : Procs \union {None}, issue : Numbers \union {None},
          live : BOOLEAN]
ASSUME ClaimAssumption == None \notin Claim
Phases == {"idle", "read", "search", "adopt", "edit", "take", "recheck", "create",
           "finalize", "refinalize", "update", "refresh", "wait"}

TypeOK ==
    /\ branch \in BOOLEAN /\ claim \in Claim \union {None}
    /\ bound \subseteq Procs /\ open \subseteq Numbers /\ created \in 0..MaxIssues
    /\ pc \in [Procs -> Phases] /\ seen \in [Procs -> Claim \union {None}]
    /\ number \in [Procs -> Numbers \union {None}] /\ answers \subseteq Numbers
    /\ faults \in 0..MaxFaults /\ late \in 0..MaxLate

Held(p) == [owner |-> p, issue |-> None, live |-> TRUE]
Final(n) == [owner |-> None, issue |-> n, live |-> FALSE]
HasIssue(c) == c # None /\ c.issue # None
Pending(c) == c # None /\ c.issue = None

-----------------------------------------------------------------------------
Go(p, step) == pc' = [pc EXCEPT ![p] = step]
Forget(p) ==
    /\ Go(p, "idle")
    /\ seen' = [seen EXCEPT ![p] = None] /\ number' = [number EXCEPT ![p] = None]
Orphaned(p) == IF claim # None /\ claim.owner = p THEN [claim EXCEPT !.owner = None]
               ELSE claim
Leave(p) == Forget(p) /\ bound' = bound \ {p} /\ claim' = Orphaned(p)

\* A write of the claim file, by an audit that knows its blob SHA.
\* Variant: by any audit.
KnowsNoSha(p) == TRUE
KnowsSha(p) == p \in bound
Put(p, c) == KnowsSha(p) /\ claim' = c /\ bound' = {p}
Conflict(p) == ~KnowsSha(p)

Claimless == UNCHANGED <<claim, bound>>
Frame == UNCHANGED <<branch, late>>
NoIssue == UNCHANGED <<open, created, answers>>
Fault == faults < MaxFaults /\ faults' = faults + 1

\* The handoff raises, and the audit's slice fails closed.
Raise(p) == Leave(p) /\ NoIssue /\ UNCHANGED faults /\ Frame
Answer(p, n) ==
    /\ Leave(p)
    /\ answers' = answers \union {n} /\ UNCHANGED <<open, created, faults>> /\ Frame

\* Read the claim file and its blob SHA.
Load(p) == /\ seen' = [seen EXCEPT ![p] = claim]
           /\ bound' = bound \union {p} /\ UNCHANGED claim

-----------------------------------------------------------------------------
\* The control branch is created if it is not there; another audit may have
\* created it meanwhile, which is as good.
Start(p) ==
    /\ pc[p] = "idle"
    /\ branch' = TRUE /\ Go(p, "read")
    /\ Claimless /\ NoIssue /\ UNCHANGED <<seen, number, faults, late>>

\* The claim as it is now: an issue to update, or a marker to search.
ReadClaim(p) ==
    /\ pc[p] = "read"
    /\ Load(p)
    /\ Go(p, IF HasIssue(claim) THEN "update" ELSE "search")
    /\ NoIssue /\ UNCHANGED <<number, faults>> /\ Frame

\* One open issue has the marker: it becomes the claim's.
FindIssue(p) ==
    /\ pc[p] = "search" /\ Cardinality(open) = 1
    /\ number' = [number EXCEPT ![p] = CHOOSE n \in open : TRUE]
    /\ Go(p, "adopt")
    /\ Claimless /\ NoIssue /\ UNCHANGED <<seen, faults>> /\ Frame

Adopt(p) ==
    /\ pc[p] = "adopt"
    /\ Put(p, Final(number[p]))
    /\ Go(p, "edit")
    /\ NoIssue /\ UNCHANGED <<seen, number, faults>> /\ Frame

\* The claim moved on while the marker was searched.  An audit that had found no
\* claim file reads the SHA again when it refreshes the claim.
AdoptConflict(p) ==
    /\ pc[p] = "adopt" /\ Conflict(p)
    /\ \/ /\ HasIssue(claim)
          /\ seen' = [seen EXCEPT ![p] = claim]
          /\ Go(p, IF seen[p] = None THEN "refresh" ELSE "update")
          /\ Claimless /\ NoIssue /\ UNCHANGED <<number, faults>> /\ Frame
       \/ ~HasIssue(claim) /\ Raise(p)

Edit(p) == pc[p] = "edit" /\ Answer(p, number[p])

\* Several open issues have the marker.
Ambiguous(p) ==
    /\ pc[p] \in {"search", "recheck"} /\ Cardinality(open) > 1
    /\ Raise(p)

\* No issue.  A pending claim whose lease runs is waited for; else it is taken.
\* Variant: it is taken; none that is pending is.
TakesAny(c) == TRUE
TakesNoPending(c) == c = None
Takes(c) == c # None => ~c.live

Own(p) ==
    /\ pc[p] = "search" /\ open = {} /\ Takes(seen[p])
    /\ Go(p, "take")
    /\ Claimless /\ NoIssue /\ UNCHANGED <<seen, number, faults>> /\ Frame

Wait(p) ==
    /\ pc[p] = "search" /\ open = {} /\ ~Takes(seen[p])
    /\ Go(p, "wait")
    /\ Claimless /\ NoIssue /\ UNCHANGED <<seen, number, faults>> /\ Frame

\* Some polls later the claim has its issue, or the wait is given up.
Waited(p) ==
    /\ pc[p] = "wait"
    /\ \/ /\ HasIssue(claim)
          /\ Load(p) /\ Go(p, "update")
          /\ NoIssue /\ UNCHANGED <<number, faults>> /\ Frame
       \/ Raise(p)

TakeClaim(p) ==
    /\ pc[p] = "take"
    /\ Put(p, Held(p))
    /\ seen' = [seen EXCEPT ![p] = None] /\ Go(p, "recheck")
    /\ NoIssue /\ UNCHANGED <<number, faults>> /\ Frame

\* Another audit has it: its issue is waited for.
TakeConflict(p) ==
    /\ pc[p] = "take" /\ Conflict(p)
    /\ Go(p, "wait")
    /\ Claimless /\ NoIssue /\ UNCHANGED <<seen, number, faults>> /\ Frame

\* The owner searches once more, and creates the issue if there is none.
FoundLate(p) ==
    /\ pc[p] = "recheck" /\ Cardinality(open) = 1
    /\ number' = [number EXCEPT ![p] = CHOOSE n \in open : TRUE]
    /\ Go(p, "finalize")
    /\ Claimless /\ NoIssue /\ UNCHANGED <<seen, faults>> /\ Frame

FoundNone(p) ==
    /\ pc[p] = "recheck" /\ open = {}
    /\ Go(p, "create")
    /\ Claimless /\ NoIssue /\ UNCHANGED <<seen, number, faults>> /\ Frame

\* `gh issue create`.
NewIssue ==
    /\ created < MaxIssues
    /\ created' = created + 1 /\ open' = open \union {created + 1}

Create(p) ==
    /\ pc[p] = "create" /\ NewIssue
    /\ number' = [number EXCEPT ![p] = created + 1]
    /\ Go(p, "finalize")
    /\ Claimless /\ UNCHANGED <<seen, answers, faults>> /\ Frame

\* It fails, with or without an effect: the marker is searched a last time.
CreateUnknown(p) ==
    /\ pc[p] = "create" /\ Fault
    /\ NewIssue \/ UNCHANGED <<open, created>>
    /\ \/ /\ Cardinality(open') = 1
          /\ number' = [number EXCEPT ![p] = CHOOSE n \in open' : TRUE]
          /\ Go(p, "finalize")
          /\ Claimless /\ UNCHANGED seen
       \/ Leave(p)
    /\ UNCHANGED answers /\ Frame

Finalize(p) ==
    /\ pc[p] \in {"finalize", "refinalize"} /\ KnowsSha(p)
    /\ Forget(p)
    /\ claim' = Final(number[p]) /\ bound' = {}
    /\ answers' = answers \union {number[p]}
    /\ UNCHANGED <<open, created, faults>> /\ Frame

\* A write of the claim file that raises and has reached the server.
PutUnknown(p) ==
    /\ pc[p] \in {"adopt", "take", "finalize", "refinalize"} /\ KnowsSha(p) /\ Fault
    /\ Forget(p)
    /\ claim' = IF pc[p] = "take" THEN [Held(p) EXCEPT !.owner = None]
                ELSE Final(number[p])
    /\ bound' = {} /\ NoIssue /\ Frame

\* The claim was taken over.  A claim with this issue is as good; one with
\* another issue is an error; one without gets this issue.
\* Variant: the own issue is answered, whatever the claim says.
AgreesAlways(c, n) == TRUE
Agrees(c, n) == c.issue = n

FinalizeConflict(p) ==
    /\ pc[p] = "finalize" /\ Conflict(p)
    /\ IF HasIssue(claim)
       THEN IF Agrees(claim, number[p]) THEN Answer(p, number[p]) ELSE Raise(p)
       ELSE /\ Load(p) /\ Go(p, "refinalize")
            /\ NoIssue /\ UNCHANGED <<number, faults>> /\ Frame

RefinalizeConflict(p) == pc[p] = "refinalize" /\ Conflict(p) /\ Raise(p)

\* The claim's issue is looked at, edited, and the claim refreshed; a conflict in
\* the refresh is ignored.  An issue that was closed is refused.
Update(p) ==
    /\ pc[p] \in {"update", "refresh"} /\ seen[p].issue \in open
    /\ Forget(p)
    /\ IF KnowsSha(p) \/ pc[p] = "refresh" THEN claim' = seen[p] /\ bound' = {} ELSE Claimless
    /\ answers' = answers \union {seen[p].issue}
    /\ UNCHANGED <<open, created, faults>> /\ Frame

UpdateRefused(p) ==
    pc[p] \in {"update", "refresh"} /\ seen[p].issue \notin open /\ Raise(p)

-----------------------------------------------------------------------------
\* A death, and as good as one: any other command that fails.
Die(p) ==
    /\ pc[p] # "idle" /\ Fault
    /\ Leave(p) /\ NoIssue /\ Frame

\* 120 s pass.  The lease of an owner that still runs is bounded.
Expire ==
    /\ Pending(claim) /\ claim.live
    /\ claim' = [claim EXCEPT !.live = FALSE]
    /\ IF claim.owner = None THEN UNCHANGED late
       ELSE late < MaxLate /\ late' = late + 1
    /\ seen' = [p \in Procs |-> IF Pending(seen[p]) THEN [seen[p] EXCEPT !.live = FALSE]
                               ELSE seen[p]]
    /\ UNCHANGED <<branch, bound, open, created, pc, number, answers, faults>>

\* The owner of the repository closes an issue; counted with the faults.
Close(n) ==
    /\ n \in open /\ Fault
    /\ open' = open \ {n}
    /\ UNCHANGED <<branch, claim, bound, created, pc, seen, number, answers, late>>

Init ==
    /\ branch = FALSE /\ claim = None /\ bound = {} /\ open = {} /\ created = 0
    /\ pc = [p \in Procs |-> "idle"] /\ seen = [p \in Procs |-> None]
    /\ number = [p \in Procs |-> None] /\ answers = {} /\ faults = 0 /\ late = 0

Step(p) ==
    \/ ReadClaim(p) \/ FindIssue(p) \/ Adopt(p) \/ AdoptConflict(p) \/ Edit(p)
    \/ Ambiguous(p) \/ Own(p) \/ Wait(p) \/ Waited(p) \/ TakeClaim(p)
    \/ TakeConflict(p) \/ FoundLate(p) \/ FoundNone(p) \/ Create(p) \/ Finalize(p)
    \/ FinalizeConflict(p) \/ RefinalizeConflict(p) \/ Update(p) \/ UpdateRefused(p)

Next ==
    \/ \E p \in Procs : \/ Start(p) \/ Step(p) \/ CreateUnknown(p) \/ PutUnknown(p)
                        \/ Die(p)
    \/ Expire
    \/ \E n \in open : Close(n)

Spec == Init /\ [][Next]_vars

\* Every command of a handoff has a timeout, time passes, and an audit whose
\* handoff failed runs its slice, and so the handoff, again.
Fairness == WF_vars(Expire) /\ \A p \in Procs : WF_vars(Start(p)) /\ WF_vars(Step(p))
FairSpec == Spec /\ Fairness

-----------------------------------------------------------------------------
(* Properties.                                                              *)

\* Every handoff that succeeded has answered with the issue of the claim file, and
\* so all with the same: also those that lost their claim to another audit.
AnswersAreTheClaims ==
    answers # {} => HasIssue(claim) /\ answers = {claim.issue}

\* A second open issue for the finding takes an owner that outlived its lease: no
\* death, lost answer or concurrent handoff alone makes one.
SpareIssueNeedsLateOwner == Cardinality(open) <= 1 + late

\* A handoff that is tried again gets its issue; but not when the claim's issue was
\* closed, and not when several open issues carry the marker.
HandoffAnswers ==
    <>[](\/ answers # {}
         \/ HasIssue(claim) /\ claim.issue \notin open
         \/ Cardinality(open) > 1)
=============================================================================
