-------------------------- MODULE InstructionGovernance --------------------------
(***************************************************************************)
(* A change of the instructions a repository gives its agents: audited for   *)
(* an exact worktree and kept as the one cached audit, published as a        *)
(* disposition (atlas/instruction_governance.py), and, once its canary has   *)
(* passed, turned into one request for adoption                              *)
(* (instruction_governance_canary.py).                                       *)
(*                                                                           *)
(* Everything is built from ledgers and from the worktree without the lock,  *)
(* and appended under it.  The audit, the managed surfaces and HEAD are read *)
(* one after the other, in the order of the code, and may change between two *)
(* of the reads.  The surfaces are read in one step, and a digest is what it *)
(* is taken of.                                                              *)
(***************************************************************************)
EXTENDS Naturals, Sequences, FiniteSets, FiniteSetsExt

CONSTANTS
    Coordinators,     \* processes that run the commands
    Heads,            \* target heads; the surfaces committed at one are named like it
    InitialHead,
    MaxEvaluations,   \* bound: behavior evaluations
    CanaryIds,
    MaxDispositions,  \* _MAX_DISPOSITIONS
    MaxRecords,       \* _MAX_RECORDS of the canary ledger
    MaxMoves          \* bound: moves of the worktree

ASSUME GovernanceAssumption ==
    /\ InitialHead \in Heads /\ MaxEvaluations \in Nat
    /\ MaxDispositions \in Nat /\ MaxRecords \in Nat

VARIABLES
    worktree,      \* [head, surfaces]: HEAD, and the content of the managed surfaces
    audits,        \* the audit ledger: at most one audit
    dispositions,  \* the disposition ledger
    canaries,      \* the canary ledger
    command,       \* per process: the command in progress
    evaluations,   \* so many were made: the evaluation_ref of the last
    moves,
    confirmed      \* per process: how much of its handoff was current since its command
                   \* began (history)

governanceVars ==
    <<worktree, audits, dispositions, canaries, command, evaluations, moves, confirmed>>
ledgers == <<audits, dispositions, canaries>>

Resting == [is |-> "resting"]
Results == {"PASS", "FAIL", "UNKNOWN"}

-----------------------------------------------------------------------------
(* An audit of a worktree: what its mandatory scenario gave (UNKNOWN: or it  *)
(* is missing), and whether it proposes a change of a managed surface.       *)

Clean(w) == w.surfaces = w.head

Outcome(a) ==
    CASE a.result = "FAIL" -> "REJECTED"
      [] a.result = "UNKNOWN" -> "HUMAN_REQUIRED"
      [] OTHER -> IF a.change THEN "CANARY_READY" ELSE "NO_CHANGE"

\* The audit identity binds the head and the inventory, not the result.
SameIdentity(a, b) == a.of = b.of

\* Where an audit leads: as routing answers it, for the worktree it was made for, and
\* otherwise to a human.
Route(a, w) == IF a.of = w THEN Outcome(a) ELSE "HUMAN_REQUIRED"

\* A candidate for a PR comes with a behavior that passed.
Disposed(a, w) ==
    LET route == Route(a, w) IN
    IF route # "CANARY_READY" THEN route
    ELSE IF a.result = "PASS" THEN "PR_CANDIDATE" ELSE "HUMAN_REQUIRED"

Disposition(a, w) == [audit |-> a, stale |-> a.of # w, is |-> Disposed(a, w)]

\* validate_instruction_governance_disposition, whenever one is built or loaded.
ValidDisposition(d) ==
    d.is = "PR_CANDIDATE" => d.audit.change /\ d.audit.result = "PASS" /\ ~d.stale

-----------------------------------------------------------------------------
Runs(p, what) == command' = [command EXCEPT ![p] = what]
Rests(p) == Runs(p, Resting)

\* The preflights under way: the bound leaves each of them an evaluation.
Evaluating == {q \in Coordinators : command[q].is \in {"starting", "preflight"}}

\* The behavior evaluation and the candidate changes are made outside, for a preflight;
\* record_instruction_governance_audit runs the preflight again, for the head it is given.
PreflightHead(p) ==
    /\ command[p] = Resting /\ evaluations + Cardinality(Evaluating) < MaxEvaluations
    /\ Runs(p, [is |-> "starting", head |-> worktree.head])
    /\ UNCHANGED <<worktree, ledgers, evaluations, moves>>

PreflightSurfaces(p) ==
    /\ command[p].is = "starting"
    /\ Runs(p, [is |-> "preflight",
                of |-> [head |-> command[p].head, surfaces |-> worktree.surfaces]])
    /\ UNCHANGED <<worktree, ledgers, evaluations, moves>>

\* git compares the surfaces that are there by then with the HEAD of then; what was
\* evaluated is what was read before.  A result for another identity is refused too.
PreflightStatus(p) ==
    /\ command[p].is = "preflight"
    /\ \/ Rests(p) /\ UNCHANGED evaluations
       \/ /\ Clean(worktree)
          /\ evaluations' = evaluations + 1
          /\ \E result \in Results, change \in BOOLEAN :
                Runs(p, [is |-> "recording",
                         audit |-> [of |-> command[p].of, result |-> result,
                                    change |-> change, ref |-> evaluations']])
    /\ UNCHANGED <<worktree, ledgers, moves>>

\* The cache holds the audit that was recorded last; an exact replay changes nothing.
RecordAudit(p) ==
    /\ command[p].is = "recording"
    /\ audits' = {command[p].audit}
    /\ Rests(p)
    /\ UNCHANGED <<worktree, dispositions, canaries, evaluations, moves>>

\* A cache that is damaged is rebuilt from the next fresh result, and of no use till then.
LoseCache ==
    /\ audits # {} /\ moves < MaxMoves
    /\ moves' = moves + 1
    /\ audits' = {}
    /\ UNCHANGED <<worktree, dispositions, canaries, command, evaluations>>

-----------------------------------------------------------------------------
(* The disposition of an audit: built by the command that publishes it, and  *)
(* again by the canary, for the handoff it holds.                            *)

NoHandoff == [is |-> "none"]

\* The audit is read first, then the surfaces, then HEAD.
Builds(p, a, for) == Runs(p, [is |-> "building", audit |-> a, handoff |-> for])

BuildDisposition(p) ==
    \E a \in audits :
        /\ command[p] = Resting
        /\ Builds(p, a, NoHandoff)
        /\ UNCHANGED <<worktree, ledgers, evaluations, moves>>

\* The dashboard that reads the surfaces reads the ledger too, and one that is damaged
\* ends the command.
ReadSurfaces(p) ==
    /\ command[p].is = "building"
    /\ \/ Runs(p, [is |-> "built", audit |-> command[p].audit,
                   handoff |-> command[p].handoff, surfaces |-> worktree.surfaces])
       \/ audits = {} /\ Rests(p)
    /\ UNCHANGED <<worktree, ledgers, evaluations, moves>>

\* What the command has read, with the HEAD of now.
Seen(p) == [head |-> worktree.head, surfaces |-> command[p].surfaces]

FinishDisposition(p) ==
    LET d == Disposition(command[p].audit, Seen(p)) IN
    /\ command[p].is = "built" /\ command[p].handoff = NoHandoff
    /\ ValidDisposition(d)
    /\ Runs(p, [is |-> "publishing", disposition |-> d])
    /\ UNCHANGED <<worktree, ledgers, evaluations, moves>>

Published(a) == \E d \in Range(dispositions) : SameIdentity(d.audit, a)

\* One disposition per audit identity: a replay is a no-op, or refused when it differs.
PublishDisposition(p) ==
    LET d == command[p].disposition IN
    /\ command[p].is = "publishing"
    /\ dispositions' =
          IF ~Published(d.audit) /\ Len(dispositions) < MaxDispositions
          THEN Append(dispositions, d) ELSE dispositions
    /\ Rests(p)
    /\ UNCHANGED <<worktree, audits, canaries, evaluations, moves>>

-----------------------------------------------------------------------------
(* The canary of a disposition.                                              *)

\* The observation names a disposition by its digests.  The ledger is read, and every
\* disposition in it is bound again to its audit, one after the other.
StartCanary(p) ==
    \E i \in DOMAIN dispositions :
        /\ command[p] = Resting
        /\ Runs(p, [is |-> "rebinding", handoff |-> dispositions[i], left |-> dispositions,
                    last |-> dispositions[Len(dispositions)]])
        /\ UNCHANGED <<worktree, ledgers, evaluations, moves>>

RebindNext(p) ==
    /\ command[p].is = "rebinding" /\ command[p].left # <<>>
    /\ IF Head(command[p].left).audit \in audits
       THEN Runs(p, [command[p] EXCEPT !.left = Tail(@)]) ELSE Rests(p)
    /\ UNCHANGED <<worktree, ledgers, evaluations, moves>>

\* The last disposition is built again for the dashboard, whatever comes of it.
RebindLast(p) ==
    LET last == command[p].last IN
    /\ command[p].is = "rebinding" /\ command[p].left = <<>>
    /\ IF \E a \in audits : SameIdentity(a, last.audit)
       THEN Runs(p, [is |-> "rebound", handoff |-> command[p].handoff]) ELSE Rests(p)
    /\ UNCHANGED <<worktree, ledgers, evaluations, moves>>

\* The handoff is a candidate, and is built again from the audit of its identity.
CheckHandoff(p) ==
    LET d == command[p].handoff
        sources == {a \in audits : SameIdentity(a, d.audit)}
    IN
    /\ command[p].is = "rebound"
    /\ IF d.is = "PR_CANDIDATE" /\ sources # {}
       THEN \E a \in sources : Builds(p, a, d) ELSE Rests(p)
    /\ UNCHANGED <<worktree, ledgers, evaluations, moves>>

\* Variant: what was built again is not compared.
StillCurrent_Trusts(d, built) == TRUE

\* What was built is the handoff.
StillCurrent(d, built) == built = d

CompareHandoff(p) ==
    LET d == command[p].handoff IN
    /\ command[p].is = "built" /\ d # NoHandoff
    /\ IF StillCurrent(d, Disposition(command[p].audit, Seen(p)))
       THEN Runs(p, [is |-> "appending", handoff |-> d]) ELSE Rests(p)
    /\ UNCHANGED <<worktree, ledgers, evaluations, moves>>

\* The observation's id and result: a pass makes the request for adoption.  A canary id
\* and a handoff are used once, whatever came of it.
AppendCanary(p) ==
    \E id \in CanaryIds, passed \in BOOLEAN :
        LET c == [id |-> id, handoff |-> command[p].handoff, request |-> passed] IN
        /\ command[p].is = "appending"
        /\ canaries' =
              IF /\ Cardinality(canaries) < MaxRecords
                 /\ \A k \in canaries : k.id # c.id /\ k.handoff # c.handoff
              THEN canaries \union {c} ELSE canaries
        /\ Rests(p)
        /\ UNCHANGED <<worktree, audits, dispositions, evaluations, moves>>

-----------------------------------------------------------------------------
\* Somebody checks out another head, or edits the surfaces.
MoveWorktree ==
    /\ moves < MaxMoves
    /\ moves' = moves + 1
    /\ \E h \in Heads :
          worktree' \in {[head |-> h, surfaces |-> h], [worktree EXCEPT !.surfaces = h]}
    /\ UNCHANGED <<ledgers, command, evaluations>>

\* History: since the command of a canary began, the audit of its handoff was once the
\* cached one (1), the surfaces were then or later once those it names (2), and HEAD was
\* then or later once the head it names (3).
InCanary(c) ==
    c.is \in {"rebinding", "rebound", "building", "built", "appending"} /\
    c.handoff # NoHandoff
Reached(was, a) ==
    IF was = 0 /\ a \notin audits' THEN 0
    ELSE IF was <= 1 /\ worktree'.surfaces # a.of.surfaces THEN 1
    ELSE IF was <= 2 /\ worktree'.head # a.of.head THEN 2 ELSE 3
Confirm ==
    confirmed' = [p \in Coordinators |->
        IF InCanary(command'[p])
        THEN Reached(IF InCanary(command[p]) THEN confirmed[p] ELSE 0,
                     command'[p].handoff.audit)
        ELSE 0]

GovernanceInit ==
    /\ worktree = [head |-> InitialHead, surfaces |-> InitialHead]
    /\ audits = {} /\ dispositions = <<>> /\ canaries = {}
    /\ command = [p \in Coordinators |-> Resting]
    /\ evaluations = 0 /\ moves = 0
    /\ confirmed = [p \in Coordinators |-> 0]

GovernanceNext ==
    /\ \/ \E p \in Coordinators :
            \/ PreflightHead(p) \/ PreflightSurfaces(p) \/ PreflightStatus(p)
            \/ RecordAudit(p)
            \/ BuildDisposition(p) \/ ReadSurfaces(p) \/ FinishDisposition(p)
            \/ PublishDisposition(p)
            \/ StartCanary(p) \/ RebindNext(p) \/ RebindLast(p)
            \/ CheckHandoff(p) \/ CompareHandoff(p) \/ AppendCanary(p)
       \/ MoveWorktree \/ LoseCache
    /\ Confirm

GovernanceSpec == GovernanceInit /\ [][GovernanceNext]_governanceVars

-----------------------------------------------------------------------------
(* Properties.                                                               *)

\* An adoption is requested only for a change whose evaluation passed, with a disposition
\* that is in the ledger, and when, in the time of the command, that evaluation was the
\* latest, and then the surfaces were those it evaluated, and then HEAD was its head: not
\* after a later evaluation failed before the command began, nor on a worktree that was
\* left before.  The three need not hold at one instant: each is read without the lock.
RequestsAreEarned ==
    [][\A c \in canaries' \ canaries :
          /\ c.handoff \in Range(dispositions)
          /\ c.request => c.handoff.audit.result = "PASS" /\ c.handoff.audit.change
          /\ \E p \in Coordinators :
                /\ command[p].is = "appending" /\ command[p].handoff = c.handoff
                /\ confirmed[p] = 3
      ]_governanceVars
=================================================================================
