------------------------- MODULE FindingHandoff_proofs -------------------------
(***************************************************************************)
(* Theorems about FindingHandoff: for any number of audits, deaths, expired   *)
(* leases and closed issues, all handoffs of a finding answer with one issue, *)
(* and each open issue beyond the first took an owner that outlived its lease. *)
(***************************************************************************)
EXTENDS FindingHandoff, FiniteSetTheorems, TLAPS

\* An audit that still knows the blob SHA may overwrite the claim; in these steps
\* it does so believing that the claim has no issue.
Unsettled == {"search", "adopt", "take", "wait", "recheck", "create", "finalize",
              "refinalize"}

BoundIsFresh ==
    \A p \in Procs : p \in bound /\ pc[p] \in Unsettled => ~HasIssue(claim)
UpdatesAgree ==
    \A p \in Procs : pc[p] \in {"update", "refresh"} =>
        seen[p] \in Claim /\ HasIssue(claim) /\ claim.issue = seen[p].issue
EditsAgree ==
    \A p \in Procs : pc[p] = "edit" => HasIssue(claim) /\ claim.issue = number[p]
NumbersAreKnown ==
    \A p \in Procs : pc[p] \in {"adopt", "edit", "finalize", "refinalize"} =>
        number[p] \in Numbers

AnswerInv ==
    /\ TypeOK /\ BoundIsFresh /\ UpdatesAgree /\ EditsAgree /\ NumbersAreKnown
    /\ AnswersAreTheClaims

-----------------------------------------------------------------------------
(* What a step may do to the claim without changing an answer: it keeps the    *)
(* issue the claim has, or gives one to a claim without.                       *)

LEMMA ClaimFacts ==
    /\ \A p \in Procs : Held(p) \in Claim /\ ~HasIssue(Held(p))
    /\ \A n \in Numbers : Final(n) \in Claim /\ HasIssue(Final(n)) /\ Final(n).issue = n
  <1>1. Numbers \subseteq Nat
    BY HandoffAssumption DEF Numbers
  <1>2. ASSUME NEW p \in Procs  PROVE Held(p) \in Claim /\ ~HasIssue(Held(p))
    BY DEF Held, Claim, HasIssue
  <1>3. ASSUME NEW n \in Numbers
        PROVE  Final(n) \in Claim /\ HasIssue(Final(n)) /\ Final(n).issue = n
    <2>1. Final(n) \in Claim /\ Final(n).issue = n
      BY DEF Final, Claim
    <2>2. n # None
      BY <1>1, HandoffAssumption
    <2> QED  BY <2>1, <2>2, ClaimAssumption DEF HasIssue
  <1> QED  BY <1>2, <1>3

LEMMA OrphanedFacts ==
    ASSUME TypeOK, NEW p \in Procs
    PROVE  /\ Orphaned(p) \in Claim \union {None}
           /\ HasIssue(Orphaned(p)) <=> HasIssue(claim)
           /\ HasIssue(claim) => Orphaned(p).issue = claim.issue
  BY ClaimAssumption DEF TypeOK, Orphaned, Claim, HasIssue

LEMMA OneIssue ==
    ASSUME TypeOK, Cardinality(open) = 1
    PROVE  (CHOOSE n \in open : TRUE) \in Numbers
  <1>1. open # {}
    BY FS_EmptySet
  <1> QED  BY <1>1 DEF TypeOK

\* An audit goes on, and claim, blob SHAs and answers stay.
LEMMA GoesOn ==
    ASSUME AnswerInv, NEW p \in Procs, NEW to \in Phases, Go(p, to), TypeOK',
           UNCHANGED <<claim, bound, answers>>,
           \A q \in Procs : q # p => number'[q] = number[q] /\ seen'[q] = seen[q],
           to \in Unsettled => pc[p] \in Unsettled \/ p \notin bound,
           to \in {"adopt", "finalize", "refinalize"} => number'[p] \in Numbers,
           to # "edit",
           to \in {"update", "refresh"} =>
              seen'[p] \in Claim /\ HasIssue(claim) /\ claim.issue = seen'[p].issue
    PROVE  AnswerInv'
  <1>1. pc' = [pc EXCEPT ![p] = to] /\ pc \in [Procs -> Phases]
    BY DEF Go, AnswerInv, TypeOK
  <1>2. BoundIsFresh'
    BY <1>1 DEF AnswerInv, BoundIsFresh, HasIssue
  <1>3. UpdatesAgree'
    BY <1>1 DEF AnswerInv, UpdatesAgree, HasIssue
  <1>4. EditsAgree'
    BY <1>1 DEF AnswerInv, EditsAgree, HasIssue
  <1>5. NumbersAreKnown'
    BY <1>1 DEF AnswerInv, NumbersAreKnown
  <1>6. AnswersAreTheClaims'
    BY DEF AnswerInv, AnswersAreTheClaims, HasIssue
  <1> QED  BY <1>2, <1>3, <1>4, <1>5, <1>6 DEF AnswerInv

\* An audit reads the claim and its blob SHA.
LEMMA Reads ==
    ASSUME AnswerInv, NEW p \in Procs, NEW to \in {"search", "update", "refinalize"},
           Go(p, to), Load(p), TypeOK', UNCHANGED <<answers, number>>,
           to = "update" <=> HasIssue(claim),
           to = "refinalize" => number[p] \in Numbers
    PROVE  AnswerInv'
  <1>1. /\ pc' = [pc EXCEPT ![p] = to] /\ seen' = [seen EXCEPT ![p] = claim]
        /\ bound' = bound \union {p} /\ claim' = claim
        /\ pc \in [Procs -> Phases] /\ seen \in [Procs -> Claim \union {None}]
        /\ claim \in Claim \union {None}
    BY DEF Go, Load, AnswerInv, TypeOK
  <1>2. BoundIsFresh'
    BY <1>1 DEF AnswerInv, BoundIsFresh, HasIssue, Unsettled
  <1>3. UpdatesAgree'
    BY <1>1 DEF AnswerInv, UpdatesAgree, HasIssue
  <1>4. EditsAgree'
    BY <1>1 DEF AnswerInv, EditsAgree, HasIssue
  <1>5. NumbersAreKnown'
    BY <1>1 DEF AnswerInv, NumbersAreKnown
  <1>6. AnswersAreTheClaims'
    BY <1>1 DEF AnswerInv, AnswersAreTheClaims, HasIssue
  <1> QED  BY <1>2, <1>3, <1>4, <1>5, <1>6 DEF AnswerInv

\* An audit ends.  The claim keeps its issue or gets one, and what is answered is
\* the claim's.
LEMMA Ends ==
    ASSUME AnswerInv, NEW p \in Procs, Forget(p), TypeOK',
           bound' \subseteq bound, bound' = {} \/ (HasIssue(claim') => HasIssue(claim)),
           HasIssue(claim) => HasIssue(claim') /\ claim'.issue = claim.issue,
           \A n \in answers' \ answers : HasIssue(claim') /\ n = claim'.issue,
           answers \subseteq answers'
    PROVE  AnswerInv'
  <1>1. /\ pc' = [pc EXCEPT ![p] = "idle"] /\ seen' = [seen EXCEPT ![p] = None]
        /\ number' = [number EXCEPT ![p] = None]
        /\ pc \in [Procs -> Phases] /\ seen \in [Procs -> Claim \union {None}]
        /\ number \in [Procs -> Numbers \union {None}]
    BY DEF Forget, Go, AnswerInv, TypeOK
  <1>2. BoundIsFresh'
    BY <1>1 DEF AnswerInv, BoundIsFresh, Unsettled
  <1>3. UpdatesAgree'
    BY <1>1 DEF AnswerInv, UpdatesAgree
  <1>4. EditsAgree'
    BY <1>1 DEF AnswerInv, EditsAgree
  <1>5. NumbersAreKnown'
    BY <1>1 DEF AnswerInv, NumbersAreKnown
  <1>6. AnswersAreTheClaims'
    BY DEF AnswerInv, AnswersAreTheClaims
  <1> QED  BY <1>2, <1>3, <1>4, <1>5, <1>6 DEF AnswerInv

\* An audit raises or dies.
LEMMA Leaves ==
    ASSUME AnswerInv, NEW p \in Procs, Leave(p), TypeOK', UNCHANGED answers
    PROVE  AnswerInv'
  <1>1. TypeOK /\ Forget(p) /\ bound' \subseteq bound /\ claim' = Orphaned(p)
    BY DEF AnswerInv, Leave
  <1>2. /\ HasIssue(claim)' <=> HasIssue(claim)
        /\ HasIssue(claim) => claim'.issue = claim.issue
    BY <1>1, OrphanedFacts DEF HasIssue
  <1> QED  BY <1>1, <1>2, Ends

-----------------------------------------------------------------------------
(* Types.  That a claim gets an issue number rests on NumbersAreKnown and       *)
(* UpdatesAgree.                                                                *)

LEMMA ForgetTyped ==
    ASSUME TypeOK, NEW p \in Procs, Forget(p)
    PROVE  /\ pc' \in [Procs -> Phases] /\ seen' \in [Procs -> Claim \union {None}]
           /\ number' \in [Procs -> Numbers \union {None}]
  BY DEF TypeOK, Forget, Go, Phases

LEMMA LeaveTyped ==
    ASSUME TypeOK, NEW p \in Procs, Leave(p)
    PROVE  /\ pc' \in [Procs -> Phases] /\ seen' \in [Procs -> Claim \union {None}]
           /\ number' \in [Procs -> Numbers \union {None}]
           /\ bound' \subseteq Procs /\ claim' \in Claim \union {None}
  <1>1. Forget(p) /\ bound' = bound \ {p} /\ claim' = Orphaned(p)
    BY DEF Leave
  <1> QED  BY <1>1, ForgetTyped, OrphanedFacts DEF TypeOK

LEMMA NewIssueTyped ==
    ASSUME TypeOK, NewIssue
    PROVE  created + 1 \in Numbers /\ created' \in 0..MaxIssues /\ open' \subseteq Numbers
  BY HandoffAssumption DEF TypeOK, NewIssue, Numbers

LEMMA FaultTyped ==
    ASSUME TypeOK, Fault
    PROVE  faults' \in 0..MaxFaults
  BY HandoffAssumption DEF TypeOK, Fault

LEMMA RaiseTyped ==
    ASSUME TypeOK, NEW p \in Procs, Raise(p)
    PROVE  TypeOK'
  <1>1. Leave(p) /\ UNCHANGED <<open, created, answers, faults, branch, late>>
    BY DEF Raise, NoIssue, Frame
  <1> QED  BY <1>1, LeaveTyped DEF TypeOK

LEMMA AnswerTyped ==
    ASSUME TypeOK, NEW p \in Procs, NEW n \in Numbers, Answer(p, n)
    PROVE  TypeOK'
  <1>1. /\ Leave(p) /\ answers' = answers \union {n}
        /\ UNCHANGED <<open, created, faults, branch, late>>
    BY DEF Answer, Frame
  <1> QED  BY <1>1, LeaveTyped DEF TypeOK

LEMMA GoesOnTyped ==
    ASSUME TypeOK, NEW p \in Procs, NEW to \in Phases, Go(p, to),
           bound' \subseteq Procs, claim' \in Claim \union {None},
           seen' \in [Procs -> Claim \union {None}],
           number' \in [Procs -> Numbers \union {None}],
           branch' \in BOOLEAN, UNCHANGED <<open, created, answers, faults, late>>
    PROVE  TypeOK'
  BY DEF TypeOK, Go

-----------------------------------------------------------------------------
(* The steps.                                                                  *)

\* An audit that still knows the blob SHA while the claim has no issue is the only
\* one that may give it one: nothing rests on an issue yet.
LEMMA NothingSettled ==
    ASSUME AnswerInv, NEW p \in Procs, p \in bound, pc[p] \in Unsettled
    PROVE  /\ ~HasIssue(claim) /\ answers = {}
           /\ \A q \in Procs : pc[q] \notin {"update", "refresh", "edit"}
  BY DEF AnswerInv, BoundIsFresh, UpdatesAgree, EditsAgree, AnswersAreTheClaims

LEMMA Raises ==
    ASSUME AnswerInv, NEW p \in Procs, Raise(p)
    PROVE  AnswerInv'
  <1>1. TypeOK'
    BY RaiseTyped DEF AnswerInv
  <1>2. Leave(p) /\ UNCHANGED answers
    BY DEF Raise, NoIssue
  <1> QED  BY <1>1, <1>2, Leaves

LEMMA AnswersClaim ==
    ASSUME AnswerInv, NEW p \in Procs, NEW n \in Numbers, Answer(p, n),
           HasIssue(claim), claim.issue = n
    PROVE  AnswerInv'
  <1>1. TypeOK /\ TypeOK'
    BY AnswerTyped DEF AnswerInv
  <1>2. /\ Forget(p) /\ bound' \subseteq bound /\ claim' = Orphaned(p)
        /\ answers' = answers \union {n}
    BY DEF Answer, Leave
  <1>3. HasIssue(claim') /\ claim'.issue = claim.issue
    BY <1>1, <1>2, OrphanedFacts
  <1> QED  BY <1>1, <1>2, <1>3, Ends

\* Starts, searches, waits and the issue's creation.
LEMMA Searches ==
    ASSUME AnswerInv, NEW p \in Procs,
           \/ Start(p) \/ FindIssue(p) \/ Own(p) \/ Wait(p) \/ TakeConflict(p)
           \/ FoundLate(p) \/ FoundNone(p)
    PROVE  AnswerInv'
  <1>0. TypeOK
    BY DEF AnswerInv
  <1>1. CASE Start(p)
    <2>1. /\ Go(p, "read") /\ branch' = TRUE
          /\ UNCHANGED <<claim, bound, open, created, answers, seen, number, faults, late>>
      BY <1>1 DEF Start, Claimless, NoIssue
    <2>2. TypeOK'
      BY <1>0, <2>1, GoesOnTyped DEF TypeOK, Phases
    <2> QED  BY <2>1, <2>2, GoesOn DEF Phases, Unsettled
  <1>2. CASE FindIssue(p) \/ FoundLate(p)
    <2>1. /\ pc[p] \in Unsettled
          /\ \E to \in {"adopt", "finalize"} : Go(p, to)
          /\ number' = [number EXCEPT ![p] = CHOOSE n \in open : TRUE]
          /\ Cardinality(open) = 1
          /\ UNCHANGED <<claim, bound, open, created, answers, seen, branch, faults, late>>
      BY <1>2 DEF FindIssue, FoundLate, Claimless, NoIssue, Frame, Unsettled
    <2>2. number' \in [Procs -> Numbers \union {None}] /\ number'[p] \in Numbers
      BY <1>0, <2>1, OneIssue DEF TypeOK
    <2>3. TypeOK'
      BY <1>0, <2>1, <2>2, GoesOnTyped DEF TypeOK, Phases
    <2>4. \A q \in Procs : q # p => number'[q] = number[q] /\ seen'[q] = seen[q]
      BY <1>0, <2>1 DEF TypeOK
    <2> QED  BY <2>1, <2>2, <2>3, <2>4, GoesOn DEF Phases, Unsettled
  <1>3. CASE Own(p) \/ Wait(p) \/ TakeConflict(p) \/ FoundNone(p)
    <2>1. /\ pc[p] \in Unsettled
          /\ \E to \in {"take", "wait", "create"} : Go(p, to)
          /\ UNCHANGED <<claim, bound, open, created, answers, seen, number, branch,
                         faults, late>>
      BY <1>3 DEF Own, Wait, TakeConflict, FoundNone, Claimless, NoIssue, Frame, Unsettled
    <2>2. TypeOK'
      BY <1>0, <2>1, GoesOnTyped DEF TypeOK, Phases
    <2> QED  BY <2>1, <2>2, GoesOn DEF Phases, Unsettled
  <1> QED  BY <1>1, <1>2, <1>3

\* Steps that read the claim file.
LEMMA ClaimIsRead ==
    ASSUME AnswerInv, NEW p \in Procs, NEW to \in {"search", "update", "refinalize"},
           Go(p, to), Load(p), NoIssue, Frame, UNCHANGED <<number, faults>>,
           to = "update" <=> HasIssue(claim),
           to = "refinalize" => number[p] \in Numbers
    PROVE  AnswerInv'
  <1>1. TypeOK
    BY DEF AnswerInv
  <1>2. TypeOK'
    <2>1. /\ bound' \subseteq Procs /\ claim' \in Claim \union {None}
          /\ seen' \in [Procs -> Claim \union {None}] /\ branch' \in BOOLEAN
          /\ number' \in [Procs -> Numbers \union {None}]
          /\ UNCHANGED <<open, created, answers, faults, late>>
      BY <1>1 DEF TypeOK, Load, NoIssue, Frame
    <2> QED  BY <1>1, <2>1, GoesOnTyped DEF Phases
  <1>3. UNCHANGED <<answers, number>>
    BY DEF NoIssue
  <1> QED  BY <1>2, <1>3, Reads

LEMMA Reading ==
    ASSUME AnswerInv, NEW p \in Procs,
           ReadClaim(p) \/ Waited(p) \/ FinalizeConflict(p)
    PROVE  AnswerInv'
  <1>1. CASE ReadClaim(p)
    <2>1. CASE HasIssue(claim)
      BY <1>1, <2>1, ClaimIsRead DEF ReadClaim
    <2>2. CASE ~HasIssue(claim)
      BY <1>1, <2>2, ClaimIsRead DEF ReadClaim
    <2> QED  BY <2>1, <2>2
  <1>2. CASE Waited(p)
    <2>1. CASE HasIssue(claim) /\ Load(p) /\ Go(p, "update") /\ NoIssue
               /\ UNCHANGED <<number, faults>> /\ Frame
      BY <2>1, ClaimIsRead
    <2> QED  BY <1>2, <2>1, Raises DEF Waited
  <1>3. CASE FinalizeConflict(p)
    <2>1. number[p] \in Numbers
      BY <1>3 DEF FinalizeConflict, AnswerInv, NumbersAreKnown
    <2>2. CASE HasIssue(claim) /\ Agrees(claim, number[p])
      BY <1>3, <2>1, <2>2, AnswersClaim DEF FinalizeConflict, Agrees
    <2>3. CASE HasIssue(claim) /\ ~Agrees(claim, number[p])
      BY <1>3, <2>3, Raises DEF FinalizeConflict
    <2>4. CASE ~HasIssue(claim)
      BY <1>3, <2>1, <2>4, ClaimIsRead DEF FinalizeConflict
    <2> QED  BY <2>2, <2>3, <2>4
  <1> QED  BY <1>1, <1>2, <1>3

LEMMA AdoptConflicts ==
    ASSUME AnswerInv, NEW p \in Procs, AdoptConflict(p)
    PROVE  AnswerInv'
  <1>1. CASE HasIssue(claim)
    <2>1. /\ seen' = [seen EXCEPT ![p] = claim] /\ claim \in Claim /\ claim' = claim
          /\ \E to \in {"update", "refresh"} : Go(p, to)
          /\ UNCHANGED <<bound, open, created, answers, number, branch, faults, late>>
      BY <1>1 DEF AdoptConflict, Claimless, NoIssue, Frame, AnswerInv, TypeOK, HasIssue
    <2>2. /\ seen' \in [Procs -> Claim \union {None}] /\ seen'[p] = claim
          /\ \A q \in Procs : q # p => seen'[q] = seen[q]
      BY <2>1 DEF AnswerInv, TypeOK
    <2>3. TypeOK'
      BY <2>1, <2>2, GoesOnTyped DEF AnswerInv, TypeOK, Phases
    <2> QED  BY <1>1, <2>1, <2>2, <2>3, GoesOn DEF Phases, Unsettled
  <1>2. CASE ~HasIssue(claim)
    BY <1>2, Raises DEF AdoptConflict
  <1> QED  BY <1>1, <1>2

\* The writes that keep the audit going: it is the only one that knows the blob SHA.
LEMMA Writes ==
    ASSUME AnswerInv, NEW p \in Procs, Adopt(p) \/ TakeClaim(p)
    PROVE  AnswerInv'
  <1>1. /\ p \in bound /\ pc[p] \in Unsettled
        /\ bound' = {p} /\ number' = number
        /\ UNCHANGED <<open, created, answers, branch, faults, late>>
    BY DEF Adopt, TakeClaim, Put, KnowsSha, Unsettled, NoIssue, Frame
  <1>2. /\ answers = {}
        /\ \A q \in Procs : pc[q] \notin {"update", "refresh", "edit"}
    BY <1>1, NothingSettled
  <1>3. TypeOK /\ pc \in [Procs -> Phases] /\ seen \in [Procs -> Claim \union {None}]
    BY DEF AnswerInv, TypeOK
  <1>4. CASE Adopt(p)
    <2>1. /\ number[p] \in Numbers /\ claim' = Final(number[p]) /\ seen' = seen
          /\ Go(p, "edit")
      BY <1>4 DEF Adopt, Put, AnswerInv, NumbersAreKnown
    <2>2. claim' \in Claim /\ HasIssue(claim)' /\ claim'.issue = number[p]
      BY <2>1, ClaimFacts DEF HasIssue
    <2>3. TypeOK'
      BY <1>1, <1>3, <2>1, <2>2, GoesOnTyped DEF TypeOK, Phases
    <2>4. pc' = [pc EXCEPT ![p] = "edit"]
      BY <2>1 DEF Go
    <2>5. BoundIsFresh' /\ UpdatesAgree'
      BY <1>1, <1>2, <1>3, <2>4 DEF BoundIsFresh, UpdatesAgree, Unsettled
    <2>6. EditsAgree' /\ NumbersAreKnown'
      BY <1>1, <1>2, <1>3, <2>1, <2>2, <2>4
         DEF AnswerInv, EditsAgree, NumbersAreKnown
    <2>7. AnswersAreTheClaims'
      BY <1>1, <1>2 DEF AnswersAreTheClaims
    <2> QED  BY <2>3, <2>5, <2>6, <2>7 DEF AnswerInv
  <1>5. CASE TakeClaim(p)
    <2>1. /\ claim' = Held(p) /\ seen' = [seen EXCEPT ![p] = None] /\ Go(p, "recheck")
      BY <1>5 DEF TakeClaim, Put
    <2>2. claim' \in Claim /\ ~HasIssue(claim)'
      BY <2>1, ClaimFacts DEF HasIssue
    <2>3. seen' \in [Procs -> Claim \union {None}]
      BY <1>3, <2>1
    <2>4. TypeOK'
      BY <1>1, <1>3, <2>1, <2>2, <2>3, GoesOnTyped DEF TypeOK, Phases
    <2>5. pc' = [pc EXCEPT ![p] = "recheck"]
      BY <2>1 DEF Go
    <2>6. BoundIsFresh'
      BY <2>2 DEF BoundIsFresh
    <2>7. UpdatesAgree' /\ EditsAgree'
      BY <1>2, <1>3, <2>5 DEF UpdatesAgree, EditsAgree
    <2>8. NumbersAreKnown'
      BY <1>1, <1>3, <2>5 DEF AnswerInv, NumbersAreKnown
    <2>9. AnswersAreTheClaims'
      BY <1>1, <1>2 DEF AnswersAreTheClaims
    <2> QED  BY <2>4, <2>6, <2>7, <2>8, <2>9 DEF AnswerInv
  <1> QED  BY <1>4, <1>5

LEMMA Creates ==
    ASSUME AnswerInv, NEW p \in Procs, Create(p) \/ CreateUnknown(p)
    PROVE  AnswerInv'
  <1>1. TypeOK /\ pc[p] \in Unsettled /\ UNCHANGED answers
    BY DEF AnswerInv, Create, CreateUnknown, Unsettled
  <1>2. /\ created' \in 0..MaxIssues /\ open' \subseteq Numbers
        /\ faults' \in 0..MaxFaults /\ branch' = branch /\ late' = late
    BY <1>1, NewIssueTyped, FaultTyped DEF Create, CreateUnknown, TypeOK, Frame
  <1>3. CASE Leave(p)
    <2>1. TypeOK'
      BY <1>1, <1>2, <1>3, LeaveTyped DEF TypeOK
    <2> QED  BY <1>1, <1>3, <2>1, Leaves
  <1>4. CASE /\ Go(p, "finalize") /\ Claimless /\ UNCHANGED seen
             /\ \E n \in Numbers : number' = [number EXCEPT ![p] = n]
    <2>1. /\ number' \in [Procs -> Numbers \union {None}] /\ number'[p] \in Numbers
          /\ \A q \in Procs : q # p => number'[q] = number[q] /\ seen'[q] = seen[q]
      BY <1>1, <1>4 DEF TypeOK
    <2>2. TypeOK'
      BY <1>1, <1>2, <1>4, <2>1 DEF TypeOK, Go, Claimless, Phases
    <2>3. UNCHANGED <<claim, bound, answers>>
      BY <1>1, <1>4 DEF Claimless
    <2> QED  BY <1>1, <1>4, <2>1, <2>2, <2>3, GoesOn DEF Phases, Unsettled
  <1>5. CASE Create(p)
    <2>1. created + 1 \in Numbers
      BY <1>1, <1>5, NewIssueTyped DEF Create
    <2> QED  BY <1>4, <1>5, <2>1 DEF Create
  <1>6. CASE CreateUnknown(p) /\ ~Leave(p)
    <2>1. /\ Cardinality(open') = 1 /\ Go(p, "finalize") /\ Claimless /\ UNCHANGED seen
          /\ number' = [number EXCEPT ![p] = CHOOSE n \in open' : TRUE]
      BY <1>6 DEF CreateUnknown
    <2>2. open' # {}
      BY <2>1, FS_EmptySet
    <2>3. (CHOOSE n \in open' : TRUE) \in Numbers
      BY <1>2, <2>2
    <2> QED  BY <1>4, <2>1, <2>3
  <1> QED  BY <1>3, <1>5, <1>6

\* The writes that end the audit, with an answer or with an error.
LEMMA LastWrites ==
    ASSUME AnswerInv, NEW p \in Procs, Finalize(p) \/ PutUnknown(p)
    PROVE  AnswerInv'
  <1>1. /\ TypeOK /\ Forget(p) /\ bound' = {} /\ p \in bound /\ pc[p] \in Unsettled
        /\ UNCHANGED <<open, created, branch, late>>
    BY DEF AnswerInv, Finalize, PutUnknown, KnowsSha, Unsettled, NoIssue, Frame
  <1>2. ~HasIssue(claim) /\ answers = {}
    BY <1>1, NothingSettled
  <1>3. CASE claim' = Final(number[p]) /\ answers' \subseteq {number[p]}
             /\ number[p] \in Numbers /\ faults' \in 0..MaxFaults
    <2>1. claim' \in Claim /\ HasIssue(claim') /\ claim'.issue = number[p]
      BY <1>3, ClaimFacts
    <2>2. TypeOK'
      BY <1>1, <1>3, <2>1, ForgetTyped DEF TypeOK
    <2> QED  BY <1>1, <1>2, <1>3, <2>1, <2>2, Ends
  <1>4. CASE Finalize(p)
    <2>1. number[p] \in Numbers
      BY <1>4 DEF Finalize, AnswerInv, NumbersAreKnown
    <2>2. faults' \in 0..MaxFaults
      BY <1>1, <1>4 DEF Finalize, TypeOK
    <2> QED  BY <1>2, <1>3, <1>4, <2>1, <2>2 DEF Finalize
  <1>5. CASE PutUnknown(p)
    <2>1. faults' \in 0..MaxFaults /\ answers' = answers
      BY <1>1, <1>5, FaultTyped DEF PutUnknown, NoIssue
    <2>2. CASE pc[p] = "take"
      <3>1. claim' = [Held(p) EXCEPT !.owner = None]
        BY <1>5, <2>2 DEF PutUnknown
      <3>2. claim' \in Claim /\ ~HasIssue(claim')
        BY <3>1 DEF Held, Claim, HasIssue
      <3>3. TypeOK'
        BY <1>1, <2>1, <3>2, ForgetTyped DEF TypeOK
      <3> QED  BY <1>1, <1>2, <2>1, <3>2, <3>3, Ends
    <2>3. CASE pc[p] # "take"
      <3>1. claim' = Final(number[p]) /\ number[p] \in Numbers
        BY <1>5, <2>3 DEF PutUnknown, AnswerInv, NumbersAreKnown
      <3> QED  BY <1>2, <1>3, <2>1, <3>1
    <2> QED  BY <2>2, <2>3
  <1> QED  BY <1>4, <1>5

LEMMA Updates ==
    ASSUME AnswerInv, NEW p \in Procs, Update(p)
    PROVE  AnswerInv'
  <1>1. /\ TypeOK /\ Forget(p) /\ answers' = answers \union {seen[p].issue}
        /\ UNCHANGED <<open, created, faults, branch, late>>
        /\ seen[p] \in Claim /\ HasIssue(claim) /\ claim.issue = seen[p].issue
        /\ seen[p].issue \in Numbers
    BY DEF Update, Frame, AnswerInv, UpdatesAgree, TypeOK
  <1>2. \/ claim' = seen[p] /\ bound' = {}
        \/ claim' = claim /\ bound' = bound
    BY DEF Update, Claimless
  <1>3. /\ claim' \in Claim \union {None} /\ bound' \subseteq bound
        /\ HasIssue(claim') /\ claim'.issue = claim.issue
    BY <1>1, <1>2, ClaimAssumption DEF TypeOK, HasIssue
  <1>4. TypeOK'
    BY <1>1, <1>3, ForgetTyped DEF TypeOK
  <1> QED  BY <1>1, <1>3, <1>4, Ends

\* An edit answers with the issue the claim was given.
LEMMA EditAnswers ==
    ASSUME AnswerInv, NEW p \in Procs, Edit(p)
    PROVE  AnswerInv'
  <1>1. /\ number[p] \in Numbers /\ HasIssue(claim) /\ claim.issue = number[p]
        /\ Answer(p, number[p])
    BY DEF Edit, AnswerInv, NumbersAreKnown, EditsAgree
  <1> QED  BY <1>1, AnswersClaim

\* The steps that raise, and a death.
LEMMA GivesUp ==
    ASSUME AnswerInv, NEW p \in Procs,
           Ambiguous(p) \/ RefinalizeConflict(p) \/ UpdateRefused(p) \/ Die(p)
    PROVE  AnswerInv'
  <1>1. CASE Die(p)
    <2>1. Leave(p) /\ TypeOK /\ UNCHANGED <<open, created, answers, branch, late>>
      BY <1>1 DEF Die, AnswerInv, NoIssue, Frame
    <2>2. faults' \in 0..MaxFaults
      BY <1>1, <2>1, FaultTyped DEF Die
    <2>3. TypeOK'
      BY <2>1, <2>2, LeaveTyped DEF TypeOK
    <2> QED  BY <2>1, <2>3, Leaves
  <1> QED  BY <1>1, Raises DEF Ambiguous, RefinalizeConflict, UpdateRefused

LEMMA Expires ==
    ASSUME AnswerInv, Expire
    PROVE  AnswerInv'
  <1>1. /\ TypeOK /\ claim \in Claim /\ ~HasIssue(claim)
        /\ claim' = [claim EXCEPT !.live = FALSE]
        /\ seen' = [p \in Procs |-> IF Pending(seen[p]) THEN [seen[p] EXCEPT !.live = FALSE]
                                    ELSE seen[p]]
        /\ UNCHANGED <<branch, bound, open, created, pc, number, answers, faults>>
    BY DEF Expire, AnswerInv, TypeOK, Pending, HasIssue
  <1>2. claim' \in Claim /\ ~HasIssue(claim')
    <2>1. claim.issue = None
      BY <1>1, ClaimAssumption DEF HasIssue
    <2> QED  BY <1>1, <2>1 DEF Claim, HasIssue
  <1>3. late' \in 0..MaxLate
    BY <1>1, HandoffAssumption DEF Expire, TypeOK
  <1>4. ASSUME NEW p \in Procs  PROVE seen'[p] \in Claim \union {None}
    <2>1. seen[p] \in Claim \union {None}
      BY <1>1 DEF TypeOK
    <2>2. CASE Pending(seen[p])
      <3>1. seen[p] \in Claim /\ seen'[p] = [seen[p] EXCEPT !.live = FALSE]
        BY <1>1, <2>1, <2>2 DEF Pending
      <3> QED  BY <3>1 DEF Claim
    <2>3. CASE ~Pending(seen[p])
      BY <1>1, <2>1, <2>3
    <2> QED  BY <2>2, <2>3
  <1>5. TypeOK'
    BY <1>1, <1>2, <1>3, <1>4 DEF TypeOK
  <1>6. \A p \in Procs : pc[p] \notin {"update", "refresh", "edit"}
    BY <1>1 DEF AnswerInv, UpdatesAgree, EditsAgree
  <1>7. BoundIsFresh' /\ UpdatesAgree' /\ EditsAgree'
    BY <1>1, <1>2, <1>6 DEF BoundIsFresh, UpdatesAgree, EditsAgree
  <1>8. NumbersAreKnown' /\ AnswersAreTheClaims'
    BY <1>1 DEF AnswerInv, NumbersAreKnown, AnswersAreTheClaims
  <1> QED  BY <1>5, <1>7, <1>8 DEF AnswerInv

LEMMA Closes ==
    ASSUME AnswerInv, NEW n \in open, Close(n)
    PROVE  AnswerInv'
  <1>1. TypeOK /\ open' = open \ {n}
        /\ UNCHANGED <<branch, claim, bound, created, pc, seen, number, answers, late>>
    BY DEF Close, AnswerInv
  <1>2. faults' \in 0..MaxFaults
    BY <1>1, FaultTyped DEF Close
  <1>3. TypeOK'
    BY <1>1, <1>2 DEF TypeOK
  <1>4. BoundIsFresh' /\ UpdatesAgree' /\ EditsAgree'
    BY <1>1 DEF AnswerInv, BoundIsFresh, UpdatesAgree, EditsAgree, HasIssue
  <1>5. NumbersAreKnown' /\ AnswersAreTheClaims'
    BY <1>1 DEF AnswerInv, NumbersAreKnown, AnswersAreTheClaims, HasIssue
  <1> QED  BY <1>3, <1>4, <1>5 DEF AnswerInv

-----------------------------------------------------------------------------
\* AnswerInv holds at the start, and no step breaks it.
THEOREM AnswerInductive == Spec => []AnswerInv
  <1>1. Init => AnswerInv
    <2> SUFFICES ASSUME Init  PROVE AnswerInv
      OBVIOUS
    <2>1. TypeOK
      <3>1. /\ branch \in BOOLEAN /\ claim \in Claim \union {None}
            /\ bound \subseteq Procs /\ open \subseteq Numbers /\ answers \subseteq Numbers
        BY DEF Init
      <3>2. created \in 0..MaxIssues /\ faults \in 0..MaxFaults /\ late \in 0..MaxLate
        BY HandoffAssumption DEF Init
      <3>3. /\ pc \in [Procs -> Phases] /\ seen \in [Procs -> Claim \union {None}]
            /\ number \in [Procs -> Numbers \union {None}]
        BY DEF Init, Phases
      <3> QED  BY <3>1, <3>2, <3>3 DEF TypeOK
    <2> QED
      BY <2>1 DEF Init, AnswerInv, BoundIsFresh, UpdatesAgree, EditsAgree,
                  NumbersAreKnown, AnswersAreTheClaims, HasIssue
  <1>2. AnswerInv /\ [Next]_vars => AnswerInv'
    <2> SUFFICES ASSUME AnswerInv, [Next]_vars  PROVE AnswerInv'
      OBVIOUS
    <2>1. ASSUME NEW p \in Procs, Start(p) \/ Step(p) \/ CreateUnknown(p)
                                 \/ PutUnknown(p) \/ Die(p)
          PROVE  AnswerInv'
      BY <2>1, Searches, Reading, AdoptConflicts, Writes, Creates, LastWrites,
         Updates, EditAnswers, GivesUp DEF Step
    <2>2. ASSUME NEW n \in open, Close(n)  PROVE AnswerInv'
      BY <2>2, Closes
    <2>3. CASE UNCHANGED vars
      BY <2>3 DEF vars, AnswerInv, TypeOK, BoundIsFresh, UpdatesAgree, EditsAgree,
                  NumbersAreKnown, AnswersAreTheClaims, HasIssue
    <2> QED  BY <2>1, <2>2, <2>3, Expires DEF Next
  <1> QED  BY <1>1, <1>2, PTL DEF Spec

\* All handoffs of a finding answer with the issue of its claim file, whatever deaths,
\* lost answers, expired leases and conflicts there are.
THEOREM OneAnswer == Spec => []AnswersAreTheClaims
  <1>1. AnswerInv => AnswersAreTheClaims
    BY DEF AnswerInv
  <1> QED  BY <1>1, AnswerInductive, PTL

-----------------------------------------------------------------------------
(* How many issues there are.  An owner is an audit that took the claim and   *)
(* may still create the issue.  It is displaced if the claim is no longer     *)
(* its own, or its lease is over; every displaced owner has outlived a lease.  *)

Owners == {p \in Procs : pc[p] \in {"recheck", "create"}}
Creators == {p \in Procs : pc[p] = "create"}
Live(c) == Pending(c) /\ c.live
Displaced == {p \in Owners : ~(Live(claim) /\ claim.owner = p)}

\* An audit that decides about a claim by what it has read takes no live one.
Reader(p) ==
    /\ p \in bound /\ pc[p] \in {"search", "take"} /\ Live(claim) =>
          seen[p] # None /\ seen[p].live
    /\ pc[p] = "take" => Takes(seen[p])

OwnerInv ==
    /\ IsFiniteSet(Owners) /\ Cardinality(Owners) <= 1 + late
    /\ ~HasIssue(claim) => Cardinality(Displaced) <= late
    /\ Cardinality(open) + Cardinality(Creators) <= 1 + late
    /\ \A p \in Procs : Reader(p)

LateInv == AnswerInv /\ OwnerInv

\* Fewer owners, creators and issues.
LEMMA Fewer ==
    ASSUME LateInv, Owners' \subseteq Owners, Creators' \subseteq Creators,
           open' \subseteq open, UNCHANGED late,
           ~HasIssue(claim)' => ~HasIssue(claim) /\ Displaced' \subseteq Displaced,
           \A p \in Procs : Reader(p)'
    PROVE  OwnerInv'
  <1>1. /\ IsFiniteSet(Owners) /\ Cardinality(Owners) <= 1 + late
        /\ ~HasIssue(claim) => Cardinality(Displaced) <= late
        /\ Cardinality(open) + Cardinality(Creators) <= 1 + late
    BY DEF LateInv, OwnerInv
  <1>2. IsFiniteSet(open) /\ late \in Nat
    <2>1. open \subseteq 1..MaxIssues /\ late \in 0..MaxLate /\ MaxIssues \in Nat
      BY HandoffAssumption DEF LateInv, AnswerInv, TypeOK, Numbers
    <2>2. IsFiniteSet(1..MaxIssues)
      BY <2>1, FS_Interval
    <2>3. IsFiniteSet(open)
      BY <2>1, <2>2, FS_Subset
    <2> QED  BY <2>1, <2>3, HandoffAssumption
  <1>3. IsFiniteSet(Creators) /\ IsFiniteSet(Displaced)
    <2>1. Creators \subseteq Owners /\ Displaced \subseteq Owners
      BY DEF Creators, Owners, Displaced
    <2> QED  BY <1>1, <2>1, FS_Subset
  <1>4. IsFiniteSet(Owners') /\ Cardinality(Owners') <= Cardinality(Owners)
    BY <1>1, FS_Subset
  <1>5. Cardinality(Creators') <= Cardinality(Creators)
    BY <1>3, FS_Subset
  <1>6. Cardinality(open') <= Cardinality(open)
    BY <1>2, FS_Subset
  <1>7. Displaced' \subseteq Displaced => Cardinality(Displaced') <= Cardinality(Displaced)
    BY <1>3, FS_Subset
  <1>8. /\ Cardinality(Owners) \in Nat /\ Cardinality(Owners') \in Nat
        /\ Cardinality(Creators) \in Nat /\ Cardinality(Creators') \in Nat
        /\ Cardinality(open) \in Nat /\ Cardinality(open') \in Nat
        /\ Cardinality(Displaced) \in Nat
        /\ Displaced' \subseteq Displaced => Cardinality(Displaced') \in Nat
    BY <1>1, <1>2, <1>3, FS_Subset, FS_CardinalityType
  <1>9. Cardinality(Owners') <= 1 + late'
    BY <1>1, <1>2, <1>4, <1>8
  <1>10. ~HasIssue(claim)' => Cardinality(Displaced') <= late'
    BY <1>1, <1>2, <1>7, <1>8
  <1>11. Cardinality(open') + Cardinality(Creators') <= 1 + late'
    BY <1>1, <1>2, <1>5, <1>6, <1>8
  <1> QED  BY <1>4, <1>9, <1>10, <1>11 DEF OwnerInv

\* An audit goes on, not as an owner, and the claim stays or has an issue.
LEMMA TurnsFrom ==
    ASSUME LateInv, NEW p \in Procs, NEW to \in Phases \ {"recheck", "create"}, Go(p, to),
           bound' \subseteq bound \union {p},
           HasIssue(claim)' \/ claim' = claim \/ claim' = Orphaned(p),
           \A q \in Procs \ {p} : seen'[q] = seen[q],
           Reader(p)'
    PROVE  /\ Owners' = Owners \ {p} /\ Creators' = Creators \ {p}
           /\ ~HasIssue(claim)' => ~HasIssue(claim) /\ Displaced' \subseteq Displaced
           /\ \A q \in Procs : Reader(q)'
  <1>1. pc' = [pc EXCEPT ![p] = to] /\ pc \in [Procs -> Phases] /\ TypeOK
        /\ claim \in Claim \union {None}
    BY DEF Go, LateInv, AnswerInv, TypeOK
  <1>2. Owners' = Owners \ {p} /\ Creators' = Creators \ {p}
    BY <1>1 DEF Owners, Creators
  <1>3. ASSUME claim' = claim \/ claim' = Orphaned(p)
        PROVE  /\ Live(claim)' <=> Live(claim)
               /\ HasIssue(claim)' <=> HasIssue(claim)
               /\ \A q \in Procs \ {p} : Live(claim) => (claim'.owner = q <=> claim.owner = q)
    <2>1. CASE claim' = claim
      BY <2>1 DEF Live, HasIssue, Pending
    <2>2. CASE claim' = [claim EXCEPT !.owner = None] /\ claim # None /\ claim.owner = p
      <3>1. claim \in Claim /\ claim' \in Claim
        BY <1>1, <2>2 DEF Claim
      <3>2. /\ claim'.issue = claim.issue /\ claim'.live = claim.live /\ claim' # None
            /\ claim'.owner = None
        BY <2>2, <3>1, ClaimAssumption DEF Claim
      <3> QED  BY <2>2, <3>2, HandoffAssumption DEF Live, HasIssue, Pending
    <2> QED  BY <1>3, <2>1, <2>2 DEF Orphaned
  <1>4. ~HasIssue(claim)' => ~HasIssue(claim) /\ Displaced' \subseteq Displaced
    <2> SUFFICES ASSUME claim' = claim \/ claim' = Orphaned(p)
                 PROVE  Displaced' \subseteq Displaced
      BY <1>3
    <2> QED  BY <1>2, <1>3 DEF Displaced, Owners
  <1>5. ASSUME NEW q \in Procs \ {p}  PROVE Reader(q)'
    <2>1. Reader(q) /\ pc'[q] = pc[q] /\ seen'[q] = seen[q] /\ (q \in bound' => q \in bound)
      BY <1>1 DEF LateInv, OwnerInv
    <2>2. Live(claim)' => Live(claim)
      BY <1>3 DEF Live, HasIssue, Pending
    <2> QED  BY <2>1, <2>2 DEF Reader
  <1> QED  BY <1>2, <1>4, <1>5

LEMMA Turns ==
    ASSUME LateInv, NEW p \in Procs, NEW to \in Phases \ {"recheck", "create"}, Go(p, to),
           bound' \subseteq bound \union {p},
           HasIssue(claim)' \/ claim' = claim \/ claim' = Orphaned(p),
           \A q \in Procs \ {p} : seen'[q] = seen[q],
           Reader(p)', UNCHANGED late, open' \subseteq open
    PROVE  OwnerInv'
  <1>1. /\ Owners' = Owners \ {p} /\ Creators' = Creators \ {p}
        /\ ~HasIssue(claim)' => ~HasIssue(claim) /\ Displaced' \subseteq Displaced
        /\ \A q \in Procs : Reader(q)'
    BY TurnsFrom
  <1> QED  BY <1>1, Fewer

LEMMA Departs ==
    ASSUME LateInv, NEW p \in Procs, Forget(p), UNCHANGED late,
           open' \subseteq open, bound' \subseteq bound,
           HasIssue(claim)' \/ claim' = claim \/ claim' = Orphaned(p)
    PROVE  OwnerInv'
  <1>1. /\ Go(p, "idle") /\ pc'[p] = "idle" /\ "idle" \in Phases \ {"recheck", "create"}
        /\ \A q \in Procs \ {p} : seen'[q] = seen[q]
    BY DEF Forget, Go, LateInv, AnswerInv, TypeOK, Phases
  <1>2. Reader(p)'
    BY <1>1 DEF Reader
  <1> QED  BY <1>1, <1>2, Turns

\* An audit that knows the blob SHA and takes the claim finds every owner displaced.
LEMMA AllDisplaced ==
    ASSUME LateInv, NEW p \in Procs, p \in bound, pc[p] = "take"
    PROVE  Cardinality(Owners) <= late /\ ~HasIssue(claim) /\ p \notin Owners
  <1>1. ~HasIssue(claim)
    BY NothingSettled DEF LateInv, Unsettled
  <1>2. ~Live(claim)
    BY DEF LateInv, OwnerInv, Reader, Takes
  <1>3. Displaced = Owners
    BY <1>2 DEF Displaced
  <1> QED  BY <1>1, <1>3 DEF LateInv, OwnerInv, Owners

LEMMA LateTypes ==
    ASSUME LateInv
    PROVE  /\ TypeOK /\ IsFiniteSet(open) /\ IsFiniteSet(Owners) /\ IsFiniteSet(Creators)
           /\ IsFiniteSet(Displaced) /\ late \in Nat /\ Creators \subseteq Owners
           /\ Cardinality(open) \in Nat /\ Cardinality(Owners) \in Nat
           /\ Cardinality(Creators) \in Nat /\ Cardinality(Displaced) \in Nat
           /\ pc \in [Procs -> Phases] /\ seen \in [Procs -> Claim \union {None}]
           /\ number \in [Procs -> Numbers \union {None}] /\ claim \in Claim \union {None}
  <1>1. /\ open \subseteq 1..MaxIssues /\ late \in 0..MaxLate
        /\ MaxIssues \in Nat /\ MaxLate \in Nat /\ TypeOK
    BY HandoffAssumption DEF LateInv, AnswerInv, TypeOK, Numbers
  <1>2. IsFiniteSet(1..MaxIssues)
    BY <1>1, FS_Interval
  <1>3. IsFiniteSet(open)
    BY <1>1, <1>2, FS_Subset
  <1>4. Creators \subseteq Owners /\ Displaced \subseteq Owners /\ IsFiniteSet(Owners)
    BY DEF Creators, Owners, Displaced, LateInv, OwnerInv
  <1>5. IsFiniteSet(Creators) /\ IsFiniteSet(Displaced)
    BY <1>4, FS_Subset
  <1>6. late \in Nat
    BY <1>1
  <1> QED  BY <1>1, <1>3, <1>4, <1>5, <1>6, FS_CardinalityType DEF TypeOK

\* The owner takes the claim.
LEMMA Takers == ASSUME LateInv, NEW p \in Procs, TakeClaim(p)  PROVE OwnerInv'
  <1>1. /\ p \in bound /\ pc[p] = "take" /\ claim' = Held(p) /\ bound' = {p}
        /\ pc' = [pc EXCEPT ![p] = "recheck"] /\ seen' = [seen EXCEPT ![p] = None]
        /\ UNCHANGED <<open, late>>
    BY DEF TakeClaim, Put, KnowsSha, Go, NoIssue, Frame
  <1>2. Cardinality(Owners) <= late /\ ~HasIssue(claim) /\ p \notin Owners
    BY <1>1, AllDisplaced
  <1>3. Owners' = Owners \union {p} /\ Creators' = Creators
    BY <1>1, LateTypes DEF Owners, Creators
  <1>4. Live(claim)' /\ claim'.owner = p
    BY <1>1, ClaimFacts, ClaimAssumption DEF Live, Pending, Held
  <1>5. Displaced' = Owners
    BY <1>2, <1>3, <1>4 DEF Displaced
  <1>6. IsFiniteSet(Owners') /\ Cardinality(Owners') = Cardinality(Owners) + 1
    BY <1>2, <1>3, LateTypes, FS_AddElement
  <1>7. Cardinality(Owners') <= 1 + late'
    BY <1>1, <1>2, <1>6, LateTypes
  <1>8. \A q \in Procs : Reader(q)'
    BY <1>1, LateTypes DEF LateInv, OwnerInv, Reader
  <1>9. Cardinality(open') + Cardinality(Creators') <= 1 + late'
    BY <1>1, <1>3 DEF LateInv, OwnerInv
  <1>10. Cardinality(Displaced') <= late'
    BY <1>1, <1>2, <1>5
  <1> QED  BY <1>6, <1>7, <1>8, <1>9, <1>10 DEF OwnerInv

\* The owner searches once more and finds no issue.
LEMMA Rechecks == ASSUME LateInv, NEW p \in Procs, FoundNone(p)  PROVE OwnerInv'
  <1>1. /\ pc[p] = "recheck" /\ open = {} /\ pc' = [pc EXCEPT ![p] = "create"]
        /\ UNCHANGED <<open, late, claim, bound, seen>>
    BY DEF FoundNone, Go, Claimless, NoIssue, Frame
  <1>2. /\ Owners' = Owners /\ Creators' = Creators \union {p} /\ p \notin Creators
        /\ Creators' \subseteq Owners
    BY <1>1, LateTypes DEF Owners, Creators
  <1>3. Cardinality(Creators') \in Nat /\ Cardinality(Creators') <= Cardinality(Owners)
    BY <1>2, LateTypes, FS_Subset, FS_CardinalityType
  <1>4. Cardinality(open') = 0
    BY <1>1, FS_EmptySet
  <1>5. Cardinality(open') + Cardinality(Creators') <= 1 + late'
    BY <1>1, <1>3, <1>4, LateTypes DEF LateInv, OwnerInv
  <1>6. Displaced' = Displaced
    BY <1>1, <1>2 DEF Displaced, Live, Pending
  <1>7. \A q \in Procs : Reader(q)'
    BY <1>1, LateTypes DEF LateInv, OwnerInv, Reader, Live, Pending
  <1> QED  BY <1>1, <1>2, <1>5, <1>6, <1>7 DEF LateInv, OwnerInv, HasIssue

\* The owner creates the issue, or does not know whether it has.
LEMMA Creation ==
    ASSUME LateInv, NEW p \in Procs, Create(p) \/ CreateUnknown(p)
    PROVE  OwnerInv'
  <1>1. /\ pc[p] = "create" /\ UNCHANGED late
        /\ open' = open \/ open' = open \union {created + 1}
    BY DEF Create, CreateUnknown, NewIssue, Frame
  <1>2. /\ Owners' = Owners \ {p} /\ Creators' = Creators \ {p}
        /\ ~HasIssue(claim)' => ~HasIssue(claim) /\ Displaced' \subseteq Displaced
        /\ \A q \in Procs : Reader(q)'
    <2>1. CASE Leave(p)
      <3>1. /\ Go(p, "idle") /\ pc'[p] = "idle" /\ "idle" \in Phases \ {"recheck", "create"}
            /\ (\A q \in Procs \ {p} : seen'[q] = seen[q])
            /\ bound' \subseteq bound /\ claim' = Orphaned(p)
        BY <2>1, LateTypes DEF Leave, Forget, Go, Phases
      <3>2. Reader(p)'
        BY <3>1 DEF Reader
      <3> QED  BY <3>1, <3>2, TurnsFrom
    <2>2. CASE ~Leave(p)
      <3>1. /\ Go(p, "finalize") /\ pc'[p] = "finalize"
            /\ "finalize" \in Phases \ {"recheck", "create"}
            /\ UNCHANGED <<claim, bound, seen>>
        BY <2>2, LateTypes DEF Create, CreateUnknown, Claimless, Go, Phases
      <3>2. Reader(p)'
        BY <3>1 DEF Reader
      <3> QED  BY <3>1, <3>2, TurnsFrom
    <2> QED  BY <2>1, <2>2
  <1>3. p \in Creators /\ p \in Owners
    BY <1>1 DEF Creators, Owners
  <1>4. Cardinality(Creators') = Cardinality(Creators) - 1
    BY <1>2, <1>3, LateTypes, FS_RemoveElement
  <1>5. Cardinality(open') <= Cardinality(open) + 1 /\ Cardinality(open') \in Nat
    <2>1. CASE open' = open
      BY <2>1, LateTypes
    <2>2. CASE open' = open \union {created + 1}
      <3>1. /\ IsFiniteSet(open \union {created + 1})
            /\ \/ Cardinality(open \union {created + 1}) = Cardinality(open)
               \/ Cardinality(open \union {created + 1}) = Cardinality(open) + 1
        BY LateTypes, FS_AddElement
      <3> QED  BY <2>2, <3>1, LateTypes
    <2> QED  BY <1>1, <2>1, <2>2
  <1>6. Cardinality(open') + Cardinality(Creators') <= 1 + late'
    BY <1>1, <1>4, <1>5, LateTypes DEF LateInv, OwnerInv
  <1>7. /\ IsFiniteSet(Owners') /\ Cardinality(Owners') <= 1 + late'
    <2>1. IsFiniteSet(Owners') /\ Cardinality(Owners') = Cardinality(Owners) - 1
      BY <1>2, <1>3, LateTypes, FS_RemoveElement
    <2> QED  BY <1>1, <2>1, LateTypes DEF LateInv, OwnerInv
  <1>8. ~HasIssue(claim)' => Cardinality(Displaced') <= late'
    <2>1. Displaced' \subseteq Displaced => Cardinality(Displaced') \in Nat
                                            /\ Cardinality(Displaced') <= Cardinality(Displaced)
      BY LateTypes, FS_Subset, FS_CardinalityType
    <2> QED  BY <1>1, <1>2, <2>1, LateTypes DEF LateInv, OwnerInv
  <1> QED  BY <1>2, <1>6, <1>7, <1>8 DEF OwnerInv

\* A lease ends.  Its owner, if it still runs, is one more that outlived its lease.
LEMMA LeaseEnds == ASSUME LateInv, Expire  PROVE OwnerInv'
  <1>1. /\ Live(claim) /\ claim \in Claim /\ ~HasIssue(claim)
        /\ claim' = [claim EXCEPT !.live = FALSE]
        /\ seen' = [p \in Procs |-> IF Pending(seen[p]) THEN [seen[p] EXCEPT !.live = FALSE]
                                    ELSE seen[p]]
        /\ UNCHANGED <<bound, open, pc>>
    BY LateTypes DEF Expire, Live, Pending, HasIssue
  <1>2. ~Live(claim)' /\ Owners' = Owners /\ Creators' = Creators
    BY <1>1 DEF Claim, Live, Pending, Owners, Creators
  <1>3. Displaced' = Owners
    BY <1>2 DEF Displaced
  <1>4. late' \in Nat /\ late <= late' /\ (claim.owner # None => late' = late + 1)
    BY LateTypes DEF Expire
  <1>5. Cardinality(Owners) <= late'
    <2>1. CASE claim.owner = None
      <3>1. Displaced = Owners
        BY <2>1, HandoffAssumption DEF Displaced, Owners
      <3> QED  BY <1>1, <1>4, <3>1, LateTypes DEF LateInv, OwnerInv
    <2>2. CASE claim.owner # None
      BY <1>4, <2>2, LateTypes DEF LateInv, OwnerInv
    <2> QED  BY <2>1, <2>2
  <1>6. ASSUME NEW q \in Procs  PROVE Reader(q)'
    <2>1. pc[q] = "take" => Takes(seen[q])
      BY DEF LateInv, OwnerInv, Reader
    <2>2. Takes(seen[q]) => Takes(seen'[q])
      <3>1. seen[q] \in Claim \union {None}
        BY LateTypes
      <3>2. CASE Pending(seen[q])
        <4>1. seen[q] \in Claim /\ seen'[q] = [seen[q] EXCEPT !.live = FALSE]
          BY <1>1, <3>1, <3>2 DEF Pending
        <4> QED  BY <4>1 DEF Takes, Claim
      <3>3. CASE ~Pending(seen[q])
        BY <1>1, <3>3
      <3> QED  BY <3>2, <3>3
    <2> QED  BY <1>1, <1>2, <2>1, <2>2 DEF Reader
  <1>7. Cardinality(open') + Cardinality(Creators') <= 1 + late'
    BY <1>1, <1>2, <1>4, LateTypes DEF LateInv, OwnerInv
  <1> QED  BY <1>2, <1>3, <1>4, <1>5, <1>6, <1>7, LateTypes DEF OwnerInv

LEMMA IssueCloses == ASSUME LateInv, NEW n \in open, Close(n)  PROVE OwnerInv'
  <1>1. open' \subseteq open /\ UNCHANGED <<claim, bound, pc, seen, late>>
    BY DEF Close
  <1>2. /\ Owners' = Owners /\ Creators' = Creators /\ Displaced' = Displaced
        /\ HasIssue(claim)' = HasIssue(claim)
    BY <1>1 DEF Owners, Creators, Displaced, HasIssue, Live, Pending
  <1>3. \A q \in Procs : Reader(q)'
    BY <1>1 DEF LateInv, OwnerInv, Reader, Live, Pending
  <1> QED  BY <1>1, <1>2, <1>3, Fewer

\* A write of the claim file that raises has still displaced whoever owned it.
LEMMA LostWrites == ASSUME LateInv, NEW p \in Procs, PutUnknown(p)  PROVE OwnerInv'
  <1>1. /\ Forget(p) /\ p \in bound /\ bound' = {} /\ UNCHANGED <<open, late>>
        /\ pc[p] \in {"adopt", "take", "finalize", "refinalize"}
    BY DEF PutUnknown, KnowsSha, NoIssue, Frame
  <1>2. CASE pc[p] # "take"
    <2>1. claim' = Final(number[p]) /\ number[p] \in Numbers
      BY <1>1, <1>2 DEF PutUnknown, LateInv, AnswerInv, NumbersAreKnown
    <2>2. HasIssue(claim)'
      BY <2>1, ClaimFacts DEF HasIssue
    <2> QED  BY <1>1, <2>2, Departs
  <1>3. CASE pc[p] = "take"
    <2>1. claim' = [Held(p) EXCEPT !.owner = None]
      BY <1>3 DEF PutUnknown
    <2>2. Cardinality(Owners) <= late /\ ~HasIssue(claim) /\ p \notin Owners
      BY <1>1, <1>3, AllDisplaced
    <2>3. pc' = [pc EXCEPT ![p] = "idle"] /\ seen' = [seen EXCEPT ![p] = None]
      BY <1>1 DEF Forget, Go
    <2>4. Owners' = Owners /\ Creators' = Creators
      BY <1>3, <2>2, <2>3, LateTypes DEF Owners, Creators
    <2>5. claim'.owner = None
      BY <2>1 DEF Held
    <2>6. Displaced' = Owners
      BY <2>4, <2>5, HandoffAssumption DEF Displaced, Owners
    <2>7. \A q \in Procs : Reader(q)'
      BY <1>1, <2>3, LateTypes DEF LateInv, OwnerInv, Reader
    <2> QED  BY <1>1, <2>2, <2>4, <2>6, <2>7 DEF LateInv, OwnerInv
  <1> QED  BY <1>2, <1>3

\* The steps in which an audit goes on, and is no owner after it.
LEMMA GoesOnLate ==
    ASSUME LateInv, NEW p \in Procs,
           \/ Start(p) \/ ReadClaim(p) \/ FindIssue(p) \/ Adopt(p) \/ Own(p) \/ Wait(p)
           \/ TakeConflict(p) \/ FoundLate(p)
           \/ (AdoptConflict(p) \/ Waited(p) \/ FinalizeConflict(p)) /\ ~Leave(p)
    PROVE  OwnerInv'
  <1>1. UNCHANGED late /\ open' \subseteq open
    BY DEF Start, ReadClaim, FindIssue, Adopt, AdoptConflict, Own, Wait, Waited,
       TakeConflict, FoundLate, FinalizeConflict, NoIssue, Frame, Raise, Answer
  <1>2. ASSUME NEW to \in Phases \ {"recheck", "create", "search", "take"}, Go(p, to),
               bound' \subseteq bound \union {p}, HasIssue(claim)' \/ claim' = claim,
               \A q \in Procs \ {p} : seen'[q] = seen[q]
        PROVE  OwnerInv'
    <2>1. Reader(p)'
      BY <1>2, LateTypes DEF Reader, Go
    <2> QED  BY <1>1, <1>2, <2>1, Turns
  <1>3. CASE Start(p)
    BY <1>2, <1>3 DEF Start, Claimless, Phases
  <1>4. CASE ReadClaim(p)
    <2>1. /\ \E to \in {"update", "search"} : Go(p, to)
          /\ bound' = bound \union {p} /\ claim' = claim /\ seen' = [seen EXCEPT ![p] = claim]
      BY <1>4 DEF ReadClaim, Load
    <2>2. seen'[p] = claim /\ \A q \in Procs \ {p} : seen'[q] = seen[q]
      BY <2>1, LateTypes
    <2>3. Reader(p)'
      BY <2>1, <2>2, LateTypes DEF Reader, Go, Live, Pending
    <2> QED  BY <1>1, <2>1, <2>2, <2>3, Turns DEF Phases
  <1>5. CASE FindIssue(p) \/ Wait(p) \/ TakeConflict(p) \/ FoundLate(p)
    BY <1>2, <1>5 DEF FindIssue, Wait, TakeConflict, FoundLate, Claimless, Phases
  <1>6. CASE Adopt(p)
    <2>1. number[p] \in Numbers /\ claim' = Final(number[p]) /\ bound' = {p}
      BY <1>6 DEF Adopt, Put, LateInv, AnswerInv, NumbersAreKnown
    <2>2. HasIssue(claim)'
      BY <2>1, ClaimFacts DEF HasIssue
    <2> QED  BY <1>2, <1>6, <2>1, <2>2 DEF Adopt, Phases
  <1>7. CASE AdoptConflict(p) /\ ~Leave(p)
    <2>1. /\ \E to \in {"update", "refresh"} : Go(p, to)
          /\ seen' = [seen EXCEPT ![p] = claim] /\ UNCHANGED <<claim, bound>>
      BY <1>7 DEF AdoptConflict, Raise, Claimless
    <2> QED  BY <1>2, <2>1, LateTypes DEF Phases
  <1>8. CASE Own(p)
    <2>1. /\ Go(p, "take") /\ pc[p] = "search" /\ Takes(seen[p])
          /\ UNCHANGED <<claim, bound, seen>>
      BY <1>8 DEF Own, Claimless
    <2>2. Reader(p)'
      BY <2>1, LateTypes DEF Reader, LateInv, OwnerInv, Go, Live, Pending
    <2> QED  BY <1>1, <2>1, <2>2, Turns DEF Phases
  <1>9. CASE (Waited(p) \/ FinalizeConflict(p)) /\ ~Leave(p)
    <2>1. /\ \E to \in {"update", "refinalize"} : Go(p, to)
          /\ bound' = bound \union {p} /\ claim' = claim /\ seen' = [seen EXCEPT ![p] = claim]
      BY <1>9 DEF Waited, FinalizeConflict, Load, Raise, Answer
    <2> QED  BY <1>2, <2>1, LateTypes DEF Phases
  <1> QED  BY <1>3, <1>4, <1>5, <1>6, <1>7, <1>8, <1>9

\* The steps that end a handoff.
LEMMA EndsLate ==
    ASSUME LateInv, NEW p \in Procs,
           \/ Edit(p) \/ Ambiguous(p) \/ Finalize(p) \/ RefinalizeConflict(p) \/ Update(p)
           \/ UpdateRefused(p) \/ Die(p)
           \/ (AdoptConflict(p) \/ Waited(p) \/ FinalizeConflict(p)) /\ Leave(p)
    PROVE  OwnerInv'
  <1>1. Forget(p) /\ UNCHANGED late /\ open' \subseteq open /\ bound' \subseteq bound
    BY DEF Edit, Ambiguous, Finalize, RefinalizeConflict, Update, UpdateRefused, Die,
       AdoptConflict, Waited, FinalizeConflict, Raise, Answer, Leave, NoIssue, Frame, Claimless
  <1>2. CASE Finalize(p)
    <2>1. number[p] \in Numbers /\ claim' = Final(number[p])
      BY <1>2 DEF Finalize, LateInv, AnswerInv, NumbersAreKnown
    <2>2. HasIssue(claim)'
      BY <2>1, ClaimFacts DEF HasIssue
    <2> QED  BY <1>1, <2>2, Departs
  <1>3. CASE Update(p)
    <2>1. HasIssue(claim) /\ claim.issue = seen[p].issue /\ seen[p] \in Claim
      BY <1>3 DEF Update, LateInv, AnswerInv, UpdatesAgree
    <2>2. HasIssue(claim)'
      BY <1>3, <2>1, ClaimAssumption DEF Update, Claimless, HasIssue
    <2> QED  BY <1>1, <2>2, Departs
  <1>4. CASE ~Finalize(p) /\ ~Update(p)
    <2>1. claim' = Orphaned(p)
      BY <1>4 DEF Edit, Ambiguous, RefinalizeConflict, UpdateRefused, Die, Raise, Answer, Leave
    <2> QED  BY <1>1, <2>1, Departs
  <1> QED  BY <1>2, <1>3, <1>4

\* However many audits hand a finding over, and die, lose answers and are overtaken: who
\* has outlived a lease and may still create an issue is counted by late.
THEOREM OwnersInductive == Spec => []LateInv
  <1>1. Init /\ AnswerInv => LateInv
    <2> SUFFICES ASSUME Init, AnswerInv  PROVE LateInv
      OBVIOUS
    <2>1. Owners = {} /\ Creators = {} /\ Displaced = {}
      BY DEF Init, Owners, Creators, Displaced
    <2> QED  BY <2>1, FS_EmptySet DEF Init, LateInv, OwnerInv, Reader
  <1>2. LateInv /\ [Next]_vars => OwnerInv'
    <2> SUFFICES ASSUME LateInv, [Next]_vars  PROVE OwnerInv'
      OBVIOUS
    <2>1. ASSUME NEW p \in Procs, Start(p) \/ Step(p) \/ CreateUnknown(p)
                                 \/ PutUnknown(p) \/ Die(p)
          PROVE  OwnerInv'
      <3>1. CASE AdoptConflict(p) \/ Waited(p) \/ FinalizeConflict(p)
        BY <3>1, GoesOnLate, EndsLate
      <3> QED  BY <2>1, <3>1, GoesOnLate, EndsLate, Takers, Rechecks, Creation, LostWrites
               DEF Step
    <2>2. CASE UNCHANGED vars
      <3>1. Owners' = Owners /\ Creators' = Creators /\ Displaced' = Displaced
            /\ HasIssue(claim)' = HasIssue(claim) /\ UNCHANGED <<open, late>>
        BY <2>2 DEF vars, Owners, Creators, Displaced, HasIssue, Live, Pending
      <3>2. \A q \in Procs : Reader(q)'
        BY <2>2 DEF vars, LateInv, OwnerInv, Reader, Live, Pending
      <3> QED  BY <3>1, <3>2, Fewer
    <2> QED  BY <2>1, <2>2, LeaseEnds, IssueCloses DEF Next
  <1> QED  BY <1>1, <1>2, AnswerInductive, PTL DEF Spec, LateInv

\* A second open issue for a finding takes an owner that outlived its lease, a third two
\* of them, whatever deaths, lost answers and concurrent handoffs there are.
THEOREM SpareIssues == Spec => []SpareIssueNeedsLateOwner
  <1>1. LateInv => SpareIssueNeedsLateOwner
    BY LateTypes DEF LateInv, OwnerInv, SpareIssueNeedsLateOwner
  <1> QED  BY <1>1, OwnersInductive, PTL
===============================================================================
