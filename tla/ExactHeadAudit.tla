--------------------------- MODULE ExactHeadAudit ---------------------------
(***************************************************************************)
(* One pass of host-worker supervise-once (atlas/supervisor.py) over one    *)
(* repository: the paid audit of the ACTIVE packet's exact HEAD             *)
(* (atlas/audit_claim.py) and the disposition of a completed one            *)
(* (atlas/audit_disposition.py).                                            *)
(*                                                                          *)
(* The claims of an issue, and the budget of a month, are a document each   *)
(* on GitHub.  A document is replaced by a PUT that names the blob SHA it   *)
(* was loaded with; a blob SHA is a content address, so it is modelled by   *)
(* the content.  A PUT that fails may have landed: what it should have      *)
(* written is then looked for in a second call.  Every call to GitHub is a  *)
(* step; consecutive reads of packets between two steps are merged where    *)
(* the pass gives up if they disagree.                                      *)
(*                                                                          *)
(* Hosts run their passes concurrently: the lock of a pass is a file of one *)
(* host.  dispose-once is the second half of such a pass, run without the   *)
(* lock, so it is the pass of a further host.                               *)
(***************************************************************************)
EXTENDS Naturals, FiniteSets, Functions

CONSTANTS
    Hosts,
    Steady,          \* the hosts that go on for good; the others may stop at any point
    Keys,            \* exact HEADs; the HEADs of an issue in commit order
    IssueOf,         \* the Work Packet a HEAD belongs to
    Ceiling,         \* request_cost_ceiling_usd of a request
    Costs,           \* what a call may turn out to cost
    MonthlyHard,     \* monthly_hard_usd
    RequireIdentity, \* require_identity of the audit provider
    InitialPackets,
    None,
    Answers,         \* verdicts the auditor may give
    MaxMonth,        \* bound: months
    MaxTroubles      \* bound: failures and deaths, and changes of the packets

Months == 1..MaxMonth
Issues == {IssueOf[k] : k \in Keys}
Verdicts == {"PASS", "REWORK", "HUMAN_REQUIRED"}

\* How a claim was written: "claimed" and "recorded" are in state claimed.
Open == {"claimed", "recorded"}
Closed == {"audited", "settled", "usage", "held", "interrupted"}

Claims ==
    [way : Open \union Closed, verdict : Verdicts \union {None},
     cost : Nat \union {None}, month : Months, by : Hosts]

\* What may be noted of a disposition.
Notes == {"rework_handoff", "human_required"}

Entries == [claim : Claims \union {None}, note : Notes \union {None}]

Ledgers == [Keys -> Entries]

Slots == [usd : Nat, settled : BOOLEAN]

Budgets == [spent : Nat, slots : [Keys -> Slots \union {None}]]

Packets == [active : BOOLEAN, head : Keys, handoff : Keys \union {None}]

\* What a paid call answered and cost, and the month it is paid from.
Replies == [verdict : Verdicts, cost : Nat, month : Months]

ASSUME ClaimAssumption ==
    None \notin Claims \union Verdicts \union Slots \union Replies \union Notes

ASSUME AuditAssumption ==
    /\ Steady \subseteq Hosts
    /\ Keys \subseteq Nat /\ IsFiniteSet(Keys)    \* there are finitely many SHAs
    /\ None \notin Keys
    /\ Ceiling \in Nat \ {0}
    /\ Costs \subseteq 0..Ceiling
    /\ MonthlyHard \in Nat
    /\ RequireIdentity \in BOOLEAN
    /\ InitialPackets \in [Issues -> Packets]
    /\ \A i \in Issues : IssueOf[InitialPackets[i].head] = i
    /\ Answers \subseteq Verdicts
    /\ MaxMonth \in Nat \ {0}

VARIABLES
    packet,      \* per issue: the Work Packet on GitHub
    ledger,      \* per issue: the claim document
    budget,      \* per month: the budget document
    month,       \* the current month
    pass,        \* per host: the pass in progress
    calls,       \* per HEAD: paid calls made (history)
    answer,      \* per HEAD: what the last one answered and cost (history)
    handed,      \* HEADs handed back for rework (history)
    troubles     \* what went wrong, or changed, in the world

vars == <<packet, ledger, budget, month, pass, calls, answer, handed, troubles>>
canonical == <<packet, ledger, budget>>
history == <<calls, answer, handed>>
world == <<month, troubles>>

-----------------------------------------------------------------------------
\* A pass

Steps ==
    {"idle", "claim?", "evidence", "ledger?", "budget?", "reserve?", "reserve",
     "claim", "call", "record", "settle?", "settle", "finish", "prior?",
     "packet?", "recheck", "edit", "remember"}

Idle ==
    [at |-> "idle", key |-> None, month |-> None, ledger |-> None,
     budget |-> None, tried |-> FALSE, asked |-> "no", result |-> None,
     body |-> None]

Goto(h, s) == pass' = [pass EXCEPT ![h].at = s]

\* The pass ends: its project's row is returned, or an exception ends it.
Return(h) == pass' = [pass EXCEPT ![h] = Idle]

Key(h) == pass[h].key
Issue(h) == IssueOf[pass[h].key]

ActiveIssues == {i \in Issues : packet[i].active}
OnlyActive(k) ==
    ActiveIssues = {IssueOf[k]} /\ packet[IssueOf[k]].head = k

EntryOf(k) == ledger[IssueOf[k]][k]
IsClosed(c) == c # None /\ c.way \in Closed

\* A host starts its pass when one packet is ACTIVE (none: idle; two:
\* ambiguous_packet), and looks whether its HEAD is audited already.
StartPass(h) ==
    /\ pass[h].at = "idle"
    /\ \E i \in Issues :
          /\ ActiveIssues = {i}
          /\ pass' = [pass EXCEPT ![h] = [Idle EXCEPT !.at = "claim?",
                                                   !.key = packet[i].head]]
    /\ UNCHANGED <<canonical, history, world>>

\* An audited HEAD is disposed of; one that is claimed needs no evidence.
LookForClaim(h) ==
    LET c == EntryOf(Key(h)).claim IN
    /\ pass[h].at = "claim?"
    /\ Goto(h, IF c = None THEN "evidence"
               ELSE IF IsClosed(c) THEN "prior?" ELSE "ledger?")
    /\ UNCHANGED <<canonical, history, world>>

\* Collecting the evidence takes long: the packet is looked at again.
CollectEvidence(h) ==
    /\ pass[h].at = "evidence"
    /\ IF OnlyActive(Key(h)) THEN Goto(h, "ledger?") ELSE Return(h)
    /\ UNCHANGED <<canonical, history, world>>

-----------------------------------------------------------------------------
\* run_exact_head_audit

\* A completed claim, and one that is not older than its lease, end the pass.
Duplicate(h) ==
    LET c == EntryOf(Key(h)).claim IN
    /\ pass[h].at = "ledger?"
    /\ c # None
    /\ Return(h)
    /\ UNCHANGED <<canonical, history, world>>

\* The pass takes the HEAD on: it has no claim, or one whose lease is over.  How
\* long a lease still runs is left open, as the clocks of two hosts differ.
TakeOn(h) ==
    LET doc == ledger[Issue(h)] IN
    /\ pass[h].at = "ledger?"
    /\ ~IsClosed(doc[Key(h)].claim)
    /\ pass' = [pass EXCEPT ![h].at = "budget?", ![h].ledger = doc,
                            ![h].month = month]
    /\ UNCHANGED <<canonical, history, world>>

\* How a claim with the reservation s is closed without a call: with what was
\* settled, with what was recorded, or with the ceiling.
WithoutCall(h, c, s) ==
    LET seen == c # None /\ c.verdict # None
        by == IF c = None THEN h ELSE c.by
        Claim(w, v, usd) == [way |-> w, verdict |-> v, cost |-> usd,
                             month |-> pass[h].month, by |-> by]
    IN IF s.settled
       THEN Claim("settled", IF seen THEN c.verdict ELSE "HUMAN_REQUIRED", s.usd)
       ELSE IF seen THEN Claim("usage", c.verdict, c.cost)
       ELSE Claim("held", "HUMAN_REQUIRED", s.usd)

\* Nobody knows what became of a claim that has no reservation this month.
Interrupted(c) ==
    [c EXCEPT !.way = "interrupted", !.verdict = "HUMAN_REQUIRED", !.cost = 0]

\* Variant: a HEAD that is reserved is left to whoever reserved it.
LookForReservation_Waits(h) ==
    LET c == pass[h].ledger[Key(h)].claim
        s == budget[pass[h].month].slots[Key(h)]
    IN
    /\ pass[h].at = "budget?"
    /\ IF s # None THEN Return(h)
       ELSE IF c # None
       THEN pass' = [pass EXCEPT ![h].at = "finish", ![h].result = Interrupted(c)]
       ELSE Goto(h, "reserve?")
    /\ UNCHANGED <<canonical, history, world>>

LookForReservation(h) ==
    LET c == pass[h].ledger[Key(h)].claim
        s == budget[pass[h].month].slots[Key(h)]
    IN
    /\ pass[h].at = "budget?"
    /\ pass' =
         IF s # None
         THEN [pass EXCEPT ![h].at = "settle?", ![h].result = WithoutCall(h, c, s)]
         ELSE IF c # None
         THEN [pass EXCEPT ![h].at = "finish", ![h].result = Interrupted(c)]
         ELSE [pass EXCEPT ![h].at = "reserve?"]
    /\ UNCHANGED <<canonical, history, world>>

\* _reserve_ceiling: a HEAD that is reserved, and a ceiling the month cannot
\* bear, end the pass.
LoadToReserve(h) ==
    LET b == budget[pass[h].month] IN
    /\ pass[h].at = "reserve?"
    /\ IF b.slots[Key(h)] # None \/ b.spent + Ceiling > MonthlyHard
       THEN Return(h)
       ELSE pass' = [pass EXCEPT ![h].at = "reserve", ![h].budget = b]
    /\ UNCHANGED <<canonical, history, world>>

\* _settle_reservation: what is settled stays as it is.
SettledWay(w) == IF w = "recorded" THEN "audited" ELSE w

LoadToSettle(h) ==
    LET b == budget[pass[h].month] IN
    /\ pass[h].at = "settle?"
    /\ pass' =
         IF b.slots[Key(h)].settled
         THEN [pass EXCEPT ![h].at = "finish", ![h].tried = FALSE,
                           ![h].result.way = SettledWay(@)]
         ELSE [pass EXCEPT ![h].at = "settle", ![h].budget = b]
    /\ UNCHANGED <<canonical, history, world>>

\* The paid call.  The provider's own look at the budget cannot refuse what was
\* reserved.  One that requires the worktree's identity raises, because the
\* pass hands it neither event nor record.
Call(h) ==
    /\ pass[h].at = "call"
    /\ IF RequireIdentity THEN Return(h) /\ UNCHANGED <<calls, answer>>
       ELSE \E v \in Answers, usd \in Costs :
          /\ calls' = [calls EXCEPT ![Key(h)] = @ + 1]
          /\ answer' = [answer EXCEPT ![Key(h)] =
                [verdict |-> v, cost |-> usd, month |-> pass[h].month]]
          /\ pass' = [pass EXCEPT ![h].at = "record",
                ![h].result = [@ EXCEPT !.way = "recorded", !.verdict = v,
                                        !.cost = usd]]
    /\ UNCHANGED <<canonical, handed, world>>

-----------------------------------------------------------------------------
\* The disposition of a completed claim

\* What was disposed of is not disposed of again.
LoadPrior(h) ==
    LET doc == ledger[Issue(h)] IN
    /\ pass[h].at = "prior?"
    /\ IF doc[Key(h)].note # None THEN Return(h)
       ELSE pass' = [pass EXCEPT ![h].at = "packet?", ![h].ledger = doc]
    /\ UNCHANGED <<canonical, history, world>>

Verdict(h) == pass[h].ledger[Key(h)].claim.verdict

\* _packet_marker: the HEAD it looks for is the packet's LAST_VERIFIED_HEAD, so
\* any handoff that is left in the packet is taken for this one's.
Marked(i) == packet[i].handoff # None

\* Variants: the disposition is noted before the packet is edited; whatever is
\* not a PASS is handed back.
LoadPacket_NotesFirst(h) ==
    LET p == packet[Issue(h)] IN
    /\ pass[h].at = "packet?"
    /\ IF ~p.active \/ p.head # Key(h) \/ Verdict(h) = "PASS"
       THEN Return(h) ELSE Goto(h, "remember")
    /\ UNCHANGED <<canonical, history, world>>

LoadPacket_HandsAll(h) ==
    LET p == packet[Issue(h)] IN
    /\ pass[h].at = "packet?"
    /\ IF ~p.active \/ p.head # Key(h) \/ Verdict(h) = "PASS" \/ Marked(Issue(h))
       THEN Return(h)
       ELSE pass' = [pass EXCEPT ![h].at = "recheck", ![h].body = p]
    /\ UNCHANGED <<canonical, history, world>>

\* HUMAN_REQUIRED is only noted; a PASS advances nothing, as no gates are given.
LoadPacket(h) ==
    LET p == packet[Issue(h)] IN
    /\ pass[h].at = "packet?"
    /\ IF \/ ~p.active \/ p.head # Key(h)
          \/ Verdict(h) = "PASS"
          \/ Verdict(h) = "REWORK" /\ Marked(Issue(h))
       THEN Return(h)
       ELSE IF Verdict(h) = "REWORK"
       THEN pass' = [pass EXCEPT ![h].at = "recheck", ![h].body = p]
       ELSE Goto(h, "remember")
    /\ UNCHANGED <<canonical, history, world>>

\* commit_unchanged_body: one ACTIVE packet, read twice more.  A body with its
\* updatedAt never comes back, and here the body alone does not.
Recheck(h) ==
    /\ pass[h].at = "recheck"
    /\ IF ActiveIssues = {Issue(h)} /\ packet[Issue(h)] = pass[h].body
       THEN Goto(h, "edit") ELSE Return(h)
    /\ UNCHANGED <<canonical, history, world>>

\* The edit itself compares nothing.
EditPacket(h) ==
    /\ pass[h].at = "edit"
    /\ packet' = [packet EXCEPT ![Issue(h)] =
                     [pass[h].body EXCEPT !.handoff = Key(h)]]
    /\ handed' = handed \union {Key(h)}
    /\ Goto(h, "remember")
    /\ UNCHANGED <<ledger, budget, calls, answer, world>>

-----------------------------------------------------------------------------
\* Replacing a document

BudgetPuts == {"reserve", "settle"}
LedgerPuts == {"claim", "record", "finish", "remember"}

NewClaim(h) ==
    [way |-> "claimed", verdict |-> None, cost |-> None,
     month |-> pass[h].month, by |-> h]

Reserved == [usd |-> Ceiling, settled |-> FALSE]

\* The document as it is, as it was loaded, and as it shall be.
Current(h) ==
    IF pass[h].at \in BudgetPuts THEN budget[pass[h].month] ELSE ledger[Issue(h)]

Loaded(h) ==
    IF pass[h].at \in BudgetPuts THEN pass[h].budget ELSE pass[h].ledger

\* Variant: what a call cost is added to what was reserved for it.
Wanted_Gross(h) ==
    LET b == pass[h].budget
        usd == pass[h].result.cost
    IN
    CASE pass[h].at = "reserve" ->
            [spent |-> b.spent + Ceiling,
             slots |-> [b.slots EXCEPT ![Key(h)] = Reserved]]
      [] pass[h].at = "settle" ->
            [spent |-> b.spent + usd,
             slots |-> [b.slots EXCEPT ![Key(h)] = [usd |-> usd, settled |-> TRUE]]]
      [] pass[h].at = "remember" ->
            [pass[h].ledger EXCEPT ![Key(h)].note =
                IF Verdict(h) = "REWORK" THEN "rework_handoff" ELSE "human_required"]
      [] OTHER ->
            [pass[h].ledger EXCEPT ![Key(h)].claim = pass[h].result]

Wanted(h) ==
    LET b == pass[h].budget
        usd == pass[h].result.cost
    IN
    CASE pass[h].at = "reserve" ->
            [spent |-> b.spent + Ceiling,
             slots |-> [b.slots EXCEPT ![Key(h)] = Reserved]]
      [] pass[h].at = "settle" ->
            [spent |-> b.spent + usd - b.slots[Key(h)].usd,
             slots |-> [b.slots EXCEPT ![Key(h)] = [usd |-> usd, settled |-> TRUE]]]
      [] pass[h].at = "remember" ->
            [pass[h].ledger EXCEPT ![Key(h)].note =
                IF Verdict(h) = "REWORK" THEN "rework_handoff" ELSE "human_required"]
      [] OTHER ->
            [pass[h].ledger EXCEPT ![Key(h)].claim = pass[h].result]

Store(h) ==
    IF pass[h].at \in BudgetPuts
    THEN /\ budget' = [budget EXCEPT ![pass[h].month] = Wanted(h)]
         /\ UNCHANGED ledger
    ELSE /\ ledger' = [ledger EXCEPT ![Issue(h)] = Wanted(h)]
         /\ UNCHANGED budget

\* The pass goes on when its document is known to be stored.
Stored(h) ==
    LET To(s) == [pass[h] EXCEPT !.at = s, !.asked = "no", !.tried = FALSE,
                                 !.budget = None]
        Kept(s) == [To(s) EXCEPT !.ledger = Wanted(h)]
    IN pass' = [pass EXCEPT ![h] =
         CASE @.at = "reserve" -> [To("claim") EXCEPT !.result = NewClaim(h)]
           [] @.at = "claim" -> Kept("call")
           [] @.at = "record" -> Kept("settle?")
           [] @.at = "settle" -> [To("finish") EXCEPT !.result.way = SettledWay(@)]
           [] OTHER -> Idle]

\* A budget that another host replaced is loaded once more; a ledger is not.
Lost(h) ==
    IF pass[h].at \in BudgetPuts /\ ~pass[h].tried
    THEN pass' = [pass EXCEPT ![h].tried = TRUE, ![h].asked = "no",
                    ![h].budget = None,
                    ![h].at = IF @ = "reserve" THEN "reserve?" ELSE "settle?"]
    ELSE Return(h)

Asking(h) ==
    pass[h].at \in BudgetPuts \union LedgerPuts /\ pass[h].asked = "no"

PutLands(h) ==
    /\ Asking(h)
    /\ Current(h) = Loaded(h)
    /\ Store(h)
    /\ Stored(h)
    /\ UNCHANGED <<packet, history, world>>

PutRefused(h) ==
    /\ Asking(h)
    /\ Current(h) # Loaded(h)
    /\ pass' = [pass EXCEPT ![h].asked = "refused"]
    /\ UNCHANGED <<canonical, history, world>>

Trouble == troubles < MaxTroubles /\ troubles' = troubles + 1

\* The call fails, on its way to GitHub or on its way back.
PutUnanswered(h) ==
    /\ Asking(h)
    /\ Trouble
    /\ Current(h) = Loaded(h)
    /\ Store(h) \/ UNCHANGED <<ledger, budget>>
    /\ pass' = [pass EXCEPT ![h].asked = "unanswered"]
    /\ UNCHANGED <<packet, history, month>>

\* A document is absent until it is stored first.
Absent(h) ==
    IF pass[h].at \in BudgetPuts
    THEN \A k \in Keys : Current(h).slots[k] = None
    ELSE \A k \in Keys : Current(h)[k].claim = None

\* Variant: a refusal is taken for the echo of an earlier try.
Observe_Trusts(h) ==
    /\ pass[h].asked # "no"
    /\ IF Current(h) = Wanted(h) \/ pass[h].asked = "refused" THEN Stored(h)
       ELSE IF Absent(h) THEN Return(h)
       ELSE Lost(h)
    /\ UNCHANGED <<canonical, history, world>>

\* What was wanted is there, whoever stored it; another content is a conflict;
\* none, after a call that was not refused, an error.
Observe(h) ==
    /\ pass[h].asked # "no"
    /\ IF Current(h) = Wanted(h) THEN Stored(h)
       ELSE IF pass[h].asked = "unanswered" /\ Absent(h) THEN Return(h)
       ELSE Lost(h)
    /\ UNCHANGED <<canonical, history, world>>

-----------------------------------------------------------------------------
\* The world

\* A call fails, a check of worktree, evidence or key refuses, or the host dies.
Fail(h) ==
    /\ pass[h].at # "idle"
    /\ Trouble
    /\ Return(h)
    /\ UNCHANGED <<canonical, history, month>>

NextMonth ==
    /\ month < MaxMonth
    /\ month' = month + 1
    /\ Trouble
    /\ UNCHANGED <<canonical, pass, history>>

\* The implementer commits, and names the new HEAD in the packet; its evidence
\* section may be left as it is.
Commit(i) ==
    /\ packet[i].active
    /\ \E k \in Keys, left \in {packet[i].handoff, None} :
          /\ IssueOf[k] = i
          /\ k > packet[i].head
          /\ packet' = [packet EXCEPT ![i].head = k, ![i].handoff = left]
    /\ Trouble
    /\ UNCHANGED <<ledger, budget, pass, history, month>>

\* Another packet becomes the ACTIVE one.
Switch(i, j) ==
    /\ packet[i].active
    /\ ~packet[j].active
    /\ packet' = [packet EXCEPT ![i].active = FALSE, ![j].active = TRUE]
    /\ Trouble
    /\ UNCHANGED <<ledger, budget, pass, history, month>>

-----------------------------------------------------------------------------
NoEntry == [claim |-> None, note |-> None]

Init ==
    /\ packet = InitialPackets
    /\ ledger = [i \in Issues |-> [k \in Keys |-> NoEntry]]
    /\ budget = [m \in Months |-> [spent |-> 0, slots |-> [k \in Keys |-> None]]]
    /\ month = 1
    /\ pass = [h \in Hosts |-> Idle]
    /\ calls = [k \in Keys |-> 0]
    /\ answer = [k \in Keys |-> None]
    /\ handed = {}
    /\ troubles = 0

Step(h) ==
    \/ StartPass(h) \/ LookForClaim(h) \/ CollectEvidence(h)
    \/ Duplicate(h) \/ TakeOn(h) \/ LookForReservation(h) \/ LoadToReserve(h)
    \/ LoadToSettle(h) \/ Call(h)
    \/ LoadPrior(h) \/ LoadPacket(h) \/ Recheck(h) \/ EditPacket(h)
    \/ PutLands(h) \/ PutRefused(h) \/ Observe(h)

Next ==
    \/ \E h \in Hosts : Step(h) \/ PutUnanswered(h) \/ Fail(h)
    \/ \E i \in Issues : Commit(i) \/ \E j \in Issues : Switch(i, j)
    \/ NextMonth

Spec == Init /\ [][Next]_vars

\* On a steady host a pass is run again and again and goes on until it ends; a
\* claim that is looked at again and again is older than its lease in the end.
FairSpec ==
    /\ Spec
    /\ \A h \in Steady : WF_vars(Step(h)) /\ SF_vars(TakeOn(h))

-----------------------------------------------------------------------------
(* Properties *)

\* Every variable keeps its type.
TypeOK ==
    /\ packet \in [Issues -> Packets]
    /\ \A i \in Issues : IssueOf[packet[i].head] = i
    /\ ledger \in [Issues -> Ledgers]
    /\ budget \in [Months -> Budgets]
    /\ month \in Months
    /\ \A h \in Hosts :
          /\ pass[h].at \in Steps
          /\ pass[h].at # "idle" => Key(h) \in Keys
          /\ pass[h].asked \in {"no", "refused", "unanswered"}
          /\ pass[h].tried \in BOOLEAN
          /\ pass[h].month \in Months \union {None}
          /\ pass[h].ledger \in Ledgers \union {None}
          /\ pass[h].budget \in Budgets \union {None}
          /\ pass[h].result \in Claims \union {None}
          /\ pass[h].body \in Packets \union {None}
    /\ calls \in [Keys -> Nat]
    /\ answer \in [Keys -> Replies \union {None}]
    /\ handed \in SUBSET Keys
    /\ troubles \in 0..MaxTroubles

\* However many hosts race for a HEAD, lose their claim's lease or die, it is
\* sent to the paid auditor at most once ("Identity for one paid audit").
OnePaidCall == \A k \in Keys : calls[k] <= 1

\* A month's budget stays within the hard limit, and what the paid calls of the
\* month really cost is in it: no call is made that is not reserved, and no
\* reservation is settled below what its call cost, or taken back.
WithinBudget ==
    \A m \in Months :
        /\ budget[m].spent <= MonthlyHard
        /\ \A k \in Keys : answer[k] # None /\ answer[k].month = m =>
              LET s == budget[m].slots[k] IN
              s # None /\ answer[k].cost <= s.usd

\* What a budget says is spent adds up to what its reservations say: nothing is
\* counted twice, or lost, when hosts replace the document at once.
Amounts(b) ==
    [k \in Keys |-> IF b.slots[k] = None THEN 0 ELSE b.slots[k].usd]
BudgetAddsUp ==
    \A m \in Months : budget[m].spent = SumFunction(Amounts(budget[m]))

\* A handoff that the ledger or the packet reports was made, and what is noted
\* of a HEAD fits its claim.
DispositionsAreTrue ==
    /\ \A i \in Issues :
          packet[i].handoff \in handed \union {None, InitialPackets[i].handoff}
    /\ \A k \in Keys :
          /\ EntryOf(k).note = "rework_handoff" => k \in handed
          /\ EntryOf(k).note = "human_required" =>
                /\ IsClosed(EntryOf(k).claim)
                /\ EntryOf(k).claim.verdict = "HUMAN_REQUIRED"

\* What the ledger and the packets say of money and of verdicts is what happened.
LedgersAreTrue == WithinBudget /\ DispositionsAreTrue

\* The HEAD of the one ACTIVE packet is judged in the end, unless the month
\* cannot bear another audit: no race, failure or death leaves a claim open,
\* and no host that stops for good leaves one open that another cannot close.
HeadIsJudged ==
    \A k \in Keys :
        OnlyActive(k) ~> \/ IsClosed(EntryOf(k).claim)
                         \/ ~OnlyActive(k)
                         \/ budget[month].spent + Ceiling > MonthlyHard

\* The supervisor implements AuditOnce: one call, one final verdict which is
\* the call's or HUMAN_REQUIRED, rework handed back only after such a verdict.
Promise ==
    INSTANCE AuditOnce WITH
        answer <- [k \in Keys |-> IF answer[k] = None THEN None ELSE answer[k].verdict],
        verdict <- [k \in Keys |->
            IF IsClosed(EntryOf(k).claim) THEN EntryOf(k).claim.verdict ELSE None]
ImplementsAuditOnce == Promise!Spec
=============================================================================
