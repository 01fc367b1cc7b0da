----------------------------- MODULE EvidenceAudit -----------------------------
(***************************************************************************)
(* One audit of a completed workstream: the auditors (atlas/codex_audit.py,  *)
(* final_audit.py, OpenAIResponsesAuditAdapter of work_controller.py) and    *)
(* the gate of the controller behind them.                                   *)
(*                                                                           *)
(* The evidence is collected read by read, while the worktree is edited and  *)
(* committed to, the pull request is pushed, checked and commented, and the  *)
(* judge, which is external, takes its time.  Commit 1 is the one that the   *)
(* completion event names, and the pull request has one comment thread.      *)
(* Truncated, malformed and failing reads are faults.                         *)
(***************************************************************************)
EXTENDS Naturals, FiniteSets

CONSTANTS
    Ceiling,        \* request_cost_ceiling_usd of a request
    PreflightCost,  \* AuditBudget.preflight_usd
    RunSoft, RunHard, MonthSoft, MonthHard,
    NoLimit,        \* None: a soft limit that is not configured
    CreateRetries,
    MaxEvents,      \* bound: faults, and changes of the worktree and on GitHub
    MaxAudits       \* bound: audits

\* Amounts of money, in a unit of which each is a multiple.
ASSUME EvidenceAssumption ==
    /\ {Ceiling, PreflightCost, RunHard, MonthHard} \subseteq Nat
    /\ {RunSoft, MonthSoft} \subseteq Nat \union {NoLimit} /\ NoLimit \notin Nat

Worktrees == [head : {1, 2}, dirt : {"clean", "modified", "untracked"}]

VARIABLES
    auditPc,     \* the next read or request of the audit
    gate,        \* what the worktree is validated for
    auditor,
    checkout,
    github,      \* [pr, rows, thread]: commit of the pull request, states of its checks
    bundle,      \* the evidence collected
    posts,       \* requests sent for this audit
    answer,      \* verdict of the auditor, before its last gate
    result,      \* what the controller goes on with, and the auditor it is from
    instants,    \* worktrees since the last validation began (history)
    spent,       \* AuditBudget.month_spent_usd
    events, rounds

evidenceVars ==
    <<auditPc, gate, auditor, checkout, github, bundle, posts, answer, result, instants,
      spent, events, rounds>>

surroundings == <<checkout, github>>
money == <<posts, spent>>

-----------------------------------------------------------------------------
(* The pull request.                                                         *)

\* The commit a finding was made on, the one GitHub shows it on, and whether it asks for
\* anything; 0 is an earlier commit.
Comments == [original : {0, 1}, mapped : {0, 1}, actionable : BOOLEAN,
             resolved : BOOLEAN]

NoComment == [original |-> 0, mapped |-> 0, actionable |-> FALSE, resolved |-> TRUE]

\* gh pr checks: exit status for the states of the rows.
ExitStatus(rows) ==
    IF rows \subseteq {"pass"} /\ rows # {} THEN 0
    ELSE IF "pending" \in rows /\ "fail" \notin rows THEN 8
    ELSE 1

ClassifyChecks(code, rows) ==
    CASE code = 0 -> "OK"
      [] code = 8 -> "PENDING"
      [] code = 4 -> "ERROR"
      [] OTHER -> IF "fail" \in rows THEN "FAIL"
                  ELSE IF "pending" \in rows THEN "PENDING"
                  ELSE IF rows = {} /\ code = 1 THEN "ABSENT" ELSE "ERROR"

\* A unittest run: exit status, whether a module failed to load, whether it came to its
\* summary.
ClassifyTests(code, unloadable, ran) ==
    CASE code = 0 -> "PASS"
      [] code # 0 /\ ~unloadable /\ ran -> "FAIL"
      [] OTHER -> "ERROR"

\* Findings of the audited commit stay, and those of an earlier one that GitHub shows on
\* it and that ask for something; a resolved thread goes.
KeptInline(c, resolved) ==
    /\ ~resolved
    /\ c.original = 1 \/ (c.mapped = 1 /\ c.actionable)

-----------------------------------------------------------------------------
(* The evidence.                                                             *)

\* The commits that were read and diffed (0: none), and whether HEAD was elsewhere since
\* it was read (left, history); the states of the reads, and what they showed.
Uncollected ==
    [git |-> "none", head |-> 0, diff |-> 0, left |-> FALSE, packet |-> "none",
     tests |-> "none", ci |-> "none", pr |-> 0, atThreads |-> NoComment,
     reviews |-> "none", shown |-> FALSE]

Happens == events < MaxEvents /\ events' = events + 1
Fault == Happens
NoFault == UNCHANGED events

\* A read gives what is there, or it fails or is cut off.
Reads(value, status) ==
    \/ status = value /\ NoFault
    \/ status \in {"ERROR", "INCOMPLETE"} /\ Fault

Collects(from, to, b) ==
    /\ auditPc = from /\ auditPc' = to
    /\ bundle' = b
    /\ UNCHANGED <<gate, auditor, surroundings, money, answer, result, instants,
                   rounds>>

Statuses == {"OK", "INCOMPLETE", "ERROR", "ABSENT"}

\* Untracked files are listed and not read.
ReadStatus ==
    \E status \in Statuses :
        /\ Reads(IF checkout.dirt = "untracked" THEN "INCOMPLETE" ELSE "OK", status)
        /\ Collects("status", "head", [bundle EXCEPT !.git = status])

\* HEAD, and beside it the names of branch and origin, which nothing is compared with.
ReadHead ==
    \/ /\ NoFault
       /\ Collects("head", "diff", [bundle EXCEPT !.head = checkout.head])
    \/ /\ Fault
       /\ \E head \in {0, checkout.head} :
             Collects("head", "diff", [bundle EXCEPT !.head = head, !.git = "ERROR"])

\* The diff of what HEAD is then.  What is not committed is read with it: no gate looks
\* at it.
ReadDiff ==
    \E status \in Statuses :
        /\ Reads(bundle.git, status) /\ (bundle.git = "ERROR" => status = "ERROR")
        /\ Collects("diff", "packet",
             [bundle EXCEPT !.git = status, !.diff = checkout.head])

ReadPacket ==
    \E status \in Statuses :
        /\ Reads("OK", status)
        /\ Collects("packet", "tests", [bundle EXCEPT !.packet = status])

\* The suite runs in the worktree, with whatever is in it.
RunTests ==
    \/ /\ NoFault
       /\ \E code \in {0, 1}, unloadable \in BOOLEAN :
            Collects("tests", "ci",
                [bundle EXCEPT !.tests = ClassifyTests(code, unloadable, TRUE)])
    \/ /\ Fault
       /\ Collects("tests", "ci",
                [bundle EXCEPT !.tests = ClassifyTests(1, FALSE, FALSE)])

\* A pull request whose head is the audited commit is looked for.
FindPullRequest ==
    \/ /\ NoFault
       /\ IF github.pr = 1
          THEN Collects("ci", "checks", [bundle EXCEPT !.pr = 1])
          ELSE Collects("ci", "threads", [bundle EXCEPT !.ci = "ABSENT"])
    \/ /\ Fault
       /\ Collects("ci", "threads", [bundle EXCEPT !.ci = "ERROR"])

\* Its checks then, of whatever commit it is at by now.
ReadChecks ==
    \E code \in {4, ExitStatus(github.rows)} :
        /\ IF code = 4 THEN Fault ELSE NoFault
        /\ Collects("checks", "threads",
             [bundle EXCEPT !.ci = ClassifyChecks(code, IF code = 4 THEN {} ELSE github.rows)])

\* A read of the pull request that fails ends the collection, one that is cut off does not.
AfterRead(status, to) == IF status = "ERROR" THEN "judgeable" ELSE to

WithoutThreads == IF bundle.ci = "ABSENT" THEN "ABSENT" ELSE "ERROR"

\* Which threads are resolved is read before the comments.
LoadThreads ==
    IF bundle.pr = 1 /\ bundle.ci # "ERROR"
    THEN \E status \in Statuses :
            /\ Reads("OK", status)
            /\ Collects("threads", AfterRead(status, "reviews"),
                 [bundle EXCEPT !.atThreads = github.thread, !.reviews = status])
    ELSE /\ NoFault
         /\ Collects("threads", "judgeable", [bundle EXCEPT !.reviews = WithoutThreads])

\* One list of the pull request.
ReadList(from, to, b) ==
    \E status \in Statuses :
        /\ Reads(bundle.reviews, status)
        /\ Collects(from, AfterRead(status, to), [b EXCEPT !.reviews = status])

ReadReviews == ReadList("reviews", "inline", bundle)

\* Of the comments on lines, those that concern the commit are kept.
ReadInlineComments ==
    ReadList("inline", "conversation",
        [bundle EXCEPT
            !.shown = /\ github.thread # NoComment
                      /\ KeptInline(github.thread,
                            bundle.atThreads # NoComment /\ bundle.atThreads.resolved)])

ReadConversation == ReadList("conversation", "judgeable", bundle)

IncompleteEvidence ==
    \/ bundle.reviews \in {"ERROR", "INCOMPLETE"}
    \/ bundle.packet \in {"ERROR", "INCOMPLETE"}
    \/ bundle.git \in {"ERROR", "INCOMPLETE"}

\* _deterministic_gate_before_codex.
Gate ==
    IF bundle.tests = "ERROR" \/ bundle.ci \in {"PENDING", "ERROR"} THEN "HUMAN_REQUIRED"
    ELSE IF bundle.tests = "FAIL" \/ bundle.ci = "FAIL" THEN "REWORK"
    ELSE "none"

-----------------------------------------------------------------------------
(* The worktree.                                                             *)

Identified == checkout.head = 1

\* The audit ends with a verdict, or with an exception.
Ends(verdict) ==
    /\ result' = [verdict |-> verdict, by |-> auditor]
    /\ auditPc' = "idle" /\ gate' = "none" /\ answer' = "none" /\ posts' = 0
    /\ bundle' = IF verdict \in {"PASS", "REWORK"} THEN bundle ELSE Uncollected
    /\ instants' = IF verdict \in {"PASS", "REWORK"} THEN instants ELSE {}
    /\ UNCHANGED auditor

GoesOn(r) == result' = r /\ UNCHANGED <<auditor, bundle, posts>>

\* Each gate validates the worktree in three reads: branch and commit, porcelain, and
\* branch and commit again.
Validate(g) ==
    /\ auditPc' = "identity" /\ gate' = g
    /\ instants' = {checkout}

\* The controller validates the worktree behind its auditors; nobody does behind the
\* bounded one, which the supervisor calls.
Delivers(verdict) ==
    IF auditor = "bounded" THEN Ends(verdict)
    ELSE answer' = verdict /\ Validate("controller") /\ GoesOn(result)

Raises == Ends("raised")

Starts(a, where) ==
    /\ auditPc = "idle" /\ rounds < MaxAudits
    /\ rounds' = rounds + 1
    /\ auditor' = a /\ bundle' = Uncollected /\ instants' = {}
    /\ auditPc' = where
    /\ result' = [verdict |-> IF where = "idle" THEN "raised" ELSE "none", by |-> a]
    /\ UNCHANGED <<gate, answer, surroundings, money, events>>

StartCodex == Starts("codex", IF Identified THEN "status" ELSE "idle")
StartBounded == Starts("bounded", IF Identified THEN "status" ELSE "idle")

\* The adapter that collects nothing looks at nothing.
StartResponses == Starts("responses", "post")

\* A HEAD that could not be read is not compared.
StaleHead == auditor = "bounded" /\ bundle.head \notin {0, 1}

\* The bounded auditor refuses evidence on which HEAD is another commit first.
ConsiderEvidence ==
    /\ auditPc = "judgeable"
    /\ IF StaleHead THEN Raises
       ELSE IF IncompleteEvidence THEN Ends("HUMAN_REQUIRED")
       ELSE Validate("evidence") /\ GoesOn(result) /\ UNCHANGED answer
    /\ UNCHANGED <<surroundings, spent, events, rounds>>

\* What a failing validation gives: the auditors and the controller ask for a human.
Rejected == Ends("HUMAN_REQUIRED")

Looks == GoesOn(result) /\ UNCHANGED <<gate, answer, instants>>

FirstIdentity ==
    /\ auditPc = "identity"
    /\ IF Identified
       THEN auditPc' = "porcelain" /\ Looks
       ELSE Rejected
    /\ UNCHANGED <<surroundings, spent, events, rounds>>

Porcelain ==
    /\ auditPc = "porcelain"
    /\ IF checkout.dirt = "clean"
       THEN auditPc' = "again" /\ Looks
       ELSE Rejected
    /\ UNCHANGED <<surroundings, spent, events, rounds>>

\* Variant: the second look at branch and commit is left out.
SecondLook_Skipped == TRUE
SecondLook == Identified

\* A soft limit, where one is configured, blocks like a hard one.
RunLimits == {RunSoft, RunHard} \ {NoLimit}
MonthLimits == {MonthSoft, MonthHard} \ {NoLimit}
Within(amount, limits) == \A limit \in limits : amount <= limit

Blocked ==
    \E amount \in {PreflightCost, Ceiling} :
        ~Within(amount, RunLimits) \/ ~Within(spent + amount, MonthLimits)

Asks(judge) ==
    /\ auditPc' = judge /\ gate' = "none" /\ instants' = {}
    /\ GoesOn(result) /\ UNCHANGED answer

\* A prompt or a bundle with a secret in it is sent nowhere, nor is one that is too long.
Unsendable == Fault /\ Ends("HUMAN_REQUIRED")

JudgeByCodex ==
    IF Gate # "none" THEN Delivers(Gate) /\ NoFault
    ELSE (Asks("codex") /\ NoFault) \/ Unsendable

JudgeByResponses ==
    IF Gate # "none" THEN Delivers(Gate) /\ NoFault
    ELSE \/ NoFault /\ IF Blocked THEN Ends("HUMAN_REQUIRED") ELSE Asks("post")
         \/ Unsendable

SecondIdentity ==
    /\ auditPc = "again"
    /\ IF ~SecondLook THEN Rejected /\ NoFault
       ELSE CASE gate = "evidence" /\ auditor = "bounded" -> JudgeByResponses
              [] gate = "evidence" /\ auditor = "codex" ->
                   NoFault /\ auditPc' = "bound" /\ Looks
              [] gate = "answer" -> NoFault /\ Delivers(answer)
              [] gate = "controller" -> NoFault /\ Ends(answer)
    /\ UNCHANGED <<surroundings, spent, rounds>>

\* The identity that the prompt names is read once more.
BindIdentity ==
    /\ auditPc = "bound"
    /\ IF Identified THEN JudgeByCodex ELSE Raises /\ NoFault
    /\ UNCHANGED <<surroundings, spent, rounds>>

-----------------------------------------------------------------------------
(* The judge.                                                                *)

Verdicts == {"PASS", "REWORK", "HUMAN_REQUIRED"}

\* An autonomous verdict is validated by the auditor that collects evidence.
Concludes(verdict) ==
    CASE verdict = "HUMAN_REQUIRED" -> Ends(verdict)
      [] verdict # "HUMAN_REQUIRED" /\ auditor = "responses" -> Delivers(verdict)
      [] OTHER -> answer' = verdict /\ Validate("answer") /\ GoesOn(result)

\* codex exec fails, times out or gives no verdict, or it gives one.
RunCodex ==
    /\ auditPc = "codex"
    /\ \/ Fault /\ Ends("HUMAN_REQUIRED")
       \/ NoFault /\ \E v \in Verdicts : Concludes(v)
    /\ UNCHANGED <<surroundings, spent, rounds>>

\* The request is sent again when no answer came, though it may have been received.
PostRequest ==
    /\ auditPc = "post"
    /\ \/ /\ NoFault
          /\ auditPc' = "poll" /\ posts' = posts + 1
          /\ UNCHANGED <<gate, auditor, bundle, answer, result, instants>>
       \/ /\ Fault
          /\ IF posts = CreateRetries THEN Raises
             ELSE posts' = posts + 1
                  /\ UNCHANGED <<auditPc, gate, auditor, bundle, answer, result,
                                 instants>>
    /\ UNCHANGED <<surroundings, spent, rounds>>

Reconciled(cost) == IF auditor = "bounded" THEN spent + cost ELSE spent

Over(cost) == auditor = "bounded" /\ (cost > RunHard \/ Reconciled(cost) > MonthHard)

\* A completed response with a verdict, for the bounded auditor on the right commit.
Answers(cost) ==
    \E v \in Verdicts : Concludes(IF Over(cost) THEN "HUMAN_REQUIRED" ELSE v)

\* One that failed, refused, names another commit or cannot be read.
Unusable == Ends("HUMAN_REQUIRED")

ReadResponse ==
    /\ auditPc = "poll"
    /\ \E cost \in 1..Ceiling :
        /\ spent' = Reconciled(cost)
        /\ (Answers(cost) /\ NoFault) \/ (Unusable /\ Fault)
    /\ UNCHANGED <<surroundings, rounds>>

\* The polls run out, or one of them fails: its usage is never read.
GiveUpPolling ==
    /\ auditPc = "poll"
    /\ Fault
    /\ Raises \/ Ends("HUMAN_REQUIRED")
    /\ UNCHANGED <<surroundings, spent, rounds>>

-----------------------------------------------------------------------------
(* Around the audit.                                                         *)

\* GitHub is read until the threads and the reviews are there.
Collecting ==
    {"status", "head", "diff", "packet", "tests", "ci", "checks", "threads", "reviews",
     "inline", "conversation"}

unconcerned == <<auditPc, gate, auditor, answer, result, money, rounds>>

\* Edits, untracked files, commits, checkouts and resets.
MoveOn ==
    /\ auditPc # "idle" /\ Happens
    /\ \E w \in Worktrees \ {checkout} :
        /\ checkout' = w
        /\ instants' = IF gate = "none" THEN {} ELSE instants \union {w}
        /\ bundle' = [bundle EXCEPT !.left = @ \/ (bundle.head # 0 /\ w.head # bundle.head)]
    /\ UNCHANGED <<unconcerned, github>>

Talk(g) ==
    /\ auditPc \in Collecting /\ Happens
    /\ github' = g /\ github' # github
    /\ UNCHANGED <<unconcerned, bundle, checkout, instants>>

Push == \E pr \in {1, 2} : Talk([github EXCEPT !.pr = pr, !.rows = {}])

Check == github.pr # 0 /\ \E rows \in SUBSET {"pass", "pending", "fail"} :
                             Talk([github EXCEPT !.rows = rows])

Comment ==
    /\ github.pr # 0 /\ github.thread = NoComment
    /\ \E c \in Comments : ~c.resolved /\ Talk([github EXCEPT !.thread = c])

Resolve == github.thread # NoComment /\ \E r \in BOOLEAN :
                             Talk([github EXCEPT !.thread.resolved = r])

EvidenceInit ==
    /\ auditPc = "idle" /\ gate = "none" /\ auditor = "codex" /\ bundle = Uncollected
    /\ checkout = [head |-> 1, dirt |-> "clean"]
    /\ github \in [pr : {0, 1}, rows : {{}, {"pass"}}, thread : {NoComment}]
    /\ github.pr = 0 => github.rows = {}
    /\ posts = 0 /\ answer = "none"
    /\ result = [verdict |-> "none", by |-> "codex"]
    /\ instants = {}
    /\ spent = 0
    /\ events = 0 /\ rounds = 0

EvidenceNext ==
    \/ StartCodex \/ StartBounded \/ StartResponses
    \/ ReadStatus \/ ReadHead \/ ReadDiff \/ ReadPacket \/ RunTests
    \/ FindPullRequest \/ ReadChecks
    \/ LoadThreads \/ ReadReviews \/ ReadInlineComments \/ ReadConversation
    \/ ConsiderEvidence
    \/ FirstIdentity \/ Porcelain \/ SecondIdentity \/ BindIdentity
    \/ RunCodex \/ PostRequest \/ ReadResponse \/ GiveUpPolling
    \/ MoveOn \/ Push \/ Check \/ Comment \/ Resolve

EvidenceSpec == EvidenceInit /\ [][EvidenceNext]_evidenceVars

-----------------------------------------------------------------------------
(* Properties.                                                               *)

Autonomous == auditPc = "idle" /\ result.verdict \in {"PASS", "REWORK"}

\* A verdict that nobody else looks at leaves on the commit of the event, and the
\* worktree was clean at it at some instant of the last validation, unless the commit was
\* left and taken up again within it.
LeavesOnTheCommit ==
    Autonomous =>
        /\ checkout.head = 1
        /\ \E w \in instants : w = [head |-> 1, dirt |-> "clean"] \/ w.head # 1

\* A verdict on evidence is on complete evidence without a failing or unfinished check
\* that it passes over, and a finding that concerned the commit and was open when the
\* threads were read has been before the judge.  HEAD was the commit when the bounded
\* auditor read it.  The diff is the commit's unless HEAD was elsewhere between its
\* reading and the end: nothing compares the commit that was diffed, so a HEAD that is
\* left and taken up again passes.
StandsOnTheEvidence ==
    Autonomous /\ result.by # "responses" =>
        /\ bundle.tests \in {"PASS", "FAIL"} /\ bundle.ci \in {"OK", "ABSENT", "FAIL"}
        /\ result.verdict = "PASS" => bundle.tests = "PASS" /\ bundle.ci # "FAIL"
        /\ result.by = "bounded" => bundle.head = 1
        /\ bundle.diff = 1 \/ bundle.left
        /\ LET c == bundle.atThreads IN
           ~c.resolved /\ (c.original = 1 \/ (c.mapped = 1 /\ c.actionable))
             => bundle.shown

\* The month never costs more than its limit by the usage that was read.
WithinTheMonth == Within(spent, MonthLimits)

\* What an audit passes on is true.
VerdictsAreTrue == LeavesOnTheCommit /\ StandsOnTheEvidence /\ WithinTheMonth
================================================================================
