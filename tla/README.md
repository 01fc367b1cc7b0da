# TLA+ models of DataRelay Atlas

Atlas coordinates software work done by AI sessions. Work is described in *Work
Packets*, GitHub issues whose metadata lines say who may work on what. Atlas plans and
hands packets over, receives completions, asks for audits, and decides what follows. It
runs as short-lived commands (hooks, cron jobs, an operator's CLI) that share JSON
ledgers in a data root and documents on GitHub. Nothing holds a lock across a call
to the outside, so what makes Atlas correct is the order of writes and checks, and
that is what these modules model.

Contents: [inventory](#inventory), [modules](#modules), [runs](#runs),
[proofs](#proofs), [observations](#observations), [limits](#limits-the-code-accepts),
[not modelled](#what-is-not-modelled), [plan](#plan).

To check: `tlc -workers 2 -config X.cfg M` for a run of `PROJECT.json`,
`tlapm M_proofs.tla` for a module of theorems.

## Inventory

`PROJECT.json` lists every part, with its files and its status. The ones that keep
state and decide something:

| part (`src/atlas` unless noted) | state | operations | what is hard | what makes it correct |
|---|---|---|---|---|
| Work Controller (`work_controller.py`) | record per workstream in `work-controller.json`; completion inbox and archive | register, completion, reconcile, enqueue-completion, drain-inbox | record read and replaced without a lock; death between port call and record; duplicate events; two drains | an event is decided once, archived only then; successor and record agree |
| PASS cycle of its GitHub adapter (`work_controller.py`) | metadata of packets | `advance_pass_cycle`, resume, activation | many `gh` calls, owner edits in between, timeouts that landed, re-runs | predecessor completed before its successor starts; one ACTIVE packet; what is begun is ended |
| Readiness (`readiness_*.py`) | none; packets | plan, authorize, activate and hand off | drift between two checks; nothing is shared but the packets | a plan selects only what is ready; at most one handoff stands |
| Admission (`concurrency_admission.py`) | snapshot, run ledger | plan, publish, record run | several limits at once; a run is validated against a snapshot that may be replaced | a plan fits every limit, and omits nothing that would fit |
| Concurrency pipeline (`concurrency_authorization/_execution/_effect/_handoff.py`) | authorization, execution, effect and handoff ledgers | authorize, start, dispatch threads, finalize | reserve / act / finalize with deaths; two processes, two plans; edits by the owner | a node is handed over once; receipts are true; WIP limit |
| Handoff claims and joins (`concurrency_claim/_join/_claim_join.py`) | claim and join ledgers | claim, join outcomes, join claims, stage | two sessions claim one handoff; claims while the effect is in progress | only dispatched handoffs are claimed, by one session; COMPLETE is true |
| Exact-HEAD audit (`audit_claim.py`, `audit_disposition.py`, `supervisor.py`) | claim and budget documents on GitHub | supervise-once, dispose-once | hosts race by blob SHA; leases; lost PUT answers; paid calls; month rollover | one paid call per HEAD, within budget; final verdict; handoff exactly after REWORK |
| Chat audit (`chat_audit.py`, `chat_audit_github.py`) | Audit Control Packet; claim file per finding; issues | run slice, mark session, rollover, upsert handoff | executors run unlocked; leases; an issue is created between two writes of its claim | a verdict is earned at its own HEAD; one issue per finding |
| Decision plane (`decision_plane*.py`) | observation, admission, effect and measurement ledgers | observe, admit, commit effect, measure | reserve / select / finalize around unlocked reads; a rollback meanwhile | budgets hold; a rolled-back class falls back |
| Watch host (`tools/coordinator*.py`, `tools/worker_adapter.py`) | journal, ledger and state of a watch; marker per dispatch | run once | death between send and receipt, and inside a write | an effect is sent once, and believed only if sent |
| Ingress cutover (`scripts/atlas_ingress_cutover_transaction.py`) | units, code, environment, backup | prepare, preflight, execute, rollback | a step, a signal or a kill anywhere, also in the rollback | what is reported holds of files and processes |
| Provider transition (`provider_broker.py`, `provider_transition*.py`) | published snapshot; a port's state | publish, plan, authorize, seal, commit | evidence gets old; a commit whose answer is lost; one failover after another | a move was earned, happens once, never goes back to a route that failed |
| Data root (`data_lock.py`, `registry.py`, `projection.py`, personal imports, `data_protection.py`) | registry, snapshots, documents, `projections.json`; backups | register, sync, import, clear, backup, restore | a section writes several files and may die between two; the root's path is swapped while a writer waits | a backup is whole; a quiet root can be backed up |
| Auditors (`codex_audit.py`, `final_audit.py`, `work_controller.py`) | evidence bundle; budget of the month | collect, gate, ask, gate again | collected over minutes while worktree, checks and threads change; reads cut off; requests whose answer is lost | a verdict is on complete evidence, leaves on the event's commit, and followed a clean look at it |
| Instruction governance (`instruction_governance*.py`) | audit cache, disposition and canary ledgers; the worktree | preflight, audit, disposition, canary | built without the lock, appended under it; worktree and audit change meanwhile | a request for adoption was earned by an evaluation that was current within the command |

How they interact: the completion hook writes the **inbox**; the **controller** drains
it, calls the auditor, edits the packet through its adapter and, after a PASS, runs the
**PASS cycle**. **Readiness** plans from a graph file and activates a single packet;
**admission** uses the same planner for several and publishes a snapshot, from which the
**pipeline** activates packets and writes handoffs, sessions **claim** them and joins
collect outcomes. Cron runs **supervise-once** per host: it finds the ACTIVE packet,
has its HEAD **audited** once and disposes of the verdict in the packet. The **chat
audit** goes through a HEAD unit by unit and hands its **findings** over as issues; the
**watch host** wakes the coordinator when a packet needs it; the **decision plane** lets
measured evidence switch two optional behaviours on, and off again. Provider transitions, the
cutover, instruction governance and the projections of sources are commands of their
own. They share the data
root (`data_root_write_lock`, `atomic_write_text`) and the packets.

The hazards are listed in `PROJECT.json`, each at its line, with the properties that
cover it.

## Modules

| module | models | promise it implements |
|---|---|---|
| `WorkController` | Work Controller, store, inbox | `CompletionLedger` |
| `PassCycle` | PASS cycle of the adapter | `PacketHandover` |
| `ReadinessGraph`, `Admission` | the two planners, as operators | |
| `ReadinessActivation` (extends them) | activation of one packet and its handoff | |
| `DispatchEffect` | authorization, execution, effect, handoff port | |
| `HandoffClaims` (extends `DispatchEffect`) | claims and joins, composed with the pipeline | `OneShotDispatch` |
| `ExactHeadAudit` | supervise-once and its audit | `AuditOnce` |
| `ChatAudit` | chat audit slices over the checkpoint | |
| `FindingHandoff` | the handoff of one finding as an issue | |
| `DecisionPlane` | evidence, admissions, effects, measured rollback | |
| `WatchHost` | one pass of the watch host, and planner and evaluator in it | |
| `Cutover` | prepare, execute and rollback of the cutover | |
| `ProviderTransition` | broker and transition chain over an external port | |
| `DataRoot` | lock, sections that write files, backup and restore | |
| `InstructionGovernance` | audit cache, dispositions and canaries of instructions | |
| `EvidenceAudit` | one audit: evidence, gates, judge, budget | |

`MC*` give them small instances, `*_proofs` hold the theorems. Definitions commented
"Variant:" are plausible bugs; `PROJECT.json` names, for each property, the one that
must violate it.

Common conventions. A step is what the code does between two points at which another
process can be seen: one section under the data-root lock, one store get or put, one
GitHub call. A digest or a blob SHA is a content address, so it *is* the content. A
clock that decides (a lease, the age of evidence) is left open: both outcomes are
steps. A process dies by losing its local state between any two steps.

### WorkController

`store[ws]` is the record (state, issue, attempt, head, pending event, processed ids,
last outcome); `inbox`, `archive`, `claim` are the files and the flock on one of them;
`gh` the Work Packets as far as the controller's ports see them. `pc` names the line a
process stands at: `StartHandle`/`Receive`/`Accept` are `handle_completion` before and
after its unlocked read and put, `Load`/`Begin` the reconcile path, `Audit`, `Gate`
(identity check), `ApplyRework`, `Advance`/`Activate`/`Settle` the branches of the
verdict, `Finalize` the put of the decision, `Reply`/`Move` the return to the drain.
`InitialRecords` also holds records as older releases wrote them (the historical
`CYCLE_DISPATCH_PENDING` and so on), which the code still retires.

Abstracted: the audit is any verdict; `reconcile` is modelled per workstream, the loop
over all of them being a sequence of it, and issued by the processes in `Reconcilers`;
a drain's checks of its directory (symlinks, owner) and the parsing of an event's file
are left out; events are the acceptable and unacceptable ones enumerated in
`MCWorkController`.

`CompletionLedger` is the promise: a workstream has at most one open event, decides it
once and is closed for good by a terminal decision.

### PassCycle

A packet carries `STATUS`, `QUEUE_STATE`, `AFTER_ISSUE` and the `CYCLE_*` lines; `text`
is the rest of its body, so that "the body changed" is visible. Every `gh` call is a
step: the view, the queue listing, resume, the uniqueness checks, the recheck before an
edit (`_cas_replace_issue_body`), the edit, and its confirmation after a timeout.
`OwnerEdit` changes a packet by hand at any time. The promise, `PacketHandover`: a packet
is handed over at most once, by one transition, to one successor, first completed and
then followed.

### ReadinessGraph, Admission and ReadinessActivation

`Plan(G)` is `plan_readiness`: the depth-first search for cycles, the reading of a
node's lifecycle (`Base`, `Settle`), rivals for a resource, slots, and the selection by
priority. `AdmissionPlan(S)` is the concurrency planner on top of it: eligible slots,
the limits of repositories, the parallel limit. `ReadinessActivation` runs
`activate_and_authorize_single_worker_handoff`: the nodes are read one by one
(`unread`), compared with the graph file, the packet is viewed, rechecked, edited
unconditionally, and read again before the handoff is given; body, predecessor, occupancy
and metadata are reads of their own each time. Controllers share only the packets. `current` and `raced` follow whether the body a controller edits is still the
one it has seen. `planned` holds one of the drafts that are planned and never acted on:
with it the planners are checked against declarative readings (`SelectionIsSafe`,
`AdmissionIsFull`) that do not mention how they compute.

Abstracted: parsing of graph files, packet projections, and the legacy dispatcher, which
is refused; a drift of branch, head or metadata is like any other edit of the owner.

### DispatchEffect and HandoffClaims

The ledgers are sets of records. `Start`, `ReserveExecution`, `Rebuild`,
`WriteAuthorization`, `CheckAuthorization`, `ReserveEffect`, `FinalizeEffect` and
`FinalizeExecution` are the locked sections of `start_concurrency_execution` and
`commit_concurrency_dispatch_effect`, in their order. Between the last three the nodes
of the plan are dispatched by threads, `at[p][n]`: enter, the repository lock, the reads
of the packet, the edit, its landing or timing out, and the append to the handoff
ledger. `BreakOff` is a failed check, a file-system error or a death: it may happen at any
step, any number of times, and includes evidence that became too old. An `ERROR`
result comes only from a handoff that could not be written. `HandoffClaims` adds
`claim_concurrency_handoff` (reserve, recheck, finalize, acknowledge) for several
sessions and the two joins. The plan itself is an input (`Snapshots`); the planner that
computes it is `Admission`. `OneShotDispatch` is the promise: a plan goes once through
none, reserved, armed, sealed; a node from open to handed to claimed, and never back.

### ExactHeadAudit

`pass[h]` is the pass of host `h`. Its steps follow the code: look for a claim, collect
the evidence, take on or leave the HEAD (`Duplicate`, `TakeOn`), look for a reservation,
reserve the ceiling in the month's budget, save the claim, call, save what was recorded,
settle the reservation, save the closed claim; and for a closed claim the disposition:
load, recheck the packet, edit it, remember. Every PUT is one of `PutLands` (the blob SHA
loaded is still the current one), `PutRefused`, `PutUnanswered` (stored or not, nobody
knows), and then `Observe` (`_sha_from_contents_put`): what was wanted is there, or a
conflict, or nothing. `Fail` is any exception and the death of the host. `Commit`,
`Switch` and `NextMonth` are the world's. `calls`, `answer` and `handed` are history
variables. Money is in whole units; `RequireIdentity` is the provider's
`require_identity`, see the observations.

`AuditOnce` is the promise: one call answers, a claim is closed once with that answer or
`HUMAN_REQUIRED`, and a packet is handed back only after `REWORK`.

### ChatAudit

`packet` is the Audit Control Packet, a file that is written by compare-and-set: `bound`
are the invocations whose blob SHA is still the server's, so that a PUT of any other is
refused. `run_slice` is a phase machine per invocation: `Begin` reads HEAD before the
lock; under it the packet is rotated to a new HEAD (a delta run), finalized, or a claim
whose lease is over is taken back, and the claim of the next unit is saved; `executing`
runs without a lock; `returned` asks whether the claim is still the own one and hands a
finding over; `handed` commits; `reconciling` loads the packet again after an exception.
Next to it run mark-session and rollover. An executor's answer is a member of `Results`:
what the sanitizer and the evidence checks make of it. `Expire` ends a lease at any time, also
one whose holder still runs. `returned` and `issues` are history variables: what
executors passed with complete evidence, and the findings that have an issue.

### FindingHandoff

One finding: its claim `claim` (pending with an owner and a lease, or with an issue
number), the open issues with its marker, and per audit the phase of
`upsert_implementation_packet`: read the claim, search the marker, adopt the issue that
was found or take the claim, search again, create, finalize, and on a conflict look
whether the claim now says the same. `update` and `refresh` are
`_update_existing_claim`. `Put` needs
the claim's blob SHA (`bound`). `PutUnknown` and `CreateUnknown` are calls that raise and
have, or have not, reached the server; `Close(n)` is the repository's owner.
It is assumed that the marker search sees every issue that was created.

### DecisionPlane

The ledgers are sets of records, and what runs under the data-root lock is one action;
a reader takes no lock, so every read is an action of its own. A caller checks the
published admission (`held`), reserves (`IN_PROGRESS`), reads the rollback policy,
selects, and finalizes with a receipt. `Measure` records what a finished activation was
worth and may roll its class back. Both classes are modelled; the
code's two modules for them are twins.

### WatchHost

A pass collects facts twice (`seen`, `reread`), decides (`Decide`, the planner of
`tools/coordinator.py` on the facts the collector can produce), takes the lock of the
watch, and sends at most one effect: `journal` goes `INTENT`, `SENDING`, `RECEIPT`, a
dispatch's `marker` is reserved and consumed, `ledger` remembers what was applied and
`watch` what was decided. A death comes between any two writes, and inside the write of
a marker (`Torn`). The scenes are what a packet goes through.

### Cutover

`host` holds what each path contains and which version each unit runs, so that
"everything is old again" is about processes as well as files. `Forward` and `Back` are
the sequences of the switch and of the rollback; `Failing(h, s)` is what a step that
fails leaves. `NextBack` goes on after a failed step, as the code does, and remembers
it in `errors`. Several operators share host, stage and the slot of the fresh backup,
whose publication is `_publish_tree` of `data_protection.py`.
What systemd does when a unit is stopped or started is read from `deploy/systemd`.

### ProviderTransition

`published` is the snapshot of routes and their evidence with the routes it may choose
from; `Eligible`, `Before` and `Selected` are the broker's. A caller's `work` goes through
the documents of the chain: plan, authorization, sealed request, receipt, each validated
again by the next step against the caller's clock. The port compares the state it holds
with the request's (`PortCommits`, `PortRefuses`); `PortFails` raises, having committed or
not. `GoOn` carries attempts and failed routes into the next plan of an episode, as
callers must. Evidence changes, ages (`Tick`), and routes are disabled at any time.
`path` and `prior` are history.

### DataRoot

`tree[d]` is what a directory holds: registry, personal snapshots, projected documents,
`projections.json`. A section under the lock is the sequence of its file writes
(`Writes`), and `BreakOff` ends it before or inside any of them. `OpenRoot` opens the
directory at the path, `Enter` waits for the lock of the directory it opened and then
compares it with the path (`SameRoot`); `Replace` is an operator who puts a restored copy
at the path. Backups are collected under the lock (`Collect`) and made outside it through
a partial directory. Other modules use the lock as the atomicity of a locked section;
this one models it.

### InstructionGovernance

`worktree` is HEAD and the content of the managed surfaces, `audits` the cache of one
audit, and each command is a sequence of what it reads: the preflight, the append of an
audit, the disposition that is built without the lock and published under it, and the
canary, which rebinds every published disposition to its audit, one after the other,
builds the named one again, and appends. HEAD, the surfaces and the cleanliness check of a
preflight are three steps, the audit, the surfaces and HEAD of a disposition are three
others, in the order of the code; somebody may store an audit, check out or edit between
any two of them. Only the several files and `git` commands that read the surfaces are one
step. `confirmed` is history: how far what the handoff rests on (its audit, then its
surfaces, then its HEAD) was current within the command.

### EvidenceAudit

`auditPc` is the next read of `collect_audit_evidence_bundle` (status, HEAD, diff, packet,
test suite, pull request, its checks, threads, and three lists of comments), then the gate
before the judge, the judge, and the gate after it. `bundle.head` and `bundle.diff` are the
commits that two commands found, and `left` is history: HEAD was elsewhere since it was
read. The diff commands are one step with the diff of what is not committed, and branch
and origin are read beside HEAD, since nothing compares them with it. A soft limit that is
not configured is `NoLimit`. `gate` says what the worktree is being validated for: `Validate` is the
three reads of `validate_clean_worktree_identity`, each a step. `auditor` is `codex`,
`bounded` (the bounded Responses API) or `responses` (the plain adapter of the
controller, which collects nothing). `MoveOn` edits, commits or checks out at any time,
`Push`, `Check`, `Comment` and `Resolve` change the pull request while it is read.
`Fault` is a command that fails, is cut off or times out, a secret in the bundle, a
request without an answer. `instants` is history: what the worktree was since the last
validation began. What it says is what the audit step of `WorkController` and the call
of `ExactHeadAudit` rest on.

## Runs

| run | instance | what it asks | states |
|---|---|---|---|
| `controller_serial` | one process at a time, two deaths, every event sent twice, fresh store or retired records | `TypeOK`, `DecisionsStand`, `RecordMatchesPackets`, `ImplementsLedger` | 133 k |
| `controller_live` | two processes drain and complete, one also reconciles, a death | `OneFilePerDrain`, `EverythingIsDecided` | 100 k |
| `cycle` | six issues, three chained transitions, a death, an edit of the owner | `HandoverIsTrue`, `ActivatesAlone`, `HandoverEnds`, `ImplementsHandover` | 40 k |
| `readiness` | two controllers, three packets, two rival graph files, an edit, a fault; about three thousand drafts | `PlansAreSound`, `OneHandoffStands` | 69 k |
| `dispatch` | two processes, two plans that overlap and one plan under two authorizations, a packet queued again | `HandedOnce`, `ReceiptsAreTrue`, `HandedWithinLimit`, `ReservedFirst` | 1.17 M |
| `claims` | a plan over two repositories, two sessions, both joins, any edit of the owner | `HandoffsAreFollowed`, `ImplementsOneShot` | 120 k |
| `audit` | two hosts, three HEADs of two packets, two months, one trouble | `OnePaidCall`, `LedgersAreTrue`, `BudgetAddsUp`, `HeadIsJudged`, `ImplementsAuditOnce` | 346 k |
| `chat` | two invocations, one of them steady, two units, two HEADs, two faults, one move | `PacketIsEarned`, `ClaimsAreRespected`, `HeadGetsVerdict` | 351 k |
| `handoff` | two audits, two faults, two owners that outlive their lease | `AnswersAreTheClaims`, `SpareIssueNeedsLateOwner`, `HandoffAnswers` | 13 k |
| `decision` | two callers, two activations, two requests, a replay that wins and one that loses, a death | `BudgetHolds`, `ReservedOnEvidence`, `RollbackReaches` | 121 k |
| `watch` | two passes, two dispatches, three scenes, a change, two faults | `EffectsAreTrue`, `DecisionIsDelivered` | 400 k |
| `standalone` | cutover: two operators, three failing steps, signals or kills; provider: two callers, three routes, two changes of evidence, a lost answer; data root: two writers, three operations, a death; governance: two coordinators, two heads, two evaluations, two moves; audit: two of them, two faults or changes, no soft limit of a run | `CutoverIsTrue`, `EpisodesAreTrue`, `MovesAreEarned`, `RootIsWhole`, `RequestsAreEarned`, `VerdictsAreTrue` | 1.88 M |

A run's property may be a conjunction of named ones that have a comment of their own:
`DecisionsStand` is `ArchivedWasDecided` and `NoSecondAudit`; `HandoverIsTrue` is
`SuccessorFollowsPredecessor` and `AnswerIsTrue`; `PlansAreSound` is `SelectionIsSafe`
and `AdmissionIsFull`; `CutoverIsTrue` is `OutcomeIsTrue` and `OneAttempt`;
`HandoffsAreFollowed` is `ClaimsAreSound` and `CompleteIsTrue`;
`LedgersAreTrue` is `WithinBudget` and `DispositionsAreTrue`; `EpisodesAreTrue` is
`TransitionsAreTrue` and `EpisodesEnd`; `RootIsWhole` is `CopiesAreWhole` and
`QuietRootIsReadable`; `VerdictsAreTrue` is `LeavesOnTheCommit`, `StandsOnTheEvidence` and
`WithinTheMonth`.

`standalone` explores components that share no state with another one: `chosen` says
which of them a behaviour is of, the others keep their initial state. So the numbers of
their states add up, they do not multiply, and a property of one of them is checked on
exactly its own behaviours.

Bounds, and why they are enough:

- **controller.** `MaxAttempts` 2 reaches a first round, a rework round and the refusal
  of a third; two issues a successor; `MaxSends` 2 a duplicate of every event, before
  and after its decision; `MaxCrashes` 2 a death while recovering from a death. In
  `controller_live` one workstream and one good event, sent twice, are what two processes
  can meet at; only one of them reconciles, see the observations.
- **cycle.** Two of the three transitions compete for a successor, the third follows
  from the first; the neighbours are an ACTIVE, a queued, an unreadable and an untrusted
  packet, one for each reason to refuse.
- **readiness.** The drafts are every shape of dependencies between three queued nodes,
  self-loops and every order of the first node's list included, and nodes of seven kinds
  (complete, active, untrusted, gated, of another priority, sharing a resource) along
  some acyclic shapes, with limits and slots that bind in turn. The two files select
  rival packets after the same predecessor; one edit of the owner at any moment is one
  drift between any two checks.
- **dispatch.** Plans {1, 2} and {2, 3} share a node in a repository with limit 2, so
  the limit, the shared node and the repository lock all bind; calls (1,A), (2,B),
  (3,A) give a plan two authorizations. Two calls and two snapshots are the least with
  which one replaces the other's.
- **claims.** Issue 1 waits for an ACTIVE predecessor beside a node that can go on, so
  that partial receipts, refusals and complete ones occur; two sessions and two ids give
  every way of racing for a handoff.
- **audit.** `MonthlyHard` 3 bears one ceiling of 2, and a second one only after the
  first is settled at cost 1: the budget both binds and recovers. Two HEADs of one packet
  and one of another give a commit and a switch. `MaxTroubles` 1 allows one death,
  failure, lost answer, commit, switch or change of month anywhere; the safety properties
  were also checked with 2 (5.6 M states). `Costs` {1} keeps cost below ceiling, which
  is what settling must tell apart.
- **chat.** Two units make a queue with a first and a last; two HEADs and one move give
  a rotation, a delta run and a return to the baseline. A fault is a death, a lost
  answer, a bad result, a mark, a rollover or a run of the invocation that is not
  steady: with two of them a result comes late *and* something else has happened.
- **handoff.** `MaxIssues` 4 is more than two audits create with two faults and two late
  owners; findings share nothing, so one is enough.
- **decision.** `MinReplay` and `MinExpansion` are 1 (5 in the code): only whether the
  evidence suffices matters. Each request allows one decision, so two callers compete for
  one, and `MaxBuilds` 2 replaces an admission while it is held.
- **watch.** The three scenes have different decisions on one head and on another; two
  dispatches allow a first one that a death spoils.
- **cutover.** Three faults fail a step of the switch, a step of its rollback, and one
  more. Every step is there, so longer sequences have nothing new.
- **standalone, provider.** Three routes allow a failover from a failover; `MaxAge` 1
  makes evidence fresh, at its limit and stale within the three instants. (Also checked
  with three changes of evidence, 1.8 M states.)
- **standalone, data root.** Two directories, one canonical and one personal source with
  two versions; three operations are a section, a backup and a restore of it, or two
  sections around a swap. (Also checked with four operations, 1 M states.)
- **standalone, governance.** Two evaluations of two heads give an audit that replaces
  another, two moves a worktree that leaves and comes back between two reads of a command.
  The ledger holds one disposition here. (Also checked with two, which a canary rebinds one
  after the other, 2.6 M states.)
- **standalone, audit.** Two events are a worktree that leaves and comes back, between the
  reads of HEAD and of the diff as well, a fault
  after a change, or a comment that is resolved while it is read; two audits share the
  month, of which the second one is refused when the first has cost the ceiling.

`CHECK_DEADLOCK FALSE` is set where the system really may stop: a cycle with no
transition left, a pipeline whose calls are used up, controllers with nothing to
activate, admissions and evidence used up, hosts that idle because no packet, or two,
are ACTIVE, and a cutover that has ended.

Fairness. Every command has a timeout, so a started process goes on (`WF` of its steps)
in every module with liveness. Starts are repeated where something repeats them:
`drain-inbox` by the completion hook, `reconcile` and a transition without a result by
the operator (`SF` of their starts); `supervise-once` by cron on the hosts in
`Steady`, hence `WF`, and `SF` of `TakeOn`, since a claim is older than its lease sooner
or later; `run-slice` by a scheduler on the invocations in `Steady`; a finding's handoff by
the slice that failed with it; the watch host's pass by an external cadence. Leases end
because time passes (`WF` of `Expire`). One steady host is enough, the other may stop
for good at any step. Neither deaths, faults, commits nor the owner's acts are fair. The
pipeline, the activation and the cutover have no fairness: an execution that dies stays
`IN_PROGRESS` by design and an operator may walk away, so only safety is stated.

## Proofs

All of them hold for every value of the constants, under the named assumptions of the
modules (types of the constants, a mark such as `None` outside the sets it marks); the bounds on
deaths, sends, calls, faults and edits play no part in the arguments.

**`WorkController_proofs`.**
`TypeCorrect`: `Spec => []TypeOK`, with `Shape`, which says what a process holds at each
`pc`. `ClaimsAreExclusive`: for any number of concurrent processes, a claimed inbox
file has one owner (`OneFilePerDrain`); the invariant ties `claim` to `pc` and inbox.
`ArchiveIsSound` and `DecidedOnce`, together `DecisionsAreFinal` (`DecisionsStand`), and
`Refinement` (`ImplementsLedger`), assume one controller at a time (`Procs` has one
element): with two the first of them fails, see the observations. Their
invariant `SoloInv` says that the local record of a process is the stored one at every
point at which it is put back; with two processes exactly that breaks.
`MatchInv` (`MatchInductive`) adds the Work Packets and gives `RecordIsTrue`
(`RecordMatchesPackets`), again for one controller at a time. `Fits` says which packets a
stored record accounts for: no packet beyond the record's is ACTIVE, unless it is the
next one, activated for an event that is open or was stopped, and then the record's is
COMPLETE; and a packet is asked for at most one attempt more than the open event's.
`Knows` carries this over the calls between two saves (what the cycle port has
completed and activated, what the record about to be stored will say), and as `Fits`
holds of the stored record alone after every call, a death loses nothing of it.
`FoundInOrder` is a hypothesis about the store a run starts from: its records name the
first packet, the only one that `Init` makes ACTIVE, and no successor as handed over.

**`PassCycle_proofs`.** For one process at a time (`Solo`), which may die at any call and
be run again, and an owner with every kind of edit, `HandInv` is inductive
(`HandInductive`). `SoundPackets` says what a packet's lines say of another packet: a
queued packet has taken part in no cycle, a `COMPLETE` one that names a successor was
completed by a transition of its own, an activated one names a predecessor completed for
it by the same transition. `Knows` says what a process has learnt at each call, and
`Kept` what an owner's edit leaves alone; that nothing in `Knows` is lost by such an edit
(lemma `KeptKnows`) is why stale reads do no harm here: `base` may be an old body, but
its `CYCLE_*` lines are still the packet's. It gives `HandoverTrue` (`HandoverIsTrue`)
and `ImplementsPacketHandover` (`ImplementsHandover`; `CompletedHands` and
`ActivatedFollows` are the two edits, which need that the successor had no predecessor).
`ActivatesAlways` (`ActivatesAlone`) adds `AloneInv`: what the two checks for ACTIVE
packets found stays true up to the edit. It does not for an owner who activates a packet
by hand at that moment, so `"activate" \notin OwnerEdits` is a hypothesis; and all of it
fails for two processes, whose edits overwrite one another.

**`HandoffClaims_proofs`, the dispatch.** `EffectInv` is inductive (theorem `Inductive`) and a
conjunction of named parts: `Shaped` (types), `Held(p)` (which reservation a process at
each `pc` owns), `PlansOnce` and `PlansApart` (an execution and an effect per plan, and
two processes dispatch different ones), `HandoffsOwned` (a handoff belongs to the effect
reserved for it), `ReceiptsAreTrue`. It gives `OneHandoff` (`HandedOnce`), `TrueReceipts`
(`ReceiptsAreTrue`) and `Reservations` (`ReservedFirst`). That two executions of one plan
exclude each other is not local to a step: the replay check looks at the ledger in one
locked section and reserves in it, and everything later relies on the reservation being
there; that is what `Held` and `PlansApart` carry through the steps.

The second invariant of the dispatch, `LimitInv` (`LimitInductive`), gives `WithinLimit`
(`HandedWithinLimit`). The port locks a repository against its own threads only, so the
limit a call checked may be used up by another call; what saves it is the list after the
edit. `Room` carries what `TakeLock` found to `Land`, which needs `OneInside` (the lock)
and that the context of a port does not change under a thread; `StillActive` says that
whoever hands a packet over, or is about to, left it ACTIVE, so that this list shows it.
`IsFiniteSet(Issues)` is assumed. The proof showed that the property could not be stated
with the packet's text, as it was: see the observations.

**`HandoffClaims_proofs`, claims and joins.** `ClaimInv` (`PipelineInductive`) extends
`EffectInv` by what claimers and joins hold, and gives `TrueFollowUp`
(`HandoffsAreFollowed`): a claim is stored for a handoff that is in the ledger, of a
TERMINAL effect that calls it dispatched, and no two claims share a handoff; the outcomes of
a join are COMPLETE in every node or it is not PASS. `ImplementsShot` (`ImplementsOneShot`)
is the step simulation: the stage of a plan, what was dispatched of it and where each node
stands are functions of the ledgers (`StageIn`, `DispatchedIn`, `NodeIs`), and every step
moves one of them along one edge of `OneShotDispatch`, or none. The hard cases are the last
section of the effect, which seals the receipt (needs `ReceiptsAreTrue`: what it calls
dispatched is handed), and the handoff, which may land although the thread reports `ERROR`
(then the node is handed and never claimed).

**`HandoffClaims_proofs`, the watch host.** `WatchInv` (`WatchInductive`) gives `TrueEffects`
(`EffectsAreTrue`). `LocksApart` leaves a watch's journal to one pass at a time;
`Standing(p)` says what that pass relies on at each step: the journal is still its intent,
its dispatch is reserved for its effect, nothing of the watch was sent, its receipt is
there. A pass that dies leaves only files behind, so `JournalsAreTrue` must say of the
files alone what was sent: the journal names every effect of its watch that went out, with
its dispatch, and an intent says that none did. `DispatchesAreSpent` keeps a dispatch with
the effect it was sent for, or torn. `NothingIsTaken` is what each step owes the other
passes; `JournalWritten`, `MarkerWritten`, `PostIsFirst` and `LedgerWritten` show it for
the four kinds of writes. Looking for this invariant showed that the property had been
too strong: with one fault more than the run's, TLC finds an effect that is called applied
while the dispatch it was sent with is only reserved. See the observations.

**`ExactHeadAudit_proofs`.** `PaidInv` is inductive (`PaidOnceInductive`) and contains
`OnePaidCall` (theorem `PaidOnce`). A host may be at the call only after its claim is
stored, so the argument is about who stores claims: `ClaimedFirst` (a HEAD without a
claim is untouched: nobody called, nobody is about to), `OneCaller` (one host at most is
at the call, and for a HEAD nobody called for) and `OwnClaimIsNew`, which is what a lost
answer needs: a host that loaded no claim and whose claim is stored by now may still
learn so and go on to the call, so until then its HEAD is untouched. `Shaped` adds what a
pass knows at each step (`Honest`: the claim it will store is its own, or names the author
of the one it loaded). The lemma `Moves` covers the steps that leave claims and callers
alone, `Writes` the others. The ceiling, leases, months and the packets play no part.

`AuditInv` (`LedgersInductive`) adds the books to it and gives `LedgersTrue`
(`LedgersAreTrue`). It says what each document may hold: a reservation is priced at the
ceiling until it is settled, and at the ceiling or the call's cost then (`Priced`,
`GoodBudget`); a claim's verdict is the call's, or `HUMAN_REQUIRED` (`Told`). And it says
what each pass carries from its last load to its next PUT (`Knows`). The key lemma is
`Persists`: documents move on in one direction only (`Onward`: an answer, a handoff, a
closed claim and a reservation are never taken back), so what a pass has learnt stays
true while others write; `StoreTold` shows that a PUT which names the content it loaded
keeps to that direction, `StoredKnowing` what a pass may conclude when it finds what it
wanted, whoever stored it. A month stays within its limit because a settlement never
raises what the reservation held. `ImplementsOnce` (`ImplementsAuditOnce`) is the step
simulation: the paid call is `Ask`, the PUT of a closed claim is `Close`, the edit is
`HandBack`, and every other step, lost answers included, leaves the promise alone.
`AuditInv` also says that every budget, stored or loaded, adds up (`AddsUp`), which gives
`BudgetsAddUp` (`BudgetAddsUp`). For that the lemmas before it show what `SumFunction`
computes on a finite set: that the table of sums exists, that it holds whichever element is
added first (`AnyFirst`), and so how a sum changes with one value (`SumChanges`). The
inductions take the set of the numbers for which a statement holds (`Counting`). HEADs are
assumed to be finitely many, as SHAs are.

**`FindingHandoff_proofs`.** `AnswerInv` is inductive (theorem `AnswerInductive`), and
`OneAnswer` draws `AnswersAreTheClaims` from it. Its key part is `BoundIsFresh`: an audit
that still knows the claim's blob SHA and has not yet seen an issue in it may overwrite
the claim, and then the claim indeed has no issue. So such a write finds nobody that
rests on an issue (lemma `NothingSettled`); `UpdatesAgree` and `EditsAgree` say that
everybody else works on the claim's issue. Leases play no part in this: the blob SHA
protects the answers, the lease only the number of issues.

That number is the matter of `LateInv` (`OwnersInductive`), which gives `SpareIssues`
(`SpareIssueNeedsLateOwner`). An owner has taken the claim and may still create the issue;
it is displaced when the claim is no longer its own or its lease is over, and `late` counts
every owner that was. Owners, and open issues with those who may create one (`Creators`),
number at most `late + 1`. The step to see is a take-over: an audit that still knows the
blob SHA takes only a claim whose lease is over (`Reader`), so every owner there is has been
counted (`AllDisplaced`); and once the claim has an issue no owner is added.

**`ChatAudit_proofs`.** `ChatInv` (`ChatInductive`) gives `EarnedPacket` (`PacketIsEarned`)
and `RespectedClaims` (`ClaimsAreRespected`). `Sound` says what the packet tells of its own
claim: there is one only while a unit is under way, it is for that unit, which is not
complete, and it executes only while the packet is `IN_SLICE`. `Earned` is what a verdict
is drawn from: what is complete at the target has its pass or its issue, and the baseline
a pass for every unit. `Held` says what an invocation knows: the holder of the claim has
the packet's target and unit in memory, however the packet was marked meanwhile; who has
saved the packet and still has its blob SHA finds no execution under way, so it cannot
take a live claim over; and who has handed a finding over and still has it holds the claim.
`Succeeds` relates a packet that is saved to the one before: it is the lemma behind both
theorems, since a save that leaves the claims of the others and what is complete alone
keeps `Held` for them and is a step `ClaimsAreRespected` allows. What an executor did
without the lock is safe for that reason only: a result is applied by the holder, and the
holder's target cannot have changed. A lease that ends early changes nothing in this.

**`DecisionPlane_proofs`.** `BudgetInv` is inductive (`BudgetInductive`): the ledger has
one record per activation (`RecordedOnce`, theorem `ActivationsAreOneShot`), and the
records of an admission, decided or in progress, number no more than it allows.
`BudgetIsKept` is `BudgetHolds`, `ReservationsRestOnEvidence` the action property
`ReservedOnEvidence`.

**`DecisionPlane_proofs`, the activation.** `ActivationInv` (`ActivationInductive`) gives
`OneStands` (`OneHandoffStands`). A controller whose view of the body is still current
(`current`) has a queued packet (`ViewsHold`). So when its edit lands nobody else is on the
way with that packet and no handoff of it stands, and every other view of it is lost:
whoever edits it after that has overwritten something and is `raced`. For each packet one
controller at most is therefore `Clean` (its edit has landed, it overwrote nobody and nobody
overwrote it) or has handed off clean (`OneWay`), and a clean packet is ACTIVE
(`EditsStand`). Two packets cannot both have a handoff that stands, since each controller
looks at the occupancy before it hands off, and what stands keeps its packet ACTIVE
(`HandoffsStand`). Of the planner the proof needs only that an allowed plan selects one node
of its file; the checks before the edit play no part.

**`Standalone_proofs`, the cutover.** `SlotIsOwned` is inductive (`SlotOwnership`): from the
publication of the fresh backup on, at most one operator is beyond it, whatever failed
before; it gives `SwitchedOnce` (`OneAttempt`). `TruthInv` (`TruthInductive`) builds on it
and gives `TrueOutcome` (`OutcomeIsTrue`); `TrueCutover` is both (`CutoverIsTrue`). It says step by step what the host is while the
one operator works (`Doing`): before step `k` of the switch (`ForwardAt`), and of a rollback
that has recorded no error (`BackAt`), which version is live and which units are off or run
it (`Running`). `GoesForward` and `GoesBack` take a step that works to the next one;
`KeptFailing` shows that a failing step still leaves the old code at its own or at the
rollback path (`OldIsKept`). Others only stage (`Alike`), and a connection can start the
ingress only between two steps that start units, when the right code is live
(`ConnectDoing`). A rollback that failed anywhere needs no such account: `errors` keeps it
from being reported as one.

**`Standalone_proofs`, the audit.** `EvidenceInv` (`EvidenceInductive`) gives `TrueVerdicts`
(`VerdictsAreTrue`). The bundle is read over many steps while the worktree and GitHub
change, so the invariant says for each step what the bundle holds by then (`Gathers`), that
HEAD is the one that was read or was left since (`Follows`, which is all that ties the
diff to it), at which instants a gate saw the worktree (`GateLooks`), what the judge was
asked on (`Judges`, with `Sufficient` and `Supports` for what the deterministic gate let
through) and that a request which may cost its ceiling still fits into the month (`Affordable`).
The amounts of money are natural numbers, or `NoLimit` for a soft limit; nothing else is
assumed of them. The proof found two definitions of the models that left a value open: a
`CASE` whose arms overlap has the value of any arm that holds, and `Gate` had failing tests
together with a pending check. TLC took the first arm, as the code does; both `Gate` and
the watch host's `PlannedDecision` now are a chain of `IF`s like the code's.

**`Standalone_proofs`, the data root.** `RootInv` (`RootInductive`) gives `WholeRoot`
(`RootIsWhole`). `Section` says, write by write, how far the tree of a writer inside its
section is from one that can be read: what is left to write (`Projects`, `Registers`,
`Snapshots`, `Clears`) is exactly what makes it readable, so a death between two writes
harms the root and nothing else. `Anchored` (a registered personal source has its snapshot)
holds between any two writes, since the snapshot is published first. `Sectioned` ties the
lock to the directory it was taken in, `Copies` a partial directory to the one who made it:
that is why nobody publishes what another filled.

**`Standalone_proofs`, provider transitions.** `ProviderInv` (`ProviderInductive`) gives
`TrueEpisodes` (`EpisodesAreTrue`) and the action property `EarnedMoves`
(`MovesAreEarned`). `Rested` says of a plan that its target had evidence when it was made
and how long that lasts; `Chained` that it counts as failed what its episode saw fail and
the route it leaves; `Episode` relates the moves of an episode to the routes it counts as
failed. The proof of the last one failed for a good reason. `EpisodesEnd` had said that an
episode moves to a route once at most; but another caller may move the state on, and
after a change of strategy the broker may send the episode to a route it has moved to
before, which did not fail. With one more change of evidence than the run's, TLC finds it.
What ends an episode is that each move counts one more route as failed, which is what
the property says now.

**`Standalone_proofs`, instruction governance.** `GovernanceInv` (`GovernanceInductive`)
gives the action property `EarnedRequests` (`RequestsAreEarned`). Each of the three reads of
a handoff is of another instant, so the invariant counts them: `Found` is how many of them
a command has made and found to be what its handoff names, and `Handoffs` says that
`confirmed` has come at least as far, and that the handoff is in the ledger. `ReachedIs`
shows that `confirmed` is never taken back within a command, and `DispositionIs` that a
disposition built again equals the handoff only if audit, surfaces and HEAD are those it
names (`CompareHandoffHolds`). What is built is `Sound`: a candidate is of an audit that
passed and proposes a change (`CandidateIs`).

Only model-checked, each for a reason:

- Liveness (`EverythingIsDecided`, `HandoverEnds`, `HeadIsJudged`, `HeadGetsVerdict`,
  `HandoffAnswers`, `DecisionIsDelivered`, `RollbackReaches`): it rests on fairness and on
  `ENABLED`, which the prover does not handle.
- `PlansAreSound`: the planners run a depth-first search and sort and fold what they find
  (`CycleMembers`, `InOrder`, `AdmissionPlan`). That these compute what `SelectionIsSafe` and
  `AdmissionIsFull` ask for needs an induction over the search and over sequences, for
  operators that are defined by `CHOOSE` over a bijection.

## Observations

What the models show of the code that its reader should know. None of them is an
expected violation of a run; the properties are worded for what holds.

Work Controller:

- **A lost decision.** `handle_completion` reads, checks and puts the record back
  without a lock (`work_controller.py:5921`). Two processes on one workstream overwrite
  each other's `processed_event_ids`, and a file reaches `completion-processed/` although
  its decision is no longer recorded, so a duplicate would be audited again; ADR-0006
  (Decision 6) says it is not. Hence one process in `controller_serial`.
- **Reconciling for ever.** Two processes that reconcile one workstream can undo each
  other's puts for ever, and the event is never decided. Hence `Reconcilers`.
- **A blocked inbox.** A refused event ends every drain and stays first in the sorted
  inbox (`work_controller.py:6540`), so no later event is processed, not even of another
  workstream. Hence the one good event in `controller_live`.
- **A duplicate answered with another event's outcome.** `work_controller.py:5914`
  returns `last_outcome`; ADR-0006 (Decision 6) promises the prior outcome of that event.

PASS cycle and packets:

- With two processes on one PASS transition and an owner who queues packets again, two
  successors can start, and the result of the slower one can be wrong (`AnswerIsTrue`
  fails). `docs/runbooks/autonomous-work-controller-poc.md:146` admits the window.
- A refusal after the edit of an activation leaves the packet ACTIVE without a handoff
  (`readiness_dispatch.py:260`). Two handoffs of one packet need GitHub's residual race,
  or an owner who overwrote an activation.
- The edit of an activation compares nothing, so a delayed one of a second process can
  restore the text a packet had before the owner queued it again. That a packet reads as
  its handoff left it does not show that nobody touched it since, and the limit can be
  exceeded by such packets: `HandedWithinLimit` therefore speaks of the owner's edits
  themselves (`edits`), not of the text.
- `_cycle_members` (`readiness_graph.py`) misses members of a cycle that are reached
  through a finished node: with a after b and c, b after a, c after b, node c is
  `BLOCKED`, while `docs/contracts/dependency-readiness-graph.md:45` says
  `HUMAN_REQUIRED`. The graph is unsafe all the same and nothing is selected, which is
  what `SelectionIsSafe` states.

Exact-HEAD audit:

- **Rework that is not handed over.** `_packet_marker` (`audit_disposition.py:140`) looks
  for `HEAD=<head>` anywhere in the packet, and `LAST_VERIFIED_HEAD=<head>` contains it.
  An `AUTHORIZED_HANDOFF` marker of an earlier HEAD that is left in the packet makes the
  next `REWORK` a duplicate: nothing is handed over and nothing is noted, on every pass.
- `cli.py:2438` builds the paid auditor with its default `require_identity=True`, while
  `supervisor.py:307` passes neither event nor record, so `audit_bundle` raises
  (`final_audit.py:376`) after the ceiling is reserved and the claim saved; the next pass
  closes the claim as `HUMAN_REQUIRED` at the ceiling. The runbook
  (`docs/runbooks/autonomous-work-controller-poc.md:301`) describes a paid audit here.
  `ExactHeadAudit` has the constant `RequireIdentity` for it; the run takes `FALSE`, the
  provider as most tests build it, since with `TRUE` no call is ever made.
- After a change of month an interrupted claim, even one with its usage recorded, finds
  no reservation in the new month and is closed `HUMAN_REQUIRED` at cost 0
  (`audit_claim.py:1165`); the ceiling stays spent in the old month.

Chat audit:

- **A HEAD that goes back.** "HEAD drift is resumable: run-slice rotates delta"
  (`chat_audit.py:1925`), but when HEAD is moved back to the audited baseline while the
  packet is at another target, the rotated packet is `IDLE` with its target audited,
  which the packet's own verdict rules refuse: the save raises, on every run, until HEAD
  moves on (`RotationRefused`). `HeadGetsVerdict` leaves out this case (`WentBack`).

Watch host and decision plane:

- A watch's journal is never cleared, so a second, different effect of the same watch is
  `AMBIGUOUS` and the watch is stuck; a death inside the write of a marker makes its
  dispatch unusable. `DecisionIsDelivered` names these states (`Stuck`).
- A pass that finds a receipt finalizes the dispatch of its own request
  (`coordinator_watch_host.py:881`), not the one the journal names. If a pass died with
  another dispatch reserved for the effect, and a request carries that one, it is consumed
  for the effect, and the dispatch the effect was sent with stays reserved.
- A caller that dies after its reservation leaves the activation `IN_PROGRESS`, which
  counts against the budget for good. A rollback is final. Whether an admission has
  expired is judged by the caller's own `activated_at`.

Cutover (`atlas_ingress_cutover_transaction.py`):

- The comments at lines 490 ("Ensure another normal TERM/INT does not interrupt
  recovery.") and 574 ("An ordinary SIGTERM/SIGINT must raise inside the transaction, so
  that the same rollback path runs") leave windows: between `except` and the ignoring of
  signals, after the verification of a switch (exit 1 with everything new), and after the
  rollback has restored the handlers. Inside `verify` the exception a signal raises is
  caught and retried, so the signal is lost.
- `restore_env` without a set-aside environment copies over the live one, which a
  failure may leave half-written.
- `verify` looks at files and active units, not at what the processes were started from.
  That the rollback stops the units first is therefore what makes "rolled back" true.

Provider transition:

- The commit does not look at the age of evidence again: what was fresh when the request
  was sealed is committed whenever the port is called. A published snapshot carries its
  set of routes, so a route that is disabled may still be chosen until its evidence is
  stale. A failover can only be planned while the failing route is the one the broker
  would choose from the snapshot. `observed_at` and `consumed_at` come from the caller.
- An episode's routes are the caller's to count (`prior`); a route it has moved to and that
  did not fail may be chosen again when another caller has moved the state on.

Data root:

- `sync_one` fetches without the lock, so a slower fetch of an older revision replaces a
  newer projection; document and index agree, but are older. A registration whose fetch
  came before a swap of directories may project a source that the new root has not
  registered.
- A `.tmp` file of a process that is gone, and a section that broke off between a document
  and `projections.json`, make every backup refuse: the first until it is removed by hand,
  the second until the source is synced or the project cleared. A partial directory left
  by a death blocks its destination (`CopiesAreWhole` and `QuietRootIsReadable` say what
  holds all the same; `harmed` marks such roots).

Instruction governance:

- The canary check rebinds *every* published disposition to the one cached audit. Once
  dispositions of two audit identities are published no canary can be recorded, unless
  the cache changes between the reads of two of them.
- A disposition that is published while it is stale (`HUMAN_REQUIRED`) keeps the later,
  current one of the same audit out ("replay drifted"). A failed canary uses up its
  handoff.
- A request rests on three reads without the lock (the audit at
  `instruction_governance.py:1357`, the surfaces at 1358, HEAD at 1359), not on one
  instant. While the worktree is away, the audit may be read and then replaced by one that
  failed; when the worktree is back, the surfaces and HEAD are found as the handoff names
  them and the request is appended, although that audit was at no instant of the command
  the cached one of the worktree it had. `RequestsAreEarned` therefore asks each of the
  three at an instant of its own, in that order. A preflight may likewise pair a HEAD with
  the surfaces of a later instant; its cleanliness check compares the two of its own
  instant.

Auditors:

- Neither auditor compares the commit of its diff. HEAD is read by one command
  (`codex_audit.py:198`), the diffs by others (210); the bounded auditor compares the
  first with the event's commit (`refuse_stale_bundle_head`), the Codex one not even that.
  If the worktree leaves the commit and comes back before the gate, a verdict on another
  commit's diff is accepted. `StandsOnTheEvidence` asks for the commit's diff unless HEAD
  was left since it was read.
- `gh pr list` finds a pull request whose head is the audited commit, `gh pr checks` then
  answers for whatever was pushed since: the checks may be another commit's.
- A create that is retried, and a response whose polls are lost, may have been charged
  and are never reconciled into the month (`AuditBudget.reconcile` sees the usage that
  was read). The plain adapter of the controller judges without evidence.

## Limits the code accepts

GitHub offers no compare-and-set for an issue's body. Between the recheck and the edit
the owner, or another process, may still change the packet
(`docs/runbooks/autonomous-work-controller-poc.md:146` says so), and the edit overwrites
it. The models keep this window, and the properties are worded for what holds in spite
of it: two ports may both activate a packet, which `Land` finds out; two readiness
controllers may, which `raced` records; an audit's edit may revert a new HEAD or make a
completed packet ACTIVE again, after which two packets are ACTIVE and every pass reports
`ambiguous_packet`. A paid call, a created issue and a sent comment cannot be taken
back: where an owner outlives its lease the models allow a second issue, and say that
nothing else does (`SpareIssueNeedsLateOwner`).

## What is not modelled

`PROJECT.json` gives each part its reason. In short: what renders, parses or validates a
document and changes nothing (dashboards, contracts, context and memory evidence,
redaction), and I/O (MCP transport, SNI ingress, bundle builders). These are a large part
of the lines, and they have little state that two steps could disagree on.

Of the modelled parts these details are left out: the text of packets and findings, the
checks of directories and file modes, the retired Cursor dispatch; admission's
publication and run ledger; the text an audit sees (secrets and bounds are a fault that
may strike); the discovery and the pointer of the chat audit's checkpoint
issue, and the coordination refresher; the watch planner's branches on workers,
failures, reviews and mergeability, which the collector never reports, its recheck times
and the ledger's limit of 32 entries, which no watch reaches; the record limits of the
decision ledgers, and the unlocked build of a measurement, merged with its recording
since the records it is built from never change; units that die by themselves during a
cutover.

## Plan

Still to write, in this order:

1. Admission's publication and run ledger, so that the snapshots of `DispatchEffect` are
   those `Admission` computes.
2. The checkpoint issue of the chat audit, composed with `ChatAudit`; then `FindingHandoff`
   in place of its handoff step.
3. The tools that admit and release work (`tools/`).

Every invariant, and every action property, that the runs check and the prover can reach
is a theorem; the rest is listed under [proofs](#proofs).

Runs and properties are kept few, one for each question: a new component takes its
properties from hazards, and a property that another one implies is merged into it.
