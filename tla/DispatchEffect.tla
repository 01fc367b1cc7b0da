--------------------------- MODULE DispatchEffect ---------------------------
(***************************************************************************)
(* start_concurrency_execution (atlas/concurrency_execution.py) and what it *)
(* calls: the dispatch authorization, the one-shot dispatch effect and the  *)
(* Work Packet handoff port with its packet activation.                     *)
(*                                                                          *)
(* A snapshot of the readiness graph is published; a plan is computed from  *)
(* it; a request authorizes exactly that plan; an execution reserves it,    *)
(* dispatches each node once, in threads, and records the receipt.  Every   *)
(* locked section on the data root is one step, every edit on GitHub is     *)
(* one, and so are the reads between two of them: a change that comes       *)
(* between two such reads is to another packet than one of them looks at,   *)
(* and so can as well come before or after both.  In between another        *)
(* process may run, another snapshot or authorization be published, the     *)
(* owner edit a packet, or the process die.                                 *)
(*                                                                          *)
(* Digests are content addresses, so a digest of a value is the value.      *)
(***************************************************************************)
EXTENDS Naturals, FiniteSets, Sequences

CONSTANTS
    Issues,          \* Work Packets, the nodes of the graph
    Repositories,
    RepositoryOf,    \* repository of a packet
    MaxWip,          \* ACTIVE packets a repository may have (max_wip)
    After,           \* AFTER_ISSUE of a packet, or None
    Snapshots,       \* admission snapshots, with the plan that follows
    Calls,           \* arguments of start: [cycle, auth, effect]
    Requests,        \* those whose authorization is also published alone
    Procs,           \* processes that call start or authorize
    InitialPackets,  \* the packets at the start
    OwnerEdits,      \* what the owner does by hand
    None,            \* "no value"
    MaxSnapshots,    \* bound: publications of a snapshot
    MaxCalls,        \* bound: calls of start and authorize
    MaxEdits         \* bound: edits by the owner

\* A snapshot: its observation time, the graph's max_wip, the packets it saw
\* ACTIVE, and the nodes plan_concurrency_admission assigns a slot of their own.
SnapshotType ==
    [at : Nat, wip : Nat, active : SUBSET Issues, picked : SUBSET Issues]

Authorizations == [id : Nat, plan : Snapshots]

Packets ==
    [status : {"ACTIVE", "PAUSED", "COMPLETE"}, queued : BOOLEAN,
     text : 0..MaxEdits]

EditKinds == {"requeue", "activate", "complete", "text"}

Results == {"DISPATCHED", "REFUSED", "HUMAN_REQUIRED", "ERROR"}

EffectResults == {"DISPATCHED", "PARTIAL", "HUMAN_REQUIRED", "FAILED"}

Receipts(a) == [a.plan.picked -> Results]

PCs == {"idle", "authorizing", "built", "reserved", "rebuilt", "published",
        "checked", "dispatching", "finalize"}

\* A dispatch thread: outside the repository lock, inside it, or done.
Critical == {"view", "check", "edit", "timed", "land", "append"}
Running == {"enter", "lock"} \union Critical

ASSUME DispatchAssumption ==
    /\ IsFiniteSet(Issues)
    /\ OwnerEdits \subseteq EditKinds
    /\ Snapshots \subseteq SnapshotType
    /\ Calls \subseteq [cycle : Nat, auth : Authorizations, effect : Nat]
    /\ Requests \subseteq Calls
    /\ RepositoryOf \in [Issues -> Repositories]
    /\ MaxWip \in [Repositories -> Nat]
    /\ After \in [Issues -> Issues \union {None}]
    /\ InitialPackets \in [Issues -> Packets]
    /\ MaxSnapshots \in Nat
    /\ MaxCalls \in Nat
    /\ MaxEdits \in Nat
    /\ None \notin Issues
    /\ None \notin Snapshots
    /\ None \notin Authorizations
    /\ None \notin Calls
    /\ None \notin Packets
    /\ None \notin Running \union Results

VARIABLES
    snapshot,    \* the published snapshot, or None
    authorized,  \* the published authorization, or None
    executions,  \* execution ledger
    effects,     \* effect ledger
    handoffs,    \* handoff ledger
    gh,          \* the packets
    pc,          \* where each process stands
    call,        \* the arguments it was called with
    context,     \* its port's admission facts, read by the first dispatch
    activated,   \* packets its port has activated
    at,          \* per process and node: where the dispatch thread stands
    base,        \* the packet such a thread starts its edit from
    published,   \* snapshots published so far
    calls,       \* calls made so far
    edits        \* packets the owner has edited, in order

ledgers == <<executions, effects, handoffs>>
port == <<context, activated, at, base>>
bound == <<published, calls, edits>>
effectVars == <<snapshot, authorized, ledgers, gh, pc, call, port, bound>>

-----------------------------------------------------------------------------
(* What is read and compared *)

InRepository(S, r) == {i \in S : RepositoryOf[i] = r}

ActiveIn(r) == {i \in InRepository(Issues, r) : gh[i].status = "ACTIVE"}

\* _revalidate_assignments: at least two nodes, within every limit.
Authorizable(s) ==
    /\ Cardinality(s.picked) >= 2
    /\ Cardinality(s.active) + Cardinality(s.picked) <= s.wip
    /\ \A r \in Repositories :
          Cardinality(InRepository(s.active, r))
             + Cardinality(InRepository(s.picked, r)) <= MaxWip[r]

\* The plan of an authorization is the plan of the published snapshot.
Planned(a) == snapshot = a.plan /\ Authorizable(a.plan)

\* binding_state CURRENT, for this authorization.
Current(a) == authorized = a /\ snapshot = a.plan

Auth(p) == call[p].auth
Plan(p) == call[p].auth.plan

\* result of a receipt.
Aggregate(receipt) ==
    LET Nodes(result) == {n \in DOMAIN receipt : receipt[n] = result} IN
    IF Nodes("HUMAN_REQUIRED") # {} THEN "HUMAN_REQUIRED"
    ELSE IF Nodes("DISPATCHED") = DOMAIN receipt THEN "DISPATCHED"
    ELSE IF Nodes("DISPATCHED") # {} THEN "PARTIAL"
    ELSE "FAILED"

Goto(p, from, to) == pc[p] = from /\ pc' = [pc EXCEPT ![p] = to]

ThreadTo(p, n, from, to) ==
    /\ pc[p] = "dispatching"
    /\ n \in Plan(p).picked
    /\ at[p][n] = from
    /\ at' = [at EXCEPT ![p][n] = to]

Replace(ledger, old, new) == (ledger \ {old}) \union {new}

NoThreads == [n \in Issues |-> None]

Called(p, x) ==
    /\ calls < MaxCalls
    /\ calls' = calls + 1
    /\ call' = [call EXCEPT ![p] = x]

\* A call has ended: its port and its threads are gone.
Forget(p) ==
    /\ call' = [call EXCEPT ![p] = None]
    /\ context' = [context EXCEPT ![p] = None]
    /\ activated' = [activated EXCEPT ![p] = {}]
    /\ at' = [at EXCEPT ![p] = NoThreads]
    /\ base' = [base EXCEPT ![p] = NoThreads]

-----------------------------------------------------------------------------
(* Snapshots and authorizations *)

\* publish_concurrency_snapshot
PublishSnapshot(s) ==
    /\ published < MaxSnapshots
    /\ published' = published + 1
    /\ snapshot' = s
    /\ UNCHANGED <<authorized, ledgers, gh, pc, call, port, calls, edits>>

\* `concurrency authorize`: build_concurrency_dispatch_authorization ...
Authorize(p, x) ==
    /\ Planned(x.auth)
    /\ Goto(p, "idle", "authorizing")
    /\ Called(p, x)
    /\ UNCHANGED <<snapshot, authorized, ledgers, gh, port, published, edits>>

\* ... and, under the lock, the file.
WriteAuthorization(p) ==
    /\ \/ Goto(p, "rebuilt", "published") /\ UNCHANGED <<call, port>>
       \/ Goto(p, "authorizing", "idle") /\ Forget(p)
    /\ authorized' = Auth(p)
    /\ UNCHANGED <<snapshot, ledgers, gh, bound>>

-----------------------------------------------------------------------------
(* start_concurrency_execution *)

Start(p, x) ==
    /\ Planned(x.auth)
    /\ Goto(p, "idle", "built")
    /\ Called(p, x)
    /\ UNCHANGED <<snapshot, authorized, ledgers, gh, port, published, edits>>

ExecutionOf(x, state, result, receipt) ==
    [cycle |-> x.cycle, auth |-> x.auth, effect |-> x.effect,
     state |-> state, result |-> result, receipt |-> receipt]

\* Variant: a plan may be executed again under another authorization.
ReserveExecution_AnyPlan(p) ==
    /\ Goto(p, "built", "reserved")
    /\ \A r \in executions :
          /\ r.cycle # call[p].cycle
          /\ r.auth # Auth(p)
          /\ r.effect # call[p].effect
    /\ executions' = executions
          \union {ExecutionOf(call[p], "IN_PROGRESS", None, None)}
    /\ UNCHANGED <<snapshot, authorized, effects, handoffs, gh, call, port,
                   bound>>

\* _reserve: no cycle, plan, authorization or effect is used twice.
ReserveExecution(p) ==
    /\ Goto(p, "built", "reserved")
    /\ \A r \in executions :
          /\ r.cycle # call[p].cycle
          /\ r.auth.plan # Plan(p)
          /\ r.auth # Auth(p)
          /\ r.effect # call[p].effect
    /\ executions' = executions
          \union {ExecutionOf(call[p], "IN_PROGRESS", None, None)}
    /\ UNCHANGED <<snapshot, authorized, effects, handoffs, gh, call, port,
                   bound>>

\* The authorization is built once more and published (WriteAuthorization).
Rebuild(p) ==
    /\ Goto(p, "reserved", "rebuilt")
    /\ Planned(Auth(p))
    /\ UNCHANGED <<snapshot, authorized, ledgers, gh, call, port, bound>>

CheckAuthorization(p) ==
    /\ Goto(p, "published", "checked")
    /\ Current(Auth(p))
    /\ UNCHANGED <<snapshot, authorized, ledgers, gh, call, port, bound>>

EffectOf(x, state, receipt) ==
    [effect |-> x.effect, auth |-> x.auth, state |-> state,
     receipt |-> receipt]

\* Variant: the effect is written down only when it is done.
ReserveEffect_Unreserved(p) ==
    /\ Goto(p, "checked", "dispatching")
    /\ Current(Auth(p))
    /\ Authorizable(Plan(p))
    /\ \A r \in effects : r.effect # call[p].effect /\ r.auth # Auth(p)
    /\ at' = [at EXCEPT ![p] =
                 [n \in Issues |-> IF n \in Plan(p).picked THEN "enter"
                                   ELSE None]]
    /\ UNCHANGED <<snapshot, authorized, ledgers, gh, call, context, activated,
                   base, bound>>

\* commit_concurrency_dispatch_effect: the first locked section, and the
\* threads.  The evidence may be too old by now; then it breaks off.
ReserveEffect(p) ==
    /\ Goto(p, "checked", "dispatching")
    /\ Current(Auth(p))
    /\ Authorizable(Plan(p))
    /\ \A r \in effects : r.effect # call[p].effect /\ r.auth # Auth(p)
    /\ effects' = effects \union {EffectOf(call[p], "IN_PROGRESS", None)}
    /\ at' = [at EXCEPT ![p] =
                 [n \in Issues |-> IF n \in Plan(p).picked THEN "enter"
                                   ELSE None]]
    /\ UNCHANGED <<snapshot, authorized, executions, handoffs, gh, call,
                   context, activated, base, bound>>


ReceiptOf(p) == [n \in Plan(p).picked |-> at[p][n]]

\* _finalize_effect, when every thread is done.
FinalizeEffect(p) ==
    /\ Goto(p, "dispatching", "finalize")
    /\ \A n \in Plan(p).picked : at[p][n] \in Results
    /\ EffectOf(call[p], "IN_PROGRESS", None) \in effects
    /\ effects' = Replace(effects, EffectOf(call[p], "IN_PROGRESS", None),
                          EffectOf(call[p], "TERMINAL", ReceiptOf(p)))
    /\ UNCHANGED <<snapshot, authorized, executions, handoffs, gh, call, port,
                   bound>>

\* _finalize, with the receipt the effect returned.
FinalizeExecution(p) ==
    /\ Goto(p, "finalize", "idle")
    /\ ExecutionOf(call[p], "IN_PROGRESS", None, None) \in executions
    /\ executions' =
          Replace(executions, ExecutionOf(call[p], "IN_PROGRESS", None, None),
                  ExecutionOf(call[p], "TERMINAL", Aggregate(ReceiptOf(p)),
                              ReceiptOf(p)))
    /\ Forget(p)
    /\ UNCHANGED <<snapshot, authorized, effects, handoffs, gh, bound>>

\* A check that fails, an error of the file system, or the death of the process
\* with its threads and its port, ends the call.  What was reserved stays
\* IN_PROGRESS.
BreakOff(p) ==
    /\ pc[p] # "idle"
    /\ pc' = [pc EXCEPT ![p] = "idle"]
    /\ Forget(p)
    /\ UNCHANGED <<snapshot, authorized, ledgers, gh, bound>>

-----------------------------------------------------------------------------
(* ConcurrencyWorkPacketHandoffPort.dispatch, a thread per node *)

ThreadOnly == UNCHANGED <<snapshot, authorized, ledgers, pc, call, bound>>

\* _effect_context: the first thread reads it, the others use what it read.
Enter(p, n) ==
    /\ ThreadTo(p, n, "enter", "lock")
    /\ IF context[p] = None
       THEN Current(Auth(p)) /\ context' = [context EXCEPT ![p] = snapshot]
       ELSE UNCHANGED context
    /\ UNCHANGED <<gh, activated, base>>
    /\ ThreadOnly

\* What must be ACTIVE in the node's repository.
Expected(p, n) ==
    InRepository(context[p].active \union activated[p], RepositoryOf[n])

\* The repository lock of the port, the WIP check, a clean worktree.
TakeLock(p, n) ==
    /\ ThreadTo(p, n, "lock", "view")
    /\ \A m \in InRepository(Issues, RepositoryOf[n]) : at[p][m] \notin Critical
    /\ Cardinality(Expected(p, n)) < MaxWip[RepositoryOf[n]]
    /\ n \notin Expected(p, n)
    /\ UNCHANGED <<gh, context, activated, base>>
    /\ ThreadOnly

Queued(i) == gh[i].status = "PAUSED" /\ gh[i].queued

\* A predecessor does not leave COMPLETE, so it is enough to look once here
\* where the code looks three times.
PredecessorComplete(i) == After[i] # None => gh[After[i]].status = "COMPLETE"

\* activate_concurrency_execution_packet: the packet, its predecessor, and what
\* is ACTIVE in the repository; ...
ViewPacket(p, n) ==
    /\ ThreadTo(p, n, "view", "check")
    /\ Queued(n)
    /\ PredecessorComplete(n)
    /\ ActiveIn(RepositoryOf[n]) = Expected(p, n)
    /\ base' = [base EXCEPT ![p][n] = gh[n]]
    /\ UNCHANGED <<gh, context, activated>>
    /\ ThreadOnly

\* ... the recheck of _cas_replace_issue_body and all of it again
\* (before_edit), ...
Recheck(p, n) ==
    /\ ThreadTo(p, n, "check", "edit")
    /\ gh[n] = base[p][n]
    /\ Queued(n)
    /\ ActiveIn(RepositoryOf[n]) = Expected(p, n)
    /\ UNCHANGED <<gh, context, activated, base>>
    /\ ThreadOnly

ActiveBody(r) == [r EXCEPT !.status = "ACTIVE", !.queued = FALSE]

\* ... the edit, which is unconditional, and may be refused, fail after it has
\* landed, or time out either way, ...
Edit(p, n) ==
    LET landed == [gh EXCEPT ![n] = ActiveBody(base[p][n])] IN
    /\ \/ ThreadTo(p, n, "edit", "land") /\ gh' = landed
       \/ ThreadTo(p, n, "edit", "HUMAN_REQUIRED") /\ gh' = landed
       \/ ThreadTo(p, n, "edit", "timed") /\ gh' \in {gh, landed}
    /\ UNCHANGED <<context, activated, base>>
    /\ ThreadOnly

TimedOut(p, n) ==
    /\ ThreadTo(p, n, "timed", "land")
    /\ gh[n] = ActiveBody(base[p][n])
    /\ UNCHANGED <<gh, context, activated, base>>
    /\ ThreadOnly

\* Variant: the ACTIVE packets are not listed after the edit.
Land_Unlisted(p, n) ==
    /\ ThreadTo(p, n, "land", "append")
    /\ gh[n].status = "ACTIVE"
    /\ ~gh[n].queued
    /\ activated' = [activated EXCEPT ![p] = @ \union {n}]
    /\ UNCHANGED <<gh, context, base>>
    /\ ThreadOnly

\* ... and the packet and the ACTIVE ones once more.  The port notes the
\* activation and looks at the worktree again.
Land(p, n) ==
    /\ ThreadTo(p, n, "land", "append")
    /\ gh[n].status = "ACTIVE"
    /\ ~gh[n].queued
    /\ ActiveIn(RepositoryOf[n]) = Expected(p, n) \union {n}
    /\ activated' = [activated EXCEPT ![p] = @ \union {n}]
    /\ UNCHANGED <<gh, context, base>>
    /\ ThreadOnly

HandoffOf(p, n) == [effect |-> call[p].effect, auth |-> Auth(p), node |-> n]

\* Variant: a write that fails is not noticed.
AppendHandoff_Believes(p, n) ==
    /\ ThreadTo(p, n, "append", "DISPATCHED")
    /\ HandoffOf(p, n) \notin handoffs
    /\ handoffs' \in {handoffs, handoffs \union {HandoffOf(p, n)}}
    /\ UNCHANGED <<snapshot, authorized, executions, effects, gh, pc, call,
                   context, activated, base, bound>>

\* Under the data lock the handoff is appended.  A write that fails, before or
\* after it has landed, is an ERROR.
AppendHandoff(p, n) ==
    LET appended == handoffs \union {HandoffOf(p, n)} IN
    /\ \/ /\ ThreadTo(p, n, "append", "DISPATCHED")
          /\ HandoffOf(p, n) \notin handoffs
          /\ handoffs' = appended
       \/ /\ ThreadTo(p, n, "append", "ERROR")
          /\ handoffs' \in {handoffs, appended}
    /\ UNCHANGED <<snapshot, authorized, executions, effects, gh, pc, call,
                   context, activated, base, bound>>

\* A check, gh or git fails: a ValidationError, so a human is required.
FailDispatch(p, n) ==
    /\ at[p][n] \in Running
    /\ ThreadTo(p, n, at[p][n], "HUMAN_REQUIRED")
    /\ UNCHANGED <<gh, context, activated, base>>
    /\ ThreadOnly

-----------------------------------------------------------------------------
(* Environment, and the specification *)

\* The owner edits a packet by hand: queues an ACTIVE one again, activates or
\* completes one, or changes its text.
OwnerEdit(i) ==
    LET r == gh[i]
        Rewrite(new) ==
            gh' = [gh EXCEPT ![i] = [new EXCEPT !.text = Len(edits) + 1]]
    IN
    /\ Len(edits) < MaxEdits
    /\ edits' = Append(edits, i)
    /\ \/ /\ "requeue" \in OwnerEdits /\ r.status = "ACTIVE"
          /\ Rewrite([r EXCEPT !.status = "PAUSED", !.queued = TRUE])
       \/ /\ "activate" \in OwnerEdits /\ r.status = "PAUSED"
          /\ Rewrite([r EXCEPT !.status = "ACTIVE", !.queued = FALSE])
       \/ /\ "complete" \in OwnerEdits /\ r.status = "ACTIVE"
          /\ Rewrite([r EXCEPT !.status = "COMPLETE"])
       \/ /\ "text" \in OwnerEdits
          /\ Rewrite(r)
    /\ UNCHANGED <<snapshot, authorized, ledgers, pc, call, port, published,
                   calls>>

EffectInit ==
    /\ snapshot = None
    /\ authorized = None
    /\ executions = {}
    /\ effects = {}
    /\ handoffs = {}
    /\ gh = InitialPackets
    /\ pc = [p \in Procs |-> "idle"]
    /\ call = [p \in Procs |-> None]
    /\ context = [p \in Procs |-> None]
    /\ activated = [p \in Procs |-> {}]
    /\ at = [p \in Procs |-> NoThreads]
    /\ base = [p \in Procs |-> NoThreads]
    /\ published = 0
    /\ calls = 0
    /\ edits = <<>>

Dispatch(p, n) ==
    \/ Enter(p, n) \/ TakeLock(p, n) \/ ViewPacket(p, n) \/ Recheck(p, n)
    \/ Edit(p, n) \/ TimedOut(p, n) \/ Land(p, n) \/ AppendHandoff(p, n)
    \/ FailDispatch(p, n)

Step(p) ==
    \/ ReserveExecution(p) \/ Rebuild(p) \/ WriteAuthorization(p)
    \/ CheckAuthorization(p) \/ ReserveEffect(p)
    \/ FinalizeEffect(p) \/ FinalizeExecution(p) \/ BreakOff(p)

EffectNext ==
    \/ \E s \in Snapshots : PublishSnapshot(s)
    \/ \E p \in Procs :
          \/ \E x \in Calls : Start(p, x)
          \/ \E x \in Requests : Authorize(p, x)
          \/ Step(p)
          \/ \E n \in Issues : Dispatch(p, n)
    \/ \E i \in Issues : OwnerEdit(i)

EffectSpec == EffectInit /\ [][EffectNext]_effectVars

-----------------------------------------------------------------------------
(* Properties *)

\* Every variable keeps its type.
EffectTypeOK ==
    /\ snapshot \in Snapshots \union {None}
    /\ authorized \in Authorizations \union {None}
    /\ \A r \in executions :
          /\ r.auth \in Authorizations
          /\ r.state \in {"IN_PROGRESS", "TERMINAL"}
          /\ r.state = "TERMINAL" =>
                r.receipt \in Receipts(r.auth) /\ r.result \in EffectResults
    /\ \A r \in effects :
          /\ r.auth \in Authorizations
          /\ r.state \in {"IN_PROGRESS", "TERMINAL"}
          /\ r.state = "TERMINAL" => r.receipt \in Receipts(r.auth)
    /\ \A h \in handoffs : h.auth \in Authorizations /\ h.node \in h.auth.plan.picked
    /\ gh \in [Issues -> Packets]
    /\ pc \in [Procs -> PCs]
    /\ call \in [Procs -> Calls \union {None}]
    /\ context \in [Procs -> Snapshots \union {None}]
    /\ activated \in [Procs -> SUBSET Issues]
    /\ at \in [Procs -> [Issues -> Running \union Results \union {None}]]
    /\ base \in [Procs -> [Issues -> Packets \union {None}]]
    /\ published \in 0..MaxSnapshots
    /\ calls \in 0..MaxCalls
    /\ edits \in Seq(Issues)
    /\ Len(edits) <= MaxEdits

\* No node of a plan is handed over twice, whatever authorizations, cycles and
\* snapshots come and go, and whoever queues the packet again.
HandedOnce ==
    \A h, k \in handoffs :
        h.auth.plan = k.auth.plan /\ h.node = k.node => h = k

\* What a receipt calls dispatched has its handoff in the ledger, and a
\* TERMINAL execution says what its TERMINAL effect says
\* (_validate_terminal_binding never fails on what the code wrote).
ReceiptsAreTrue ==
    /\ \A r \in effects : r.state = "TERMINAL" =>
          \A n \in DOMAIN r.receipt : r.receipt[n] = "DISPATCHED" =>
              [effect |-> r.effect, auth |-> r.auth, node |-> n] \in handoffs
    /\ \A x \in executions : x.state = "TERMINAL" =>
          \E r \in effects :
              /\ r.effect = x.effect /\ r.auth = x.auth
              /\ r.state = "TERMINAL" /\ r.receipt = x.receipt
              /\ x.result = Aggregate(r.receipt)

\* The owner has never edited the packet.
Untouched(i) == \A k \in DOMAIN edits : edits[k] # i

\* Of the packets that were handed over and that the owner has never edited, no
\* more are ACTIVE than the repository's limit allows, although two executions
\* of different plans may activate packets of one repository at once.
HandedWithinLimit ==
    \A r \in Repositories :
        Cardinality({i \in ActiveIn(r) : /\ Untouched(i)
                                         /\ \E h \in handoffs : h.node = i})
            <= MaxWip[r]

\* No packet is touched before the execution and the effect that do so are
\* reserved (the reservation is what survives a death in the middle).
ReservedFirst ==
    [][\A i \in Issues :
          (gh[i].status # "ACTIVE" /\ gh'[i].status = "ACTIVE"
             /\ edits' = edits) =>
              \E x \in executions, r \in effects :
                  /\ x.state = "IN_PROGRESS" /\ r.state = "IN_PROGRESS"
                  /\ x.effect = r.effect /\ x.auth = r.auth
                  /\ i \in x.auth.plan.picked]_effectVars

\* What the ledgers say of a plan, as OneShotDispatch sees it.
HandoffsOf(s, n) == {h \in handoffs : h.auth.plan = s /\ h.node = n}
EffectsOf(s) == {r \in effects : r.auth.plan = s}

StageOf(s) ==
    IF \A x \in executions : x.auth.plan # s THEN "none"
    ELSE IF EffectsOf(s) = {} THEN "reserved"
    ELSE IF \E r \in EffectsOf(s) : r.state = "IN_PROGRESS" THEN "armed"
    ELSE "sealed"

DispatchedOf(s) ==
    {n \in s.picked : \E r \in EffectsOf(s) :
        r.state = "TERMINAL" /\ r.receipt[n] = "DISPATCHED"}
=============================================================================
