----------------------- MODULE WorkController_proofs -----------------------
(***************************************************************************)
(* Theorems about the Work Controller, for every set of workstreams,       *)
(* processes and events.                                                   *)
(***************************************************************************)
EXTENDS WorkController, TLAPS

\* Where a process has a completion event, a workstream, a local record.
HasTarget == PCs \ {"idle", "drain"}
HasEvent == HasTarget \ {"register", "load", "retire"}
HasRecord == {"register", "lock_head", "accept", "begin", "packet",
              "activating", "advance", "activate", "settle", "finalize"}
AfterReceive == HasTarget \ {"register", "receive"}

\* What a process holds at each point of its program.
Shape ==
    \A p \in Procs :
        /\ pc[p] \in HasTarget => target[p] \in Workstreams
        /\ pc[p] \in HasEvent => ev[p] \in Events
        /\ pc[p] \in HasRecord => rec[p] \in Records
        /\ pc[p] \in AfterReceive => store[target[p]] \in Records
        /\ pc[p] = "packet" => ev[p].attempt + 1 <= MaxAttempts
        /\ pc[p] = "settle" /\ verdict[p] = "advanced" =>
              rec[p].issue + 1 \in Issues

USE ConstantsAssumption DEF ConstantsAssumption

\* A decision keeps a record well formed.
LEMMA DecidedType ==
    \A r \in Records, e \in Events, s \in States : Decided(r, e, s) \in Records
  BY DEF Decided, Records, Outcomes, EventIds

\* So do the other changes the controller makes to a record.
LEMMA RecordUpdates ==
    ASSUME NEW r \in Records, NEW e \in Events
    PROVE  /\ [r EXCEPT !.head = e.head] \in Records
           /\ [r EXCEPT !.state = "AWAITING_AUDIT", !.pending = e] \in Records
           /\ [r EXCEPT !.state = "AUDITING"] \in Records
           /\ [r EXCEPT !.state = "CYCLE_ACTIVATING"] \in Records
           /\ \A n \in 0..MaxAttempts :
                 [r EXCEPT !.attempt = n, !.head = e.head] \in Records
           /\ \A i \in Issues :
                 [r EXCEPT !.issue = i, !.attempt = 0, !.head = e.head]
                    \in Records
  <1>1. /\ e.head \in Heads
        /\ {"AWAITING_AUDIT", "AUDITING", "CYCLE_ACTIVATING"} \subseteq States
        /\ 0 \in 0..MaxAttempts
    BY DEF States, Unfinished
  <1>2. [r EXCEPT !.head = e.head] \in Records
    BY <1>1 DEF Records
  <1>3. [r EXCEPT !.state = "AWAITING_AUDIT", !.pending = e] \in Records
    BY <1>1 DEF Records
  <1>4. \A s \in States : [r EXCEPT !.state = s] \in Records
    BY DEF Records
  <1>5. \A n \in 0..MaxAttempts :
           [r EXCEPT !.attempt = n, !.head = e.head] \in Records
    BY <1>1 DEF Records
  <1>6. \A i \in Issues :
           [r EXCEPT !.issue = i, !.attempt = 0, !.head = e.head] \in Records
    BY <1>1 DEF Records
  <1> QED  BY <1>1, <1>2, <1>3, <1>4, <1>5, <1>6

LEMMA NewRecordType == \A h \in Heads : NewRecord(1, h) \in Records
  BY DEF NewRecord, Records, States, Outcomes

LEMMA LeaveType ==
    ASSUME TypeOK, Shape, NEW p \in Procs, Leave(p), store' = store
    PROVE  Shape' /\ claim' \in [Procs -> Events \union {None}]
           /\ pc' \in [Procs -> PCs]
           /\ target' \in [Procs -> Workstreams \union {None}]
           /\ ev' \in [Procs -> Events \union {None}]
           /\ rec' \in [Procs -> Records \union {None}]
           /\ todo' \in [Procs -> SUBSET Events]
           /\ verdict' \in [Procs -> Verdicts \union {"no_successor",
                               "human_required", "advanced", None}]
  BY DEF TypeOK, Shape, Leave, HasTarget, HasEvent, HasRecord, AfterReceive, PCs

-----------------------------------------------------------------------------
(* Type correctness *)

Typed == TypeOK /\ Shape

LEMMA TypedInit == Init => Typed
  <1> SUFFICES ASSUME Init PROVE Typed
    OBVIOUS
  <1>1. store \in [Workstreams -> Records \union {None}]
    BY DEF Init
  <1>2. ASSUME NEW ws \in Workstreams
        PROVE  FirstPackets(store[ws]) \in [Issues -> Packets]
    BY <1>1 DEF FirstPackets, Packets, Records
  <1> QED  BY <1>1, <1>2 DEF Init, Typed, TypeOK, Shape, PCs, HasTarget, HasEvent,
                          HasRecord, AfterReceive

LEMMA StartRegisterTyped ==
    ASSUME Typed, NEW p \in Procs, NEW ws \in Workstreams, NEW h \in Heads, StartRegister(p, ws, h)
    PROVE  Typed'
  BY NewRecordType DEF Typed, TypeOK, Shape, HasTarget, HasEvent, HasRecord, AfterReceive, PCs, Goto, StartRegister, Get, files, env
LEMMA DrainDoneTyped ==
    ASSUME Typed, NEW p \in Procs, DrainDone(p)
    PROVE  Typed'
  <1>1. Leave(p) /\ store' = store
    BY DEF DrainDone, Raise
  <1> QED  BY <1>1, LeaveType DEF Typed, TypeOK, DrainDone, Raise, env
LEMMA ReplyTyped ==
    ASSUME Typed, NEW p \in Procs, Reply(p)
    PROVE  Typed'
  <1>1. Leave(p) /\ store' = store
    BY DEF Reply, Raise
  <1> QED  BY <1>1, LeaveType DEF Typed, TypeOK, Reply, Raise, env
LEMMA RefuseTyped ==
    ASSUME Typed, NEW p \in Procs, Refuse(p)
    PROVE  Typed'
  <1>1. Leave(p) /\ store' = store
    BY DEF Refuse, Raise
  <1> QED  BY <1>1, LeaveType DEF Typed, TypeOK, Refuse, Raise, env
LEMMA NothingPendingTyped ==
    ASSUME Typed, NEW p \in Procs, NothingPending(p)
    PROVE  Typed'
  <1>1. Leave(p) /\ store' = store
    BY DEF NothingPending, Raise
  <1> QED  BY <1>1, LeaveType DEF Typed, TypeOK, NothingPending, Raise, env
LEMMA CrashTyped ==
    ASSUME Typed, NEW p \in Procs, Crash(p)
    PROVE  Typed'
  <1>1. Leave(p) /\ store' = store
    BY DEF Crash
  <1> QED  BY <1>1, LeaveType DEF Typed, TypeOK, Crash, env
LEMMA StartDrainTyped ==
    ASSUME Typed, NEW p \in Procs, StartDrain(p)
    PROVE  Typed'
  BY DEF Typed, TypeOK, Shape, HasTarget, HasEvent, HasRecord, AfterReceive, PCs, Goto, StartDrain, files, env
LEMMA ClaimTyped ==
    ASSUME Typed, NEW p \in Procs, Claim(p)
    PROVE  Typed'
  <1> DEFINE e == NextFile(todo[p])
  <1>0. todo' = [todo EXCEPT ![p] = @ \ {e}]
    BY DEF Claim
  <1>1. CASE e \in inbox /\ \A q \in Procs : claim[q] # e
    <2>1. /\ e \in Events /\ e.ws \in Workstreams
          /\ claim' = [claim EXCEPT ![p] = e]
          /\ ev' = [ev EXCEPT ![p] = e]
          /\ target' = [target EXCEPT ![p] = e.ws]
          /\ Goto(p, "drain", "receive")
      BY <1>1 DEF Claim, Typed, TypeOK
    <2> HIDE DEF e
    <2> QED  BY <1>0, <2>1 DEF Claim, Typed, TypeOK, Shape, HasTarget, HasEvent, HasRecord, AfterReceive, PCs, Goto, env
  <1>2. CASE ~(e \in inbox /\ \A q \in Procs : claim[q] # e)
    <2>1. UNCHANGED <<claim, ev, target, pc>>
      BY <1>2 DEF Claim
    <2> HIDE DEF e
    <2> QED  BY <1>0, <2>1 DEF Claim, Typed, TypeOK, Shape, HasTarget, HasEvent, HasRecord, AfterReceive, PCs, Goto, env
  <1> QED  BY <1>1, <1>2
LEMMA StartHandleTyped ==
    ASSUME Typed, NEW p \in Procs, NEW e \in Events, StartHandle(p, e)
    PROVE  Typed'
  BY DEF Typed, TypeOK, Shape, HasTarget, HasEvent, HasRecord, AfterReceive, PCs, Goto, StartHandle, files, env
LEMMA MoveTyped ==
    ASSUME Typed, NEW p \in Procs, Move(p)
    PROVE  Typed'
  BY DEF Typed, TypeOK, Shape, HasTarget, HasEvent, HasRecord, AfterReceive, PCs, Goto, Move, env
LEMMA LockHeadTyped ==
    ASSUME Typed, NEW p \in Procs, LockHead(p)
    PROVE  Typed'
  BY DEF Typed, TypeOK, Shape, HasTarget, HasEvent, HasRecord, AfterReceive, PCs, Goto, LockHead, Put, files, local, env
LEMMA AuditTyped ==
    ASSUME Typed, NEW p \in Procs, Audit(p)
    PROVE  Typed'
  BY DEF Typed, TypeOK, Shape, HasTarget, HasEvent, HasRecord, AfterReceive, PCs, Goto, Audit, files, env
LEMMA FinalizeTyped ==
    ASSUME Typed, NEW p \in Procs, Finalize(p)
    PROVE  Typed'
  BY DEF Typed, TypeOK, Shape, HasTarget, HasEvent, HasRecord, AfterReceive, PCs, Goto, Finalize, Put, files, local, env
LEMMA ReceiveTyped ==
    ASSUME Typed, NEW p \in Procs, Receive(p)
    PROVE  Typed'
  <1> DEFINE r == store[target[p]]
  <1>1. r \in Records /\ ev[p] \in Events
    BY DEF Receive, Typed, TypeOK, Shape, HasTarget, HasEvent, HasRecord, AfterReceive, PCs, Goto
  <1>2. [r EXCEPT !.head = ev[p].head] \in Records
    BY <1>1, RecordUpdates
  <1>3. PICK q \in Records, to \in {"reply", "accept", "lock_head"} :
           Get(p, q) /\ Goto(p, "receive", to)
    BY <1>1, <1>2 DEF Receive
  <1> QED  BY <1>1, <1>3 DEF Receive, Get, files, env, Typed, TypeOK, Shape, HasTarget, HasEvent, HasRecord, AfterReceive, PCs, Goto
LEMMA AcceptTyped ==
    ASSUME Typed, NEW p \in Procs, Accept(p)
    PROVE  Typed'
  <1>1. [rec[p] EXCEPT !.state = "AWAITING_AUDIT", !.pending = ev[p]] \in Records
    BY RecordUpdates DEF Accept, Typed, TypeOK, Shape, HasTarget, HasEvent, HasRecord, AfterReceive, PCs, Goto
  <1> QED  BY <1>1 DEF Accept, Put, files, local, env, Typed, TypeOK, Shape, HasTarget, HasEvent, HasRecord, AfterReceive, PCs, Goto
LEMMA LoadTyped ==
    ASSUME Typed, NEW p \in Procs, Load(p)
    PROVE  Typed'
  <1>1. store[target[p]] \in Records /\ store[target[p]].pending \in Events
    BY DEF Load, Records, Typed, TypeOK, Shape, HasTarget, HasEvent, HasRecord, AfterReceive, PCs, Goto
  <1> QED  BY <1>1 DEF Load, Get, files, env, Typed, TypeOK, Shape, HasTarget, HasEvent, HasRecord, AfterReceive, PCs, Goto
LEMMA BeginTyped ==
    ASSUME Typed, NEW p \in Procs, Begin(p)
    PROVE  Typed'
  <1>1. [rec[p] EXCEPT !.state = "AUDITING"] \in Records
    BY RecordUpdates DEF Begin, Typed, TypeOK, Shape, HasTarget, HasEvent, HasRecord, AfterReceive, PCs, Goto
  <1> QED  BY <1>1 DEF Begin, Put, files, local, env, Typed, TypeOK, Shape, HasTarget, HasEvent, HasRecord, AfterReceive, PCs, Goto
LEMMA GateTyped ==
    ASSUME Typed, NEW p \in Procs, Gate(p)
    PROVE  Typed'
  <1> DEFINE r == store[target[p]]
  <1>0. pc[p] = "gate"
    BY DEF Gate, Stop, Goto
  <1>1. r \in Records /\ ev[p] \in Events /\ ev[p].attempt \in Nat
    <2>1. r \in Records
      BY <1>0 DEF Typed, Shape, AfterReceive, HasTarget, PCs
    <2>2. ev[p] \in Events
      BY <1>0 DEF Typed, Shape, HasEvent, HasTarget, PCs
    <2>3. ev[p].attempt \in Nat
      BY <2>2
    <2> QED  BY <2>1, <2>2, <2>3
  <1>2. Decided(r, ev[p], "HUMAN_REQUIRED") \in Records
    BY <1>1, DecidedType DEF States, Terminal
  <1>3. PICK q \in Records, to \in {"finalize", "packet", "verified"} :
           /\ Get(p, q) /\ Goto(p, "gate", to)
           /\ to = "packet" => ev[p].attempt + 1 <= MaxAttempts
    BY <1>1, <1>2 DEF Gate, Stop
  <1> QED  BY <1>1, <1>3 DEF Gate, Get, files, env, Typed, TypeOK, Shape, HasTarget, HasEvent, HasRecord, AfterReceive, PCs, Goto
LEMMA VerifiedTyped ==
    ASSUME Typed, NEW p \in Procs, Verified(p)
    PROVE  Typed'
  <1> DEFINE r == store[target[p]]
  <1>1. r \in Records /\ ev[p] \in Events
    BY DEF Verified, Typed, TypeOK, Shape, HasTarget, HasEvent, HasRecord, AfterReceive, PCs, Goto
  <1>2. Decided(r, ev[p], "PASSED") \in Records
    BY <1>1, DecidedType DEF States, Terminal
  <1>3. PICK q \in Records, to \in {"finalize", "activating"} :
           Get(p, q) /\ Goto(p, "verified", to)
    BY <1>1, <1>2 DEF Verified
  <1> QED  BY <1>1, <1>3 DEF Verified, Get, files, env, Typed, TypeOK, Shape, HasTarget, HasEvent, HasRecord, AfterReceive, PCs, Goto
LEMMA ActivatingTyped ==
    ASSUME Typed, NEW p \in Procs, Activating(p)
    PROVE  Typed'
  <1>1. [rec[p] EXCEPT !.state = "CYCLE_ACTIVATING"] \in Records
    BY RecordUpdates DEF Activating, Typed, TypeOK, Shape, HasTarget, HasEvent, HasRecord, AfterReceive, PCs, Goto
  <1> QED  BY <1>1 DEF Activating, Put, files, local, env, Typed, TypeOK, Shape, HasTarget, HasEvent, HasRecord, AfterReceive, PCs, Goto
LEMMA ApplyReworkTyped ==
    ASSUME Typed, NEW p \in Procs, ApplyRework(p)
    PROVE  Typed'
  <1> DEFINE n == ev[p].attempt + 1
             ws == target[p]
             i == rec[p].issue
             landed == [gh EXCEPT ![ws][i].attempt = n]
  <1>0. /\ rec[p] \in Records /\ ev[p] \in Events /\ ws \in Workstreams
        /\ ev[p].attempt + 1 <= MaxAttempts
    BY DEF ApplyRework, Typed, TypeOK, Shape, HasTarget, HasEvent, HasRecord, AfterReceive, PCs, Goto
  <1>1. i \in Issues /\ n \in 0..MaxAttempts
    BY <1>0 DEF Records
  <1>2. landed \in [Workstreams -> [Issues -> Packets]]
    <2>0. ASSUME NEW w \in Workstreams, NEW k \in Issues
          PROVE  gh[w][k] \in Packets
      BY DEF Typed, TypeOK
    <2>1. gh[ws][i] \in Packets
      BY <2>0, <1>0, <1>1
    <2>2. [gh[ws][i] EXCEPT !.attempt = n] \in Packets
      BY <1>1, <2>1 DEF Packets
    <2> HIDE DEF n, ws, i
    <2> QED  BY <1>0, <1>1, <2>2 DEF Typed, TypeOK
  <1>3. /\ Decided(rec[p], ev[p], "HUMAN_REQUIRED") \in Records
        /\ Decided([rec[p] EXCEPT !.attempt = n, !.head = ev[p].head], ev[p],
                   "REWORK_HANDOFF") \in Records
    <2>1. [rec[p] EXCEPT !.attempt = n, !.head = ev[p].head] \in Records
      BY <1>0, <1>1, RecordUpdates
    <2>2. {"HUMAN_REQUIRED", "REWORK_HANDOFF"} \subseteq States
      BY DEF States, Terminal, ReworkOpen
    <2> QED  BY <1>0, <1>1, <2>1, <2>2, DecidedType
  <1>4. PICK q \in Records : Get(p, q) /\ Goto(p, "packet", "finalize")
    BY <1>3 DEF ApplyRework, Stop
  <1>5. gh' \in [Workstreams -> [Issues -> Packets]]
    BY <1>2 DEF ApplyRework, Typed, TypeOK
  <1> HIDE DEF n, ws, i, landed
  <1> QED  BY <1>0, <1>4, <1>5 DEF ApplyRework, Get, files, env, Typed, TypeOK, Shape, HasTarget, HasEvent, HasRecord, AfterReceive, PCs, Goto
LEMMA AdvanceTyped ==
    ASSUME Typed, NEW p \in Procs, Advance(p)
    PROVE  Typed'
  <1> DEFINE ws == target[p]
             i == rec[p].issue
             id == ev[p].id
             G == [Workstreams -> [Issues -> Packets]]
             done == [gh EXCEPT ![ws][i].status = "COMPLETE", ![ws][i].by = id]
  <1>1. /\ ws \in Workstreams /\ i \in Issues /\ id \in EventIds
        /\ pc[p] = "advance" /\ rec[p] \in Records
    BY DEF Advance, Records, EventIds, Typed, TypeOK, Shape, HasTarget, HasEvent, HasRecord, AfterReceive, PCs, Goto
  <1>2. ASSUME NEW w \in Workstreams, NEW k \in Issues
        PROVE  gh[w][k] \in Packets
    BY DEF Typed, TypeOK
  <1>3. done \in G
    <2> HIDE DEF ws, i, id
    <2>1. [gh[ws][i] EXCEPT !.status = "COMPLETE"] \in Packets
      BY <1>1, <1>2 DEF Packets
    <2>2. [[gh[ws][i] EXCEPT !.status = "COMPLETE"] EXCEPT !.by = id] \in Packets
      BY <1>1, <2>1 DEF Packets
    <2>3. [gh EXCEPT ![ws][i].status = "COMPLETE"] \in G
      BY <1>1, <2>1 DEF Typed, TypeOK
    <2> QED  BY <1>1, <2>2, <2>3 DEF Typed, TypeOK
  <1>4. gh \in G
    BY DEF Typed, TypeOK
  <1>5. gh' \in G
    BY <1>3, <1>4 DEF Advance
  <1>6. \/ Goto(p, "advance", "activate") /\ UNCHANGED verdict
        \/ \E kind \in {"no_successor", "human_required"} :
              CycleResult(p, "advance", kind)
        \/ CycleResult(p, "advance", "advanced") /\ i + 1 \in Issues
    BY DEF Advance, HasStatus
  <1>7. UNCHANGED <<store, inbox, archive, claim, target, ev, rec, todo, sends,
                    crashes>>
    BY DEF Advance, files, env
  <1>8. CASE Goto(p, "advance", "activate") /\ UNCHANGED verdict
    <2> HIDE DEF ws, id, done
    <2> QED  BY <1>1, <1>5, <1>7, <1>8 DEF Typed, TypeOK, Shape, HasTarget, HasEvent, HasRecord, AfterReceive, PCs, Goto
  <1>9. ASSUME NEW kind \in {"no_successor", "human_required", "advanced"},
               CycleResult(p, "advance", kind),
               kind = "advanced" => i + 1 \in Issues
        PROVE  Typed'
    <2>1. /\ pc' = [pc EXCEPT ![p] = "settle"]
          /\ verdict' = [verdict EXCEPT ![p] = kind]
          /\ verdict'[p] = "advanced" => i + 1 \in Issues
      BY <1>9 DEF CycleResult, Goto, Typed, TypeOK
    <2> HIDE DEF ws, id, done
    <2> QED  BY <1>1, <1>5, <1>7, <2>1 DEF Typed, TypeOK, Shape, HasTarget, HasEvent, HasRecord, AfterReceive, PCs, Goto
  <1> QED  BY <1>6, <1>8, <1>9
LEMMA ActivateTyped ==
    ASSUME Typed, NEW p \in Procs, Activate(p)
    PROVE  Typed'
  <1> DEFINE ws == target[p]
             i == rec[p].issue + 1
             id == ev[p].id
             G == [Workstreams -> [Issues -> Packets]]
             active == [gh EXCEPT ![ws][i].status = "ACTIVE", ![ws][i].by = id]
  <1>1. /\ ws \in Workstreams /\ id \in EventIds
        /\ pc[p] = "activate" /\ rec[p] \in Records
    BY DEF Activate, EventIds, Typed, TypeOK, Shape, HasTarget, HasEvent, HasRecord, AfterReceive, PCs, Goto
  <1>2. ASSUME NEW w \in Workstreams, NEW k \in Issues
        PROVE  gh[w][k] \in Packets
    BY DEF Typed, TypeOK
  <1>3. i \in Issues => active \in G
    <2> HIDE DEF ws, i, id
    <2> HAVE i \in Issues
    <2>1. [gh[ws][i] EXCEPT !.status = "ACTIVE"] \in Packets
      BY <1>1, <1>2 DEF Packets
    <2>2. [[gh[ws][i] EXCEPT !.status = "ACTIVE"] EXCEPT !.by = id] \in Packets
      BY <1>1, <2>1 DEF Packets
    <2>3. [gh EXCEPT ![ws][i].status = "ACTIVE"] \in G
      BY <1>1, <2>1 DEF Typed, TypeOK
    <2> QED  BY <1>1, <2>2, <2>3 DEF Typed, TypeOK
  <1>4. gh \in G
    BY DEF Typed, TypeOK
  <1>5. \/ /\ i \in Issues /\ gh' = active
           /\ \E kind \in {"advanced", "human_required"} :
                 CycleResult(p, "activate", kind)
        \/ CycleResult(p, "activate", "human_required") /\ gh' = gh
    BY DEF Activate, HasStatus
  <1>6. gh' \in G
    BY <1>3, <1>4, <1>5
  <1>7. \E kind \in {"advanced", "human_required"} :
           /\ CycleResult(p, "activate", kind)
           /\ kind = "advanced" => rec[p].issue + 1 \in Issues
    BY <1>5
  <1>8. /\ \E kind \in {"advanced", "human_required"} :
              verdict' = [verdict EXCEPT ![p] = kind]
        /\ verdict'[p] = "advanced" => rec[p].issue + 1 \in Issues
    BY <1>7 DEF CycleResult, Typed, TypeOK
  <1>9. pc' = [pc EXCEPT ![p] = "settle"]
    BY <1>7 DEF CycleResult, Goto
  <1>10. UNCHANGED <<store, inbox, archive, claim, target, ev, rec, todo, sends,
                     crashes>>
    BY DEF Activate, files, env
  <1> HIDE DEF ws, id, active
  <1> QED  BY <1>1, <1>6, <1>8, <1>9, <1>10 DEF Typed, TypeOK, Shape, HasTarget, HasEvent, HasRecord, AfterReceive, PCs, Goto
LEMMA SettleTyped ==
    ASSUME Typed, NEW p \in Procs, Settle(p)
    PROVE  Typed'
  <1> DEFINE r == store[target[p]]
  <1>0. pc[p] = "settle"
    BY DEF Settle, Stop, Goto
  <1>1. r \in Records /\ ev[p] \in Events
    BY <1>0 DEF Typed, TypeOK, Shape, HasTarget, HasEvent, HasRecord, AfterReceive, PCs, Goto
  <1>2. {"HUMAN_REQUIRED", "PASSED", "SUCCESSOR_HANDOFF"} \subseteq States
    BY DEF States, Terminal, SuccessorOpen
  <1>3. \A s \in States : Decided(r, ev[p], s) \in Records
    BY <1>1, DecidedType
  <1>4. verdict[p] = "advanced" =>
           Decided([r EXCEPT !.issue = rec[p].issue + 1, !.attempt = 0,
                             !.head = ev[p].head],
                   ev[p], "SUCCESSOR_HANDOFF") \in Records
    <2> HAVE verdict[p] = "advanced"
    <2>1. rec[p].issue + 1 \in Issues
      BY <1>0 DEF Typed, Shape
    <2>2. [r EXCEPT !.issue = rec[p].issue + 1, !.attempt = 0,
                    !.head = ev[p].head] \in Records
      BY <1>1, <2>1, RecordUpdates
    <2> QED  BY <1>1, <1>2, <2>2, DecidedType
  <1>5. PICK q \in Records : Get(p, q) /\ Goto(p, "settle", "finalize")
    BY <1>2, <1>3, <1>4 DEF Settle, Stop
  <1> QED  BY <1>1, <1>5 DEF Settle, Get, files, env, Typed, TypeOK, Shape, HasTarget, HasEvent, HasRecord, AfterReceive, PCs, Goto
LEMMA StartReconcileTyped ==
    ASSUME Typed, NEW p \in Procs, NEW ws \in Workstreams, StartReconcile(p, ws)
    PROVE  Typed'
  <1> DEFINE r == store[ws]
  <1>1. r \in Records /\ r.pending \in Events
    BY DEF StartReconcile, Typed, TypeOK, Records
  <1>2. Decided(r, r.pending, "HUMAN_REQUIRED") \in Records
    BY <1>1, DecidedType DEF States, Terminal
  <1>3. CASE UNCHANGED <<ev, rec>> /\ \E to \in {"load", "retire"} :
                Goto(p, "idle", to)
    BY <1>1, <1>3 DEF StartReconcile, files, env, Typed, TypeOK, Shape, HasTarget, HasEvent, HasRecord, AfterReceive, PCs, Goto
  <1>4. CASE /\ Goto(p, "idle", "finalize")
             /\ ev' = [ev EXCEPT ![p] = r.pending]
             /\ Get(p, Decided(r, r.pending, "HUMAN_REQUIRED"))
    BY <1>1, <1>2, <1>4 DEF StartReconcile, Get, files, env, Typed, TypeOK, Shape, HasTarget, HasEvent, HasRecord, AfterReceive, PCs, Goto
  <1> QED  BY <1>3, <1>4 DEF StartReconcile
LEMMA RetireTyped ==
    ASSUME Typed, NEW p \in Procs, Retire(p)
    PROVE  Typed'
  <1> DEFINE r == store[target[p]]
  <1>1. r \in Records /\ r.pending \in Events
    BY DEF Retire, Records, Typed, TypeOK, Shape, HasTarget, HasEvent, HasRecord, AfterReceive, PCs, Goto
  <1>2. Decided(r, r.pending, "HUMAN_REQUIRED") \in Records
    BY <1>1, DecidedType DEF States, Terminal
  <1> HIDE DEF r
  <1> QED  BY <1>1, <1>2 DEF r, Retire, Get, files, env, Typed, TypeOK, Shape, HasTarget, HasEvent, HasRecord, AfterReceive, PCs, Goto
LEMMA RegisterTyped ==
    ASSUME Typed, NEW p \in Procs, Register(p)
    PROVE  Typed'
  <1>1. rec[p] \in Records /\ target[p] \in Workstreams
    BY DEF Register, Typed, TypeOK, Shape, HasTarget, HasEvent, HasRecord, AfterReceive, PCs, Goto
  <1> QED  BY <1>1 DEF Register, Put, Leave, env, Typed, TypeOK, Shape, HasTarget, HasEvent, HasRecord, AfterReceive, PCs, Goto
LEMMA EnqueueTyped ==
    ASSUME Typed, NEW e \in Events, Enqueue(e)
    PROVE  Typed'
  BY DEF Enqueue, local, Typed, TypeOK, Shape, HasTarget, HasEvent, HasRecord, AfterReceive, PCs, Goto
LEMMA QueueTyped ==
    ASSUME Typed, NEW ws \in Workstreams, NEW i \in Issues, Queue(ws, i)
    PROVE  Typed'
  <1>0. gh[ws][i] \in Packets
    BY DEF Typed, TypeOK
  <1>1. [gh[ws][i] EXCEPT !.status = "QUEUED"] \in Packets
    BY <1>0 DEF Packets
  <1> QED  BY <1>1 DEF Queue, files, local, env, Typed, TypeOK, Shape, HasTarget, HasEvent, HasRecord, AfterReceive, PCs, Goto

\* A step of a process, or of the environment, keeps the types.
LEMMA StepTyped == Typed /\ [Next]_vars => Typed'
  <1> SUFFICES ASSUME Typed, [Next]_vars PROVE Typed'
    OBVIOUS
  <1>1. CASE UNCHANGED vars
    BY <1>1 DEF vars, Typed, TypeOK, Shape
  <1>2. ASSUME NEW p \in Procs, Start(p) PROVE Typed'
    BY <1>2, StartDrainTyped, StartHandleTyped, StartReconcileTyped,
       StartRegisterTyped DEF Start
  <1>3. ASSUME NEW p \in Procs, Work(p) PROVE Typed'
    BY <1>3, RegisterTyped, ClaimTyped, DrainDoneTyped, ReplyTyped, MoveTyped,
       ReceiveTyped, RefuseTyped, LockHeadTyped, AcceptTyped, LoadTyped,
       NothingPendingTyped, BeginTyped, AuditTyped, GateTyped,
       ApplyReworkTyped, VerifiedTyped, ActivatingTyped, AdvanceTyped,
       ActivateTyped, SettleTyped, FinalizeTyped, RetireTyped DEF Work
  <1>4. ASSUME NEW p \in Procs, Crash(p) PROVE Typed'
    BY <1>4, CrashTyped
  <1> QED  BY <1>1, <1>2, <1>3, <1>4, EnqueueTyped, QueueTyped DEF Next

LEMMA TypedAlways == Spec => []Typed
  BY TypedInit, StepTyped, PTL DEF Spec

\* Every variable keeps its type, and a process never works on a workstream,
\* an event or a record it does not have (all of WorkController).
THEOREM TypeCorrect == Spec => []TypeOK
  BY TypedAlways, PTL DEF Typed

-----------------------------------------------------------------------------
(* The inbox claim, for any number of concurrent processes *)

NoFile == {"idle", "register", "drain"}

\* A move of one process keeps the claims in order, if the files are left
\* alone and it does not go where no claim is held (unless it holds none).
LEMMA ClaimFrame ==
    ASSUME Typed, OneFilePerDrain, UNCHANGED <<inbox, claim>>,
           NEW p \in Procs, NEW to \in PCs, pc' = [pc EXCEPT ![p] = to],
           to \in NoFile => pc[p] \in NoFile
    PROVE  OneFilePerDrain'
  BY DEF OneFilePerDrain, NoFile, Typed, TypeOK

LEMMA ClaimLeave ==
    ASSUME Typed, OneFilePerDrain, inbox' = inbox, NEW p \in Procs, Leave(p)
    PROVE  OneFilePerDrain'
  BY DEF OneFilePerDrain, Leave, Typed, TypeOK

LEMMA StepClaims == Typed /\ OneFilePerDrain /\ [Next]_vars => OneFilePerDrain'
  <1> SUFFICES ASSUME Typed, OneFilePerDrain, [Next]_vars
               PROVE  OneFilePerDrain'
    OBVIOUS
  <1>1. CASE UNCHANGED vars
    BY <1>1 DEF vars, OneFilePerDrain
  <1>2. ASSUME NEW p \in Procs, Start(p) PROVE OneFilePerDrain'
    <2>1. /\ UNCHANGED <<inbox, claim>> /\ pc[p] = "idle"
          /\ \E to \in PCs : pc' = [pc EXCEPT ![p] = to]
      BY <1>2 DEF Start, StartDrain, StartHandle, StartReconcile,
                  StartRegister, Goto, files, PCs
    <2> QED  BY <2>1, ClaimFrame DEF NoFile
  <1>3. ASSUME NEW p \in Procs, Work(p) PROVE OneFilePerDrain'
    <2>1. CASE Register(p) \/ DrainDone(p) \/ Reply(p) \/ Refuse(p)
               \/ NothingPending(p)
      BY <2>1, ClaimLeave
         DEF Register, DrainDone, Reply, Refuse, NothingPending, Raise
    <2>2. CASE Claim(p)
      <3> DEFINE e == NextFile(todo[p])
      <3>1. CASE e \in inbox /\ \A q \in Procs : claim[q] # e
        <4>1. /\ claim' = [claim EXCEPT ![p] = e] /\ inbox' = inbox
              /\ pc[p] = "drain" /\ pc' = [pc EXCEPT ![p] = "receive"]
              /\ e \in Events
          BY <2>2, <3>1 DEF Claim, Goto, Typed, TypeOK
        <4> HIDE DEF e
        <4> QED  BY <3>1, <4>1 DEF OneFilePerDrain, Typed, TypeOK
      <3>2. CASE ~(e \in inbox /\ \A q \in Procs : claim[q] # e)
        BY <2>2, <3>2 DEF Claim, OneFilePerDrain
      <3> QED  BY <3>1, <3>2
    <2>3. CASE Move(p)
      BY <2>3 DEF Move, Goto, OneFilePerDrain, Typed, TypeOK
    <2>4. CASE Receive(p) \/ LockHead(p) \/ Accept(p) \/ Load(p) \/ Begin(p)
               \/ Audit(p) \/ Gate(p) \/ ApplyRework(p) \/ Verified(p)
               \/ Activating(p)
      <3>1. UNCHANGED <<inbox, claim>>
        BY <2>4 DEF Receive, LockHead, Accept, Load, Begin, Audit, Gate,
                    ApplyRework, Verified, Activating, files
      <3>2. \E to \in PCs \ NoFile : pc' = [pc EXCEPT ![p] = to]
        BY <2>4 DEF Receive, LockHead, Accept, Load, Begin, Audit, Gate, Stop,
                    ApplyRework, Verified, Activating, Goto, PCs, NoFile
      <3> QED  BY <3>1, <3>2, ClaimFrame
    <2>5. CASE Advance(p) \/ Activate(p) \/ Settle(p) \/ Finalize(p)
               \/ Retire(p)
      <3>1. UNCHANGED <<inbox, claim>>
        BY <2>5 DEF Advance, Activate, Settle, Finalize, Retire, files
      <3>2. \E to \in PCs \ NoFile : pc' = [pc EXCEPT ![p] = to]
        BY <2>5 DEF Advance, Activate, Settle, Finalize, Retire, CycleResult,
                    Stop, Goto, PCs, NoFile
      <3> QED  BY <3>1, <3>2, ClaimFrame
    <2> QED  BY <1>3, <2>1, <2>2, <2>3, <2>4, <2>5 DEF Work
  <1>4. ASSUME NEW p \in Procs, Crash(p) PROVE OneFilePerDrain'
    BY <1>4, ClaimLeave DEF Crash
  <1>5. ASSUME NEW e \in Events, Enqueue(e) PROVE OneFilePerDrain'
    BY <1>5 DEF Enqueue, OneFilePerDrain
  <1>6. ASSUME NEW ws \in Workstreams, NEW i \in Issues, Queue(ws, i)
        PROVE  OneFilePerDrain'
    BY <1>6 DEF Queue, files, OneFilePerDrain
  <1> QED  BY <1>1, <1>2, <1>3, <1>4, <1>5, <1>6 DEF Next

\* However many processes drain the inbox, and whichever dies: a claimed file
\* is in the inbox, and its owner works on no other file.
THEOREM ClaimsAreExclusive == Spec => []OneFilePerDrain
  <1>1. Init => OneFilePerDrain
    BY DEF Init, OneFilePerDrain
  <1> QED  BY <1>1, StepClaims, TypedAlways, PTL DEF Spec

-----------------------------------------------------------------------------
(***************************************************************************)
(* One process at a time.  The code takes no lock between reading a record *)
(* and storing it, so the theorems that follow are about controllers of    *)
(* which one runs at a time; it may die and be started again at any point. *)
(***************************************************************************)

Solo == \A p, q \in Procs : p = q

InFlight == {"begin", "audit", "gate", "packet", "verified", "activating",
             "advance", "activate", "settle", "finalize"}

\* How the process's local copy relates to the stored record.
InStep(p) ==
    LET r == store[target[p]] IN
    /\ pc[p] = "register" =>
          /\ store[target[p]] = None
          /\ rec[p].processed = {} /\ rec[p].pending = None
          /\ rec[p].state = "IDLE"
    /\ pc[p] \in HasEvent => ev[p].ws = target[p]
    /\ pc[p] \in {"lock_head", "accept"} =>
          /\ ev[p].id \notin r.processed
          /\ r.pending = None /\ r.state \notin Terminal
          /\ rec[p].processed = r.processed
          /\ rec[p].pending = r.pending /\ rec[p].state = r.state
    /\ pc[p] \in {"load", "retire"} => r.pending # None
    /\ pc[p] \in InFlight => r.pending = ev[p]
    /\ pc[p] \in {"begin", "packet", "activating"} => rec[p] = r
    /\ pc[p] = "finalize" =>
          /\ rec[p].pending = None
          /\ rec[p].processed = r.processed \union {ev[p].id}
          /\ rec[p].state \notin Unfinished \union Historical
    /\ pc[p] = "reply" => ev[p].id \in r.processed
    /\ claim[p] # None =>
          /\ pc[p] # "retire"
          /\ IF pc[p] = "load" THEN r.pending = claim[p] ELSE ev[p] = claim[p]

OwnEvents ==
    \A ws \in Workstreams :
        store[ws] # None /\ store[ws].pending # None =>
            store[ws].pending.ws = ws

SoloInv ==
    /\ PendingIsUndecided
    /\ ArchivedWasDecided
    /\ OwnEvents
    /\ \A p \in Procs : InStep(p)

USE InitialRecordsAssumption DEF InitialRecordsAssumption

LEMMA SoloInit == Init => SoloInv
  <1> SUFFICES ASSUME Init PROVE SoloInv
    OBVIOUS
  <1>1. PendingIsUndecided /\ OwnEvents /\ ArchivedWasDecided
    BY DEF Init, PendingIsUndecided, OwnEvents, ArchivedWasDecided
  <1>2. ASSUME NEW p \in Procs PROVE InStep(p)
    BY DEF Init, InStep, HasEvent, HasTarget, InFlight
  <1> QED  BY <1>1, <1>2 DEF SoloInv

\* A step that stores nothing.
LEMMA SoloLocal ==
    ASSUME SoloInv, Solo, NEW p \in Procs, UNCHANGED <<store, archive>>,
           InStep(p)'
    PROVE  SoloInv'
  <1>1. ASSUME NEW q \in Procs PROVE InStep(q)'
    BY DEF Solo
  <1> QED
    BY <1>1 DEF SoloInv, PendingIsUndecided, ArchivedWasDecided, OwnEvents

LEMMA SoloLeave ==
    ASSUME Typed, SoloInv, Solo, NEW p \in Procs, Leave(p),
           UNCHANGED <<store, archive>>
    PROVE  SoloInv'
  <1>1. pc'[p] = "idle" /\ claim'[p] = None
    BY DEF Leave, Typed, TypeOK
  <1>2. InStep(p)'
    BY <1>1 DEF InStep, HasEvent, HasTarget, InFlight
  <1> QED  BY <1>2, SoloLocal

\* A step that stores a record which forgets no decision.
LEMMA SoloPut ==
    ASSUME Typed, SoloInv, Solo, NEW p \in Procs, NEW ws \in Workstreams,
           NEW r \in Records, store' = [store EXCEPT ![ws] = r],
           archive' = archive, Consistent(r), r.pending # None => r.pending.ws = ws,
           store[ws] # None => store[ws].processed \subseteq r.processed,
           InStep(p)'
    PROVE  SoloInv'
  <1>1. ASSUME NEW q \in Procs PROVE InStep(q)'
    BY DEF Solo
  <1>2. PendingIsUndecided' /\ OwnEvents'
    BY DEF SoloInv, PendingIsUndecided, OwnEvents, Consistent, Typed, TypeOK
  <1>3. ArchivedWasDecided'
    <2> SUFFICES ASSUME NEW e \in archive
                 PROVE  store'[e.ws] # None /\ e.id \in store'[e.ws].processed
      BY DEF ArchivedWasDecided
    <2>1. e.ws \in Workstreams /\ store[e.ws] # None
          /\ e.id \in store[e.ws].processed
      BY DEF SoloInv, ArchivedWasDecided, Typed, TypeOK
    <2> QED  BY <2>1 DEF Typed, TypeOK
  <1> QED  BY <1>1, <1>2, <1>3 DEF SoloInv

LEMMA DecidedFields ==
    \A r \in Records, e \in Events, s \in States :
        /\ Decided(r, e, s).pending = None
        /\ Decided(r, e, s).processed = r.processed \union {e.id}
        /\ Decided(r, e, s).state = s
  BY DEF Decided, Records

\* A process that is idle, or listing, owns no file.
LEMMA NoClaim ==
    ASSUME OneFilePerDrain, NEW p \in Procs, pc[p] \in NoFile
    PROVE  claim[p] = None
  BY DEF OneFilePerDrain, NoFile

LEMMA StartRegisterSolo ==
    ASSUME Typed, OneFilePerDrain, SoloInv, Solo, NEW p \in Procs, NEW ws \in Workstreams, NEW h \in Heads, StartRegister(p, ws, h)
    PROVE  SoloInv'
  <1>1. UNCHANGED <<store, archive, claim>> /\ pc'[p] = "register"
        /\ target'[p] = ws /\ rec'[p] = NewRecord(1, h) /\ store[ws] = None
    BY DEF StartRegister, Goto, Get, files, Typed, TypeOK
  <1>2. claim[p] = None
    BY NoClaim DEF StartRegister, Goto, NoFile
  <1>3. InStep(p)'
    BY <1>1, <1>2 DEF InStep, NewRecord, HasEvent, HasTarget, InFlight
  <1> QED  BY <1>1, <1>3, SoloLocal

LEMMA StartHandleSolo ==
    ASSUME Typed, OneFilePerDrain, SoloInv, Solo, NEW p \in Procs, NEW e \in Events, StartHandle(p, e)
    PROVE  SoloInv'
  <1>1. UNCHANGED <<store, archive, claim>> /\ pc'[p] = "receive"
        /\ target'[p] = e.ws /\ ev'[p] = e
    BY DEF StartHandle, Goto, files, Typed, TypeOK
  <1>2. claim[p] = None
    BY NoClaim DEF StartHandle, Goto, NoFile
  <1>3. InStep(p)'
    BY <1>1, <1>2 DEF InStep, HasEvent, HasTarget, InFlight
  <1> QED  BY <1>1, <1>3, SoloLocal

LEMMA StartDrainSolo ==
    ASSUME Typed, OneFilePerDrain, SoloInv, Solo, NEW p \in Procs, StartDrain(p)
    PROVE  SoloInv'
  <1>1. UNCHANGED <<store, archive, claim>> /\ pc'[p] = "drain"
    BY DEF StartDrain, Goto, files, Typed, TypeOK
  <1>2. claim[p] = None
    BY NoClaim DEF StartDrain, Goto, NoFile
  <1>3. InStep(p)'
    BY <1>1, <1>2 DEF InStep, HasEvent, HasTarget, InFlight
  <1> QED  BY <1>1, <1>3, SoloLocal

LEMMA StartReconcileSolo ==
    ASSUME Typed, OneFilePerDrain, SoloInv, Solo, NEW p \in Procs, NEW ws \in Workstreams, StartReconcile(p, ws)
    PROVE  SoloInv'
  <1> DEFINE r == store[ws]
  <1>1. /\ UNCHANGED <<store, archive, claim>> /\ target'[p] = ws
        /\ r \in Records /\ r.pending \in Events /\ r.pending.ws = ws
    BY DEF StartReconcile, files, Records, SoloInv, OwnEvents, Typed, TypeOK
  <1>2. claim[p] = None
    BY NoClaim DEF StartReconcile, Goto, NoFile
  <1>3. ASSUME pc'[p] \in {"load", "retire"} PROVE InStep(p)'
    BY <1>1, <1>2, <1>3 DEF InStep, HasEvent, HasTarget, InFlight
  <1>4. ASSUME /\ pc'[p] = "finalize" /\ ev'[p] = r.pending
               /\ rec'[p] = Decided(r, r.pending, "HUMAN_REQUIRED")
        PROVE  InStep(p)'
    <2>1. /\ rec'[p].pending = None
          /\ rec'[p].processed = r.processed \union {r.pending.id}
          /\ rec'[p].state \notin Unfinished \union Historical
      BY <1>1, <1>4, DecidedFields DEF States, Terminal, Unfinished, Historical
    <2> QED  BY <1>1, <1>2, <1>4, <2>1 DEF InStep, HasEvent, HasTarget, InFlight
  <1>5. pc'[p] \in {"load", "retire"} \/
        /\ pc'[p] = "finalize" /\ ev'[p] = r.pending
        /\ rec'[p] = Decided(r, r.pending, "HUMAN_REQUIRED")
    BY DEF StartReconcile, Goto, Get, Typed, TypeOK
  <1> QED  BY <1>1, <1>3, <1>4, <1>5, SoloLocal

LEMMA ClaimSolo ==
    ASSUME Typed, OneFilePerDrain, SoloInv, Solo, NEW p \in Procs, Claim(p)
    PROVE  SoloInv'
  <1> DEFINE e == NextFile(todo[p])
  <1>0. UNCHANGED <<store, archive>> /\ pc[p] = "drain"
    BY DEF Claim
  <1>1. CASE e \in inbox /\ \A q \in Procs : claim[q] # e
    <2>1. /\ e \in Events /\ claim' = [claim EXCEPT ![p] = e]
          /\ ev'[p] = e /\ target'[p] = e.ws /\ pc'[p] = "receive"
      BY <1>1 DEF Claim, Goto, Typed, TypeOK
    <2>2. claim[p] = None
      BY <1>0, NoClaim DEF NoFile
    <2> HIDE DEF e
    <2>3. InStep(p)'
      BY <2>1, <2>2 DEF InStep, HasEvent, HasTarget, InFlight, Typed, TypeOK
    <2> QED  BY <1>0, <2>3, SoloLocal
  <1>2. CASE ~(e \in inbox /\ \A q \in Procs : claim[q] # e)
    <2>1. UNCHANGED <<claim, ev, target, pc, rec>>
      BY <1>2 DEF Claim
    <2>2. InStep(p)'
      BY <1>0, <2>1 DEF InStep, SoloInv
    <2> QED  BY <1>0, <2>2, SoloLocal
  <1> QED  BY <1>1, <1>2

LEMMA DrainDoneSolo ==
    ASSUME Typed, OneFilePerDrain, SoloInv, Solo, NEW p \in Procs, DrainDone(p)
    PROVE  SoloInv'
  BY SoloLeave DEF DrainDone, Raise

LEMMA ReplySolo ==
    ASSUME Typed, OneFilePerDrain, SoloInv, Solo, NEW p \in Procs, Reply(p)
    PROVE  SoloInv'
  BY SoloLeave DEF Reply, Raise

LEMMA RefuseSolo ==
    ASSUME Typed, OneFilePerDrain, SoloInv, Solo, NEW p \in Procs, Refuse(p)
    PROVE  SoloInv'
  BY SoloLeave DEF Refuse, Raise

LEMMA NothingPendingSolo ==
    ASSUME Typed, OneFilePerDrain, SoloInv, Solo, NEW p \in Procs, NothingPending(p)
    PROVE  SoloInv'
  BY SoloLeave DEF NothingPending, Raise

LEMMA CrashSolo ==
    ASSUME Typed, OneFilePerDrain, SoloInv, Solo, NEW p \in Procs, Crash(p)
    PROVE  SoloInv'
  BY SoloLeave DEF Crash

LEMMA MoveSolo ==
    ASSUME Typed, OneFilePerDrain, SoloInv, Solo, NEW p \in Procs, Move(p)
    PROVE  SoloInv'
  <1> DEFINE e == claim[p]
  <1>1. /\ pc[p] = "reply" /\ pc'[p] = "drain" /\ store' = store
        /\ archive' = archive \union {e} /\ claim[p] = e /\ e \in Events
        /\ claim' = [claim EXCEPT ![p] = None]
    BY DEF Move, Goto, Typed, TypeOK
  <1>2. /\ ev[p] = e /\ e.id \in store[target[p]].processed
        /\ e.ws = target[p] /\ store[e.ws] # None
    <2>1. target[p] \in Workstreams /\ store[target[p]] \in Records
      BY <1>1 DEF Typed, TypeOK, Shape, HasTarget, HasEvent, HasRecord, AfterReceive, PCs
    <2>2. /\ ev[p] = e /\ e.id \in store[target[p]].processed
          /\ e.ws = target[p]
      BY <1>1 DEF SoloInv, InStep, HasEvent, HasTarget, PCs
    <2> QED  BY <2>1, <2>2
  <1>3. claim'[p] = None
    BY <1>1 DEF OneFilePerDrain, Typed, TypeOK
  <1>4. InStep(p)'
    BY <1>1, <1>3 DEF InStep, HasEvent, HasTarget, InFlight
  <1>5. ASSUME NEW q \in Procs PROVE InStep(q)'
    BY <1>4 DEF Solo
  <1>6. PendingIsUndecided' /\ OwnEvents' /\ ArchivedWasDecided'
    BY <1>1, <1>2 DEF SoloInv, PendingIsUndecided, OwnEvents, ArchivedWasDecided
  <1> QED  BY <1>5, <1>6 DEF SoloInv

LEMMA ReceiveSolo ==
    ASSUME Typed, OneFilePerDrain, SoloInv, Solo, NEW p \in Procs, Receive(p)
    PROVE  SoloInv'
  <1> DEFINE r == store[target[p]]
  <1>1. /\ UNCHANGED <<store, archive, claim, target, ev>> /\ pc[p] = "receive"
        /\ ev[p].ws = target[p] /\ ev[p] \in Events /\ r \in Records
        /\ claim[p] # None => ev[p] = claim[p]
    BY DEF Receive, Goto, files, SoloInv, InStep, Typed, TypeOK, Shape, HasTarget, HasEvent, HasRecord, AfterReceive, PCs
  <1>2. Consistent(r)
    BY <1>1 DEF SoloInv, PendingIsUndecided, Typed, TypeOK, Shape, HasTarget, HasEvent, HasRecord, AfterReceive, PCs
  <1>3. ASSUME ev[p].id \in r.processed, pc'[p] = "reply" PROVE InStep(p)'
    BY <1>1, <1>3 DEF InStep, HasEvent, HasTarget, InFlight
  <1>4. ASSUME ev[p].id \notin r.processed, Acceptable(r, ev[p]),
               pc'[p] \in {"accept", "lock_head"},
               rec'[p] \in {r, [r EXCEPT !.head = ev[p].head]}
        PROVE  InStep(p)'
    <2>1. r.pending = None /\ r.state \notin Terminal
      BY <1>2, <1>4 DEF Consistent, Acceptable, Unfinished, Historical,
                        SuccessorOpen, ReworkOpen
    <2>2. /\ rec'[p].processed = r.processed /\ rec'[p].pending = r.pending
          /\ rec'[p].state = r.state
      BY <1>1, <1>4 DEF Records
    <2> QED  BY <1>1, <1>4, <2>1, <2>2 DEF InStep, HasEvent, HasTarget, InFlight
  <1>5. \/ ev[p].id \in r.processed /\ pc'[p] = "reply"
        \/ /\ ev[p].id \notin r.processed /\ Acceptable(r, ev[p])
           /\ pc'[p] \in {"accept", "lock_head"}
           /\ rec'[p] \in {r, [r EXCEPT !.head = ev[p].head]}
    BY DEF Receive, Goto, Get, Typed, TypeOK
  <1> QED  BY <1>1, <1>3, <1>4, <1>5, SoloLocal

LEMMA LockHeadSolo ==
    ASSUME Typed, OneFilePerDrain, SoloInv, Solo, NEW p \in Procs, LockHead(p)
    PROVE  SoloInv'
  <1> DEFINE r == store[target[p]]
  <1>1. /\ store' = [store EXCEPT ![target[p]] = rec[p]] /\ pc[p] = "lock_head"
        /\ UNCHANGED <<archive, claim, target, ev, rec>> /\ pc'[p] = "accept"
        /\ target[p] \in Workstreams /\ rec[p] \in Records /\ r \in Records
    BY DEF LockHead, Put, Goto, files, local, Typed, TypeOK, Shape, HasTarget, HasEvent, HasRecord, AfterReceive, PCs
  <1>2. /\ ev[p].id \notin r.processed /\ ev[p].ws = target[p]
        /\ r.pending = None /\ r.state \notin Terminal
        /\ rec[p].processed = r.processed
        /\ rec[p].pending = r.pending /\ rec[p].state = r.state
        /\ claim[p] # None => ev[p] = claim[p]
    BY <1>1 DEF SoloInv, InStep, HasEvent, HasTarget, PCs
  <1>3. store'[target[p]] = rec[p]
    BY <1>1 DEF Typed, TypeOK
  <1>4. InStep(p)'
    BY <1>1, <1>2, <1>3 DEF InStep, InFlight
  <1>5. Consistent(rec[p])
    BY <1>1, <1>2 DEF SoloInv, PendingIsUndecided, Consistent, Typed, TypeOK
  <1> QED  BY <1>1, <1>2, <1>4, <1>5, SoloPut

LEMMA AcceptSolo ==
    ASSUME Typed, OneFilePerDrain, SoloInv, Solo, NEW p \in Procs, Accept(p)
    PROVE  SoloInv'
  <1> DEFINE r == store[target[p]]
             q == [rec[p] EXCEPT !.state = "AWAITING_AUDIT", !.pending = ev[p]]
  <1>1. /\ store' = [store EXCEPT ![target[p]] = q] /\ pc[p] = "accept"
        /\ UNCHANGED <<archive, claim, target, ev, rec>> /\ pc'[p] = "load"
        /\ target[p] \in Workstreams /\ rec[p] \in Records /\ r \in Records
        /\ ev[p] \in Events
    BY DEF Accept, Put, Goto, files, local, Typed, TypeOK, Shape, HasTarget, HasEvent, HasRecord, AfterReceive, PCs
  <1>2. /\ ev[p].id \notin r.processed /\ ev[p].ws = target[p]
        /\ rec[p].processed = r.processed
        /\ claim[p] # None => ev[p] = claim[p]
    BY <1>1 DEF SoloInv, InStep, HasEvent, HasTarget, PCs
  <1>3. /\ q \in Records /\ q.pending = ev[p] /\ q.processed = r.processed
        /\ q.state = "AWAITING_AUDIT"
    BY <1>1, <1>2, RecordUpdates DEF Records
  <1> HIDE DEF q
  <1>4. store'[target[p]] = q
    BY <1>1 DEF Typed, TypeOK
  <1>5. InStep(p)'
    BY <1>1, <1>2, <1>3, <1>4 DEF InStep, InFlight, HasEvent, HasTarget
  <1>6. Consistent(q)
    BY <1>1, <1>2, <1>3 DEF Consistent, Unfinished
  <1> QED  BY <1>1, <1>2, <1>3, <1>5, <1>6, SoloPut

LEMMA LoadSolo ==
    ASSUME Typed, OneFilePerDrain, SoloInv, Solo, NEW p \in Procs, Load(p)
    PROVE  SoloInv'
  <1> DEFINE r == store[target[p]]
  <1>1. /\ UNCHANGED <<store, archive, claim, target>> /\ pc[p] = "load"
        /\ pc'[p] = "begin" /\ rec'[p] = r /\ ev'[p] = r.pending
        /\ r \in Records /\ r.pending \in Events /\ target[p] \in Workstreams
    BY DEF Load, Get, Goto, files, Records, Typed, TypeOK, Shape, HasTarget, HasEvent, HasRecord, AfterReceive, PCs
  <1>2. /\ r.pending.ws = target[p]
        /\ claim[p] # None => r.pending = claim[p]
    BY <1>1 DEF SoloInv, InStep, OwnEvents
  <1>3. InStep(p)'
    BY <1>1, <1>2 DEF InStep, InFlight, HasEvent, HasTarget
  <1> QED  BY <1>1, <1>3, SoloLocal

LEMMA BeginSolo ==
    ASSUME Typed, OneFilePerDrain, SoloInv, Solo, NEW p \in Procs, Begin(p)
    PROVE  SoloInv'
  <1> DEFINE r == store[target[p]]
             q == [rec[p] EXCEPT !.state = "AUDITING"]
  <1>1. /\ store' = [store EXCEPT ![target[p]] = q] /\ pc[p] = "begin"
        /\ UNCHANGED <<archive, claim, target, ev, rec>> /\ pc'[p] = "audit"
        /\ target[p] \in Workstreams /\ rec[p] \in Records /\ ev[p] \in Events
    BY DEF Begin, Put, Goto, files, local, Typed, TypeOK, Shape, HasTarget, HasEvent, HasRecord, AfterReceive, PCs
  <1>2. /\ rec[p] = r /\ r.pending = ev[p] /\ ev[p].ws = target[p]
        /\ claim[p] # None => ev[p] = claim[p]
    BY <1>1 DEF SoloInv, InStep, InFlight, HasEvent, HasTarget, PCs
  <1>3. /\ q \in Records /\ q.pending = ev[p] /\ q.processed = r.processed
        /\ q.state = "AUDITING"
    BY <1>1, <1>2, RecordUpdates DEF Records
  <1>4. Consistent(r)
    BY <1>1, <1>2 DEF SoloInv, PendingIsUndecided
  <1> HIDE DEF q
  <1>5. store'[target[p]] = q
    BY <1>1 DEF Typed, TypeOK
  <1>6. InStep(p)'
    BY <1>1, <1>2, <1>3, <1>5 DEF InStep, InFlight, HasEvent, HasTarget
  <1>7. Consistent(q)
    BY <1>1, <1>2, <1>3, <1>4 DEF Consistent, Unfinished
  <1> QED  BY <1>1, <1>2, <1>3, <1>6, <1>7, SoloPut

LEMMA ActivatingSolo ==
    ASSUME Typed, OneFilePerDrain, SoloInv, Solo, NEW p \in Procs, Activating(p)
    PROVE  SoloInv'
  <1> DEFINE r == store[target[p]]
             q == [rec[p] EXCEPT !.state = "CYCLE_ACTIVATING"]
  <1>1. /\ store' = [store EXCEPT ![target[p]] = q] /\ pc[p] = "activating"
        /\ UNCHANGED <<archive, claim, target, ev, rec>> /\ pc'[p] = "advance"
        /\ target[p] \in Workstreams /\ rec[p] \in Records /\ ev[p] \in Events
    BY DEF Activating, Put, Goto, files, local, Typed, TypeOK, Shape, HasTarget, HasEvent, HasRecord, AfterReceive, PCs
  <1>2. /\ rec[p] = r /\ r.pending = ev[p] /\ ev[p].ws = target[p]
        /\ claim[p] # None => ev[p] = claim[p]
    BY <1>1 DEF SoloInv, InStep, InFlight, HasEvent, HasTarget, PCs
  <1>3. /\ q \in Records /\ q.pending = ev[p] /\ q.processed = r.processed
        /\ q.state = "CYCLE_ACTIVATING"
    BY <1>1, <1>2, RecordUpdates DEF Records
  <1>4. Consistent(r)
    BY <1>1, <1>2 DEF SoloInv, PendingIsUndecided
  <1> HIDE DEF q
  <1>5. store'[target[p]] = q
    BY <1>1 DEF Typed, TypeOK
  <1>6. InStep(p)'
    BY <1>1, <1>2, <1>3, <1>5 DEF InStep, InFlight, HasEvent, HasTarget
  <1>7. Consistent(q)
    BY <1>1, <1>2, <1>3, <1>4 DEF Consistent, Unfinished
  <1> QED  BY <1>1, <1>2, <1>3, <1>6, <1>7, SoloPut

Handoffs == {"PASSED", "HUMAN_REQUIRED", "REWORK_HANDOFF", "SUCCESSOR_HANDOFF"}

\* The steps between the put of AUDITING and the last put: the process keeps
\* its event, and what it copies is the stored record.
LEMMA InFlightFrame ==
    ASSUME Typed, SoloInv, Solo, NEW p \in Procs, pc[p] \in InFlight,
           pc'[p] \in InFlight \ {"begin"},
           UNCHANGED <<store, archive, claim, target, ev>>,
           pc'[p] \in {"packet", "activating"} => rec'[p] = store[target[p]],
           pc'[p] = "finalize" =>
              \E x \in Records, s \in Handoffs :
                 /\ x.processed = store[target[p]].processed
                 /\ rec'[p] = Decided(x, ev[p], s)
    PROVE  SoloInv'
  <1>1. /\ store[target[p]].pending = ev[p] /\ ev[p].ws = target[p]
        /\ ev[p] \in Events
        /\ claim[p] # None => ev[p] = claim[p]
    BY DEF SoloInv, InStep, InFlight, Typed, TypeOK, Shape, HasTarget, HasEvent, HasRecord, AfterReceive, PCs
  <1>2. pc'[p] = "finalize" =>
           /\ rec'[p].pending = None
           /\ rec'[p].processed = store[target[p]].processed \union {ev[p].id}
           /\ rec'[p].state \notin Unfinished \union Historical
    <2> SUFFICES ASSUME pc'[p] = "finalize"
                 PROVE  /\ rec'[p].pending = None
                        /\ rec'[p].processed =
                              store[target[p]].processed \union {ev[p].id}
                        /\ rec'[p].state \notin Unfinished \union Historical
      OBVIOUS
    <2>1. PICK x \in Records, s \in Handoffs :
             /\ x.processed = store[target[p]].processed
             /\ rec'[p] = Decided(x, ev[p], s)
      OBVIOUS
    <2>2. s \in States /\ s \notin Unfinished \union Historical
      BY DEF Handoffs, States, Terminal, ReworkOpen, SuccessorOpen,
             Unfinished, Historical
    <2>3. /\ rec'[p].pending = None
          /\ rec'[p].processed = x.processed \union {ev[p].id}
          /\ rec'[p].state = s
      BY <1>1, <2>1, <2>2, DecidedFields
    <2> QED  BY <2>1, <2>2, <2>3
  <1>3. InStep(p)'
    <2>1. /\ pc'[p] \notin {"register", "lock_head", "accept", "load",
                            "retire", "begin", "reply"}
          /\ pc[p] # "load"
      BY DEF InFlight
    <2> QED  BY <1>1, <1>2, <2>1 DEF InStep
  <1> QED  BY <1>3, SoloLocal

LEMMA AuditSolo ==
    ASSUME Typed, OneFilePerDrain, SoloInv, Solo, NEW p \in Procs, Audit(p)
    PROVE  SoloInv'
  <1>1. /\ UNCHANGED <<store, archive, claim, target, ev>>
        /\ pc[p] = "audit" /\ pc'[p] = "gate"
    BY DEF Audit, files, Goto, Typed, TypeOK
  <1> QED  BY <1>1, InFlightFrame DEF InFlight

LEMMA GateSolo ==
    ASSUME Typed, OneFilePerDrain, SoloInv, Solo, NEW p \in Procs, Gate(p)
    PROVE  SoloInv'
  <1> DEFINE r == store[target[p]]
  <1>1. UNCHANGED <<store, archive, claim, target, ev>> /\ pc[p] = "gate"
    BY DEF Gate, Stop, files, Goto
  <1>2. r \in Records
    BY <1>1 DEF Typed, TypeOK, Shape, HasTarget, HasEvent, HasRecord, AfterReceive, PCs
  <1>3. \/ pc'[p] = "finalize" /\ rec'[p] = Decided(r, ev[p], "HUMAN_REQUIRED")
        \/ pc'[p] = "packet" /\ rec'[p] = r
        \/ pc'[p] = "verified"
    BY DEF Gate, Stop, Goto, Get, Typed, TypeOK
  <1>4. "HUMAN_REQUIRED" \in Handoffs
    BY DEF Handoffs
  <1> QED  BY <1>1, <1>2, <1>3, <1>4, InFlightFrame DEF InFlight

LEMMA VerifiedSolo ==
    ASSUME Typed, OneFilePerDrain, SoloInv, Solo, NEW p \in Procs, Verified(p)
    PROVE  SoloInv'
  <1> DEFINE r == store[target[p]]
  <1>1. UNCHANGED <<store, archive, claim, target, ev>> /\ pc[p] = "verified"
    BY DEF Verified, files, Goto
  <1>2. r \in Records
    BY <1>1 DEF Typed, TypeOK, Shape, HasTarget, HasEvent, HasRecord, AfterReceive, PCs
  <1>3. \/ pc'[p] = "finalize" /\ rec'[p] = Decided(r, ev[p], "PASSED")
        \/ pc'[p] = "activating" /\ rec'[p] = r
    BY DEF Verified, Goto, Get, Typed, TypeOK
  <1>4. "PASSED" \in Handoffs
    BY DEF Handoffs
  <1> QED  BY <1>1, <1>2, <1>3, <1>4, InFlightFrame DEF InFlight

LEMMA ApplyReworkSolo ==
    ASSUME Typed, OneFilePerDrain, SoloInv, Solo, NEW p \in Procs, ApplyRework(p)
    PROVE  SoloInv'
  <1> DEFINE r == store[target[p]]
             n == ev[p].attempt + 1
             q == [rec[p] EXCEPT !.attempt = n, !.head = ev[p].head]
  <1>1. UNCHANGED <<store, archive, claim, target, ev>> /\ pc[p] = "packet"
    BY DEF ApplyRework, files
  <1>2. /\ rec[p] = r /\ rec[p] \in Records /\ ev[p] \in Events
        /\ n \in 0..MaxAttempts
    <2>1. rec[p] = r
      BY <1>1 DEF SoloInv, InStep
    <2> QED  BY <1>1, <2>1 DEF Typed, TypeOK, Shape, HasTarget, HasEvent, HasRecord, AfterReceive, PCs
  <1>3. q \in Records
    BY <1>2, RecordUpdates
  <1>4. q.processed = r.processed
    BY <1>2 DEF Records
  <1>5. /\ pc'[p] = "finalize"
        /\ \/ rec'[p] = Decided(rec[p], ev[p], "HUMAN_REQUIRED")
           \/ rec'[p] = Decided(q, ev[p], "REWORK_HANDOFF")
    BY DEF ApplyRework, Stop, Goto, Get, Typed, TypeOK
  <1>6. {"HUMAN_REQUIRED", "REWORK_HANDOFF"} \subseteq Handoffs
    BY DEF Handoffs
  <1> HIDE DEF q, r
  <1>7. \E x \in Records, s \in Handoffs :
           x.processed = r.processed /\ rec'[p] = Decided(x, ev[p], s)
    BY <1>2, <1>3, <1>4, <1>5, <1>6
  <1> QED  BY <1>1, <1>5, <1>7, InFlightFrame DEF InFlight, r

LEMMA AdvanceSolo ==
    ASSUME Typed, OneFilePerDrain, SoloInv, Solo, NEW p \in Procs, Advance(p)
    PROVE  SoloInv'
  <1>1. /\ UNCHANGED <<store, archive, claim, target, ev>>
        /\ pc[p] = "advance" /\ pc'[p] \in {"activate", "settle"}
    BY DEF Advance, CycleResult, files, Goto, Typed, TypeOK
  <1> QED  BY <1>1, InFlightFrame DEF InFlight

LEMMA ActivateSolo ==
    ASSUME Typed, OneFilePerDrain, SoloInv, Solo, NEW p \in Procs, Activate(p)
    PROVE  SoloInv'
  <1>1. /\ UNCHANGED <<store, archive, claim, target, ev>>
        /\ pc[p] = "activate" /\ pc'[p] = "settle"
    BY DEF Activate, CycleResult, files, Goto, Typed, TypeOK
  <1> QED  BY <1>1, InFlightFrame DEF InFlight

LEMMA SettleSolo ==
    ASSUME Typed, OneFilePerDrain, SoloInv, Solo, NEW p \in Procs, Settle(p)
    PROVE  SoloInv'
  <1> DEFINE r == store[target[p]]
             q == [r EXCEPT !.issue = rec[p].issue + 1, !.attempt = 0,
                            !.head = ev[p].head]
  <1>1. UNCHANGED <<store, archive, claim, target, ev>> /\ pc[p] = "settle"
    BY DEF Settle, Stop, files, Goto
  <1>2. r \in Records /\ ev[p] \in Events
    BY <1>1 DEF Typed, TypeOK, Shape, HasTarget, HasEvent, HasRecord, AfterReceive, PCs
  <1>3. verdict[p] = "advanced" => q \in Records /\ q.processed = r.processed
    <2> HAVE verdict[p] = "advanced"
    <2>1. rec[p].issue + 1 \in Issues
      BY <1>1 DEF Typed, Shape
    <2>2. q \in Records
      BY <1>2, <2>1, RecordUpdates
    <2> QED  BY <1>2, <2>2 DEF Records
  <1>4. /\ pc'[p] = "finalize"
        /\ \/ rec'[p] = Decided(r, ev[p], "HUMAN_REQUIRED")
           \/ rec'[p] = Decided(r, ev[p], "PASSED")
           \/ /\ verdict[p] = "advanced"
              /\ rec'[p] = Decided(q, ev[p], "SUCCESSOR_HANDOFF")
    BY DEF Settle, Stop, Goto, Get, Typed, TypeOK
  <1>5. {"HUMAN_REQUIRED", "PASSED", "SUCCESSOR_HANDOFF"} \subseteq Handoffs
    BY DEF Handoffs
  <1> HIDE DEF q, r
  <1>6. \E x \in Records, s \in Handoffs :
           x.processed = r.processed /\ rec'[p] = Decided(x, ev[p], s)
    BY <1>2, <1>3, <1>4, <1>5
  <1> QED  BY <1>1, <1>4, <1>6, InFlightFrame DEF InFlight, r

LEMMA RetireSolo ==
    ASSUME Typed, OneFilePerDrain, SoloInv, Solo, NEW p \in Procs, Retire(p)
    PROVE  SoloInv'
  <1> DEFINE r == store[target[p]]
  <1>1. /\ UNCHANGED <<store, archive, claim, target>> /\ pc[p] = "retire"
        /\ pc'[p] = "finalize" /\ ev'[p] = r.pending
        /\ rec'[p] = Decided(r, r.pending, "HUMAN_REQUIRED") /\ r.pending # None
    BY DEF Retire, Get, Goto, files, Typed, TypeOK
  <1>2. /\ r \in Records /\ r.pending \in Events /\ target[p] \in Workstreams
    BY <1>1 DEF Records, Typed, TypeOK, Shape, HasTarget, HasEvent, HasRecord, AfterReceive, PCs
  <1>3. /\ r.pending.ws = target[p]
        /\ claim[p] = None
    <2>1. r.pending.ws = target[p]
      BY <1>1, <1>2 DEF SoloInv, OwnEvents
    <2> QED  BY <1>1, <2>1 DEF SoloInv, InStep
  <1>4. /\ rec'[p].pending = None
        /\ rec'[p].processed = r.processed \union {r.pending.id}
        /\ rec'[p].state \notin Unfinished \union Historical
    BY <1>1, <1>2, DecidedFields DEF States, Terminal, Unfinished, Historical
  <1>5. InStep(p)'
    BY <1>1, <1>2, <1>3, <1>4 DEF InStep, InFlight, HasEvent, HasTarget
  <1> QED  BY <1>1, <1>5, SoloLocal

LEMMA FinalizeSolo ==
    ASSUME Typed, OneFilePerDrain, SoloInv, Solo, NEW p \in Procs, Finalize(p)
    PROVE  SoloInv'
  <1> DEFINE r == store[target[p]]
  <1>1. /\ store' = [store EXCEPT ![target[p]] = rec[p]] /\ pc[p] = "finalize"
        /\ UNCHANGED <<archive, claim, target, ev, rec>> /\ pc'[p] = "reply"
        /\ target[p] \in Workstreams /\ rec[p] \in Records
    BY DEF Finalize, Put, Goto, files, local, Typed, TypeOK, Shape, HasTarget, HasEvent, HasRecord, AfterReceive, PCs
  <1>2. /\ ev[p].ws = target[p] /\ rec[p].pending = None
        /\ rec[p].processed = r.processed \union {ev[p].id}
        /\ rec[p].state \notin Unfinished \union Historical
        /\ claim[p] # None => ev[p] = claim[p]
    BY <1>1 DEF SoloInv, InStep, HasEvent, HasTarget, PCs
  <1>3. store'[target[p]] = rec[p]
    BY <1>1 DEF Typed, TypeOK
  <1>4. InStep(p)'
    BY <1>1, <1>2, <1>3 DEF InStep, InFlight
  <1>5. Consistent(rec[p])
    BY <1>2 DEF Consistent
  <1> QED  BY <1>1, <1>2, <1>4, <1>5, SoloPut

LEMMA RegisterSolo ==
    ASSUME Typed, OneFilePerDrain, SoloInv, Solo, NEW p \in Procs, Register(p)
    PROVE  SoloInv'
  <1> DEFINE ws == target[p]
  <1>1. /\ store' = [store EXCEPT ![ws] = rec[p]] /\ pc[p] = "register"
        /\ archive' = archive /\ pc'[p] = "idle"
        /\ claim'[p] = None
        /\ ws \in Workstreams /\ rec[p] \in Records
    BY DEF Register, Put, Leave, Typed, TypeOK, Shape, HasTarget, HasEvent, HasRecord, AfterReceive, PCs
  <1>2. /\ store[ws] = None /\ rec[p].pending = None /\ rec[p].state = "IDLE"
    BY <1>1 DEF SoloInv, InStep
  <1>3. InStep(p)'
    BY <1>1 DEF InStep, InFlight, HasEvent, HasTarget
  <1>4. Consistent(rec[p])
    BY <1>2 DEF Consistent, Unfinished, Historical
  <1> QED  BY <1>1, <1>2, <1>3, <1>4, SoloPut

LEMMA SoloStep ==
    Solo => (Typed /\ OneFilePerDrain /\ SoloInv /\ [Next]_vars => SoloInv')
  <1> SUFFICES ASSUME Solo, Typed, OneFilePerDrain, SoloInv, [Next]_vars
               PROVE  SoloInv'
    OBVIOUS
  <1>1. CASE UNCHANGED <<store, archive, claim, pc, target, ev, rec>>
    BY <1>1 DEF SoloInv, PendingIsUndecided, ArchivedWasDecided, OwnEvents,
                InStep
  <1>2. ASSUME NEW p \in Procs, Start(p) PROVE SoloInv'
    BY <1>2, StartDrainSolo, StartHandleSolo, StartReconcileSolo,
       StartRegisterSolo DEF Start
  <1>3. ASSUME NEW p \in Procs, Work(p) PROVE SoloInv'
    BY <1>3, RegisterSolo, ClaimSolo, DrainDoneSolo, ReplySolo, MoveSolo,
       ReceiveSolo, RefuseSolo, LockHeadSolo, AcceptSolo, LoadSolo,
       NothingPendingSolo, BeginSolo, AuditSolo, GateSolo, ApplyReworkSolo,
       VerifiedSolo, ActivatingSolo, AdvanceSolo, ActivateSolo, SettleSolo,
       FinalizeSolo, RetireSolo DEF Work
  <1>4. ASSUME NEW p \in Procs, Crash(p) PROVE SoloInv'
    BY <1>4, CrashSolo
  <1>5. ASSUME NEW e \in Events, Enqueue(e) PROVE SoloInv'
    BY <1>1, <1>5 DEF Enqueue, local
  <1>6. ASSUME NEW ws \in Workstreams, NEW i \in Issues, Queue(ws, i)
        PROVE  SoloInv'
    BY <1>1, <1>6 DEF Queue, local, files
  <1> QED  BY <1>1, <1>2, <1>3, <1>4, <1>5, <1>6 DEF Next, vars

LEMMA SoloAlways == Solo => (Spec => []SoloInv)
  <1> SUFFICES ASSUME Solo PROVE Spec => []SoloInv
    OBVIOUS
  <1>1. Typed /\ OneFilePerDrain /\ SoloInv /\ [Next]_vars => SoloInv'
    BY SoloStep
  <1> QED  BY <1>1, SoloInit, TypedAlways, ClaimsAreExclusive, PTL DEF Spec

\* With one controller at a time, an archived inbox file is always a decided
\* event: no crash, re-run or duplicate delivery loses a completion.
THEOREM ArchiveIsSound == Solo => (Spec => []ArchivedWasDecided)
  BY SoloAlways, PTL DEF SoloInv

\* With one controller at a time, no event is audited after its decision.
THEOREM DecidedOnce == Solo => (Spec => []NoSecondAudit)
  <1> SUFFICES ASSUME Solo PROVE Spec => []NoSecondAudit
    OBVIOUS
  <1>1. Typed /\ SoloInv => NoSecondAudit
    <2> SUFFICES ASSUME Typed, SoloInv, NEW p \in Procs, pc[p] = "audit"
                 PROVE  ev[p].id \notin store[target[p]].processed
      BY DEF NoSecondAudit
    <2>1. /\ store[target[p]].pending = ev[p] /\ ev[p] \in Events
          /\ target[p] \in Workstreams /\ store[target[p]] \in Records
      BY DEF SoloInv, InStep, InFlight, Typed, Shape, HasEvent, HasTarget,
             AfterReceive, PCs
    <2>2. store[target[p]] # None /\ ev[p] # None
      BY <2>1
    <2> QED  BY <2>1, <2>2 DEF SoloInv, PendingIsUndecided, Consistent
  <1> QED  BY <1>1, SoloAlways, TypedAlways, PTL

\* With one controller at a time, decisions are final.
THEOREM DecisionsAreFinal == Solo => (Spec => []DecisionsStand)
  BY ArchiveIsSound, DecidedOnce, PTL DEF DecisionsStand

-----------------------------------------------------------------------------
(* The controller implements the completion ledger *)

Mapped == <<OpenEvents, DecidedIds, Stages>>

LEMMA LedgerInit == Init => Ledger!Init
  <1> SUFFICES ASSUME Init PROVE Ledger!Init
    OBVIOUS
  <1>1. /\ store \in [Workstreams -> Records \union {None}]
        /\ \A ws \in Workstreams : store[ws] # None => Consistent(store[ws])
    BY DEF Init
  <1>2. OpenEvents \in [Workstreams -> Events \union {None}]
    BY <1>1 DEF OpenEvents, Records
  <1>3. DecidedIds \in [Workstreams -> SUBSET Ledger!EventIds]
    BY <1>1 DEF DecidedIds, Records, EventIds, Ledger!EventIds
  <1>4. Stages \in [Workstreams -> {"absent", "live", "closed"}]
    BY DEF Stages
  <1>5. ASSUME NEW ws \in Workstreams, OpenEvents[ws] # None
        PROVE  Stages[ws] = "live" /\ OpenEvents[ws].id \notin DecidedIds[ws]
    <2>1. store[ws] # None /\ Consistent(store[ws]) /\ store[ws].pending # None
      BY <1>1, <1>5 DEF OpenEvents
    <2> QED
      BY <2>1 DEF Stages, OpenEvents, DecidedIds, Consistent, Terminal,
                  Unfinished, Historical
  <1> QED  BY <1>2, <1>3, <1>4, <1>5 DEF Ledger!Init

LEMMA ExceptIs ==
    ASSUME NEW S, NEW V, NEW f \in [S -> V], NEW g \in [S -> V], NEW x \in S,
           NEW y, \A w \in S : g[w] = IF w = x THEN y ELSE f[w]
    PROVE  g = [f EXCEPT ![x] = y]
  OBVIOUS

LEMMA MappedTypes ==
    Typed => /\ OpenEvents \in [Workstreams -> Events \union {None}]
             /\ DecidedIds \in [Workstreams -> SUBSET EventIds]
             /\ Stages \in [Workstreams -> {"absent", "live", "closed"}]
  <1> SUFFICES ASSUME Typed
               PROVE  /\ OpenEvents \in [Workstreams -> Events \union {None}]
                      /\ DecidedIds \in [Workstreams -> SUBSET EventIds]
                      /\ Stages \in [Workstreams -> {"absent", "live", "closed"}]
    OBVIOUS
  <1>1. store \in [Workstreams -> Records \union {None}]
    BY DEF Typed, TypeOK
  <1> QED  BY <1>1 DEF OpenEvents, DecidedIds, Stages, Records

\* What storing a record does to the ledger.
LEMMA PutMapped ==
    ASSUME Typed, Typed', NEW ws \in Workstreams, NEW r \in Records,
           store' = [store EXCEPT ![ws] = r]
    PROVE  /\ OpenEvents' = [OpenEvents EXCEPT ![ws] = r.pending]
           /\ DecidedIds' = [DecidedIds EXCEPT ![ws] = r.processed]
           /\ Stages' = [Stages EXCEPT ![ws] =
                            IF r.state \in Terminal THEN "closed" ELSE "live"]
  <1>1. /\ r # None
        /\ \A w \in Workstreams : store'[w] = IF w = ws THEN r ELSE store[w]
    BY DEF Typed, TypeOK
  <1>2. /\ OpenEvents' \in [Workstreams -> Events \union {None}]
        /\ DecidedIds' \in [Workstreams -> SUBSET EventIds]
        /\ Stages' \in [Workstreams -> {"absent", "live", "closed"}]
    <2>1. (Typed => /\ OpenEvents \in [Workstreams -> Events \union {None}]
                    /\ DecidedIds \in [Workstreams -> SUBSET EventIds]
                    /\ Stages \in [Workstreams -> {"absent", "live", "closed"}])'
      BY MappedTypes, PTL
    <2> QED  BY <2>1
  <1>3. \A w \in Workstreams :
           /\ OpenEvents'[w] = IF w = ws THEN r.pending ELSE OpenEvents[w]
           /\ DecidedIds'[w] = IF w = ws THEN r.processed ELSE DecidedIds[w]
           /\ Stages'[w] = IF w = ws
                           THEN IF r.state \in Terminal THEN "closed" ELSE "live"
                           ELSE Stages[w]
    BY <1>1 DEF OpenEvents, DecidedIds, Stages
  <1>4. OpenEvents' = [OpenEvents EXCEPT ![ws] = r.pending]
    BY <1>2, <1>3, MappedTypes, ExceptIs
  <1>5. DecidedIds' = [DecidedIds EXCEPT ![ws] = r.processed]
    BY <1>2, <1>3, MappedTypes, ExceptIs
  <1>6. Stages' = [Stages EXCEPT ![ws] =
                     IF r.state \in Terminal THEN "closed" ELSE "live"]
    BY <1>2, <1>3, MappedTypes, ExceptIs
  <1> QED  BY <1>4, <1>5, <1>6

\* The ledger as the stored record shows it.
LEMMA ReadMapped ==
    ASSUME NEW ws \in Workstreams, store[ws] # None
    PROVE  /\ OpenEvents[ws] = store[ws].pending
           /\ DecidedIds[ws] = store[ws].processed
           /\ Stages[ws] = IF store[ws].state \in Terminal THEN "closed" ELSE "live"
  BY DEF OpenEvents, DecidedIds, Stages

\* Storing a record with the same event, decisions and stage is a stutter.
LEMMA PutStutter ==
    ASSUME Typed, NEW ws \in Workstreams, NEW r \in Records, store[ws] # None,
           store' = [store EXCEPT ![ws] = r], r.pending = store[ws].pending,
           r.processed = store[ws].processed,
           r.state \in Terminal <=> store[ws].state \in Terminal
    PROVE  UNCHANGED Mapped
  <1>1. \A w \in Workstreams : store'[w] = IF w = ws THEN r ELSE store[w]
    BY DEF Typed, TypeOK
  <1>2. r # None
    OBVIOUS
  <1> QED  BY <1>1, <1>2 DEF Mapped, OpenEvents, DecidedIds, Stages

LEMMA LedgerStep ==
    Solo => (Typed /\ SoloInv /\ [Next]_vars => [Ledger!Next]_(Ledger!vars))
  <1> SUFFICES ASSUME Solo, Typed, SoloInv, [Next]_vars
               PROVE  Ledger!Next \/ UNCHANGED Mapped
    BY DEF Ledger!vars, Mapped
  <1>0. Typed'
    BY StepTyped
  <1>1. CASE UNCHANGED store
    BY <1>1 DEF Mapped, OpenEvents, DecidedIds, Stages
  <1>2. ASSUME NEW p \in Procs, Register(p) PROVE Ledger!Next
    <2> DEFINE ws == target[p]
    <2>1. /\ store' = [store EXCEPT ![ws] = rec[p]] /\ pc[p] = "register"
          /\ ws \in Workstreams /\ rec[p] \in Records
      BY <1>2 DEF Register, Put, Typed, TypeOK, Shape, HasTarget, HasEvent, HasRecord, AfterReceive, PCs
    <2>2. /\ store[ws] = None /\ rec[p].pending = None /\ rec[p].state = "IDLE"
          /\ rec[p].processed = {}
      BY <2>1 DEF SoloInv, InStep
    <2>3. OpenEvents[ws] = None /\ DecidedIds[ws] = {} /\ Stages[ws] = "absent"
      BY <2>1, <2>2 DEF OpenEvents, DecidedIds, Stages
    <2> HIDE DEF ws
    <2>4. /\ OpenEvents' = OpenEvents /\ DecidedIds' = DecidedIds
          /\ Stages' = [Stages EXCEPT ![ws] = "live"]
      <3>1. OpenEvents \in [Workstreams -> {OpenEvents[w] : w \in Workstreams}]
            /\ DecidedIds \in [Workstreams -> {DecidedIds[w] : w \in Workstreams}]
        BY DEF OpenEvents, DecidedIds
      <3>2. /\ OpenEvents' = [OpenEvents EXCEPT ![ws] = rec[p].pending]
            /\ DecidedIds' = [DecidedIds EXCEPT ![ws] = rec[p].processed]
            /\ Stages' = [Stages EXCEPT ![ws] =
                       IF rec[p].state \in Terminal THEN "closed" ELSE "live"]
        BY <1>0, <2>1, PutMapped
      <3> QED  BY <2>1, <2>2, <2>3, <3>1, <3>2 DEF Terminal
    <2>5. Ledger!Register(ws)
      BY <2>3, <2>4 DEF Ledger!Register
    <2> QED  BY <2>1, <2>5 DEF Ledger!Next
  <1>3. ASSUME NEW p \in Procs, LockHead(p) PROVE UNCHANGED Mapped
    <2>1. /\ store' = [store EXCEPT ![target[p]] = rec[p]] /\ pc[p] = "lock_head"
          /\ target[p] \in Workstreams /\ rec[p] \in Records
          /\ store[target[p]] \in Records
      BY <1>3 DEF LockHead, Put, Goto, Typed, TypeOK, Shape, HasTarget, HasEvent, HasRecord, AfterReceive, PCs
    <2> QED  BY <2>1, PutStutter DEF SoloInv, InStep
  <1>4. ASSUME NEW p \in Procs, Accept(p) PROVE Ledger!Next
    <2> DEFINE ws == target[p]
               q == [rec[p] EXCEPT !.state = "AWAITING_AUDIT", !.pending = ev[p]]
    <2>1. /\ store' = [store EXCEPT ![ws] = q] /\ pc[p] = "accept"
          /\ ws \in Workstreams /\ rec[p] \in Records
          /\ store[ws] \in Records /\ ev[p] \in Events
      BY <1>4 DEF Accept, Put, Goto, Typed, TypeOK, Shape, HasTarget, HasEvent, HasRecord, AfterReceive, PCs
    <2>2. /\ ev[p].id \notin store[ws].processed /\ store[ws].pending = None
          /\ store[ws].state \notin Terminal
          /\ rec[p].processed = store[ws].processed
      BY <2>1 DEF SoloInv, InStep
    <2>3. /\ q \in Records /\ q.pending = ev[p]
          /\ q.processed = store[ws].processed /\ q.state \notin Terminal
      BY <2>1, <2>2, RecordUpdates DEF Records, Terminal
    <2>4. /\ OpenEvents[ws] = None /\ DecidedIds[ws] = store[ws].processed
          /\ Stages[ws] = "live"
      BY <2>1, <2>2, ReadMapped
    <2> HIDE DEF ws, q
    <2>5. /\ OpenEvents' = [OpenEvents EXCEPT ![ws] = ev[p]]
          /\ DecidedIds' = DecidedIds /\ Stages' = Stages
      <3>1. Stages \in [Workstreams -> {Stages[w] : w \in Workstreams}]
            /\ DecidedIds \in [Workstreams -> {DecidedIds[w] : w \in Workstreams}]
        BY DEF Stages, DecidedIds
      <3>2. /\ OpenEvents' = [OpenEvents EXCEPT ![ws] = q.pending]
            /\ DecidedIds' = [DecidedIds EXCEPT ![ws] = q.processed]
            /\ Stages' = [Stages EXCEPT ![ws] =
                       IF q.state \in Terminal THEN "closed" ELSE "live"]
        BY <1>0, <2>1, <2>3, PutMapped
      <3> QED  BY <2>1, <2>3, <2>4, <3>1, <3>2
    <2>6. Ledger!Accept(ws, ev[p])
      BY <2>2, <2>4, <2>5 DEF Ledger!Accept
    <2> QED  BY <2>1, <2>6 DEF Ledger!Next
  <1>5. ASSUME NEW p \in Procs, NEW s \in {"AUDITING", "CYCLE_ACTIVATING"},
               pc[p] \in {"begin", "activating"},
               Put(p, [rec[p] EXCEPT !.state = s])
        PROVE  UNCHANGED Mapped
    <2>1. /\ rec[p] = store[target[p]] /\ rec[p].pending = ev[p]
          /\ target[p] \in Workstreams /\ rec[p] \in Records /\ ev[p] \in Events
      BY <1>5 DEF SoloInv, InStep, InFlight, Typed, TypeOK, Shape, HasTarget, HasEvent, HasRecord, AfterReceive, PCs
    <2>2. rec[p].state \notin Terminal
      BY <2>1 DEF SoloInv, PendingIsUndecided, Consistent, Unfinished,
                  Historical, Terminal
    <2>3. /\ [rec[p] EXCEPT !.state = s] \in Records
          /\ [rec[p] EXCEPT !.state = s].pending = rec[p].pending
          /\ [rec[p] EXCEPT !.state = s].processed = rec[p].processed
          /\ [rec[p] EXCEPT !.state = s].state \notin Terminal
      BY <2>1, RecordUpdates DEF Records, Terminal
    <2> QED  BY <1>5, <2>1, <2>2, <2>3, PutStutter DEF Put
  <1>6. ASSUME NEW p \in Procs, Finalize(p) PROVE Ledger!Next
    <2> DEFINE ws == target[p]
    <2>1. /\ store' = [store EXCEPT ![ws] = rec[p]] /\ pc[p] = "finalize"
          /\ ws \in Workstreams /\ rec[p] \in Records
          /\ store[ws] \in Records /\ ev[p] \in Events
      BY <1>6 DEF Finalize, Put, Goto, Typed, TypeOK, Shape, HasTarget, HasEvent, HasRecord, AfterReceive, PCs
    <2>2. /\ store[ws].pending = ev[p] /\ rec[p].pending = None
          /\ rec[p].processed = store[ws].processed \union {ev[p].id}
      BY <2>1 DEF SoloInv, InStep, InFlight
    <2>3. store[ws].state \notin Terminal /\ store[ws] # None /\ ev[p] # None
      BY <2>1, <2>2 DEF SoloInv, PendingIsUndecided, Consistent, Unfinished,
                        Historical, Terminal
    <2>4. /\ OpenEvents[ws] = ev[p] /\ DecidedIds[ws] = store[ws].processed
          /\ Stages[ws] = "live"
      BY <2>1, <2>2, <2>3, ReadMapped
    <2> HIDE DEF ws
    <2>5. /\ OpenEvents' = [OpenEvents EXCEPT ![ws] = None]
          /\ DecidedIds' = [DecidedIds EXCEPT ![ws] =
                               DecidedIds[ws] \union {OpenEvents[ws].id}]
          /\ \E s \in {"live", "closed"} : Stages' = [Stages EXCEPT ![ws] = s]
      <3>1. /\ OpenEvents' = [OpenEvents EXCEPT ![ws] = rec[p].pending]
            /\ DecidedIds' = [DecidedIds EXCEPT ![ws] = rec[p].processed]
            /\ Stages' = [Stages EXCEPT ![ws] =
                       IF rec[p].state \in Terminal THEN "closed" ELSE "live"]
        BY <1>0, <2>1, PutMapped
      <3> QED  BY <2>2, <2>4, <3>1
    <2>6. Ledger!Decide(ws)
      BY <2>3, <2>4, <2>5 DEF Ledger!Decide
    <2> QED  BY <2>1, <2>6 DEF Ledger!Next
  <1>7. ASSUME NEW p \in Procs, Work(p) PROVE Ledger!Next \/ UNCHANGED Mapped
    <2>1. CASE Begin(p) \/ Activating(p)
      BY <1>5, <2>1 DEF Begin, Activating, Goto
    <2>2. CASE UNCHANGED store
      BY <1>1, <2>2
    <2> QED
      BY <1>2, <1>3, <1>4, <1>6, <1>7, <2>1, <2>2
         DEF Work, Claim, DrainDone, Reply, Raise, Move, Receive, Refuse, Load,
             NothingPending, Audit, Gate, ApplyRework, Verified, Advance,
             Activate, Settle, Retire
  <1>8. ASSUME NEW p \in Procs, Start(p) \/ Crash(p) PROVE UNCHANGED store
    BY <1>8 DEF Start, StartDrain, StartHandle, StartReconcile, StartRegister,
                Crash
  <1>9. ASSUME \/ \E e \in Events : Enqueue(e)
               \/ \E ws \in Workstreams, i \in Issues : Queue(ws, i)
               \/ UNCHANGED vars
        PROVE  UNCHANGED store
    BY <1>9 DEF Enqueue, Queue, vars
  <1> QED  BY <1>1, <1>7, <1>8, <1>9 DEF Next

\* With one controller at a time, every behaviour of the controller, its crashes
\* and re-runs included, is a behaviour of the completion ledger.
THEOREM Refinement == Solo => (Spec => ImplementsLedger)
  <1> SUFFICES ASSUME Solo PROVE Spec => ImplementsLedger
    OBVIOUS
  <1>1. Typed /\ SoloInv /\ [Next]_vars => [Ledger!Next]_(Ledger!vars)
    BY LedgerStep
  <1> QED
    BY <1>1, LedgerInit, SoloAlways, TypedAlways, PTL
       DEF Spec, ImplementsLedger, Ledger!Spec

-----------------------------------------------------------------------------
(***************************************************************************)
(* What the record says of the cycle is what the packets show, one process  *)
(* at a time.                                                               *)
(***************************************************************************)

\* A store that fits the packets of Init: records name the first packet, which has
\* no predecessor and was asked for the record's attempt.
FoundInOrder ==
    \A r \in InitialRecords :
        r # None =>
            /\ r.issue = 1 /\ r.state # "SUCCESSOR_HANDOFF"
            /\ r.state \in SuccessorOpen => r.attempt = 0
            /\ r.pending # None => r.attempt <= r.pending.attempt + 1

\* Packets g before anything is registered.
Untouched(g) ==
    \A i \in Issues : g[i].attempt = 0 /\ (i > 1 => g[i].status # "ACTIVE")

\* A packet beyond the record's is ACTIVE only if it is the next one, activated for
\* an event that is still open or was stopped.
Ahead(g, r) ==
    \A i \in Issues :
        i > r.issue /\ g[i].status = "ACTIVE" =>
            /\ i = r.issue + 1 /\ CyclePort
            /\ g[r.issue].status = "COMPLETE"
            /\ r.pending # None \/ r.state = "HUMAN_REQUIRED"
Asked(g, r) ==
    /\ \A i \in Issues : i > r.issue => g[i].attempt = 0
    /\ r.pending # None => g[r.issue].attempt <= r.pending.attempt + 1
    /\ r.pending = None /\ r.state \notin Terminal => g[r.issue].attempt = r.attempt
    /\ r.state \in SuccessorOpen => r.attempt = 0
Handed(g, r) ==
    r.state = "SUCCESSOR_HANDOFF" =>
        /\ g[r.issue].status = "ACTIVE" /\ g[r.issue].by = r.outcome.event
        /\ r.issue - 1 \in Issues /\ g[r.issue - 1].status = "COMPLETE"
Fits(g, r) == Ahead(g, r) /\ Asked(g, r) /\ Handed(g, r)

\* What a process at q with record l, event e and verdict v knows of the packets g
\* and of the stored record r.
Knows(q, l, e, v, g, r) ==
    /\ q = "register" => l.issue = 1 /\ l.attempt = 0
    /\ q \in {"lock_head", "accept"} =>
          /\ l.issue = r.issue /\ l.attempt = r.attempt /\ l.outcome = r.outcome
          /\ g[r.issue].attempt <= e.attempt + 1
    /\ q \in {"activating", "advance", "activate", "settle"} => CyclePort
    /\ q \in {"advance", "activate", "settle"} => l.issue = r.issue
    /\ q = "activate" => g[r.issue].status = "COMPLETE"
    /\ q = "settle" /\ v = "advanced" =>
          /\ g[r.issue].status = "COMPLETE"
          /\ g[r.issue + 1].status = "ACTIVE" /\ g[r.issue + 1].by = e.id
    /\ q = "settle" /\ v = "no_successor" =>
          \A i \in Issues : i > r.issue => g[i].status # "ACTIVE"
    /\ q = "finalize" => Fits(g, l)

MatchInv ==
    /\ \A ws \in Workstreams :
          IF store[ws] = None THEN Untouched(gh[ws]) ELSE Fits(gh[ws], store[ws])
    /\ \A p \in Procs :
          pc[p] \in HasTarget =>
              Knows(pc[p], rec[p], ev[p], verdict[p], gh[target[p]], store[target[p]])

\* h differs from g in packet i at most.
Only(g, h, i) == \A k \in Issues : k # i => h[k] = g[k]

Maps == [Issues -> Packets]

\* Nothing of the cycle is known where nothing of it is held.
Quiet == {"idle", "drain", "receive", "load", "retire", "begin", "audit", "gate",
          "packet", "verified", "reply"}

LEMMA FitsSame ==
    ASSUME NEW g \in Maps, NEW r \in Records, NEW s \in Records, Fits(g, r),
           s.issue = r.issue, s.attempt = r.attempt, s.state = r.state,
           s.pending = r.pending, s.outcome = r.outcome
    PROVE  Fits(g, s)
  BY DEF Fits, Ahead, Asked, Handed

\* An event that goes on being worked on.
LEMMA FitsOpen ==
    ASSUME NEW g \in Maps, NEW r \in Records, NEW s \in Records, Fits(g, r),
           r.pending # None, s.issue = r.issue, s.pending = r.pending,
           s.state \in {"AUDITING", "CYCLE_ACTIVATING"}
    PROVE  Fits(g, s)
  BY DEF Fits, Ahead, Asked, Handed, SuccessorOpen

LEMMA FitsStopped ==
    ASSUME NEW g \in Maps, NEW r \in Records, NEW s \in Records, Fits(g, r),
           s.issue = r.issue, s.pending = None, s.state = "HUMAN_REQUIRED"
    PROVE  Fits(g, s)
  BY DEF Fits, Ahead, Asked, Handed, SuccessorOpen, Terminal

\* No packet is ahead of a record that waits for a completion.
LEMMA FitsAccepted ==
    ASSUME NEW g \in Maps, NEW r \in Records, NEW s \in Records, Fits(g, r),
           r.pending = None, r.state \notin Terminal, s.issue = r.issue,
           s.pending \in Events, s.state = "AWAITING_AUDIT",
           g[r.issue].attempt <= s.pending.attempt + 1
    PROVE  Fits(g, s)
  <1>1. s.pending # None /\ r.state # "HUMAN_REQUIRED"
    BY DEF Terminal
  <1> QED  BY <1>1 DEF Fits, Ahead, Asked, Handed, SuccessorOpen

LEMMA FitsPassed ==
    ASSUME NEW g \in Maps, NEW r \in Records, NEW s \in Records, Fits(g, r),
           \A i \in Issues : i > r.issue => g[i].status # "ACTIVE",
           s.issue = r.issue, s.pending = None, s.state = "PASSED"
    PROVE  Fits(g, s)
  BY DEF Fits, Ahead, Asked, Handed, SuccessorOpen, Terminal

\* Findings that reached the packet, whether or not the caller was told.
LEMMA FitsFindings ==
    ASSUME NEW g \in Maps, NEW h \in Maps, NEW r \in Records, Fits(g, r),
           r.pending # None, r.state \notin SuccessorOpen,
           Only(g, h, r.issue), g[r.issue].status = "ACTIVE",
           h[r.issue].status = "ACTIVE",
           h[r.issue].attempt = r.pending.attempt + 1
    PROVE  /\ Fits(h, r)
           /\ \A s \in Records :
                 /\ s.issue = r.issue /\ s.pending = None
                 /\ s.state = "REWORK_HANDOFF"
                 /\ s.attempt = r.pending.attempt + 1
                 => Fits(h, s)
  <1>1. r.issue \in Issues /\ r.issue \in Nat
    BY DEF Records
  <1>2. r.pending.attempt \in Nat
    <2>1. r.pending \in Events
      BY DEF Records
    <2> QED  BY <2>1
  <1>3. ASSUME NEW i \in Issues, i > r.issue PROVE h[i] = g[i]
    <2>1. i # r.issue
      BY <1>1, <1>3
    <2> QED  BY <2>1 DEF Only
  <1>4. \A i \in Issues : i > r.issue => h[i].status # "ACTIVE" /\ h[i].attempt = 0
    BY <1>1, <1>3 DEF Fits, Ahead, Asked
  <1>5. ASSUME NEW s \in Records, s.issue = r.issue,
               s.state \in SuccessorOpen \/ s.state = "SUCCESSOR_HANDOFF" => FALSE,
               s.pending # None => s.pending = r.pending,
               s.pending = None => s.attempt = r.pending.attempt + 1
        PROVE  Fits(h, s)
    <2>1. Ahead(h, s)
      BY <1>4, <1>5 DEF Ahead
    <2>2. Asked(h, s)
      BY <1>4, <1>5, <1>2 DEF Asked
    <2> QED  BY <1>5, <2>1, <2>2 DEF Fits, Handed
  <1>6. Fits(h, r)
    BY <1>5 DEF SuccessorOpen
  <1>7. ASSUME NEW s \in Records, s.issue = r.issue, s.pending = None,
               s.state = "REWORK_HANDOFF", s.attempt = r.pending.attempt + 1
        PROVE  Fits(h, s)
    BY <1>5, <1>7 DEF SuccessorOpen
  <1> QED  BY <1>6, <1>7

\* The predecessor is completed.
LEMMA FitsCompleted ==
    ASSUME NEW g \in Maps, NEW h \in Maps, NEW r \in Records, Fits(g, r),
           r.pending # None, r.state \notin SuccessorOpen,
           Only(g, h, r.issue), g[r.issue].status = "ACTIVE",
           h[r.issue].attempt = g[r.issue].attempt
    PROVE  Fits(h, r)
  <1>1. r.issue \in Issues /\ r.issue \in Nat
    BY DEF Records
  <1>2. ASSUME NEW i \in Issues, i > r.issue PROVE h[i] = g[i]
    <2>1. i # r.issue
      BY <1>1, <1>2
    <2> QED  BY <2>1 DEF Only
  <1>3. \A i \in Issues : i > r.issue => h[i].status # "ACTIVE" /\ h[i].attempt = 0
    BY <1>1, <1>2 DEF Fits, Ahead, Asked
  <1> QED  BY <1>1, <1>3 DEF Fits, Ahead, Asked, Handed, SuccessorOpen

\* The successor is activated.
LEMMA FitsActivated ==
    ASSUME NEW g \in Maps, NEW h \in Maps, NEW r \in Records, Fits(g, r),
           r.pending # None, r.state \notin SuccessorOpen, CyclePort,
           r.issue + 1 \in Issues, Only(g, h, r.issue + 1),
           g[r.issue].status = "COMPLETE",
           h[r.issue + 1].attempt = g[r.issue + 1].attempt
    PROVE  Fits(h, r)
  <1>1. r.issue \in Issues /\ r.issue \in Nat
    BY DEF Records
  <1>2. h[r.issue] = g[r.issue]
    BY <1>1 DEF Only
  <1>3. \A i \in Issues : i > r.issue => h[i].attempt = 0
    BY <1>1 DEF Fits, Asked, Only
  <1>4. ASSUME NEW i \in Issues, i > r.issue, h[i].status = "ACTIVE"
        PROVE  i = r.issue + 1
    BY <1>1, <1>4 DEF Fits, Ahead, Only
  <1>5. Ahead(h, r)
    BY <1>1, <1>2, <1>4 DEF Ahead
  <1>6. Asked(h, r)
    BY <1>1, <1>2, <1>3 DEF Fits, Asked, SuccessorOpen
  <1> QED  BY <1>5, <1>6 DEF Fits, Handed, SuccessorOpen

\* The record moves on to the activated successor.
LEMMA FitsHandedOff ==
    ASSUME NEW g \in Maps, NEW r \in Records, NEW s \in Records, Fits(g, r),
           r.issue + 1 \in Issues, g[r.issue].status = "COMPLETE",
           g[r.issue + 1].status = "ACTIVE",
           g[r.issue + 1].by = s.outcome.event,
           s.issue = r.issue + 1, s.attempt = 0, s.pending = None,
           s.state = "SUCCESSOR_HANDOFF"
    PROVE  Fits(g, s)
  <1>1. r.issue \in Issues /\ r.issue \in Nat
    BY DEF Records
  <1>2. Ahead(g, s)
    <2> SUFFICES ASSUME NEW i \in Issues, i > s.issue, g[i].status = "ACTIVE"
                 PROVE  FALSE
      BY DEF Ahead
    <2> QED  BY <1>1 DEF Fits, Ahead
  <1>3. Asked(g, s)
    BY <1>1 DEF Fits, Asked
  <1> QED  BY <1>1, <1>2, <1>3 DEF Fits, Handed

\* The owner queues a packet.
LEMMA FitsQueued ==
    ASSUME NEW g \in Maps, NEW h \in Maps, NEW i \in Issues, Only(g, h, i),
           g[i].status = "ABSENT", h[i].status = "QUEUED",
           h[i].attempt = g[i].attempt
    PROVE  /\ Untouched(g) => Untouched(h)
           /\ \A r \in Records : Fits(g, r) => Fits(h, r)
           /\ \A k \in Issues :
                 /\ g[k].status \in {"ACTIVE", "COMPLETE"} => h[k] = g[k]
                 /\ h[k].attempt = g[k].attempt
                 /\ h[k].status = "ACTIVE" => g[k].status = "ACTIVE"
  <1>1. \A k \in Issues :
           /\ g[k].status \in {"ACTIVE", "COMPLETE"} => h[k] = g[k]
           /\ h[k].attempt = g[k].attempt
           /\ h[k].status = "ACTIVE" => g[k].status = "ACTIVE"
    BY DEF Only
  <1>2. Untouched(g) => Untouched(h)
    BY <1>1 DEF Untouched
  <1>3. ASSUME NEW r \in Records, Fits(g, r) PROVE Fits(h, r)
    <2>1. r.issue \in Issues
      BY DEF Records
    <2>2. Ahead(h, r)
      BY <1>1, <1>3, <2>1 DEF Fits, Ahead
    <2>3. Asked(h, r)
      BY <1>1, <1>3, <2>1 DEF Fits, Asked
    <2>4. Handed(h, r)
      BY <1>1, <1>3, <2>1 DEF Fits, Handed
    <2> QED  BY <2>2, <2>3, <2>4 DEF Fits
  <1> QED  BY <1>1, <1>2, <1>3

\* What is known at process p.
KnowsAt(p) ==
    pc[p] \in HasTarget =>
        Knows(pc[p], rec[p], ev[p], verdict[p], gh[target[p]], store[target[p]])

LEMMA MatchInit == FoundInOrder => (Init => MatchInv)
  <1> SUFFICES ASSUME FoundInOrder, Init PROVE MatchInv
    OBVIOUS
  <1>1. ASSUME NEW ws \in Workstreams, store[ws] = None
        PROVE  Untouched(gh[ws])
    BY <1>1 DEF Init, FirstPackets, Untouched
  <1>2. ASSUME NEW ws \in Workstreams, store[ws] # None
        PROVE  Fits(gh[ws], store[ws])
    <2>1. PICK r \in InitialRecords : r = store[ws]
      BY DEF Init
    <2>2. r # None /\ r \in Records
      BY <1>2, <2>1
    <2>3. /\ r.issue = 1 /\ r.state # "SUCCESSOR_HANDOFF"
          /\ r.state \in SuccessorOpen => r.attempt = 0
          /\ r.pending # None => r.attempt <= r.pending.attempt + 1
      BY <2>2 DEF FoundInOrder
    <2>4. \A i \in Issues :
             /\ gh[ws][i].status = IF i = 1 THEN "ACTIVE" ELSE "ABSENT"
             /\ gh[ws][i].attempt = IF i = 1 THEN r.attempt ELSE 0
      BY <2>1, <2>2 DEF Init, FirstPackets
    <2>5. Ahead(gh[ws], r)
      <3>1. \A i \in Issues : i > 1 => gh[ws][i].status # "ACTIVE"
        BY <2>4
      <3> QED  BY <2>3, <3>1 DEF Ahead
    <2>6. Asked(gh[ws], r)
      BY <2>3, <2>4 DEF Asked
    <2> QED  BY <2>1, <2>3, <2>5, <2>6 DEF Fits, Handed
  <1>3. \A p \in Procs : pc[p] \notin HasTarget
    BY DEF Init, HasTarget
  <1> QED  BY <1>1, <1>2, <1>3 DEF MatchInv

\* A step about one workstream.
LEMMA MatchAt ==
    ASSUME MatchInv, Solo, NEW p \in Procs, NEW ws \in Workstreams,
           \A w \in Workstreams : w # ws => store'[w] = store[w] /\ gh'[w] = gh[w],
           store'[ws] # None, Fits(gh'[ws], store'[ws]), KnowsAt(p)'
    PROVE  MatchInv'
  <1>1. ASSUME NEW w \in Workstreams
        PROVE  IF store'[w] = None THEN Untouched(gh'[w]) ELSE Fits(gh'[w], store'[w])
    <2>1. CASE w = ws
      BY <2>1
    <2>2. CASE w # ws
      BY <2>2 DEF MatchInv
    <2> QED  BY <2>1, <2>2
  <1>2. ASSUME NEW q \in Procs PROVE KnowsAt(q)'
    <2>1. q = p
      BY DEF Solo
    <2> QED  BY <2>1
  <1> QED  BY <1>1, <1>2 DEF MatchInv, KnowsAt

\* A step that changes neither records nor packets.
LEMMA MatchLocal ==
    ASSUME MatchInv, Solo, NEW p \in Procs, UNCHANGED <<store, gh>>, KnowsAt(p)'
    PROVE  MatchInv'
  <1>1. ASSUME NEW q \in Procs PROVE KnowsAt(q)'
    <2>1. q = p
      BY DEF Solo
    <2> QED  BY <2>1
  <1>2. \A w \in Workstreams :
           IF store'[w] = None THEN Untouched(gh'[w]) ELSE Fits(gh'[w], store'[w])
    BY DEF MatchInv
  <1> QED  BY <1>1, <1>2 DEF MatchInv, KnowsAt

LEMMA KnowsQuiet ==
    ASSUME NEW q \in Quiet, NEW l, NEW e, NEW v, NEW g, NEW r
    PROVE  Knows(q, l, e, v, g, r)
  BY DEF Knows, Quiet

LEMMA MatchQuiet ==
    ASSUME MatchInv, Solo, NEW p \in Procs, UNCHANGED <<store, gh>>,
           pc'[p] \in Quiet
    PROVE  MatchInv'
  <1>1. KnowsAt(p)'
    BY KnowsQuiet DEF KnowsAt
  <1> QED  BY <1>1, MatchLocal

\* What holds before a step of a process that has read its record.
LEMMA MatchHere ==
    ASSUME Typed, SoloInv, MatchInv, NEW p \in Procs, pc[p] \in AfterReceive
    PROVE  /\ target[p] \in Workstreams
           /\ store[target[p]] \in Records /\ store[target[p]] # None
           /\ gh[target[p]] \in Maps
           /\ Fits(gh[target[p]], store[target[p]])
           /\ Consistent(store[target[p]])
           /\ KnowsAt(p)
           /\ pc[p] \in HasEvent => ev[p] \in Events
           /\ pc[p] \in HasRecord => rec[p] \in Records
           /\ pc[p] \in InFlight =>
                 /\ store[target[p]].pending = ev[p]
                 /\ store[target[p]].pending # None
                 /\ store[target[p]].state \notin SuccessorOpen
  <1>1. target[p] \in Workstreams /\ store[target[p]] \in Records
    BY DEF Typed, Shape, AfterReceive
  <1>2. store[target[p]] # None /\ Consistent(store[target[p]])
    BY <1>1 DEF SoloInv, PendingIsUndecided
  <1>3. gh[target[p]] \in Maps
    BY <1>1 DEF Typed, TypeOK, Maps
  <1>4. Fits(gh[target[p]], store[target[p]]) /\ KnowsAt(p)
    BY <1>1, <1>2 DEF MatchInv, KnowsAt
  <1>5. pc[p] \in HasEvent => ev[p] \in Events
    BY DEF Typed, Shape
  <1>6. pc[p] \in HasRecord => rec[p] \in Records
    BY DEF Typed, Shape
  <1>7. pc[p] \in InFlight => store[target[p]].pending = ev[p] /\ ev[p] # None
    <2>1. pc[p] \in InFlight => pc[p] \in HasEvent
      BY DEF InFlight, HasEvent, HasTarget, PCs
    <2> QED  BY <1>5, <2>1 DEF SoloInv, InStep
  <1>8. store[target[p]].pending # None => store[target[p]].state \notin SuccessorOpen
    BY <1>2 DEF Consistent, Unfinished, Historical, SuccessorOpen
  <1> QED  BY <1>1, <1>2, <1>3, <1>4, <1>5, <1>6, <1>7, <1>8

LEMMA DecidedStops ==
    ASSUME NEW r \in Records, NEW e \in Events,
           NEW s \in {"HUMAN_REQUIRED", "PASSED"}
    PROVE  /\ Decided(r, e, s) \in Records
           /\ Decided(r, e, s).issue = r.issue
           /\ Decided(r, e, s).pending = None
           /\ Decided(r, e, s).state = s
  <1>1. s \in States
    BY DEF States, Terminal
  <1>2. Decided(r, e, s).issue = r.issue
    BY DEF Decided, Records
  <1> QED  BY <1>1, <1>2, DecidedType, DecidedFields

LEMMA StartRegisterMatch ==
    ASSUME Typed, SoloInv, MatchInv, Solo, NEW p \in Procs, NEW ws \in Workstreams,
           NEW h \in Heads, StartRegister(p, ws, h)
    PROVE  MatchInv'
  <1>1. /\ UNCHANGED <<store, gh>> /\ pc'[p] = "register"
        /\ rec'[p] = NewRecord(1, h)
    BY DEF StartRegister, Goto, Get, Typed, TypeOK
  <1>2. KnowsAt(p)'
    BY <1>1 DEF KnowsAt, Knows, NewRecord
  <1> QED  BY <1>1, <1>2, MatchLocal

LEMMA StartReconcileMatch ==
    ASSUME Typed, SoloInv, MatchInv, Solo, NEW p \in Procs, NEW ws \in Workstreams,
           StartReconcile(p, ws)
    PROVE  MatchInv'
  <1> DEFINE r == store[ws]
  <1>1. /\ UNCHANGED <<store, gh>> /\ target'[p] = ws /\ r # None
        /\ r \in Records /\ r.pending \in Events /\ gh[ws] \in Maps
    BY DEF StartReconcile, Records, Maps, Typed, TypeOK
  <1>2. Fits(gh[ws], r)
    BY <1>1 DEF MatchInv
  <1>3. \/ pc'[p] \in {"load", "retire"}
        \/ pc'[p] = "finalize" /\ rec'[p] = Decided(r, r.pending, "HUMAN_REQUIRED")
    BY DEF StartReconcile, Goto, Get, Typed, TypeOK
  <1>4. CASE pc'[p] \in {"load", "retire"}
    BY <1>1, <1>4, MatchQuiet DEF Quiet
  <1>5. CASE pc'[p] = "finalize" /\ rec'[p] = Decided(r, r.pending, "HUMAN_REQUIRED")
    <2>1. /\ rec'[p] \in Records /\ rec'[p].issue = r.issue
          /\ rec'[p].pending = None /\ rec'[p].state = "HUMAN_REQUIRED"
      BY <1>1, <1>5, DecidedStops
    <2>2. Fits(gh[ws], rec'[p])
      BY <1>1, <1>2, <2>1, FitsStopped
    <2>3. KnowsAt(p)'
      BY <1>1, <1>5, <2>2 DEF KnowsAt, Knows
    <2> QED  BY <1>1, <2>3, MatchLocal
  <1> QED  BY <1>3, <1>4, <1>5

LEMMA RetireMatch ==
    ASSUME Typed, SoloInv, MatchInv, Solo, NEW p \in Procs, Retire(p)
    PROVE  MatchInv'
  <1> DEFINE r == store[target[p]]
  <1>1. /\ UNCHANGED <<store, gh, target>> /\ pc[p] = "retire"
        /\ pc'[p] = "finalize" /\ r.pending # None
        /\ rec'[p] = Decided(r, r.pending, "HUMAN_REQUIRED")
    BY DEF Retire, Get, Goto, Typed, TypeOK
  <1>2. r \in Records /\ Fits(gh[target[p]], r) /\ gh[target[p]] \in Maps
    BY <1>1, MatchHere DEF AfterReceive, HasTarget, PCs
  <1>3. r.pending \in Events
    BY <1>1, <1>2 DEF Records
  <1>4. /\ rec'[p] \in Records /\ rec'[p].issue = r.issue
        /\ rec'[p].pending = None /\ rec'[p].state = "HUMAN_REQUIRED"
    BY <1>1, <1>2, <1>3, DecidedStops
  <1>5. Fits(gh[target[p]], rec'[p])
    BY <1>2, <1>4, FitsStopped
  <1>6. KnowsAt(p)'
    BY <1>1, <1>5 DEF KnowsAt, Knows
  <1> QED  BY <1>1, <1>6, MatchLocal

LEMMA RegisterMatch ==
    ASSUME Typed, SoloInv, MatchInv, Solo, NEW p \in Procs, Register(p)
    PROVE  MatchInv'
  <1> DEFINE ws == target[p]
  <1>1. /\ store' = [store EXCEPT ![ws] = rec[p]] /\ pc[p] = "register"
        /\ gh' = gh /\ pc'[p] = "idle"
    BY DEF Register, Put, Leave, Typed, TypeOK
  <1>2. /\ ws \in Workstreams /\ rec[p] \in Records /\ store[ws] = None
        /\ rec[p].pending = None /\ rec[p].state = "IDLE"
    BY <1>1 DEF SoloInv, InStep, Typed, Shape, HasRecord, HasTarget, PCs
  <1>3. rec[p].issue = 1 /\ rec[p].attempt = 0
    BY <1>1 DEF MatchInv, Knows, HasTarget, PCs
  <1>4. Untouched(gh[ws])
    BY <1>2 DEF MatchInv
  <1>5. Fits(gh[ws], rec[p])
    <2>1. \A i \in Issues : i > 1 => gh[ws][i].status # "ACTIVE"
      BY <1>4 DEF Untouched
    <2> QED  BY <1>2, <1>3, <1>4, <2>1 DEF Fits, Ahead, Asked, Handed, Untouched, SuccessorOpen
  <1>6. rec[p] # None
    BY <1>2
  <1>7. /\ \A w \in Workstreams : w # ws => store'[w] = store[w] /\ gh'[w] = gh[w]
        /\ store'[ws] = rec[p]
    BY <1>1, <1>2 DEF Typed, TypeOK
  <1>8. KnowsAt(p)'
    BY <1>1 DEF KnowsAt, HasTarget
  <1> QED  BY <1>1, <1>2, <1>5, <1>6, <1>7, <1>8, MatchAt

\* A step that stores a record for the workstream in hand.
LEMMA MatchPut ==
    ASSUME Typed, MatchInv, Solo, NEW p \in Procs, NEW r \in Records, gh' = gh,
           target[p] \in Workstreams, store' = [store EXCEPT ![target[p]] = r],
           target' = target, Fits(gh[target[p]], r), KnowsAt(p)'
    PROVE  MatchInv'
  <1>1. r # None
    OBVIOUS
  <1>2. /\ \A w \in Workstreams :
              w # target[p] => store'[w] = store[w] /\ gh'[w] = gh[w]
        /\ store'[target[p]] = r
    BY DEF Typed, TypeOK
  <1> QED  BY <1>1, <1>2, MatchAt

LEMMA ReceiveMatch ==
    ASSUME Typed, SoloInv, MatchInv, Solo, NEW p \in Procs, Receive(p)
    PROVE  MatchInv'
  <1> DEFINE r == store[target[p]]
             g == gh[target[p]]
  <1>1. /\ UNCHANGED <<store, gh, target, ev>> /\ pc[p] = "receive" /\ r # None
    BY DEF Receive, Goto
  <1>2. /\ target[p] \in Workstreams /\ r \in Records /\ ev[p] \in Events
        /\ g \in Maps
    BY <1>1 DEF Maps, Typed, TypeOK, Shape, HasEvent, HasTarget, PCs
  <1>3. Fits(g, r) /\ Consistent(r)
    BY <1>1, <1>2 DEF MatchInv, SoloInv, PendingIsUndecided
  <1>4. \/ pc'[p] = "reply"
        \/ /\ Acceptable(r, ev[p]) /\ pc'[p] \in {"accept", "lock_head"}
           /\ rec'[p] \in {r, [r EXCEPT !.head = ev[p].head]}
    BY DEF Receive, Goto, Get, Typed, TypeOK
  <1>5. CASE pc'[p] = "reply"
    BY <1>1, <1>5, MatchQuiet DEF Quiet
  <1>6. CASE /\ Acceptable(r, ev[p]) /\ pc'[p] \in {"accept", "lock_head"}
             /\ rec'[p] \in {r, [r EXCEPT !.head = ev[p].head]}
    <2>1. r.pending = None /\ r.state \notin Terminal
      BY <1>3, <1>6 DEF Consistent, Acceptable, Unfinished, Historical,
                        SuccessorOpen, ReworkOpen
    <2>2. /\ rec'[p].issue = r.issue /\ rec'[p].attempt = r.attempt
          /\ rec'[p].outcome = r.outcome
      BY <1>2, <1>6 DEF Records
    <2>3. g[r.issue].attempt = r.attempt /\ r.attempt \in Nat
      BY <1>2, <1>3, <2>1 DEF Fits, Asked, Records
    <2>4. ev[p].attempt \in Nat
      BY <1>2
    <2>5. r.attempt <= ev[p].attempt + 1
      BY <1>3, <1>6, <2>3, <2>4 DEF Acceptable, Fits, Asked
    <2>6. KnowsAt(p)'
      BY <1>1, <1>6, <2>2, <2>3, <2>5 DEF KnowsAt, Knows
    <2> QED  BY <1>1, <2>6, MatchLocal
  <1> QED  BY <1>4, <1>5, <1>6

LEMMA LockHeadMatch ==
    ASSUME Typed, SoloInv, MatchInv, Solo, NEW p \in Procs, LockHead(p)
    PROVE  MatchInv'
  <1> DEFINE r == store[target[p]]
             g == gh[target[p]]
  <1>1. /\ store' = [store EXCEPT ![target[p]] = rec[p]] /\ pc[p] = "lock_head"
        /\ UNCHANGED <<gh, target, ev, rec>> /\ pc'[p] = "accept"
    BY DEF LockHead, Put, Goto, local, Typed, TypeOK
  <1>2. /\ target[p] \in Workstreams /\ r \in Records /\ rec[p] \in Records
        /\ g \in Maps /\ Fits(g, r) /\ KnowsAt(p)
    BY <1>1, MatchHere DEF AfterReceive, HasRecord, HasTarget, PCs
  <1>3. /\ rec[p].issue = r.issue /\ rec[p].attempt = r.attempt
        /\ rec[p].outcome = r.outcome /\ g[r.issue].attempt <= ev[p].attempt + 1
    BY <1>1, <1>2 DEF KnowsAt, Knows, HasTarget, PCs
  <1>4. rec[p].state = r.state /\ rec[p].pending = r.pending
    BY <1>1 DEF SoloInv, InStep
  <1>5. Fits(g, rec[p])
    BY <1>2, <1>3, <1>4, FitsSame
  <1>6. store'[target[p]] = rec[p]
    BY <1>1, <1>2 DEF Typed, TypeOK
  <1>7. KnowsAt(p)'
    BY <1>1, <1>3, <1>6 DEF KnowsAt, Knows
  <1> QED  BY <1>1, <1>2, <1>5, <1>7, MatchPut

LEMMA AcceptMatch ==
    ASSUME Typed, SoloInv, MatchInv, Solo, NEW p \in Procs, Accept(p)
    PROVE  MatchInv'
  <1> DEFINE r == store[target[p]]
             g == gh[target[p]]
             s == [rec[p] EXCEPT !.state = "AWAITING_AUDIT", !.pending = ev[p]]
  <1>1. /\ store' = [store EXCEPT ![target[p]] = s] /\ pc[p] = "accept"
        /\ UNCHANGED <<gh, target>> /\ pc'[p] = "load"
    BY DEF Accept, Put, Goto, local, Typed, TypeOK
  <1>2. /\ target[p] \in Workstreams /\ r \in Records /\ rec[p] \in Records
        /\ g \in Maps /\ Fits(g, r) /\ KnowsAt(p) /\ ev[p] \in Events
    BY <1>1, MatchHere DEF AfterReceive, HasRecord, HasEvent, HasTarget, PCs
  <1>3. rec[p].issue = r.issue /\ g[r.issue].attempt <= ev[p].attempt + 1
    BY <1>1, <1>2 DEF KnowsAt, Knows, HasTarget, PCs
  <1>4. r.pending = None /\ r.state \notin Terminal
    BY <1>1 DEF SoloInv, InStep
  <1>5. /\ s \in Records /\ s.issue = r.issue /\ s.pending = ev[p]
        /\ s.state = "AWAITING_AUDIT"
    BY <1>2, <1>3, RecordUpdates DEF Records
  <1> HIDE DEF s
  <1>6. Fits(g, s)
    BY <1>2, <1>3, <1>4, <1>5, FitsAccepted
  <1>7. KnowsAt(p)'
    BY <1>1, KnowsQuiet DEF KnowsAt, Quiet
  <1> QED  BY <1>1, <1>2, <1>5, <1>6, <1>7, MatchPut

LEMMA BeginMatch ==
    ASSUME Typed, SoloInv, MatchInv, Solo, NEW p \in Procs, Begin(p)
    PROVE  MatchInv'
  <1> DEFINE r == store[target[p]]
             g == gh[target[p]]
             s == [rec[p] EXCEPT !.state = "AUDITING"]
  <1>1. /\ store' = [store EXCEPT ![target[p]] = s] /\ pc[p] = "begin"
        /\ UNCHANGED <<gh, target>> /\ pc'[p] = "audit"
    BY DEF Begin, Put, Goto, local, Typed, TypeOK
  <1>2. /\ target[p] \in Workstreams /\ r \in Records /\ rec[p] \in Records
        /\ g \in Maps /\ Fits(g, r) /\ ev[p] \in Events /\ r.pending # None
    BY <1>1, MatchHere DEF AfterReceive, HasRecord, HasEvent, HasTarget, InFlight, PCs
  <1>3. rec[p] = r
    BY <1>1 DEF SoloInv, InStep
  <1>4. /\ s \in Records /\ s.issue = r.issue /\ s.pending = r.pending
        /\ s.state = "AUDITING"
    BY <1>2, <1>3, RecordUpdates DEF Records
  <1> HIDE DEF s
  <1>5. Fits(g, s)
    BY <1>2, <1>4, FitsOpen
  <1>6. KnowsAt(p)'
    BY <1>1, KnowsQuiet DEF KnowsAt, Quiet
  <1> QED  BY <1>1, <1>2, <1>4, <1>5, <1>6, MatchPut

LEMMA ActivatingMatch ==
    ASSUME Typed, SoloInv, MatchInv, Solo, NEW p \in Procs, Activating(p)
    PROVE  MatchInv'
  <1> DEFINE r == store[target[p]]
             g == gh[target[p]]
             s == [rec[p] EXCEPT !.state = "CYCLE_ACTIVATING"]
  <1>1. /\ store' = [store EXCEPT ![target[p]] = s] /\ pc[p] = "activating"
        /\ UNCHANGED <<gh, target, rec>> /\ pc'[p] = "advance"
    BY DEF Activating, Put, Goto, local, Typed, TypeOK
  <1>2. /\ target[p] \in Workstreams /\ r \in Records /\ rec[p] \in Records
        /\ g \in Maps /\ Fits(g, r) /\ ev[p] \in Events /\ r.pending # None
        /\ KnowsAt(p)
    BY <1>1, MatchHere DEF AfterReceive, HasRecord, HasEvent, HasTarget, InFlight, PCs
  <1>3. rec[p] = r
    BY <1>1 DEF SoloInv, InStep
  <1>4. /\ s \in Records /\ s.issue = r.issue /\ s.pending = r.pending
        /\ s.state = "CYCLE_ACTIVATING"
    BY <1>2, <1>3, RecordUpdates DEF Records
  <1>5. CyclePort
    BY <1>1, <1>2 DEF KnowsAt, Knows, HasTarget, PCs
  <1> HIDE DEF s
  <1>6. Fits(g, s)
    BY <1>2, <1>4, FitsOpen
  <1>7. store'[target[p]] = s
    BY <1>1, <1>2 DEF Typed, TypeOK
  <1>8. KnowsAt(p)'
    BY <1>1, <1>3, <1>4, <1>5, <1>7 DEF KnowsAt, Knows
  <1> QED  BY <1>1, <1>2, <1>4, <1>6, <1>8, MatchPut

LEMMA FinalizeMatch ==
    ASSUME Typed, SoloInv, MatchInv, Solo, NEW p \in Procs, Finalize(p)
    PROVE  MatchInv'
  <1>1. /\ store' = [store EXCEPT ![target[p]] = rec[p]] /\ pc[p] = "finalize"
        /\ UNCHANGED <<gh, target>> /\ pc'[p] = "reply"
    BY DEF Finalize, Put, Goto, local, Typed, TypeOK
  <1>2. /\ target[p] \in Workstreams /\ rec[p] \in Records /\ KnowsAt(p)
    BY <1>1, MatchHere DEF AfterReceive, HasRecord, HasTarget, PCs
  <1>3. Fits(gh[target[p]], rec[p])
    BY <1>1, <1>2 DEF KnowsAt, Knows, HasTarget, PCs
  <1>4. KnowsAt(p)'
    BY <1>1, KnowsQuiet DEF KnowsAt, Quiet
  <1> QED  BY <1>1, <1>2, <1>3, <1>4, MatchPut

LEMMA PacketOf ==
    \A G \in [Workstreams -> Maps] : \A ws \in Workstreams, i \in Issues :
        G[ws] \in Maps /\ G[ws][i] \in Packets
  BY DEF Maps

AttemptSet(G, H, ws, i, n) == H = [G EXCEPT ![ws][i].attempt = n]
StatusSet(G, H, ws, i, c) ==
    \/ H = [G EXCEPT ![ws][i].status = c]
    \/ \E id : H = [G EXCEPT ![ws][i].status = c, ![ws][i].by = id]

\* H has another packet i for ws than G, with the attempt or status given.
AttemptDone(G, H, ws, i, n) ==
    /\ \A w \in Workstreams : w # ws => H[w] = G[w]
    /\ Only(G[ws], H[ws], i)
    /\ H[ws][i].attempt = n /\ H[ws][i].status = G[ws][i].status
StatusDone(G, H, ws, i, c) ==
    /\ \A w \in Workstreams : w # ws => H[w] = G[w]
    /\ Only(G[ws], H[ws], i)
    /\ H[ws][i].status = c /\ H[ws][i].attempt = G[ws][i].attempt

\* What an edit of one packet changes, and what it leaves.
LEMMA AttemptEdit ==
    ASSUME NEW G \in [Workstreams -> Maps], NEW ws \in Workstreams,
           NEW i \in Issues, NEW n \in 0..MaxAttempts,
           NEW H \in [Workstreams -> Maps], AttemptSet(G, H, ws, i, n)
    PROVE  AttemptDone(G, H, ws, i, n)
  <1>1. G[ws] \in Maps /\ G[ws][i] \in Packets
    BY PacketOf
  <1>2. H = [G EXCEPT ![ws] = [G[ws] EXCEPT ![i] = [G[ws][i] EXCEPT !.attempt = n]]]
    BY DEF AttemptSet
  <1>3. H[ws] = [G[ws] EXCEPT ![i] = [G[ws][i] EXCEPT !.attempt = n]]
    BY <1>2
  <1>4. H[ws][i] = [G[ws][i] EXCEPT !.attempt = n]
    BY <1>1, <1>3 DEF Maps
  <1>5. H[ws][i].attempt = n /\ H[ws][i].status = G[ws][i].status
    BY <1>1, <1>4 DEF Packets
  <1>6. Only(G[ws], H[ws], i)
    BY <1>1, <1>3 DEF Only, Maps
  <1> QED  BY <1>2, <1>5, <1>6 DEF AttemptDone

LEMMA StatusEdit ==
    ASSUME NEW G \in [Workstreams -> Maps], NEW ws \in Workstreams,
           NEW i \in Issues, NEW c \in {"QUEUED", "ACTIVE", "COMPLETE"},
           NEW H \in [Workstreams -> Maps], StatusSet(G, H, ws, i, c)
    PROVE  StatusDone(G, H, ws, i, c)
  <1>1. G[ws] \in Maps /\ G[ws][i] \in Packets
    BY PacketOf
  <1>2. CASE H = [G EXCEPT ![ws][i].status = c]
    <2>1. H = [G EXCEPT ![ws] = [G[ws] EXCEPT ![i] = [G[ws][i] EXCEPT !.status = c]]]
      BY <1>2
    <2>2. H[ws] = [G[ws] EXCEPT ![i] = [G[ws][i] EXCEPT !.status = c]]
      BY <2>1
    <2>3. H[ws][i] = [G[ws][i] EXCEPT !.status = c]
      BY <1>1, <2>2 DEF Maps
    <2>4. H[ws][i].status = c /\ H[ws][i].attempt = G[ws][i].attempt
      BY <1>1, <2>3 DEF Packets
    <2>5. Only(G[ws], H[ws], i)
      BY <1>1, <2>2 DEF Only, Maps
    <2> QED  BY <2>1, <2>4, <2>5 DEF StatusDone
  <1>3. ASSUME NEW id, H = [G EXCEPT ![ws][i].status = c, ![ws][i].by = id]
        PROVE  StatusDone(G, H, ws, i, c)
    <2> DEFINE k == [[G[ws][i] EXCEPT !.status = c] EXCEPT !.by = id]
    <2>1. H = [G EXCEPT ![ws] = [G[ws] EXCEPT ![i] = k]]
      BY <1>1, <1>3 DEF Maps
    <2>2. k.status = c /\ k.attempt = G[ws][i].attempt
      BY <1>1 DEF Packets
    <2> HIDE DEF k
    <2>3. H[ws] = [G[ws] EXCEPT ![i] = k]
      BY <2>1
    <2>4. H[ws][i] = k
      BY <1>1, <2>3 DEF Maps
    <2>5. Only(G[ws], H[ws], i)
      BY <1>1, <2>3 DEF Only, Maps
    <2> QED  BY <2>1, <2>2, <2>4, <2>5 DEF StatusDone
  <1> QED  BY <1>2, <1>3 DEF StatusSet

\* A step that only prepares the record of the last put.
LEMMA MatchDecided ==
    ASSUME MatchInv, Solo, NEW p \in Procs, UNCHANGED <<store, gh, target>>,
           pc'[p] = "finalize", Fits(gh[target[p]], rec'[p])
    PROVE  MatchInv'
  <1>1. KnowsAt(p)'
    BY DEF KnowsAt, Knows
  <1> QED  BY <1>1, MatchLocal

LEMMA GateMatch ==
    ASSUME Typed, SoloInv, MatchInv, Solo, NEW p \in Procs, Gate(p)
    PROVE  MatchInv'
  <1> DEFINE r == store[target[p]]
             g == gh[target[p]]
  <1>1. UNCHANGED <<store, gh, target>> /\ pc[p] = "gate"
    BY DEF Gate, Stop, Goto
  <1>2. r \in Records /\ g \in Maps /\ Fits(g, r) /\ ev[p] \in Events
    BY <1>1, MatchHere DEF AfterReceive, HasEvent, HasTarget, PCs
  <1>3. \/ pc'[p] = "finalize" /\ rec'[p] = Decided(r, ev[p], "HUMAN_REQUIRED")
        \/ pc'[p] \in {"packet", "verified"}
    BY DEF Gate, Stop, Goto, Get, Typed, TypeOK
  <1>4. CASE pc'[p] \in {"packet", "verified"}
    BY <1>1, <1>4, MatchQuiet DEF Quiet
  <1>5. CASE pc'[p] = "finalize" /\ rec'[p] = Decided(r, ev[p], "HUMAN_REQUIRED")
    <2>1. /\ rec'[p] \in Records /\ rec'[p].issue = r.issue
          /\ rec'[p].pending = None /\ rec'[p].state = "HUMAN_REQUIRED"
      BY <1>2, <1>5, DecidedStops
    <2>2. Fits(g, rec'[p])
      BY <1>2, <2>1, FitsStopped
    <2> QED  BY <1>1, <1>5, <2>2, MatchDecided
  <1> QED  BY <1>3, <1>4, <1>5

LEMMA VerifiedMatch ==
    ASSUME Typed, SoloInv, MatchInv, Solo, NEW p \in Procs, Verified(p)
    PROVE  MatchInv'
  <1> DEFINE r == store[target[p]]
             g == gh[target[p]]
  <1>1. UNCHANGED <<store, gh, target>> /\ pc[p] = "verified"
    BY DEF Verified, Goto
  <1>2. r \in Records /\ g \in Maps /\ Fits(g, r) /\ ev[p] \in Events
    BY <1>1, MatchHere DEF AfterReceive, HasEvent, HasTarget, PCs
  <1>3. \/ ~CyclePort /\ pc'[p] = "finalize" /\ rec'[p] = Decided(r, ev[p], "PASSED")
        \/ CyclePort /\ pc'[p] = "activating"
    BY DEF Verified, Goto, Get, Typed, TypeOK
  <1>4. CASE CyclePort /\ pc'[p] = "activating"
    <2>1. KnowsAt(p)'
      BY <1>4 DEF KnowsAt, Knows
    <2> QED  BY <1>1, <2>1, MatchLocal
  <1>5. CASE /\ ~CyclePort /\ pc'[p] = "finalize"
             /\ rec'[p] = Decided(r, ev[p], "PASSED")
    <2>1. /\ rec'[p] \in Records /\ rec'[p].issue = r.issue
          /\ rec'[p].pending = None /\ rec'[p].state = "PASSED"
      BY <1>2, <1>5, DecidedStops
    <2>2. \A i \in Issues : i > r.issue => g[i].status # "ACTIVE"
      BY <1>2, <1>5 DEF Fits, Ahead
    <2>3. Fits(g, rec'[p])
      BY <1>2, <2>1, <2>2, FitsPassed
    <2> QED  BY <1>1, <1>5, <2>3, MatchDecided
  <1> QED  BY <1>3, <1>4, <1>5

LEMMA SettleMatch ==
    ASSUME Typed, SoloInv, MatchInv, Solo, NEW p \in Procs, Settle(p)
    PROVE  MatchInv'
  <1> DEFINE r == store[target[p]]
             g == gh[target[p]]
             q == [r EXCEPT !.issue = rec[p].issue + 1, !.attempt = 0,
                            !.head = ev[p].head]
  <1>1. /\ UNCHANGED <<store, gh, target>> /\ pc[p] = "settle"
        /\ pc'[p] = "finalize"
    BY DEF Settle, Stop, Goto, Typed, TypeOK
  <1>2. /\ r \in Records /\ g \in Maps /\ Fits(g, r) /\ ev[p] \in Events
        /\ KnowsAt(p)
    BY <1>1, MatchHere DEF AfterReceive, HasEvent, HasTarget, PCs
  <1>3. /\ rec[p].issue = r.issue
        /\ verdict[p] = "advanced" =>
              /\ g[r.issue].status = "COMPLETE"
              /\ g[r.issue + 1].status = "ACTIVE" /\ g[r.issue + 1].by = ev[p].id
        /\ verdict[p] = "no_successor" =>
              \A i \in Issues : i > r.issue => g[i].status # "ACTIVE"
    BY <1>1, <1>2 DEF KnowsAt, Knows, HasTarget, PCs
  <1>4. \/ rec'[p] = Decided(r, ev[p], "HUMAN_REQUIRED")
        \/ verdict[p] = "no_successor" /\ rec'[p] = Decided(r, ev[p], "PASSED")
        \/ /\ verdict[p] = "advanced"
           /\ rec'[p] = Decided(q, ev[p], "SUCCESSOR_HANDOFF")
    BY DEF Settle, Stop, Goto, Get, Typed, TypeOK
  <1>5. CASE rec'[p] = Decided(r, ev[p], "HUMAN_REQUIRED")
    <2>1. /\ rec'[p] \in Records /\ rec'[p].issue = r.issue
          /\ rec'[p].pending = None /\ rec'[p].state = "HUMAN_REQUIRED"
      BY <1>2, <1>5, DecidedStops
    <2>2. Fits(g, rec'[p])
      BY <1>2, <2>1, FitsStopped
    <2> QED  BY <1>1, <2>2, MatchDecided
  <1>6. CASE verdict[p] = "no_successor" /\ rec'[p] = Decided(r, ev[p], "PASSED")
    <2>1. /\ rec'[p] \in Records /\ rec'[p].issue = r.issue
          /\ rec'[p].pending = None /\ rec'[p].state = "PASSED"
      BY <1>2, <1>6, DecidedStops
    <2>2. \A i \in Issues : i > r.issue => g[i].status # "ACTIVE"
      BY <1>3, <1>6
    <2>3. Fits(g, rec'[p])
      BY <1>2, <2>1, <2>2, FitsPassed
    <2> QED  BY <1>1, <2>3, MatchDecided
  <1>7. CASE /\ verdict[p] = "advanced"
             /\ rec'[p] = Decided(q, ev[p], "SUCCESSOR_HANDOFF")
    <2>1. r.issue + 1 \in Issues
      BY <1>1, <1>3, <1>7 DEF Typed, Shape
    <2>2. q \in Records
      BY <1>2, <1>3, <2>1, RecordUpdates
    <2>3. q.issue = r.issue + 1 /\ q.attempt = 0
      BY <1>2, <1>3 DEF Records
    <2> HIDE DEF q
    <2>4. "SUCCESSOR_HANDOFF" \in States
      BY DEF States, SuccessorOpen
    <2>5. /\ rec'[p] \in Records /\ rec'[p].pending = None
          /\ rec'[p].state = "SUCCESSOR_HANDOFF"
      BY <1>2, <1>7, <2>2, <2>4, DecidedType, DecidedFields
    <2>6. /\ rec'[p].issue = q.issue /\ rec'[p].attempt = q.attempt
          /\ rec'[p].outcome.event = ev[p].id
      BY <1>7, <2>2 DEF Decided, Records
    <2>7. Fits(g, rec'[p])
      BY <1>2, <1>3, <1>7, <2>1, <2>3, <2>5, <2>6, FitsHandedOff
    <2> QED  BY <1>1, <2>7, MatchDecided
  <1> QED  BY <1>4, <1>5, <1>6, <1>7

\* A step that edits a packet of the workstream in hand.
LEMMA MatchEdit ==
    ASSUME Typed, SoloInv, MatchInv, Solo, NEW p \in Procs, pc[p] \in AfterReceive,
           UNCHANGED <<store, target>>,
           \A w \in Workstreams : w # target[p] => gh'[w] = gh[w],
           Fits(gh'[target[p]], store[target[p]]), KnowsAt(p)'
    PROVE  MatchInv'
  <1>1. target[p] \in Workstreams /\ store[target[p]] # None
    BY MatchHere
  <1> QED  BY <1>1, MatchAt

LEMMA ApplyReworkMatch ==
    ASSUME Typed, Typed', SoloInv, MatchInv, Solo, NEW p \in Procs, ApplyRework(p)
    PROVE  MatchInv'
  <1> DEFINE r == store[target[p]]
             g == gh[target[p]]
             h == gh'[target[p]]
             n == ev[p].attempt + 1
             q == [rec[p] EXCEPT !.attempt = n, !.head = ev[p].head]
  <1>1. /\ UNCHANGED <<store, target>> /\ pc[p] = "packet"
        /\ pc'[p] = "finalize"
    BY DEF ApplyRework, Stop, Goto, Typed, TypeOK
  <1>2. /\ r \in Records /\ g \in Maps /\ Fits(g, r) /\ ev[p] \in Events
        /\ rec[p] \in Records /\ target[p] \in Workstreams
        /\ r.pending = ev[p] /\ r.pending # None /\ r.state \notin SuccessorOpen
    BY <1>1, MatchHere DEF AfterReceive, HasEvent, HasRecord, HasTarget, InFlight, PCs
  <1>3. rec[p] = r /\ r.issue \in Issues
    BY <1>1, <1>2 DEF SoloInv, InStep, Records
  <1>4. n \in 0..MaxAttempts /\ gh \in [Workstreams -> Maps]
        /\ gh' \in [Workstreams -> Maps] /\ h \in Maps
    BY <1>1, <1>2 DEF Typed, TypeOK, Shape, Maps
  <1>5. /\ Decided(r, ev[p], "HUMAN_REQUIRED") \in Records
        /\ Decided(r, ev[p], "HUMAN_REQUIRED").issue = r.issue
        /\ Decided(r, ev[p], "HUMAN_REQUIRED").pending = None
        /\ Decided(r, ev[p], "HUMAN_REQUIRED").state = "HUMAN_REQUIRED"
    BY <1>2, DecidedStops
  <1>6. /\ Decided(q, ev[p], "REWORK_HANDOFF") \in Records
        /\ Decided(q, ev[p], "REWORK_HANDOFF").issue = r.issue
        /\ Decided(q, ev[p], "REWORK_HANDOFF").pending = None
        /\ Decided(q, ev[p], "REWORK_HANDOFF").state = "REWORK_HANDOFF"
        /\ Decided(q, ev[p], "REWORK_HANDOFF").attempt = n
    <2>1. q \in Records /\ q.issue = r.issue /\ q.attempt = n
      BY <1>2, <1>3, <1>4, RecordUpdates DEF Records
    <2> HIDE DEF q, n
    <2>2. "REWORK_HANDOFF" \in States
      BY DEF States, ReworkOpen
    <2>3. /\ Decided(q, ev[p], "REWORK_HANDOFF").issue = q.issue
          /\ Decided(q, ev[p], "REWORK_HANDOFF").attempt = q.attempt
      BY <2>1 DEF Decided, Records
    <2> QED  BY <1>2, <2>1, <2>2, <2>3, DecidedType, DecidedFields
  <1>7. ASSUME g[r.issue].status = "ACTIVE",
               gh' = [gh EXCEPT ![target[p]][r.issue].attempt = n]
        PROVE  /\ \A w \in Workstreams : w # target[p] => gh'[w] = gh[w]
               /\ Fits(h, r)
               /\ Fits(h, Decided(q, ev[p], "REWORK_HANDOFF"))
    <2> HIDE DEF q
    <2>1. /\ \A w \in Workstreams : w # target[p] => gh'[w] = gh[w]
          /\ Only(g, h, r.issue)
          /\ h[r.issue].attempt = n /\ h[r.issue].status = g[r.issue].status
      <3>1. AttemptSet(gh, gh', target[p], r.issue, n)
        BY <1>7 DEF AttemptSet
      <3>2. AttemptDone(gh, gh', target[p], r.issue, n)
        <4> HIDE DEF n, r
        <4> QED  BY <1>2, <1>3, <1>4, <3>1, AttemptEdit
      <3> QED  BY <3>2 DEF AttemptDone
    <2> HIDE DEF g, h, r
    <2> QED  BY <1>2, <1>4, <1>6, <1>7, <2>1, FitsFindings
  <1>8. \/ /\ g[r.issue].status = "ACTIVE"
           /\ gh' = [gh EXCEPT ![target[p]][r.issue].attempt = n]
           /\ rec'[p] = Decided(q, ev[p], "REWORK_HANDOFF")
              \/ rec'[p] = Decided(r, ev[p], "HUMAN_REQUIRED")
        \/ gh' = gh /\ rec'[p] = Decided(r, ev[p], "HUMAN_REQUIRED")
    BY <1>3 DEF ApplyRework, Stop, Goto, Get, Typed, TypeOK
  <1>9. ASSUME Fits(h, r), Fits(h, rec'[p]),
               \A w \in Workstreams : w # target[p] => gh'[w] = gh[w]
        PROVE  MatchInv'
    <2>1. KnowsAt(p)'
      BY <1>1, <1>9 DEF KnowsAt, Knows
    <2> QED  BY <1>1, <1>9, <2>1, MatchEdit DEF AfterReceive, HasTarget, PCs
  <1>10. CASE gh' = gh /\ rec'[p] = Decided(r, ev[p], "HUMAN_REQUIRED")
    <2>1. Fits(g, rec'[p])
      BY <1>2, <1>5, <1>10, FitsStopped
    <2> QED  BY <1>2, <1>9, <1>10, <2>1
  <1>11. CASE /\ g[r.issue].status = "ACTIVE"
              /\ gh' = [gh EXCEPT ![target[p]][r.issue].attempt = n]
              /\ rec'[p] = Decided(q, ev[p], "REWORK_HANDOFF")
                 \/ rec'[p] = Decided(r, ev[p], "HUMAN_REQUIRED")
    <2>1. /\ \A w \in Workstreams : w # target[p] => gh'[w] = gh[w]
          /\ Fits(h, r)
          /\ Fits(h, Decided(q, ev[p], "REWORK_HANDOFF"))
      BY <1>7, <1>11
    <2> HIDE DEF h, q, n
    <2>2. Fits(h, Decided(r, ev[p], "HUMAN_REQUIRED"))
      BY <1>2, <1>4, <1>5, <2>1, FitsStopped
    <2>3. Fits(h, rec'[p])
      BY <1>11, <2>1, <2>2
    <2> QED  BY <1>9, <2>1, <2>3 DEF h
  <1> QED  BY <1>8, <1>10, <1>11

LEMMA AdvanceMatch ==
    ASSUME Typed, Typed', SoloInv, MatchInv, Solo, NEW p \in Procs, Advance(p)
    PROVE  MatchInv'
  <1> DEFINE r == store[target[p]]
             g == gh[target[p]]
             h == gh'[target[p]]
             i == r.issue
  <1>1. UNCHANGED <<store, target, ev, rec>> /\ pc[p] = "advance"
    BY DEF Advance
  <1>2. /\ r \in Records /\ g \in Maps /\ Fits(g, r) /\ ev[p] \in Events
        /\ target[p] \in Workstreams /\ KnowsAt(p)
        /\ r.pending # None /\ r.state \notin SuccessorOpen
    BY <1>1, MatchHere DEF AfterReceive, HasEvent, HasTarget, InFlight, PCs
  <1>3. rec[p].issue = i /\ CyclePort /\ i \in Issues
    BY <1>1, <1>2 DEF KnowsAt, Knows, HasTarget, PCs, Records
  <1>4. gh \in [Workstreams -> Maps] /\ gh' \in [Workstreams -> Maps] /\ h \in Maps
    BY <1>2 DEF Typed, TypeOK, Maps
  <1>5. \/ /\ g[i].status = "ACTIVE" /\ gh' = gh
           /\ pc'[p] = "settle" /\ verdict'[p] = "no_successor"
        \/ /\ g[i].status = "ACTIVE" /\ StatusSet(gh, gh', target[p], i, "COMPLETE")
           /\ pc'[p] = "activate"
        \/ g[i].status = "COMPLETE" /\ gh' = gh /\ pc'[p] = "activate"
        \/ /\ g[i].status = "COMPLETE" /\ gh' = gh
           /\ g[i + 1].status = "ACTIVE" /\ g[i + 1].by = ev[p].id
           /\ pc'[p] = "settle" /\ verdict'[p] = "advanced"
        \/ gh' = gh /\ pc'[p] = "settle" /\ verdict'[p] = "human_required"
    <2>1. \A kind : CycleResult(p, "advance", kind) =>
             pc'[p] = "settle" /\ verdict'[p] = kind
      BY DEF CycleResult, Goto, Typed, TypeOK
    <2>2. Goto(p, "advance", "activate") => pc'[p] = "activate"
      BY DEF Goto, Typed, TypeOK
    <2> QED  BY <1>3, <2>1, <2>2 DEF Advance, HasStatus, StatusSet
  <1> HIDE DEF i
  <1>6. ASSUME gh' = gh, KnowsAt(p)' PROVE MatchInv'
    BY <1>1, <1>6, MatchLocal
  <1>7. CASE /\ g[i].status = "ACTIVE" /\ gh' = gh
             /\ pc'[p] = "settle" /\ verdict'[p] = "no_successor"
    <2>1. \A k \in Issues : k > r.issue => g[k].status # "ACTIVE"
      BY <1>2, <1>7 DEF Fits, Ahead, i
    <2>2. KnowsAt(p)'
      BY <1>1, <1>3, <1>7, <2>1 DEF KnowsAt, Knows, i
    <2> QED  BY <1>6, <1>7, <2>2
  <1>8. CASE /\ g[i].status = "ACTIVE"
             /\ StatusSet(gh, gh', target[p], i, "COMPLETE")
             /\ pc'[p] = "activate"
    <2>1. StatusDone(gh, gh', target[p], i, "COMPLETE")
      BY <1>2, <1>3, <1>4, <1>8, StatusEdit
    <2>2. /\ \A w \in Workstreams : w # target[p] => gh'[w] = gh[w]
          /\ Only(g, h, r.issue) /\ h[r.issue].status = "COMPLETE"
          /\ h[r.issue].attempt = g[r.issue].attempt
      BY <2>1 DEF StatusDone, i
    <2>3. Fits(h, r)
      BY <1>2, <1>4, <1>8, <2>2, FitsCompleted DEF i
    <2>4. KnowsAt(p)'
      BY <1>1, <1>3, <1>8, <2>2 DEF KnowsAt, Knows, i
    <2> QED  BY <1>1, <2>2, <2>3, <2>4, MatchEdit DEF AfterReceive, HasTarget, PCs
  <1>9. CASE g[i].status = "COMPLETE" /\ gh' = gh /\ pc'[p] = "activate"
    <2>1. KnowsAt(p)'
      BY <1>1, <1>3, <1>9 DEF KnowsAt, Knows, i
    <2> QED  BY <1>6, <1>9, <2>1
  <1>10. CASE /\ g[i].status = "COMPLETE" /\ gh' = gh
              /\ g[i + 1].status = "ACTIVE" /\ g[i + 1].by = ev[p].id
              /\ pc'[p] = "settle" /\ verdict'[p] = "advanced"
    <2>1. KnowsAt(p)'
      BY <1>1, <1>3, <1>10 DEF KnowsAt, Knows, i
    <2> QED  BY <1>6, <1>10, <2>1
  <1>11. CASE gh' = gh /\ pc'[p] = "settle" /\ verdict'[p] = "human_required"
    <2>1. KnowsAt(p)'
      BY <1>1, <1>3, <1>11 DEF KnowsAt, Knows, i
    <2> QED  BY <1>6, <1>11, <2>1
  <1> QED  BY <1>5, <1>7, <1>8, <1>9, <1>10, <1>11

ActiveBy(G, H, ws, i, id) ==
    H = [G EXCEPT ![ws][i].status = "ACTIVE", ![ws][i].by = id]

LEMMA ActiveByEdit ==
    ASSUME NEW G \in [Workstreams -> Maps], NEW ws \in Workstreams,
           NEW i \in Issues, NEW id, NEW H \in [Workstreams -> Maps],
           ActiveBy(G, H, ws, i, id)
    PROVE  H[ws][i].by = id
  <1> DEFINE k == [[G[ws][i] EXCEPT !.status = "ACTIVE"] EXCEPT !.by = id]
  <1>1. G[ws] \in Maps /\ G[ws][i] \in Packets
    BY PacketOf
  <1>2. H = [G EXCEPT ![ws] = [G[ws] EXCEPT ![i] = k]]
    BY <1>1 DEF ActiveBy, Maps
  <1>3. k.by = id
    BY <1>1 DEF Packets
  <1> HIDE DEF k
  <1>4. H[ws] = [G[ws] EXCEPT ![i] = k]
    BY <1>2
  <1>5. H[ws][i] = k
    BY <1>1, <1>4 DEF Maps
  <1> QED  BY <1>3, <1>5

LEMMA ActivateMatch ==
    ASSUME Typed, Typed', SoloInv, MatchInv, Solo, NEW p \in Procs, Activate(p)
    PROVE  MatchInv'
  <1> DEFINE r == store[target[p]]
             g == gh[target[p]]
             h == gh'[target[p]]
             i == r.issue
  <1>1. /\ UNCHANGED <<store, target, ev, rec>> /\ pc[p] = "activate"
        /\ pc'[p] = "settle"
    BY DEF Activate, CycleResult, Goto, Typed, TypeOK
  <1>2. /\ r \in Records /\ g \in Maps /\ Fits(g, r) /\ ev[p] \in Events
        /\ target[p] \in Workstreams /\ KnowsAt(p)
        /\ r.pending # None /\ r.state \notin SuccessorOpen
    BY <1>1, MatchHere DEF AfterReceive, HasEvent, HasTarget, InFlight, PCs
  <1>3. /\ rec[p].issue = i /\ CyclePort /\ i \in Issues
        /\ g[i].status = "COMPLETE"
    BY <1>1, <1>2 DEF KnowsAt, Knows, HasTarget, PCs, Records
  <1>4. gh \in [Workstreams -> Maps] /\ gh' \in [Workstreams -> Maps] /\ h \in Maps
    BY <1>2 DEF Typed, TypeOK, Maps
  <1>5. \/ /\ i + 1 \in Issues /\ verdict'[p] \in {"advanced", "human_required"}
           /\ gh' = [gh EXCEPT ![target[p]][i + 1].status = "ACTIVE",
                               ![target[p]][i + 1].by = ev[p].id]
        \/ gh' = gh /\ verdict'[p] = "human_required"
    <2>1. \A kind : CycleResult(p, "activate", kind) => verdict'[p] = kind
      BY DEF CycleResult, Goto, Typed, TypeOK
    <2> QED  BY <1>3, <2>1 DEF Activate, HasStatus
  <1> HIDE DEF i
  <1>6. CASE gh' = gh /\ verdict'[p] = "human_required"
    <2>1. KnowsAt(p)'
      BY <1>1, <1>3, <1>6 DEF KnowsAt, Knows, i
    <2> QED  BY <1>1, <1>6, <2>1, MatchLocal
  <1>7. CASE /\ i + 1 \in Issues /\ verdict'[p] \in {"advanced", "human_required"}
             /\ gh' = [gh EXCEPT ![target[p]][i + 1].status = "ACTIVE",
                                 ![target[p]][i + 1].by = ev[p].id]
    <2> DEFINE k == i + 1
    <2>1. k \in Issues /\ k # i /\ g[k] \in Packets
      BY <1>2, <1>3, <1>7 DEF Maps
    <2>2. StatusSet(gh, gh', target[p], k, "ACTIVE")
      BY <1>7 DEF StatusSet
    <2>3. h[k].by = ev[p].id
      <3>1. ActiveBy(gh, gh', target[p], k, ev[p].id)
        BY <1>7 DEF ActiveBy
      <3> HIDE DEF k
      <3> QED  BY <1>2, <1>4, <2>1, <3>1, ActiveByEdit
    <2> HIDE DEF k
    <2>4. StatusDone(gh, gh', target[p], k, "ACTIVE")
      BY <1>2, <1>4, <2>1, <2>2, StatusEdit
    <2>5. /\ \A w \in Workstreams : w # target[p] => gh'[w] = gh[w]
          /\ Only(g, h, k) /\ h[k].status = "ACTIVE" /\ h[k].attempt = g[k].attempt
      BY <2>4 DEF StatusDone
    <2>6. h[i] = g[i]
      BY <1>3, <2>1, <2>5 DEF Only
    <2>7. Fits(h, r)
      BY <1>2, <1>3, <1>4, <1>7, <2>5, FitsActivated DEF i, k
    <2>8. KnowsAt(p)'
      BY <1>1, <1>3, <1>7, <2>3, <2>5, <2>6 DEF KnowsAt, Knows, i, k
    <2> QED  BY <1>1, <2>5, <2>7, <2>8, MatchEdit DEF AfterReceive, HasTarget, PCs
  <1> QED  BY <1>5, <1>6, <1>7

\* Queueing a packet takes nothing from what a process knows.
LEMMA KnowsQueued ==
    ASSUME NEW g \in Maps, NEW h \in Maps, NEW q, NEW l, NEW e, NEW v,
           NEW r \in Records, Knows(q, l, e, v, g, r),
           q = "settle" /\ v = "advanced" => r.issue + 1 \in Issues,
           q = "finalize" => l \in Records,
           \A k \in Issues :
              /\ g[k].status \in {"ACTIVE", "COMPLETE"} => h[k] = g[k]
              /\ h[k].attempt = g[k].attempt
              /\ h[k].status = "ACTIVE" => g[k].status = "ACTIVE",
           \A s \in Records : Fits(g, s) => Fits(h, s)
    PROVE  Knows(q, l, e, v, h, r)
  <1>1. r.issue \in Issues
    BY DEF Records
  <1> QED  BY <1>1 DEF Knows

LEMMA QueueMatch ==
    ASSUME Typed, Typed', SoloInv, MatchInv, Solo, NEW ws \in Workstreams,
           NEW i \in Issues, Queue(ws, i)
    PROVE  MatchInv'
  <1> DEFINE g == gh[ws]
             h == gh'[ws]
  <1>1. /\ UNCHANGED <<store, pc, target, ev, rec, verdict>>
        /\ g[i].status = "ABSENT" /\ StatusSet(gh, gh', ws, i, "QUEUED")
    BY DEF Queue, local, StatusSet
  <1>2. /\ gh \in [Workstreams -> Maps] /\ gh' \in [Workstreams -> Maps]
        /\ g \in Maps /\ h \in Maps
    BY DEF Typed, TypeOK, Maps
  <1>3. StatusDone(gh, gh', ws, i, "QUEUED")
    BY <1>1, <1>2, StatusEdit
  <1>4. /\ \A w \in Workstreams : w # ws => gh'[w] = gh[w]
        /\ Only(g, h, i) /\ h[i].status = "QUEUED" /\ h[i].attempt = g[i].attempt
    BY <1>3 DEF StatusDone
  <1>5. /\ Untouched(g) => Untouched(h)
        /\ \A r \in Records : Fits(g, r) => Fits(h, r)
        /\ \A k \in Issues :
              /\ g[k].status \in {"ACTIVE", "COMPLETE"} => h[k] = g[k]
              /\ h[k].attempt = g[k].attempt
              /\ h[k].status = "ACTIVE" => g[k].status = "ACTIVE"
    BY <1>1, <1>2, <1>4, FitsQueued
  <1> HIDE DEF g, h
  <1>6. ASSUME NEW w \in Workstreams
        PROVE  IF store'[w] = None THEN Untouched(gh'[w]) ELSE Fits(gh'[w], store'[w])
    <2>1. store[w] \in Records \union {None}
      BY DEF Typed, TypeOK
    <2>2. IF store[w] = None THEN Untouched(gh[w]) ELSE Fits(gh[w], store[w])
      BY DEF MatchInv
    <2>3. CASE w # ws
      BY <1>1, <1>4, <2>2, <2>3
    <2>4. CASE w = ws
      BY <1>1, <1>5, <2>1, <2>2, <2>4 DEF g, h
    <2> QED  BY <2>3, <2>4
  <1>7. ASSUME NEW p \in Procs PROVE KnowsAt(p)'
    <2> SUFFICES ASSUME pc[p] \in HasTarget
                 PROVE  Knows(pc[p], rec[p], ev[p], verdict[p], gh'[target[p]],
                              store[target[p]])
      BY <1>1 DEF KnowsAt
    <2>1. Knows(pc[p], rec[p], ev[p], verdict[p], gh[target[p]], store[target[p]])
      BY DEF MatchInv
    <2>2. CASE target[p] # ws
      <3>1. target[p] \in Workstreams
        BY DEF Typed, Shape
      <3> QED  BY <1>4, <2>1, <2>2, <3>1
    <2>3. CASE pc[p] \in {"register", "receive"}
      BY <2>1, <2>3 DEF Knows
    <2>4. CASE target[p] = ws /\ pc[p] \notin {"register", "receive"}
      <3>1. store[ws] \in Records /\ (pc[p] = "finalize" => rec[p] \in Records)
        BY <2>4 DEF Typed, Shape, AfterReceive, HasRecord
      <3>2. pc[p] = "settle" /\ verdict[p] = "advanced" => store[ws].issue + 1 \in Issues
        BY <2>1, <2>4 DEF Typed, Shape, Knows
      <3>3. Knows(pc[p], rec[p], ev[p], verdict[p], g, store[ws])
        BY <2>1, <2>4 DEF g
      <3>4. g \in Maps /\ h \in Maps
        BY <1>2
      <3>5. Knows(pc[p], rec[p], ev[p], verdict[p], h, store[ws])
        BY <1>5, <3>1, <3>2, <3>3, <3>4, KnowsQueued
      <3> QED  BY <2>4, <3>5 DEF h
    <2> QED  BY <2>2, <2>3, <2>4
  <1> QED  BY <1>6, <1>7 DEF MatchInv, KnowsAt

LEMMA MatchStep ==
    Solo => (Typed /\ Typed' /\ SoloInv /\ MatchInv /\ [Next]_vars => MatchInv')
  <1> SUFFICES ASSUME Solo, Typed, Typed', SoloInv, MatchInv, [Next]_vars
               PROVE  MatchInv'
    OBVIOUS
  <1>1. ASSUME UNCHANGED <<store, gh, pc, target, ev, rec, verdict>>
        PROVE  MatchInv'
    BY <1>1 DEF MatchInv
  <1>2. ASSUME NEW p \in Procs, Leave(p), UNCHANGED <<store, gh>> PROVE MatchInv'
    <2>1. pc'[p] = "idle"
      BY <1>2 DEF Leave, Typed, TypeOK
    <2> QED  BY <1>2, <2>1, MatchQuiet DEF Quiet
  <1>3. ASSUME NEW p \in Procs,
               StartDrain(p) \/ (\E e \in Events : StartHandle(p, e)) \/ Move(p)
                  \/ Load(p) \/ Audit(p)
        PROVE  MatchInv'
    <2>1. /\ UNCHANGED <<store, gh>>
          /\ pc'[p] \in {"drain", "receive", "begin", "gate"}
      BY <1>3 DEF StartDrain, StartHandle, Move, Load, Audit, Goto, Typed, TypeOK
    <2> QED  BY <2>1, MatchQuiet DEF Quiet
  <1>4. ASSUME NEW p \in Procs, Claim(p) PROVE MatchInv'
    <2>1. UNCHANGED <<store, gh>> /\ pc'[p] \in {"drain", "receive"}
      BY <1>4 DEF Claim, Goto, Typed, TypeOK
    <2> QED  BY <2>1, MatchQuiet DEF Quiet
  <1>5. ASSUME NEW p \in Procs, Start(p) PROVE MatchInv'
    BY <1>3, <1>5, StartReconcileMatch, StartRegisterMatch DEF Start
  <1>6. ASSUME NEW p \in Procs,
               DrainDone(p) \/ Reply(p) \/ Refuse(p) \/ NothingPending(p) \/ Crash(p)
        PROVE  MatchInv'
    BY <1>2, <1>6 DEF DrainDone, Reply, Refuse, NothingPending, Raise, Crash
  <1>7. ASSUME NEW p \in Procs, Work(p) PROVE MatchInv'
    BY <1>3, <1>4, <1>6, <1>7, RegisterMatch, ReceiveMatch, LockHeadMatch,
       AcceptMatch, BeginMatch, GateMatch, ApplyReworkMatch, VerifiedMatch,
       ActivatingMatch, AdvanceMatch, ActivateMatch, SettleMatch, FinalizeMatch,
       RetireMatch DEF Work
  <1>8. ASSUME NEW e \in Events, Enqueue(e) PROVE MatchInv'
    BY <1>1, <1>8 DEF Enqueue, local
  <1>9. ASSUME NEW ws \in Workstreams, NEW i \in Issues, Queue(ws, i)
        PROVE  MatchInv'
    BY <1>9, QueueMatch
  <1>10. CASE UNCHANGED vars
    BY <1>1, <1>10 DEF vars
  <1> QED  BY <1>5, <1>6, <1>7, <1>8, <1>9, <1>10 DEF Next

\* What every put relies on: at each point between reading the record and storing
\* the next one, the packets are those the record, and the process's copy of it,
\* account for, over crashes and re-runs.
THEOREM MatchInductive == Solo /\ FoundInOrder => (Spec => []MatchInv)
  <1> SUFFICES ASSUME Solo, FoundInOrder PROVE Spec => []MatchInv
    OBVIOUS
  <1>1. Init => MatchInv
    BY MatchInit
  <1>2. Typed /\ Typed' /\ SoloInv /\ MatchInv /\ [Next]_vars => MatchInv'
    BY MatchStep
  <1>3. Spec => []SoloInv
    BY SoloAlways
  <1> QED  BY <1>1, <1>2, <1>3, TypedAlways, PTL DEF Spec

\* With one controller at a time, what the record says of the cycle is what happened
\* on GitHub, wherever the controller died and was started again.
THEOREM RecordIsTrue == Solo /\ FoundInOrder => (Spec => []RecordMatchesPackets)
  <1> SUFFICES ASSUME Solo, FoundInOrder PROVE Spec => []RecordMatchesPackets
    OBVIOUS
  <1>1. Typed /\ SoloInv /\ MatchInv => RecordMatchesPackets
    <2> SUFFICES ASSUME Typed, SoloInv, MatchInv PROVE RecordMatchesPackets
      OBVIOUS
    <2>1. ASSUME NEW ws \in Workstreams, store[ws] # None
          PROVE  /\ store[ws] \in Records /\ Fits(gh[ws], store[ws])
                 /\ Consistent(store[ws])
                 /\ gh[ws][store[ws].issue].attempt \in 0..MaxAttempts
      <3>1. store[ws] \in Records /\ gh[ws] \in [Issues -> Packets]
        BY <2>1 DEF Typed, TypeOK
      <3>2. gh[ws][store[ws].issue] \in Packets
        BY <3>1 DEF Records
      <3> QED
        BY <2>1, <3>1, <3>2 DEF MatchInv, SoloInv, PendingIsUndecided, Packets
    <2>2. SuccessorIsActive
      BY <2>1 DEF SuccessorIsActive, Fits, Handed
    <2>3. ASSUME NEW ws \in Workstreams, store[ws] # None, store[ws].state = "PASSED"
          PROVE  \A i \in Issues : i > store[ws].issue => gh[ws][i].status # "ACTIVE"
      BY <2>1, <2>3 DEF Fits, Ahead, Consistent, Unfinished, Historical
    <2>4. PassedStartedNothing
      BY <2>3 DEF PassedStartedNothing
    <2>5. PacketOneRoundAhead
      BY <2>1 DEF PacketOneRoundAhead, Fits, Asked, Terminal, Consistent,
                  Unfinished, Historical
    <2> QED  BY <2>2, <2>4, <2>5 DEF RecordMatchesPackets
  <1>2. Spec => []MatchInv
    BY MatchInductive
  <1>3. Spec => []SoloInv
    BY SoloAlways
  <1> QED  BY <1>1, <1>2, <1>3, TypedAlways, PTL
=============================================================================
