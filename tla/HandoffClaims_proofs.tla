------------------------- MODULE HandoffClaims_proofs -------------------------
(***************************************************************************)
(* Theorems about the concurrency pipeline.  First the dispatch of a plan     *)
(* (DispatchEffect), for every set of packets, plans, calls and processes;   *)
(* then the whole of it (HandoffClaims): what is claimed and joined is true   *)
(* of what was handed over, and a plan is dispatched in one shot, for every   *)
(* set of claimers too.  The bounds of the checked instances are not used.    *)
(***************************************************************************)
EXTENDS HandoffClaims, WatchHost, FiniteSetTheorems, TLAPS

USE DispatchAssumption DEF DispatchAssumption

\* Where a call holds the reservation of its execution.
Past == {"reserved", "rebuilt", "published", "checked", "dispatching",
         "finalize"}

\* The types the argument needs.
Shaped ==
    /\ pc \in [Procs -> PCs]
    /\ call \in [Procs -> Calls \union {None}]
    /\ \A p \in Procs : pc[p] # "idle" => call[p] \in Calls
    /\ at \in [Procs -> [Issues -> Running \union Results \union {None}]]
    /\ DOMAIN gh = Issues
    /\ edits \in Seq(Issues)

\* The thread of every node a call counts as dispatched has written its handoff.
Written(p) ==
    \A n \in Plan(p).picked :
        at[p][n] = "DISPATCHED" => HandoffOf(p, n) \in handoffs

\* What a call in progress can rely on: nobody takes its records away.
Held(p) ==
    /\ pc[p] \in Past =>
          ExecutionOf(call[p], "IN_PROGRESS", None, None) \in executions
    /\ pc[p] = "dispatching" =>
          EffectOf(call[p], "IN_PROGRESS", None) \in effects
    /\ pc[p] = "finalize" =>
          EffectOf(call[p], "TERMINAL", ReceiptOf(p)) \in effects
    /\ pc[p] \in {"dispatching", "finalize"} => Written(p)

\* No plan has two executions, in the ledger or in the calls.
PlansOnce == \A x, y \in executions : x.auth.plan = y.auth.plan => x = y

PlansApart ==
    \A p, q \in Procs :
        pc[p] \in Past /\ pc[q] \in Past /\ Plan(p) = Plan(q) => p = q

\* A handoff belongs to an execution.
HandoffsOwned ==
    \A h \in handoffs :
        /\ h = [effect |-> h.effect, auth |-> h.auth, node |-> h.node]
        /\ \E x \in executions : x.auth = h.auth /\ x.effect = h.effect

EffectInv ==
    /\ Shaped
    /\ \A p \in Procs : Held(p)
    /\ PlansOnce
    /\ PlansApart
    /\ HandoffsOwned
    /\ ReceiptsAreTrue

-----------------------------------------------------------------------------
(* What steps have in common *)

\* Nothing of a reservation or a receipt is taken away.
Kept(q) ==
    /\ pc[q] \in Past /\ ExecutionOf(call[q], "IN_PROGRESS", None, None)
           \in executions =>
          ExecutionOf(call[q], "IN_PROGRESS", None, None) \in executions'
    /\ pc[q] = "dispatching" /\ EffectOf(call[q], "IN_PROGRESS", None)
           \in effects =>
          EffectOf(call[q], "IN_PROGRESS", None) \in effects'
    /\ pc[q] = "finalize" /\ EffectOf(call[q], "TERMINAL", ReceiptOf(q))
           \in effects =>
          EffectOf(call[q], "TERMINAL", ReceiptOf(q)) \in effects'

\* A call that does not move keeps what it holds.
LEMMA HeldStays ==
    ASSUME NEW q \in Procs, Held(q), Kept(q), handoffs \subseteq handoffs',
           pc'[q] = pc[q], call'[q] = call[q], at'[q] = at[q]
    PROVE  Held(q)'
  <1>1. ReceiptOf(q)' = ReceiptOf(q) /\ Plan(q)' = Plan(q)
    BY DEF ReceiptOf, Plan
  <1>2. \A n : HandoffOf(q, n)' = HandoffOf(q, n)
    BY DEF HandoffOf, Auth
  <1>3. ASSUME Written(q) PROVE Written(q)'
    BY <1>1, <1>2, <1>3 DEF Written
  <1> QED  BY <1>1, <1>3 DEF Held, Kept

\* Records of calls with different plans are different.
LEMMA RecordsApart ==
    ASSUME NEW x, NEW y, x.auth.plan # y.auth.plan, NEW s, NEW t, NEW r,
           NEW u, NEW a, NEW b
    PROVE  /\ ExecutionOf(x, s, r, a) # ExecutionOf(y, t, u, b)
           /\ EffectOf(x, s, a) # EffectOf(y, t, b)
  <1>1. /\ ExecutionOf(x, s, r, a).auth = x.auth
        /\ ExecutionOf(y, t, u, b).auth = y.auth
    BY DEF ExecutionOf
  <1>2. EffectOf(x, s, a).auth = x.auth /\ EffectOf(y, t, b).auth = y.auth
    BY DEF EffectOf
  <1> QED  BY <1>1, <1>2

\* A step of one process that leaves the ledgers alone.
LEMMA LedgersAlone ==
    ASSUME EffectInv, UNCHANGED ledgers, Shaped', NEW p \in Procs, Held(p)',
           \A q \in Procs \ {p} :
              pc'[q] = pc[q] /\ call'[q] = call[q] /\ at'[q] = at[q],
           pc'[p] \in Past => pc[p] \in Past /\ call'[p] = call[p]
    PROVE  EffectInv'
  <1>1. UNCHANGED <<executions, effects, handoffs>>
    BY DEF ledgers
  <1>2. ASSUME NEW q \in Procs PROVE Held(q)'
    <2>1. CASE q = p
      BY <2>1
    <2>2. CASE q # p
      BY <1>1, <2>2, HeldStays DEF EffectInv, Kept
    <2> QED  BY <2>1, <2>2
  <1>3. PlansOnce' /\ HandoffsOwned' /\ ReceiptsAreTrue'
    BY <1>1 DEF EffectInv, PlansOnce, HandoffsOwned, ReceiptsAreTrue, Aggregate
  <1>4. \A q \in Procs : pc'[q] \in Past =>
           pc[q] \in Past /\ Plan(q)' = Plan(q)
    BY DEF Plan
  <1>5. PlansApart'
    BY <1>4 DEF EffectInv, PlansApart
  <1> QED  BY <1>2, <1>3, <1>5 DEF EffectInv

\* A step of the environment.
LEMMA CallsAlone ==
    ASSUME EffectInv, UNCHANGED <<ledgers, pc, call, at>>, Shaped'
    PROVE  EffectInv'
  <1>1. UNCHANGED <<executions, effects, handoffs>>
    BY DEF ledgers
  <1>2. ASSUME NEW q \in Procs PROVE Held(q)'
    BY <1>1, HeldStays DEF EffectInv, Kept
  <1>3. PlansOnce' /\ HandoffsOwned' /\ ReceiptsAreTrue'
    BY <1>1 DEF EffectInv, PlansOnce, HandoffsOwned, ReceiptsAreTrue, Aggregate
  <1>4. PlansApart'
    BY DEF EffectInv, PlansApart, Plan
  <1> QED  BY <1>2, <1>3, <1>4 DEF EffectInv

\* A call that begins or ends.
LEMMA CallAtRest ==
    ASSUME EffectInv, UNCHANGED ledgers, Shaped', NEW p \in Procs,
           pc'[p] \notin Past,
           \A q \in Procs \ {p} :
              pc'[q] = pc[q] /\ call'[q] = call[q] /\ at'[q] = at[q]
    PROVE  EffectInv'
  <1>1. Held(p)'
    BY DEF Held, Past
  <1> QED  BY <1>1, LedgersAlone

LEMMA ForgetShape ==
    ASSUME Shaped, NEW p \in Procs, Forget(p), UNCHANGED <<gh, edits>>,
           pc' = [pc EXCEPT ![p] = "idle"]
    PROVE  /\ Shaped'
           /\ pc'[p] = "idle"
           /\ \A q \in Procs \ {p} :
                 pc'[q] = pc[q] /\ call'[q] = call[q] /\ at'[q] = at[q]
  BY DEF Shaped, Forget, NoThreads, PCs

-----------------------------------------------------------------------------
(* The environment, and the steps of a call *)

LEMMA InitInv == EffectInit => EffectInv
  <1> SUFFICES ASSUME EffectInit PROVE EffectInv
    OBVIOUS
  <1>1. Shaped
    BY DEF EffectInit, Shaped, PCs, NoThreads
  <1>2. \A p \in Procs : pc[p] = "idle"
    BY DEF EffectInit
  <1>3. \A p \in Procs : Held(p)
    BY <1>2 DEF Held, Past
  <1>4. PlansApart
    BY <1>2 DEF PlansApart, Past
  <1>5. PlansOnce /\ HandoffsOwned /\ ReceiptsAreTrue
    BY DEF EffectInit, PlansOnce, HandoffsOwned, ReceiptsAreTrue
  <1> QED  BY <1>1, <1>3, <1>4, <1>5 DEF EffectInv

LEMMA PublishSnapshotInv ==
    ASSUME EffectInv, NEW s \in Snapshots, PublishSnapshot(s)
    PROVE  EffectInv'
  <1>1. UNCHANGED <<ledgers, pc, call, at, gh, edits>>
    BY DEF PublishSnapshot, port
  <1>2. Shaped'
    BY <1>1 DEF EffectInv, Shaped
  <1> QED  BY <1>1, <1>2, CallsAlone

LEMMA OwnerEditInv ==
    ASSUME EffectInv, NEW i \in Issues, OwnerEdit(i)
    PROVE  EffectInv'
  <1>1. UNCHANGED <<ledgers, pc, call, at>>
    BY DEF OwnerEdit, port
  <1>2. edits' \in Seq(Issues) /\ DOMAIN gh' = Issues
    BY DEF OwnerEdit, EffectInv, Shaped
  <1>3. Shaped'
    BY <1>1, <1>2 DEF EffectInv, Shaped
  <1> QED  BY <1>1, <1>3, CallsAlone

\* Start and Authorize.
LEMMA CalledInv ==
    ASSUME EffectInv, NEW p \in Procs, NEW x \in Calls, Called(p, x),
           NEW to \in {"authorizing", "built"}, Goto(p, "idle", to),
           UNCHANGED <<ledgers, gh, port, edits>>
    PROVE  EffectInv'
  <1>1. /\ Shaped'
        /\ pc'[p] \notin Past
        /\ \A q \in Procs \ {p} :
              pc'[q] = pc[q] /\ call'[q] = call[q] /\ at'[q] = at[q]
    BY DEF EffectInv, Shaped, Called, Goto, port, PCs, Past
  <1> QED  BY <1>1, CallAtRest

LEMMA BreakOffInv ==
    ASSUME EffectInv, NEW p \in Procs, BreakOff(p)
    PROVE  EffectInv'
  <1>1. /\ Shaped'
        /\ pc'[p] = "idle"
        /\ \A q \in Procs \ {p} :
              pc'[q] = pc[q] /\ call'[q] = call[q] /\ at'[q] = at[q]
    BY ForgetShape DEF BreakOff, EffectInv, bound
  <1>2. pc'[p] \notin Past
    BY <1>1 DEF Past
  <1> QED  BY <1>1, <1>2, CallAtRest DEF BreakOff

\* Steps between the reservations.
LEMMA GotoInv ==
    ASSUME EffectInv, NEW p \in Procs, NEW from, NEW to,
           <<from, to>> \in {<<"reserved", "rebuilt">>,
                             <<"rebuilt", "published">>,
                             <<"published", "checked">>},
           Goto(p, from, to), UNCHANGED <<ledgers, gh, call, port, edits>>
    PROVE  EffectInv'
  <1>1. /\ Shaped'
        /\ pc[p] \in Past
        /\ pc'[p] \in {"rebuilt", "published", "checked"}
        /\ call'[p] = call[p]
        /\ \A q \in Procs \ {p} :
              pc'[q] = pc[q] /\ call'[q] = call[q] /\ at'[q] = at[q]
    BY DEF EffectInv, Shaped, Goto, port, PCs, Past
  <1>2. Held(p)'
    BY <1>1 DEF EffectInv, Held, Past, ledgers
  <1> QED  BY <1>1, <1>2, LedgersAlone

LEMMA WriteAuthorizationInv ==
    ASSUME EffectInv, NEW p \in Procs, WriteAuthorization(p)
    PROVE  EffectInv'
  <1>1. CASE Goto(p, "rebuilt", "published") /\ UNCHANGED <<call, port>>
    BY <1>1, GotoInv DEF WriteAuthorization, bound
  <1>2. CASE Goto(p, "authorizing", "idle") /\ Forget(p)
    <2>1. /\ Shaped'
          /\ pc'[p] = "idle"
          /\ \A q \in Procs \ {p} :
                pc'[q] = pc[q] /\ call'[q] = call[q] /\ at'[q] = at[q]
      BY <1>2, ForgetShape DEF WriteAuthorization, EffectInv, bound, Goto
    <2>2. pc'[p] \notin Past
      BY <2>1 DEF Past
    <2> QED  BY <2>1, <2>2, CallAtRest DEF WriteAuthorization
  <1> QED  BY <1>1, <1>2 DEF WriteAuthorization

LEMMA CallShape ==
    ASSUME Shaped, NEW p \in Procs, NEW from, NEW to \in PCs \ {"idle"},
           from # "idle", Goto(p, from, to), UNCHANGED <<gh, call, edits>>,
           at' \in [Procs -> [Issues -> Running \union Results \union {None}]]
    PROVE  /\ Shaped'
           /\ call[p] \in Calls
           /\ pc'[p] = to
           /\ \A q \in Procs \ {p} : pc'[q] = pc[q] /\ call'[q] = call[q]
  BY DEF Shaped, Goto

-----------------------------------------------------------------------------
(* Reservations and receipts *)

LEMMA ReserveExecutionInv ==
    ASSUME EffectInv, NEW p \in Procs, ReserveExecution(p)
    PROVE  EffectInv'
  <1> DEFINE new == ExecutionOf(call[p], "IN_PROGRESS", None, None)
  <1>1. /\ Shaped'
        /\ pc'[p] = "reserved"
        /\ pc[p] = "built"
        /\ UNCHANGED <<effects, handoffs, call, at>>
        /\ \A q \in Procs \ {p} : pc'[q] = pc[q]
    BY DEF EffectInv, Shaped, ReserveExecution, Goto, PCs, port, bound
  <1>2. executions' = executions \union {new}
    BY DEF ReserveExecution
  <1>3. \A r \in executions : r.auth.plan # Plan(p)
    BY DEF ReserveExecution
  <1>4. new.auth.plan = Plan(p)
    BY DEF ExecutionOf, Plan
  <1>5. new.state = "IN_PROGRESS"
    BY DEF ExecutionOf
  <1>6. ASSUME NEW q \in Procs PROVE Held(q)'
    <2>1. CASE q = p
      BY <1>1, <1>2, <2>1 DEF Held
    <2>2. CASE q # p
      BY <1>1, <1>2, <2>2, HeldStays DEF EffectInv, Kept
    <2> QED  BY <2>1, <2>2
  <1>7. PlansOnce'
    BY <1>2, <1>3, <1>4 DEF EffectInv, PlansOnce
  <1>8. ASSUME NEW q \in Procs \ {p}, pc'[q] \in Past PROVE Plan(q) # Plan(p)
    <2>1. ExecutionOf(call[q], "IN_PROGRESS", None, None) \in executions
      BY <1>1, <1>8 DEF EffectInv, Held
    <2> QED  BY <1>3, <2>1 DEF ExecutionOf, Plan
  <1>9. PlansApart'
    <2>1. \A q \in Procs : Plan(q)' = Plan(q)
      BY <1>1 DEF Plan
    <2>2. ASSUME NEW q \in Procs, NEW r \in Procs, pc'[q] \in Past,
                 pc'[r] \in Past, Plan(q) = Plan(r)
          PROVE  q = r
      <3>1. CASE q # p /\ r # p
        BY <1>1, <2>2, <3>1 DEF EffectInv, PlansApart
      <3>2. CASE q = p \/ r = p
        BY <1>8, <2>2, <3>2
      <3> QED  BY <3>1, <3>2
    <2> QED  BY <2>1, <2>2 DEF PlansApart
  <1>10. HandoffsOwned'
    BY <1>1, <1>2 DEF EffectInv, HandoffsOwned
  <1>11. ReceiptsAreTrue'
    <2> HIDE DEF new
    <2>1. \A x \in executions' : x.state = "TERMINAL" => x \in executions
      BY <1>2, <1>5
    <2> QED  BY <1>1, <2>1 DEF EffectInv, ReceiptsAreTrue, Aggregate
  <1> QED  BY <1>1, <1>6, <1>7, <1>9, <1>10, <1>11 DEF EffectInv

LEMMA ReserveEffectInv ==
    ASSUME EffectInv, NEW p \in Procs, ReserveEffect(p)
    PROVE  EffectInv'
  <1> DEFINE new == EffectOf(call[p], "IN_PROGRESS", None)
  <1>1. /\ pc'[p] = "dispatching"
        /\ pc[p] = "checked"
        /\ UNCHANGED <<executions, handoffs, call, gh, edits>>
        /\ \A q \in Procs \ {p} : pc'[q] = pc[q] /\ at'[q] = at[q]
    BY DEF EffectInv, Shaped, ReserveEffect, Goto, bound
  <1>2. effects' = effects \union {new}
    BY DEF ReserveEffect
  <1>3. new.state = "IN_PROGRESS"
    BY DEF EffectOf
  <1>4. call[p] \in Calls /\ Plan(p).picked \subseteq Issues
    BY <1>1 DEF EffectInv, Shaped, Plan, Authorizations, SnapshotType
  <1>5. at' = [at EXCEPT ![p] =
                 [n \in Issues |-> IF n \in Plan(p).picked THEN "enter"
                                   ELSE None]]
    BY DEF ReserveEffect
  <1>6. Shaped'
    <2>1. at' \in [Procs -> [Issues -> Running \union Results \union {None}]]
      BY <1>5 DEF EffectInv, Shaped, Running
    <2>2. pc' \in [Procs -> PCs]
      BY DEF EffectInv, Shaped, ReserveEffect, Goto, PCs
    <2> QED  BY <1>1, <1>4, <2>1, <2>2 DEF EffectInv, Shaped
  <1>7. ASSUME NEW n \in Plan(p).picked PROVE at'[p][n] = "enter"
    BY <1>4, <1>5 DEF EffectInv, Shaped
  <1>8. ASSUME NEW q \in Procs PROVE Held(q)'
    <2>1. CASE q = p
      <3>1. Plan(p)' = Plan(p)
        BY <1>1 DEF Plan
      <3>2. Written(p)'
        BY <1>7, <3>1 DEF Written
      <3>3. ExecutionOf(call[p], "IN_PROGRESS", None, None) \in executions
        BY <1>1 DEF EffectInv, Held, Past
      <3> QED  BY <1>1, <1>2, <2>1, <3>2, <3>3 DEF Held
    <2>2. CASE q # p
      BY <1>1, <1>2, <2>2, HeldStays DEF EffectInv, Kept
    <2> QED  BY <2>1, <2>2
  <1>9. PlansOnce' /\ HandoffsOwned'
    BY <1>1 DEF EffectInv, PlansOnce, HandoffsOwned
  <1>10. PlansApart'
    <2>1. \A q \in Procs : Plan(q)' = Plan(q) /\ (pc'[q] \in Past => pc[q] \in Past)
      BY <1>1 DEF Plan, Past
    <2> QED  BY <2>1 DEF EffectInv, PlansApart
  <1>11. ReceiptsAreTrue'
    <2> HIDE DEF new
    <2>1. /\ \A r \in effects' : r.state = "TERMINAL" => r \in effects
          /\ effects \subseteq effects'
      BY <1>2, <1>3
    <2>2. \A r \in effects' : r.state = "TERMINAL" =>
             \A n \in DOMAIN r.receipt : r.receipt[n] = "DISPATCHED" =>
                [effect |-> r.effect, auth |-> r.auth, node |-> n] \in handoffs'
      BY <1>1, <2>1 DEF EffectInv, ReceiptsAreTrue
    <2>3. \A x \in executions' : x.state = "TERMINAL" =>
             \E r \in effects' :
                /\ r.effect = x.effect /\ r.auth = x.auth
                /\ r.state = "TERMINAL" /\ r.receipt = x.receipt
                /\ x.result = Aggregate(r.receipt)
      BY <1>1, <2>1 DEF EffectInv, ReceiptsAreTrue
    <2> QED  BY <2>2, <2>3 DEF ReceiptsAreTrue, Aggregate
  <1> QED  BY <1>6, <1>8, <1>9, <1>10, <1>11 DEF EffectInv

LEMMA FinalizeEffectInv ==
    ASSUME EffectInv, NEW p \in Procs, FinalizeEffect(p)
    PROVE  EffectInv'
  <1> DEFINE old == EffectOf(call[p], "IN_PROGRESS", None)
             new == EffectOf(call[p], "TERMINAL", ReceiptOf(p))
  <1>1. /\ pc'[p] = "finalize"
        /\ pc[p] = "dispatching"
        /\ UNCHANGED <<executions, handoffs, call, at>>
        /\ \A q \in Procs \ {p} : pc'[q] = pc[q]
        /\ Shaped'
    BY DEF EffectInv, Shaped, FinalizeEffect, Goto, bound, port, PCs
  <1>2. effects' = (effects \ {old}) \union {new}
    BY DEF FinalizeEffect, Replace
  <1>3. /\ old.state = "IN_PROGRESS"
        /\ new.state = "TERMINAL"
        /\ new.effect = call[p].effect /\ new.auth = Auth(p)
        /\ new.receipt = ReceiptOf(p)
    BY DEF EffectOf, Auth
  <1>4. Written(p)
    BY <1>1 DEF EffectInv, Held
  <1>5. ASSUME NEW q \in Procs PROVE Held(q)'
    <2>1. CASE q = p
      <3>1. Written(p)' /\ ReceiptOf(p)' = ReceiptOf(p)
        BY <1>1, <1>4 DEF Written, ReceiptOf, Plan, HandoffOf, Auth
      <3>2. ExecutionOf(call[p], "IN_PROGRESS", None, None) \in executions
        BY <1>1 DEF EffectInv, Held, Past
      <3> QED  BY <1>1, <1>2, <2>1, <3>1, <3>2 DEF Held
    <2>2. CASE q # p
      <3>1. pc[q] \in Past => call[q].auth.plan # call[p].auth.plan
        BY <1>1, <2>2 DEF EffectInv, PlansApart, Plan, Past
      <3>2. ASSUME pc[q] \in Past, NEW s, NEW a
            PROVE  EffectOf(call[q], s, a) # old
        BY <3>1, <3>2, RecordsApart
      <3>3. Kept(q)
        BY <1>1, <1>2, <3>2 DEF Kept, Past
      <3> QED  BY <1>1, <2>2, <3>3, HeldStays DEF EffectInv
    <2> QED  BY <2>1, <2>2
  <1>6. PlansOnce' /\ HandoffsOwned'
    BY <1>1 DEF EffectInv, PlansOnce, HandoffsOwned
  <1>7. PlansApart'
    <2>1. \A q \in Procs : Plan(q)' = Plan(q) /\ (pc'[q] \in Past => pc[q] \in Past)
      BY <1>1 DEF Plan, Past
    <2> QED  BY <2>1 DEF EffectInv, PlansApart
  <1>8. ReceiptsAreTrue'
    <2>1. \A n \in DOMAIN new.receipt : new.receipt[n] = "DISPATCHED" =>
             [effect |-> new.effect, auth |-> new.auth, node |-> n] \in handoffs
      BY <1>3, <1>4 DEF Written, ReceiptOf, HandoffOf
    <2> HIDE DEF old, new
    <2>2. \A r \in effects : r.state = "TERMINAL" => r \in effects'
      BY <1>2, <1>3
    <2>3. \A r \in effects' : r.state = "TERMINAL" => r \in effects \/ r = new
      BY <1>2, <1>3
    <2>4. \A r \in effects' : r.state = "TERMINAL" =>
             \A n \in DOMAIN r.receipt : r.receipt[n] = "DISPATCHED" =>
                [effect |-> r.effect, auth |-> r.auth, node |-> n] \in handoffs'
      BY <1>1, <2>1, <2>3 DEF EffectInv, ReceiptsAreTrue
    <2>5. \A x \in executions' : x.state = "TERMINAL" =>
             \E r \in effects' :
                /\ r.effect = x.effect /\ r.auth = x.auth
                /\ r.state = "TERMINAL" /\ r.receipt = x.receipt
                /\ x.result = Aggregate(r.receipt)
      BY <1>1, <2>2 DEF EffectInv, ReceiptsAreTrue
    <2> QED  BY <2>4, <2>5 DEF ReceiptsAreTrue, Aggregate
  <1> QED  BY <1>1, <1>5, <1>6, <1>7, <1>8 DEF EffectInv

LEMMA FinalizeExecutionInv ==
    ASSUME EffectInv, NEW p \in Procs, FinalizeExecution(p)
    PROVE  EffectInv'
  <1> DEFINE old == ExecutionOf(call[p], "IN_PROGRESS", None, None)
             new == ExecutionOf(call[p], "TERMINAL", Aggregate(ReceiptOf(p)),
                                ReceiptOf(p))
  <1>1. /\ Shaped'
        /\ pc'[p] = "idle"
        /\ \A q \in Procs \ {p} :
              pc'[q] = pc[q] /\ call'[q] = call[q] /\ at'[q] = at[q]
    BY ForgetShape DEF FinalizeExecution, EffectInv, bound, Goto
  <1>2. UNCHANGED <<effects, handoffs>> /\ pc[p] = "finalize"
    BY DEF FinalizeExecution, Goto
  <1>3. old \in executions /\ executions' = (executions \ {old}) \union {new}
    BY DEF FinalizeExecution, Replace
  <1>4. /\ old.auth = call[p].auth /\ old.effect = call[p].effect
        /\ new.auth = call[p].auth /\ new.effect = call[p].effect
        /\ old.state = "IN_PROGRESS" /\ new.state = "TERMINAL"
        /\ new.receipt = ReceiptOf(p)
        /\ new.result = Aggregate(ReceiptOf(p))
    BY DEF ExecutionOf
  <1>5. ASSUME NEW q \in Procs PROVE Held(q)'
    <2>1. CASE q = p
      BY <1>1, <2>1 DEF Held, Past
    <2>2. CASE q # p
      <3>1. pc[q] \in Past => call[q].auth.plan # call[p].auth.plan
        BY <1>2, <2>2 DEF EffectInv, PlansApart, Plan, Past
      <3>2. ASSUME pc[q] \in Past, NEW s, NEW r, NEW a
            PROVE  ExecutionOf(call[q], s, r, a) # old
        BY <3>1, <3>2, RecordsApart
      <3>3. Kept(q)
        BY <1>2, <1>3, <3>2 DEF Kept
      <3> QED  BY <1>1, <1>2, <2>2, <3>3, HeldStays DEF EffectInv
    <2> QED  BY <2>1, <2>2
  <1>6. PlansApart'
    BY <1>1 DEF EffectInv, PlansApart, Plan, Past
  <1>7. EffectOf(call[p], "TERMINAL", ReceiptOf(p)) \in effects
    BY <1>2 DEF EffectInv, Held
  <1>8. \E r \in effects :
           /\ r.effect = new.effect /\ r.auth = new.auth
           /\ r.state = "TERMINAL" /\ r.receipt = new.receipt
           /\ new.result = Aggregate(r.receipt)
    BY <1>4, <1>7 DEF EffectOf
  <1> HIDE DEF old, new
  <1>9. PlansOnce'
    BY <1>3, <1>4 DEF EffectInv, PlansOnce
  <1>10. HandoffsOwned'
    <2>1. \A x \in executions : \E y \in executions' :
             y.auth = x.auth /\ y.effect = x.effect
      BY <1>3, <1>4
    <2> QED  BY <1>2, <2>1 DEF EffectInv, HandoffsOwned
  <1>11. ReceiptsAreTrue'
    <2>1. \A x \in executions' : x \in executions \/ x = new
      BY <1>3
    <2>2. \A x \in executions' : x.state = "TERMINAL" =>
             \E r \in effects :
                /\ r.effect = x.effect /\ r.auth = x.auth
                /\ r.state = "TERMINAL" /\ r.receipt = x.receipt
                /\ x.result = Aggregate(r.receipt)
      BY <1>8, <2>1 DEF EffectInv, ReceiptsAreTrue
    <2> QED  BY <1>2, <2>2 DEF EffectInv, ReceiptsAreTrue, Aggregate
  <1> QED  BY <1>1, <1>5, <1>6, <1>9, <1>10, <1>11 DEF EffectInv

-----------------------------------------------------------------------------
(* The dispatch threads *)

LEMMA ThreadShape ==
    ASSUME EffectInv, NEW p \in Procs, NEW n, NEW from,
           NEW to \in Running \union Results, ThreadTo(p, n, from, to),
           UNCHANGED <<pc, call, edits>>, DOMAIN gh' = Issues
    PROVE  /\ Shaped'
           /\ pc[p] = "dispatching"
           /\ n \in Issues
           /\ \A q \in Procs \ {p} : at'[q] = at[q]
           /\ at'[p][n] = to
           /\ \A m \in Issues \ {n} : at'[p][m] = at[p][m]
  <1>1. pc[p] = "dispatching" /\ call[p] \in Calls /\ n \in Plan(p).picked
    BY DEF EffectInv, Shaped, ThreadTo
  <1>2. n \in Issues
    BY <1>1 DEF Plan, Authorizations, SnapshotType
  <1>3. at' = [at EXCEPT ![p][n] = to]
    BY DEF ThreadTo
  <1>4. at \in [Procs -> [Issues -> Running \union Results \union {None}]]
    BY DEF EffectInv, Shaped
  <1>5. at' \in [Procs -> [Issues -> Running \union Results \union {None}]]
    BY <1>3, <1>4
  <1> QED  BY <1>1, <1>2, <1>3, <1>4, <1>5 DEF EffectInv, Shaped

\* A thread that has not handed its node over.
LEMMA ThreadOnlyInv ==
    ASSUME EffectInv, NEW p \in Procs, NEW n, NEW from,
           NEW to \in (Running \union Results) \ {"DISPATCHED"},
           ThreadTo(p, n, from, to), ThreadOnly, DOMAIN gh' = Issues
    PROVE  EffectInv'
  <1>1. UNCHANGED <<executions, effects, handoffs, pc, call, edits>>
    BY DEF ThreadOnly, ledgers, bound
  <1>2. /\ Shaped'
        /\ pc[p] = "dispatching"
        /\ \A q \in Procs \ {p} : at'[q] = at[q]
        /\ at'[p][n] = to
        /\ \A m \in Issues \ {n} : at'[p][m] = at[p][m]
    BY <1>1, ThreadShape
  <1>3. Plan(p).picked \subseteq Issues
    <2>1. call[p] \in Calls
      BY <1>2 DEF EffectInv, Shaped
    <2> QED  BY <2>1 DEF Plan, Authorizations, SnapshotType
  <1>4. Plan(p)' = Plan(p) /\ \A m : HandoffOf(p, m)' = HandoffOf(p, m)
    BY <1>1 DEF Plan, HandoffOf, Auth
  <1>5. Written(p)'
    BY <1>1, <1>2, <1>3, <1>4 DEF EffectInv, Held, Written
  <1>6. Held(p)'
    BY <1>1, <1>2, <1>5 DEF EffectInv, Held
  <1> QED  BY <1>1, <1>2, <1>6, LedgersAlone DEF ledgers

LEMMA AppendHandoffInv ==
    ASSUME EffectInv, NEW p \in Procs, NEW n, AppendHandoff(p, n)
    PROVE  EffectInv'
  <1> DEFINE new == HandoffOf(p, n)
  <1>1. UNCHANGED <<executions, effects, pc, call, gh, edits>>
    BY DEF AppendHandoff, bound
  <1>2. PICK to \in {"DISPATCHED", "ERROR"} :
           /\ ThreadTo(p, n, "append", to)
           /\ to = "DISPATCHED" => new \in handoffs'
    BY DEF AppendHandoff
  <1>3. handoffs' \in {handoffs, handoffs \union {new}}
    BY DEF AppendHandoff
  <1>4. /\ Shaped'
        /\ pc[p] = "dispatching"
        /\ \A q \in Procs \ {p} : at'[q] = at[q]
        /\ at'[p][n] = to
        /\ \A m \in Issues \ {n} : at'[p][m] = at[p][m]
    <2>1. to \in Running \union Results /\ DOMAIN gh' = Issues
      BY <1>1, <1>2 DEF Results, EffectInv, Shaped
    <2> QED  BY <1>1, <1>2, <2>1, ThreadShape
  <1>5. Plan(p).picked \subseteq Issues
    <2>1. call[p] \in Calls
      BY <1>4 DEF EffectInv, Shaped
    <2> QED  BY <2>1 DEF Plan, Authorizations, SnapshotType
  <1>6. Plan(p)' = Plan(p) /\ \A m : HandoffOf(p, m)' = HandoffOf(p, m)
    BY <1>1 DEF Plan, HandoffOf, Auth
  <1>7. Written(p)'
    <2>1. Written(p)
      BY <1>4 DEF EffectInv, Held
    <2> HIDE DEF new
    <2>2. ASSUME NEW m \in Plan(p).picked, at'[p][m] = "DISPATCHED"
          PROVE  HandoffOf(p, m) \in handoffs'
      <3>1. CASE m = n
        BY <1>2, <1>4, <2>2, <3>1 DEF new
      <3>2. CASE m # n
        BY <1>3, <1>4, <1>5, <2>1, <2>2, <3>2 DEF Written
      <3> QED  BY <3>1, <3>2
    <2> QED  BY <1>6, <2>2 DEF Written
  <1>8. ASSUME NEW q \in Procs PROVE Held(q)'
    <2>1. CASE q = p
      BY <1>1, <1>4, <1>7, <2>1 DEF EffectInv, Held
    <2>2. CASE q # p
      <3>1. handoffs \subseteq handoffs'
        BY <1>3
      <3> QED  BY <1>1, <1>4, <2>2, <3>1, HeldStays DEF EffectInv, Kept
    <2> QED  BY <2>1, <2>2
  <1>9. PlansOnce' /\ PlansApart'
    BY <1>1 DEF EffectInv, PlansOnce, PlansApart, Plan
  <1>10. HandoffsOwned'
    <2>1. new = [effect |-> new.effect, auth |-> new.auth, node |-> new.node]
      BY DEF HandoffOf
    <2>2. \E x \in executions : x.auth = new.auth /\ x.effect = new.effect
      <3>1. ExecutionOf(call[p], "IN_PROGRESS", None, None) \in executions
        BY <1>4 DEF EffectInv, Held, Past
      <3> QED  BY <3>1 DEF ExecutionOf, HandoffOf, Auth
    <2> HIDE DEF new
    <2> QED  BY <1>1, <1>3, <2>1, <2>2 DEF EffectInv, HandoffsOwned
  <1>11. ReceiptsAreTrue'
    <2>1. handoffs \subseteq handoffs'
      BY <1>3
    <2> QED  BY <1>1, <2>1 DEF EffectInv, ReceiptsAreTrue, Aggregate
  <1> QED  BY <1>4, <1>8, <1>9, <1>10, <1>11 DEF EffectInv

LEMMA DispatchInv ==
    ASSUME EffectInv, NEW p \in Procs, NEW n \in Issues, Dispatch(p, n)
    PROVE  EffectInv'
  <1>1. CASE AppendHandoff(p, n)
    BY <1>1, AppendHandoffInv
  <1>2. CASE Edit(p, n)
    <2>1. DOMAIN gh' = Issues /\ ThreadOnly
      BY <1>2 DEF Edit, EffectInv, Shaped
    <2>2. PICK to \in {"land", "HUMAN_REQUIRED", "timed"} :
             ThreadTo(p, n, "edit", to)
      BY <1>2 DEF Edit
    <2>3. to \in (Running \union Results) \ {"DISPATCHED"}
      BY DEF Running, Critical, Results
    <2> QED  BY <2>1, <2>2, <2>3, ThreadOnlyInv
  <1>3. CASE \/ Enter(p, n) \/ TakeLock(p, n) \/ ViewPacket(p, n)
             \/ Recheck(p, n) \/ TimedOut(p, n) \/ Land(p, n)
             \/ FailDispatch(p, n)
    <2>1. DOMAIN gh' = Issues /\ ThreadOnly
      BY <1>3 DEF Enter, TakeLock, ViewPacket, Recheck, TimedOut, Land,
                  FailDispatch, EffectInv, Shaped
    <2>2. \E from : \E to \in {"lock", "view", "check", "edit", "land",
                               "append", "HUMAN_REQUIRED"} :
             ThreadTo(p, n, from, to)
      BY <1>3 DEF Enter, TakeLock, ViewPacket, Recheck, TimedOut, Land,
                  FailDispatch
    <2>3. {"lock", "view", "check", "edit", "land", "append",
           "HUMAN_REQUIRED"} \subseteq (Running \union Results) \ {"DISPATCHED"}
      BY DEF Running, Critical, Results
    <2> QED  BY <2>1, <2>2, <2>3, ThreadOnlyInv
  <1> QED  BY <1>1, <1>2, <1>3 DEF Dispatch

LEMMA StepInv ==
    ASSUME EffectInv, NEW p \in Procs, Step(p)
    PROVE  EffectInv'
  <1>1. CASE Rebuild(p)
    BY <1>1, GotoInv DEF Rebuild, bound
  <1>2. CASE CheckAuthorization(p)
    BY <1>2, GotoInv DEF CheckAuthorization, bound
  <1> QED  BY <1>1, <1>2, ReserveExecutionInv, WriteAuthorizationInv,
              ReserveEffectInv, FinalizeEffectInv, FinalizeExecutionInv,
              BreakOffInv DEF Step

LEMMA NextInv == EffectInv /\ [EffectNext]_effectVars => EffectInv'
  <1> SUFFICES ASSUME EffectInv, [EffectNext]_effectVars PROVE EffectInv'
    OBVIOUS
  <1>1. ASSUME NEW s \in Snapshots, PublishSnapshot(s) PROVE EffectInv'
    BY <1>1, PublishSnapshotInv
  <1>2. ASSUME NEW p \in Procs, NEW x \in Calls, Start(p, x) PROVE EffectInv'
    BY <1>2, CalledInv DEF Start
  <1>3. ASSUME NEW p \in Procs, NEW x \in Requests, Authorize(p, x)
        PROVE  EffectInv'
    BY <1>3, CalledInv DEF Authorize
  <1>4. ASSUME NEW p \in Procs, Step(p) PROVE EffectInv'
    BY <1>4, StepInv
  <1>5. ASSUME NEW p \in Procs, NEW n \in Issues, Dispatch(p, n)
        PROVE  EffectInv'
    BY <1>5, DispatchInv
  <1>6. ASSUME NEW i \in Issues, OwnerEdit(i) PROVE EffectInv'
    BY <1>6, OwnerEditInv
  <1>7. CASE UNCHANGED effectVars
    <2>1. UNCHANGED <<ledgers, pc, call, at, gh, edits>>
      BY <1>7 DEF effectVars, port, bound
    <2>2. Shaped'
      BY <2>1 DEF EffectInv, Shaped
    <2> QED  BY <2>1, <2>2, CallsAlone
  <1> QED  BY <1>1, <1>2, <1>3, <1>4, <1>5, <1>6, <1>7 DEF EffectNext

-----------------------------------------------------------------------------
(* Theorems *)

\* The inductive invariant.
THEOREM Inductive == EffectSpec => []EffectInv
  <1>1. EffectInit => EffectInv
    BY InitInv
  <1>2. EffectInv /\ [EffectNext]_effectVars => EffectInv'
    BY NextInv
  <1> QED  BY <1>1, <1>2, PTL DEF EffectSpec

\* start_concurrency_execution hands a node of a plan over at most once: two
\* handoffs of it belong to the one execution of the plan, so they are the same.
THEOREM OneHandoff == EffectSpec => []HandedOnce
  <1>1. EffectInv => HandedOnce
    <2> SUFFICES ASSUME EffectInv, NEW h \in handoffs, NEW k \in handoffs,
                        h.auth.plan = k.auth.plan, h.node = k.node
                 PROVE  h = k
      BY DEF HandedOnce
    <2>1. PICK x \in executions : x.auth = h.auth /\ x.effect = h.effect
      BY DEF EffectInv, HandoffsOwned
    <2>2. PICK y \in executions : y.auth = k.auth /\ y.effect = k.effect
      BY DEF EffectInv, HandoffsOwned
    <2>3. x = y
      BY <2>1, <2>2 DEF EffectInv, PlansOnce
    <2>4. /\ h = [effect |-> h.effect, auth |-> h.auth, node |-> h.node]
          /\ k = [effect |-> k.effect, auth |-> k.auth, node |-> k.node]
      BY DEF EffectInv, HandoffsOwned
    <2> QED  BY <2>1, <2>2, <2>3, <2>4
  <1> QED  BY <1>1, Inductive, PTL

\* What the effect and execution ledgers call dispatched was handed over.
THEOREM TrueReceipts == EffectSpec => []ReceiptsAreTrue
  <1>1. EffectInv => ReceiptsAreTrue
    BY DEF EffectInv
  <1> QED  BY <1>1, Inductive, PTL

\* Activating a packet needs the reservations of its execution and effect.
THEOREM Reservations == EffectSpec => ReservedFirst
  <1> DEFINE Acts == \A i \in Issues :
          (gh[i].status # "ACTIVE" /\ gh'[i].status = "ACTIVE"
             /\ edits' = edits) =>
              \E x \in executions, r \in effects :
                  /\ x.state = "IN_PROGRESS" /\ r.state = "IN_PROGRESS"
                  /\ x.effect = r.effect /\ x.auth = r.auth
                  /\ i \in x.auth.plan.picked
  <1>1. ASSUME EffectInv, NEW p \in Procs, NEW n \in Issues, Edit(p, n)
        PROVE  Acts
    <2>1. pc[p] = "dispatching" /\ n \in Plan(p).picked
      BY <1>1 DEF Edit, ThreadTo
    <2>2. ASSUME NEW i \in Issues \ {n} PROVE gh'[i] = gh[i]
      BY <1>1 DEF Edit, EffectInv, Shaped
    <2>3. /\ ExecutionOf(call[p], "IN_PROGRESS", None, None) \in executions
          /\ EffectOf(call[p], "IN_PROGRESS", None) \in effects
      BY <1>1, <2>1 DEF EffectInv, Held, Past
    <2>4. \E x \in executions, r \in effects :
             /\ x.state = "IN_PROGRESS" /\ r.state = "IN_PROGRESS"
             /\ x.effect = r.effect /\ x.auth = r.auth
             /\ n \in x.auth.plan.picked
      BY <2>1, <2>3 DEF ExecutionOf, EffectOf, Plan
    <2> QED  BY <2>2, <2>4
  <1>2. ASSUME EffectInv, NEW i \in Issues, OwnerEdit(i) PROVE Acts
    <2>1. edits' # edits
      BY <1>2 DEF OwnerEdit, EffectInv, Shaped
    <2> QED  BY <2>1
  <1>3. ASSUME gh' = gh PROVE Acts
    BY <1>3
  <1>4. ASSUME NEW p \in Procs, NEW n \in Issues, Dispatch(p, n),
               ~Edit(p, n)
        PROVE  gh' = gh
    BY <1>4 DEF Dispatch, Enter, TakeLock, ViewPacket, Recheck, TimedOut, Land,
                AppendHandoff, FailDispatch
  <1>5. ASSUME NEW p \in Procs, Step(p) PROVE gh' = gh
    BY <1>5 DEF Step, ReserveExecution, Rebuild, WriteAuthorization,
                CheckAuthorization, ReserveEffect, FinalizeEffect,
                FinalizeExecution, BreakOff
  <1>6. ASSUME EffectInv, EffectNext PROVE Acts
    <2>1. CASE \E s \in Snapshots : PublishSnapshot(s)
      BY <2>1, <1>3 DEF PublishSnapshot
    <2>2. CASE \E p \in Procs : \/ \E x \in Calls : Start(p, x)
                                \/ \E x \in Requests : Authorize(p, x)
      BY <2>2, <1>3 DEF Start, Authorize
    <2>3. CASE \E p \in Procs : Step(p)
      BY <2>3, <1>3, <1>5
    <2>4. CASE \E p \in Procs, n \in Issues : Dispatch(p, n)
      BY <2>4, <1>1, <1>3, <1>4, <1>6
    <2>5. CASE \E i \in Issues : OwnerEdit(i)
      BY <2>5, <1>2, <1>6
    <2> QED  BY <1>6, <2>1, <2>2, <2>3, <2>4, <2>5 DEF EffectNext
  <1>7. EffectInv /\ [EffectNext]_effectVars => [Acts]_effectVars
    BY <1>6
  <1> QED  BY <1>7, Inductive, PTL DEF EffectSpec, ReservedFirst

-----------------------------------------------------------------------------
(* The limit of a repository                                                  *)
(*                                                                            *)
(* The repository lock belongs to one port, so between the reads and the edit *)
(* of one call another call may activate a packet of the same repository.     *)
(* What keeps the limit is the list after the edit (Land): it shows every     *)
(* packet that is handed over or about to be, as these are ACTIVE from their  *)
(* own Land on, and all of it must be what this call expected.                *)

\* Inside the repository lock, before the activation is noted.
InFlight == Critical \ {"append"}

\* The node is in the handoff ledger or about to be written there.
Handing(i) ==
    \/ \E h \in handoffs : h.node = i
    \/ \E p \in Procs : at[p][i] = "append"

Occupying(r) == {i \in InRepository(Issues, r) : Untouched(i) /\ Handing(i)}

Bodies ==
    [status : {"ACTIVE", "PAUSED", "COMPLETE"}, queued : BOOLEAN, text : Nat]

\* What is edited is a packet.
PacketsShaped ==
    /\ gh \in [Issues -> Bodies]
    /\ base \in [Procs -> [Issues -> Bodies \union {None}]]
    /\ \A p \in Procs, n \in Issues :
          at[p][n] \in {"check", "edit"} => base[p][n] \in Bodies

PortsShaped ==
    /\ context \in [Procs -> Snapshots \union {None}]
    /\ activated \in [Procs -> SUBSET Issues]
    /\ \A p \in Procs, n \in Issues :
          at[p][n] \in Running \ {"enter"} => context[p] # None

\* The repository lock of a port.
OneInside ==
    \A p \in Procs, m, n \in Issues :
        /\ RepositoryOf[m] = RepositoryOf[n]
        /\ at[p][m] \in Critical
        /\ at[p][n] \in Critical
        => m = n

\* What TakeLock found stays true up to Land.
Room(p, n) ==
    at[p][n] \in InFlight =>
        Cardinality(Expected(p, n)) < MaxWip[RepositoryOf[n]]

StillActive ==
    \A i \in Issues : Untouched(i) /\ Handing(i) => gh[i].status = "ACTIVE"

WithinWip == \A r \in Repositories : Cardinality(Occupying(r)) <= MaxWip[r]

LimitInv ==
    /\ EffectInv
    /\ PacketsShaped
    /\ PortsShaped
    /\ OneInside
    /\ \A p \in Procs, n \in Issues : Room(p, n)
    /\ StillActive
    /\ WithinWip

LEMMA PartOfIssues ==
    ASSUME NEW S, S \subseteq Issues, NEW T, T \subseteq S
    PROVE  /\ IsFiniteSet(S) /\ IsFiniteSet(T)
           /\ Cardinality(T) \in Nat /\ Cardinality(S) \in Nat
           /\ Cardinality(T) <= Cardinality(S)
  <1>1. IsFiniteSet(Issues)
    BY DispatchAssumption
  <1>2. IsFiniteSet(S)
    BY <1>1, FS_Subset
  <1> QED  BY <1>2, FS_Subset, FS_CardinalityType

\* Nobody is added to those who occupy a repository.
LEMMA NobodyNew ==
    ASSUME WithinWip,
           \A i \in Issues : Untouched(i)' /\ Handing(i)' =>
               Untouched(i) /\ Handing(i)
    PROVE  WithinWip'
  <1> SUFFICES ASSUME NEW r \in Repositories
               PROVE  Cardinality(Occupying(r)') <= MaxWip[r]
    BY DEF WithinWip
  <1>1. Occupying(r)' \subseteq Occupying(r) /\ Occupying(r) \subseteq Issues
    BY DEF Occupying, InRepository
  <1>2. /\ Cardinality(Occupying(r)') <= Cardinality(Occupying(r))
        /\ Cardinality(Occupying(r)') \in Nat /\ Cardinality(Occupying(r)) \in Nat
    BY <1>1, PartOfIssues
  <1>3. Cardinality(Occupying(r)) <= MaxWip[r] /\ MaxWip[r] \in Nat
    BY DispatchAssumption DEF WithinWip
  <1> QED  BY <1>2, <1>3

\* A step that starts, ends or leaves alone whole ports.
LEMMA PortsRest ==
    ASSUME LimitInv, EffectInv', PacketsShaped', UNCHANGED <<gh, handoffs, edits>>,
           context' \in [Procs -> Snapshots \union {None}],
           activated' \in [Procs -> SUBSET Issues],
           \A q \in Procs :
              \/ /\ at'[q] = at[q]
                 /\ context'[q] = context[q] /\ activated'[q] = activated[q]
              \/ \A n \in Issues : at'[q][n] \in {None, "enter"}
    PROVE  LimitInv'
  <1>1. /\ {None, "enter"} \intersect Critical = {}
        /\ {None, "enter"} \intersect (Running \ {"enter"}) = {}
        /\ "append" \in Critical /\ InFlight \subseteq Critical
        /\ Critical \subseteq Running \ {"enter"}
    <2>1. None \notin Running
      BY DispatchAssumption
    <2> QED  BY <2>1 DEF Running, Critical, InFlight
  <1>2. ASSUME NEW q \in Procs, NEW n \in Issues, at'[q][n] \in Running \ {"enter"}
        PROVE  /\ at'[q] = at[q]
               /\ context'[q] = context[q] /\ activated'[q] = activated[q]
    BY <1>1, <1>2
  <1> HIDE DEF InFlight
  <1>3. PortsShaped'
    BY <1>2 DEF LimitInv, PortsShaped
  <1>4. OneInside'
    BY <1>1, <1>2 DEF LimitInv, OneInside
  <1>5. ASSUME NEW q \in Procs, NEW n \in Issues PROVE Room(q, n)'
    <2> SUFFICES ASSUME at'[q][n] \in InFlight
                 PROVE  Cardinality(Expected(q, n)') < MaxWip[RepositoryOf[n]]
      BY DEF Room, InFlight, Critical
    <2>1. /\ at'[q] = at[q]
          /\ context'[q] = context[q] /\ activated'[q] = activated[q]
      BY <1>1, <1>2
    <2>2. Expected(q, n)' = Expected(q, n)
      BY <2>1 DEF Expected, InRepository
    <2> QED  BY <2>1, <2>2 DEF LimitInv, Room
  <1>6. ASSUME NEW i \in Issues, Untouched(i)', Handing(i)'
        PROVE  Untouched(i) /\ Handing(i)
    <2>1. Untouched(i)
      BY <1>6 DEF Untouched
    <2>2. ASSUME NEW q \in Procs, at'[q][i] = "append" PROVE at[q][i] = "append"
      BY <1>1, <1>2, <2>2
    <2> QED  BY <1>6, <2>1, <2>2 DEF Handing
  <1>7. StillActive'
    BY <1>6 DEF LimitInv, StillActive
  <1>8. WithinWip'
    BY <1>6, NobodyNew DEF LimitInv
  <1> QED  BY <1>3, <1>4, <1>5, <1>7, <1>8 DEF LimitInv

LEMMA LimitOwnerEdit ==
    ASSUME LimitInv, EffectInv', PacketsShaped', NEW i \in Issues, OwnerEdit(i)
    PROVE  LimitInv'
  <1>1. UNCHANGED <<handoffs, context, activated, at>>
    BY DEF OwnerEdit, port, ledgers
  <1>2. edits \in Seq(Issues) /\ edits' = Append(edits, i)
    BY DEF OwnerEdit, LimitInv, EffectInv, Shaped
  <1>3. ~Untouched(i)' /\ \A j : Untouched(j)' => Untouched(j)
    <2>1. /\ DOMAIN edits = 1..Len(edits) /\ Len(edits) \in Nat
          /\ DOMAIN edits' = 1..(Len(edits) + 1)
          /\ edits'[Len(edits) + 1] = i
          /\ \A k \in DOMAIN edits : edits'[k] = edits[k]
      BY <1>2
    <2>2. ~Untouched(i)'
      BY <2>1 DEF Untouched
    <2>3. ASSUME NEW j, Untouched(j)' PROVE Untouched(j)
      <3>1. \A k \in DOMAIN edits : k \in DOMAIN edits' /\ edits'[k] = edits[k]
        BY <2>1
      <3> QED  BY <2>3, <3>1 DEF Untouched
    <2> QED  BY <2>2, <2>3
  <1>4. \A j \in Issues \ {i} : gh'[j] = gh[j]
    BY DEF OwnerEdit, LimitInv, EffectInv, Shaped
  <1>5. \A j : Handing(j)' = Handing(j)
    BY <1>1 DEF Handing
  <1>6. PortsShaped' /\ OneInside'
    BY <1>1 DEF LimitInv, PortsShaped, OneInside
  <1>7. \A q \in Procs, n \in Issues : Room(q, n)'
    BY <1>1 DEF LimitInv, Room, Expected, InRepository, InFlight
  <1>8. StillActive'
    BY <1>3, <1>4, <1>5 DEF LimitInv, StillActive
  <1>9. WithinWip'
    BY <1>3, <1>5, NobodyNew DEF LimitInv
  <1> QED  BY <1>6, <1>7, <1>8, <1>9 DEF LimitInv

\* A step of one thread that hands nothing over: it may read the context of the
\* port, or activate its packet.
LEMMA ThreadLimit ==
    ASSUME LimitInv, EffectInv', PacketsShaped', NEW p \in Procs, NEW n \in Issues,
           NEW from, NEW to \in (Running \ {"append"}) \union Results,
           ThreadTo(p, n, from, to), UNCHANGED <<activated, edits>>,
           \/ UNCHANGED context
           \/ /\ context[p] = None /\ to = "lock"
              /\ \E s \in Snapshots : context' = [context EXCEPT ![p] = s],
           \A j : Handing(j)' => Handing(j),
           \A j \in Issues : gh[j].status = "ACTIVE" => gh'[j].status = "ACTIVE",
           to \in Running \ {"enter"} => context'[p] # None,
           to \in InFlight =>
              /\ Cardinality(Expected(p, n)) < MaxWip[RepositoryOf[n]]
              /\ \A m \in InRepository(Issues, RepositoryOf[n]) \ {n} :
                    at[p][m] \notin Critical
    PROVE  LimitInv'
  <1>1. at' = [at EXCEPT ![p][n] = to]
    BY DEF ThreadTo
  <1>2. at \in [Procs -> [Issues -> Running \union Results \union {None}]]
    BY DEF LimitInv, EffectInv, Shaped
  <1>3. /\ at'[p][n] = to
        /\ \A m \in Issues \ {n} : at'[p][m] = at[p][m]
        /\ \A q \in Procs \ {p} : at'[q] = at[q]
    BY <1>1, <1>2
  <1>4. /\ Critical \subseteq Running \ {"enter"} /\ InFlight \subseteq Critical
        /\ to \in Critical => to \in InFlight
        /\ "lock" \notin Critical
    BY DEF Running, Critical, InFlight, Results
  <1>5. /\ context \in [Procs -> Snapshots \union {None}]
        /\ activated \in [Procs -> SUBSET Issues]
    BY DEF LimitInv, PortsShaped
  <1>6. /\ context' \in [Procs -> Snapshots \union {None}]
        /\ \A q \in Procs \ {p} : context'[q] = context[q]
        /\ context[p] # None => context' = context
    BY <1>5
  <1> HIDE DEF InFlight
  <1>7. PortsShaped'
    <2> SUFFICES ASSUME NEW q \in Procs, NEW m \in Issues,
                        at'[q][m] \in Running \ {"enter"}
                 PROVE  context'[q] # None
      BY <1>5, <1>6 DEF PortsShaped
    <2>1. CASE q = p /\ m = n
      BY <1>3, <2>1
    <2>2. CASE ~(q = p /\ m = n)
      <3>1. at'[q][m] = at[q][m]
        BY <1>3, <2>2
      <3>2. context[q] # None
        BY <3>1 DEF LimitInv, PortsShaped
      <3> QED  BY <1>6, <3>2
    <2> QED  BY <2>1, <2>2
  <1>8. OneInside'
    <2> SUFFICES ASSUME NEW q \in Procs, NEW m \in Issues, NEW k \in Issues,
                        RepositoryOf[m] = RepositoryOf[k], at'[q][m] \in Critical,
                        at'[q][k] \in Critical, m # k
                 PROVE  FALSE
      BY DEF OneInside
    <2>1. CASE q # p \/ (m # n /\ k # n)
      <3>1. at'[q][m] = at[q][m] /\ at'[q][k] = at[q][k]
        BY <1>3, <2>1
      <3> QED  BY <3>1 DEF LimitInv, OneInside
    <2>2. CASE q = p /\ m = n
      <3>1. at[p][k] \in Critical /\ to \in InFlight
        BY <1>3, <1>4, <2>2
      <3> QED  BY <2>2, <3>1 DEF InRepository
    <2>3. CASE q = p /\ k = n
      <3>1. at[p][m] \in Critical /\ to \in InFlight
        BY <1>3, <1>4, <2>3
      <3> QED  BY <2>3, <3>1 DEF InRepository
    <2> QED  BY <2>1, <2>2, <2>3
  <1>9. ASSUME NEW q \in Procs, NEW m \in Issues PROVE Room(q, m)'
    <2> SUFFICES ASSUME at'[q][m] \in InFlight
                 PROVE  Cardinality(Expected(q, m)') < MaxWip[RepositoryOf[m]]
      BY DEF Room, InFlight, Critical
    <2>1. context'[q] = context[q]
      <3>1. CASE q = p /\ m = n
        <4>1. to # "lock"
          BY <1>3, <1>4, <3>1
        <4> QED  BY <4>1, <3>1
      <3>2. CASE ~(q = p /\ m = n)
        <4>1. at[q][m] \in Running \ {"enter"}
          BY <1>3, <1>4, <3>2
        <4>2. context[q] # None
          BY <4>1 DEF LimitInv, PortsShaped
        <4> QED  BY <1>6, <4>2
      <3> QED  BY <3>1, <3>2
    <2>2. Expected(q, m)' = Expected(q, m)
      BY <2>1 DEF Expected, InRepository
    <2>3. CASE q = p /\ m = n
      BY <1>3, <2>2, <2>3
    <2>4. CASE ~(q = p /\ m = n)
      <3>1. at[q][m] \in InFlight
        BY <1>3, <2>4
      <3> QED  BY <2>2, <3>1 DEF LimitInv, Room
    <2> QED  BY <2>3, <2>4
  <1>10. \A j : Untouched(j)' = Untouched(j)
    BY DEF Untouched
  <1>11. StillActive'
    BY <1>10 DEF LimitInv, StillActive
  <1>12. WithinWip'
    BY <1>10, NobodyNew DEF LimitInv
  <1> QED  BY <1>7, <1>8, <1>9, <1>11, <1>12 DEF LimitInv


LEMMA LandLimit ==
    ASSUME LimitInv, EffectInv', PacketsShaped', NEW p \in Procs,
           NEW n \in Issues, Land(p, n)
    PROVE  LimitInv'
  <1>1. at' = [at EXCEPT ![p][n] = "append"] /\ at[p][n] = "land"
    BY DEF Land, ThreadTo
  <1>2. at \in [Procs -> [Issues -> Running \union Results \union {None}]]
    BY DEF LimitInv, EffectInv, Shaped
  <1>3. /\ at'[p][n] = "append"
        /\ \A m \in Issues \ {n} : at'[p][m] = at[p][m]
        /\ \A q \in Procs \ {p} : at'[q] = at[q]
    BY <1>1, <1>2
  <1>4. /\ UNCHANGED <<gh, handoffs, context, edits>>
        /\ activated' = [activated EXCEPT ![p] = @ \union {n}]
    BY DEF Land, ThreadOnly, ledgers, bound
  <1>5. /\ context \in [Procs -> Snapshots \union {None}]
        /\ activated \in [Procs -> SUBSET Issues]
        /\ context[p] # None
    BY <1>1 DEF LimitInv, PortsShaped, Running, Critical
  <1>6. at[p][n] \in InFlight /\ "append" \in Critical /\ "append" \notin InFlight
    BY <1>1 DEF InFlight, Critical
  <1>7. Cardinality(Expected(p, n)) < MaxWip[RepositoryOf[n]]
    BY <1>6 DEF LimitInv, Room
  <1>8. PortsShaped'
    BY <1>2, <1>3, <1>4, <1>5 DEF LimitInv, PortsShaped
  <1>9. ASSUME NEW q \in Procs, NEW m \in Issues
        PROVE  at'[q][m] \in Critical => at[q][m] \in Critical
    BY <1>3, <1>6 DEF InFlight
  <1>10. OneInside'
    BY <1>9 DEF LimitInv, OneInside
  <1>11. ASSUME NEW q \in Procs, NEW m \in Issues PROVE Room(q, m)'
    <2> SUFFICES ASSUME at'[q][m] \in InFlight
                 PROVE  Cardinality(Expected(q, m)') < MaxWip[RepositoryOf[m]]
      BY DEF Room, InFlight, Critical
    <2>1. at'[q][m] = at[q][m] /\ (q = p => m # n)
      BY <1>3, <1>6
    <2>2. q = p => RepositoryOf[m] # RepositoryOf[n]
      <3> SUFFICES ASSUME q = p, RepositoryOf[m] = RepositoryOf[n] PROVE FALSE
        OBVIOUS
      <3>1. at[p][m] \in Critical /\ at[p][n] \in Critical
        BY <1>6, <2>1 DEF InFlight
      <3> QED  BY <2>1, <3>1 DEF LimitInv, OneInside
    <2>3. Expected(q, m)' = Expected(q, m)
      <3>1. InRepository(context[q].active \union activated'[q], RepositoryOf[m])
               = InRepository(context[q].active \union activated[q],
                              RepositoryOf[m])
        BY <1>4, <1>5, <2>2 DEF InRepository
      <3> QED  BY <1>4, <3>1 DEF Expected, InRepository
    <2> QED  BY <2>1, <2>3 DEF LimitInv, Room
  <1>12. \A j : Untouched(j)' = Untouched(j)
    BY <1>4 DEF Untouched
  <1>13. ASSUME NEW j \in Issues, Handing(j)', j # n PROVE Handing(j)
    BY <1>3, <1>4, <1>13 DEF Handing
  <1>14. StillActive'
    <2>1. gh[n].status = "ACTIVE"
      BY DEF Land
    <2> QED  BY <1>4, <1>12, <1>13, <2>1 DEF LimitInv, StillActive
  <1>15. WithinWip'
    <2> SUFFICES ASSUME NEW r \in Repositories
                 PROVE  Cardinality(Occupying(r)') <= MaxWip[r]
      BY DEF WithinWip
    <2>1. CASE r # RepositoryOf[n]
      <3>1. Occupying(r)' \subseteq Occupying(r) /\ Occupying(r) \subseteq Issues
        BY <1>12, <1>13, <2>1 DEF Occupying, InRepository
      <3>2. /\ Cardinality(Occupying(r)') <= Cardinality(Occupying(r))
            /\ Cardinality(Occupying(r)') \in Nat
            /\ Cardinality(Occupying(r)) \in Nat
        BY <3>1, PartOfIssues
      <3>3. Cardinality(Occupying(r)) <= MaxWip[r] /\ MaxWip[r] \in Nat
        BY DispatchAssumption DEF LimitInv, WithinWip
      <3> QED  BY <3>2, <3>3
    <2>2. CASE r = RepositoryOf[n]
      <3> DEFINE E == Expected(p, n)
      <3>1. Occupying(r)' \subseteq ActiveIn(r)'
        BY <1>14 DEF Occupying, ActiveIn, InRepository, StillActive
      <3>2. ActiveIn(r)' = ActiveIn(r) /\ ActiveIn(r) = E \union {n}
        BY <1>4, <2>2 DEF ActiveIn, Land
      <3>3. E \subseteq Issues /\ ActiveIn(r) \subseteq Issues
        BY <3>2 DEF ActiveIn, InRepository
      <3> HIDE DEF E
      <3>4. Cardinality(ActiveIn(r)) <= Cardinality(E) + 1
        <4>1. IsFiniteSet(E) /\ Cardinality(E) \in Nat
          BY <3>3, PartOfIssues
        <4>2. Cardinality(E \union {n})
                 = IF n \in E THEN Cardinality(E) ELSE Cardinality(E) + 1
          BY <4>1, FS_AddElement
        <4> QED  BY <3>2, <4>1, <4>2
      <3>5. /\ Cardinality(Occupying(r)') <= Cardinality(ActiveIn(r))
            /\ Cardinality(Occupying(r)') \in Nat
            /\ Cardinality(ActiveIn(r)) \in Nat
        BY <3>1, <3>2, <3>3, PartOfIssues
      <3>6. Cardinality(E) < MaxWip[r] /\ Cardinality(E) \in Nat
            /\ MaxWip[r] \in Nat
        BY <1>7, <2>2, <3>3, PartOfIssues, DispatchAssumption DEF E
      <3> QED  BY <3>4, <3>5, <3>6
    <2> QED  BY <2>1, <2>2
  <1> QED  BY <1>8, <1>10, <1>11, <1>14, <1>15 DEF LimitInv


\* No thread but one that lands or appends changes who is handing over.
LEMMA HandingStays ==
    ASSUME Shaped, NEW p \in Procs, NEW n, NEW from,
           NEW to \in (Running \ {"append"}) \union Results,
           ThreadTo(p, n, from, to), UNCHANGED handoffs, NEW j
    PROVE  Handing(j)' => Handing(j)
  <1>1. at' = [at EXCEPT ![p][n] = to]
    BY DEF ThreadTo
  <1>2. to # "append"
    BY DEF Results
  <1>3. ASSUME NEW q \in Procs, at'[q][j] = "append" PROVE at[q][j] = "append"
    BY <1>1, <1>2, <1>3 DEF Shaped
  <1> QED  BY <1>3 DEF Handing

LEMMA AppendLimit ==
    ASSUME LimitInv, EffectInv', PacketsShaped', NEW p \in Procs, NEW n \in Issues,
           AppendHandoff(p, n)
    PROVE  LimitInv'
  <1>1. UNCHANGED <<gh, context, activated, edits>>
    BY DEF AppendHandoff, bound
  <1>2. PICK to \in {"DISPATCHED", "ERROR"} : ThreadTo(p, n, "append", to)
    BY DEF AppendHandoff
  <1>3. at' = [at EXCEPT ![p][n] = to] /\ at[p][n] = "append"
    BY <1>2 DEF ThreadTo
  <1>4. \A h \in handoffs' : h \in handoffs \/ h.node = n
    BY DEF AppendHandoff, HandoffOf
  <1>5. ASSUME NEW j, Handing(j)' PROVE Handing(j)
    <2>1. at \in [Procs -> [Issues -> Running \union Results \union {None}]]
      BY DEF LimitInv, EffectInv, Shaped
    <2>2. ASSUME NEW q \in Procs, at'[q][j] = "append"
          PROVE  at[q][j] = "append"
      BY <1>2, <1>3, <2>1, <2>2
    <2> QED  BY <1>3, <1>4, <1>5, <2>2 DEF Handing
  <1>6. to \in (Running \ {"append"}) \union Results /\ to \notin Running
    BY DEF Running, Critical, Results
  <1>7. to \notin InFlight
    BY <1>6 DEF InFlight, Running
  <1> QED  BY <1>1, <1>2, <1>5, <1>6, <1>7, ThreadLimit

LEMMA EditLimit ==
    ASSUME LimitInv, EffectInv', PacketsShaped', NEW p \in Procs,
           NEW n \in Issues, Edit(p, n)
    PROVE  LimitInv'
  <1>1. UNCHANGED <<handoffs, context, activated, edits>>
    BY DEF Edit, ThreadOnly, ledgers, bound
  <1>2. PICK to \in {"land", "HUMAN_REQUIRED", "timed"} :
           ThreadTo(p, n, "edit", to)
    BY DEF Edit
  <1>3. /\ to \in (Running \ {"append"}) \union Results
        /\ "edit" \in InFlight /\ "edit" \in Running \ {"enter"}
        /\ InFlight \subseteq Critical
    BY DEF Running, Critical, InFlight, Results
  <1>4. at[p][n] = "edit"
    BY <1>2 DEF ThreadTo
  <1>5. context[p] # None
    BY <1>3, <1>4 DEF LimitInv, PortsShaped
  <1>6. Cardinality(Expected(p, n)) < MaxWip[RepositoryOf[n]]
    BY <1>3, <1>4 DEF LimitInv, Room
  <1>7. ASSUME NEW m \in InRepository(Issues, RepositoryOf[n]) \ {n}
        PROVE  at[p][m] \notin Critical
    BY <1>3, <1>4 DEF LimitInv, OneInside, InRepository
  <1>8. ASSUME NEW j \in Issues, gh[j].status = "ACTIVE"
        PROVE  gh'[j].status = "ACTIVE"
    <2> DEFINE body == ActiveBody(base[p][n])
    <2>1. gh' = gh \/ gh' = [gh EXCEPT ![n] = body]
      BY DEF Edit
    <2>2. body.status = "ACTIVE"
      BY <1>4 DEF ActiveBody, LimitInv, PacketsShaped, Bodies
    <2> HIDE DEF body
    <2> QED  BY <1>8, <2>1, <2>2 DEF LimitInv, EffectInv, Shaped
  <1>9. \A j : Handing(j)' => Handing(j)
    BY <1>1, <1>2, <1>3, HandingStays DEF LimitInv, EffectInv
  <1> QED  BY <1>1, <1>2, <1>3, <1>5, <1>6, <1>7, <1>8, <1>9, ThreadLimit

LEMMA PacketsRest ==
    ASSUME PacketsShaped, UNCHANGED gh,
           base' \in [Procs -> [Issues -> Bodies \union {None}]],
           \A p \in Procs, n \in Issues : at'[p][n] \in {"check", "edit"} =>
              at[p][n] \in {"check", "edit"} /\ base'[p][n] = base[p][n]
    PROVE  PacketsShaped'
  BY DEF PacketsShaped

LEMMA PacketsStep ==
    ASSUME EffectInv, PacketsShaped, NEW p \in Procs, Step(p)
    PROVE  PacketsShaped'
  <1>1. /\ base \in [Procs -> [Issues -> Bodies \union {None}]]
        /\ at \in [Procs -> [Issues -> Running \union Results \union {None}]]
    BY DEF PacketsShaped, EffectInv, Shaped
  <1>2. UNCHANGED gh
    BY DEF Step, ReserveExecution, Rebuild, WriteAuthorization,
           CheckAuthorization, ReserveEffect, FinalizeEffect,
           FinalizeExecution, BreakOff
  <1>3. None \notin {"check", "edit"}
    BY DispatchAssumption DEF Running, Critical
  <1>4. CASE Forget(p)
    <2>1. /\ base' \in [Procs -> [Issues -> Bodies \union {None}]]
          /\ \A n \in Issues : at'[p][n] = None
          /\ \A q \in Procs \ {p} : at'[q] = at[q] /\ base'[q] = base[q]
      BY <1>1, <1>4 DEF Forget, NoThreads
    <2> QED  BY <1>2, <1>3, <2>1, PacketsRest
  <1>5. CASE UNCHANGED <<at, base>>
    BY <1>1, <1>2, <1>5, PacketsRest
  <1>6. CASE ReserveEffect(p)
    <2>1. /\ UNCHANGED base
          /\ \A n \in Issues : at'[p][n] \in {None, "enter"}
          /\ \A q \in Procs \ {p} : at'[q] = at[q]
      BY <1>1, <1>6 DEF ReserveEffect
    <2> QED  BY <1>1, <1>2, <1>3, <2>1, PacketsRest
  <1>7. Forget(p) \/ UNCHANGED <<at, base>> \/ ReserveEffect(p)
    BY DEF Step, ReserveExecution, Rebuild, WriteAuthorization,
           CheckAuthorization, FinalizeEffect, FinalizeExecution, BreakOff, port
  <1> QED  BY <1>4, <1>5, <1>6, <1>7

LEMMA PacketsDispatch ==
    ASSUME EffectInv, PacketsShaped, NEW p \in Procs, NEW n \in Issues,
           Dispatch(p, n)
    PROVE  PacketsShaped'
  <1>1. /\ base \in [Procs -> [Issues -> Bodies \union {None}]]
        /\ at \in [Procs -> [Issues -> Running \union Results \union {None}]]
        /\ gh \in [Issues -> Bodies]
    BY DEF PacketsShaped, EffectInv, Shaped
  <1>2. CASE ViewPacket(p, n)
    <2>1. /\ at' = [at EXCEPT ![p][n] = "check"]
          /\ base' = [base EXCEPT ![p][n] = gh[n]] /\ gh' = gh
      BY <1>2 DEF ViewPacket, ThreadTo
    <2>2. /\ base' \in [Procs -> [Issues -> Bodies \union {None}]]
          /\ base'[p][n] \in Bodies
          /\ \A m \in Issues \ {n} : at'[p][m] = at[p][m]
                                     /\ base'[p][m] = base[p][m]
          /\ \A q \in Procs \ {p} : at'[q] = at[q] /\ base'[q] = base[q]
      BY <1>1, <2>1
    <2>3. ASSUME NEW q \in Procs, NEW m \in Issues,
                 at'[q][m] \in {"check", "edit"}
          PROVE  base'[q][m] \in Bodies
      <3>1. CASE q = p /\ m = n
        BY <2>2, <3>1
      <3>2. CASE ~(q = p /\ m = n)
        BY <2>2, <2>3, <3>2 DEF PacketsShaped
      <3> QED  BY <3>1, <3>2
    <2> QED  BY <1>1, <2>1, <2>2, <2>3 DEF PacketsShaped
  <1>3. CASE Recheck(p, n)
    <2>1. at' = [at EXCEPT ![p][n] = "edit"] /\ at[p][n] = "check"
      BY <1>3 DEF Recheck, ThreadTo
    <2>2. UNCHANGED <<gh, base>>
      BY <1>3 DEF Recheck
    <2> QED  BY <1>1, <2>1, <2>2, PacketsRest
  <1>4. CASE Edit(p, n)
    <2>1. /\ UNCHANGED base /\ at[p][n] = "edit"
          /\ \E to \in {"land", "HUMAN_REQUIRED", "timed"} :
                at' = [at EXCEPT ![p][n] = to]
          /\ gh' \in {gh, [gh EXCEPT ![n] = ActiveBody(base[p][n])]}
      BY <1>4 DEF Edit, ThreadTo
    <2>2. base[p][n] \in Bodies
      BY <2>1 DEF PacketsShaped
    <2>3. ActiveBody(base[p][n]) \in Bodies
      BY <2>2 DEF ActiveBody, Bodies
    <2>4. gh' \in [Issues -> Bodies]
      BY <1>1, <2>1, <2>3
    <2>5. \A q \in Procs, m \in Issues :
             at'[q][m] \in {"check", "edit"} => at[q][m] = at'[q][m]
      BY <1>1, <2>1
    <2> QED  BY <1>1, <2>1, <2>4, <2>5 DEF PacketsShaped
  <1>5. CASE ~ViewPacket(p, n) /\ ~Recheck(p, n) /\ ~Edit(p, n)
    <2>1. UNCHANGED <<gh, base>>
      BY <1>5 DEF Dispatch, Enter, TakeLock, TimedOut, Land, AppendHandoff,
                  FailDispatch
    <2>2. \E to \in {"lock", "view", "land", "append", "DISPATCHED", "ERROR",
                     "HUMAN_REQUIRED"} : at' = [at EXCEPT ![p][n] = to]
      BY <1>5 DEF Dispatch, Enter, TakeLock, TimedOut, Land, AppendHandoff,
                  FailDispatch, ThreadTo
    <2>3. \A q \in Procs, m \in Issues :
             at'[q][m] \in {"check", "edit"} => at[q][m] = at'[q][m]
      BY <1>1, <2>2
    <2> QED  BY <1>1, <2>1, <2>3, PacketsRest
  <1> QED  BY <1>2, <1>3, <1>4, <1>5

LEMMA PacketsOwnerEdit ==
    ASSUME EffectInv, PacketsShaped, NEW i \in Issues, OwnerEdit(i)
    PROVE  PacketsShaped'
  <1>1. UNCHANGED <<at, base>>
    BY DEF OwnerEdit, port
  <1>2. gh \in [Issues -> Bodies] /\ Len(edits) + 1 \in Nat
    BY DEF PacketsShaped, EffectInv, Shaped
  <1>3. \E b \in Bodies : gh' = [gh EXCEPT ![i] = b]
    <2> DEFINE Text(b) == [b EXCEPT !.text = Len(edits) + 1]
    <2>1. gh[i] \in Bodies
      BY <1>2
    <2>2. ASSUME NEW b \in Bodies PROVE Text(b) \in Bodies
      BY <1>2 DEF Bodies
    <2>3. /\ [gh[i] EXCEPT !.status = "PAUSED", !.queued = TRUE] \in Bodies
          /\ [gh[i] EXCEPT !.status = "ACTIVE", !.queued = FALSE] \in Bodies
          /\ [gh[i] EXCEPT !.status = "COMPLETE"] \in Bodies
      BY <2>1 DEF Bodies
    <2>4. \E b \in {gh[i],
                    [gh[i] EXCEPT !.status = "PAUSED", !.queued = TRUE],
                    [gh[i] EXCEPT !.status = "ACTIVE", !.queued = FALSE],
                    [gh[i] EXCEPT !.status = "COMPLETE"]} :
             gh' = [gh EXCEPT ![i] = Text(b)]
      BY DEF OwnerEdit
    <2> HIDE DEF Text
    <2> QED  BY <2>1, <2>2, <2>3, <2>4
  <1>4. gh' \in [Issues -> Bodies]
    BY <1>2, <1>3
  <1> QED  BY <1>1, <1>4 DEF PacketsShaped

LEMMA PacketsNext ==
    EffectInv /\ PacketsShaped /\ [EffectNext]_effectVars => PacketsShaped'
  <1> SUFFICES ASSUME EffectInv, PacketsShaped, [EffectNext]_effectVars
               PROVE  PacketsShaped'
    OBVIOUS
  <1>1. CASE \/ \E s \in Snapshots : PublishSnapshot(s)
             \/ \E p \in Procs : \/ \E x \in Calls : Start(p, x)
                                 \/ \E x \in Requests : Authorize(p, x)
             \/ UNCHANGED effectVars
    <2>1. UNCHANGED <<gh, at, base>>
      BY <1>1 DEF PublishSnapshot, Start, Authorize, effectVars, port
    <2> QED  BY <2>1 DEF PacketsShaped
  <1>2. CASE \E p \in Procs : Step(p) \/ \E n \in Issues : Dispatch(p, n)
    BY <1>2, PacketsStep, PacketsDispatch
  <1>3. CASE \E i \in Issues : OwnerEdit(i)
    BY <1>3, PacketsOwnerEdit
  <1> QED  BY <1>1, <1>2, <1>3 DEF EffectNext

LEMMA DispatchLimit ==
    ASSUME LimitInv, EffectInv', PacketsShaped', NEW p \in Procs, NEW n \in Issues,
           Dispatch(p, n)
    PROVE  LimitInv'
  <1>1. CASE Enter(p, n)
    <2>1. ThreadTo(p, n, "enter", "lock") /\ UNCHANGED <<gh, activated>>
      BY <1>1 DEF Enter
    <2>2. UNCHANGED <<handoffs, edits>> /\ pc[p] = "dispatching"
      BY <1>1 DEF Enter, ThreadOnly, ThreadTo, ledgers, bound
    <2>3. Auth(p).plan \in Snapshots
      <3>1. call[p] \in Calls
        BY <2>2 DEF LimitInv, EffectInv, Shaped
      <3> QED  BY <3>1, DispatchAssumption DEF Auth, Authorizations
    <2>4. \/ UNCHANGED context /\ context[p] # None
          \/ /\ context[p] = None
             /\ \E s \in Snapshots : context' = [context EXCEPT ![p] = s]
      BY <1>1, <2>3 DEF Enter, Current
    <2>5. context'[p] # None
      BY <2>4, DispatchAssumption DEF LimitInv, PortsShaped
    <2>6. /\ "lock" \in (Running \ {"append"}) \union Results
          /\ "lock" \notin InFlight
      BY DEF Running, Critical, InFlight
    <2>7. \A j : Handing(j)' => Handing(j)
      BY <2>1, <2>2, <2>6, HandingStays DEF LimitInv, EffectInv
    <2> QED  BY <2>1, <2>2, <2>4, <2>5, <2>6, <2>7, ThreadLimit
  <1>2. CASE TakeLock(p, n)
    <2>1. ThreadTo(p, n, "lock", "view") /\ UNCHANGED <<gh, activated, context>>
      BY <1>2 DEF TakeLock
    <2>2. UNCHANGED <<handoffs, edits>> /\ at[p][n] = "lock"
      BY <1>2 DEF TakeLock, ThreadOnly, ThreadTo, ledgers, bound
    <2>3. context[p] # None
      BY <2>2 DEF LimitInv, PortsShaped, Running
    <2>4. "view" \in (Running \ {"append"}) \union Results
      BY DEF Running, Critical
    <2>5. \A j : Handing(j)' => Handing(j)
      BY <2>1, <2>2, <2>4, HandingStays DEF LimitInv, EffectInv
    <2>6. /\ Cardinality(Expected(p, n)) < MaxWip[RepositoryOf[n]]
          /\ \A m \in InRepository(Issues, RepositoryOf[n]) :
                at[p][m] \notin Critical
      BY <1>2 DEF TakeLock
    <2> QED  BY <2>1, <2>2, <2>3, <2>4, <2>5, <2>6, ThreadLimit
  <1>3. CASE \/ ViewPacket(p, n) \/ Recheck(p, n) \/ TimedOut(p, n)
             \/ FailDispatch(p, n)
    <2>1. UNCHANGED <<gh, handoffs, edits, activated, context>>
      BY <1>3 DEF ViewPacket, Recheck, TimedOut, FailDispatch, ThreadOnly,
                  ledgers, bound
    <2>2. \E from : \E to \in {"check", "edit", "land", "HUMAN_REQUIRED"} :
             /\ ThreadTo(p, n, from, to)
             /\ to # "HUMAN_REQUIRED" => from \in InFlight
      BY <1>3 DEF ViewPacket, Recheck, TimedOut, FailDispatch, InFlight,
                  Critical
    <2>3. PICK from, to : /\ to \in {"check", "edit", "land", "HUMAN_REQUIRED"}
                          /\ ThreadTo(p, n, from, to)
                          /\ to # "HUMAN_REQUIRED" => from \in InFlight
      BY <2>2
    <2>4. /\ to \in (Running \ {"append"}) \union Results
          /\ InFlight \subseteq Critical
          /\ Critical \subseteq Running \ {"enter"}
          /\ "HUMAN_REQUIRED" \notin Running
      BY <2>3 DEF Running, Critical, InFlight, Results
    <2>5. \A j : Handing(j)' => Handing(j)
      BY <2>1, <2>3, <2>4, HandingStays DEF LimitInv, EffectInv
    <2>6. ASSUME to # "HUMAN_REQUIRED"
          PROVE  /\ context[p] # None
                 /\ Cardinality(Expected(p, n)) < MaxWip[RepositoryOf[n]]
                 /\ \A m \in InRepository(Issues, RepositoryOf[n]) \ {n} :
                       at[p][m] \notin Critical
      <3>1. at[p][n] \in InFlight
        BY <2>3, <2>6 DEF ThreadTo
      <3>2. context[p] # None
        BY <2>4, <3>1 DEF LimitInv, PortsShaped
      <3>3. Cardinality(Expected(p, n)) < MaxWip[RepositoryOf[n]]
        BY <3>1 DEF LimitInv, Room
      <3>4. ASSUME NEW m \in InRepository(Issues, RepositoryOf[n]) \ {n}
            PROVE  at[p][m] \notin Critical
        BY <2>4, <3>1 DEF LimitInv, OneInside, InRepository
      <3> QED  BY <3>2, <3>3, <3>4
    <2>7. "HUMAN_REQUIRED" \notin InFlight
      BY <2>4
    <2> QED  BY <2>1, <2>3, <2>4, <2>5, <2>6, <2>7, ThreadLimit
  <1> QED  BY <1>1, <1>2, <1>3, AppendLimit, EditLimit, LandLimit DEF Dispatch

LEMMA StepLimit ==
    ASSUME LimitInv, EffectInv', PacketsShaped', NEW p \in Procs, Step(p)
    PROVE  LimitInv'
  <1>1. /\ context \in [Procs -> Snapshots \union {None}]
        /\ activated \in [Procs -> SUBSET Issues]
        /\ at \in [Procs -> [Issues -> Running \union Results \union {None}]]
    BY DEF LimitInv, PortsShaped, EffectInv, Shaped
  <1>2. UNCHANGED <<gh, handoffs, edits>>
    BY DEF Step, ReserveExecution, Rebuild, WriteAuthorization,
           CheckAuthorization, ReserveEffect, FinalizeEffect,
           FinalizeExecution, BreakOff, ledgers, bound
  <1>3. ASSUME Forget(p) PROVE LimitInv'
    <2>1. /\ context' \in [Procs -> Snapshots \union {None}]
          /\ activated' \in [Procs -> SUBSET Issues]
          /\ \A n \in Issues : at'[p][n] = None
          /\ \A q \in Procs \ {p} : /\ at'[q] = at[q]
                                    /\ context'[q] = context[q]
                                    /\ activated'[q] = activated[q]
      BY <1>1, <1>3 DEF Forget, NoThreads
    <2> QED  BY <1>2, <2>1, PortsRest
  <1>4. ASSUME UNCHANGED <<at, context, activated>> PROVE LimitInv'
    BY <1>1, <1>2, <1>4, PortsRest
  <1>5. CASE ReserveEffect(p)
    <2>1. /\ UNCHANGED <<context, activated>>
          /\ \A n \in Issues : at'[p][n] \in {None, "enter"}
          /\ \A q \in Procs \ {p} : at'[q] = at[q]
      BY <1>1, <1>5 DEF ReserveEffect
    <2> QED  BY <1>1, <1>2, <2>1, PortsRest
  <1>6. CASE ~ReserveEffect(p)
    <2>1. Forget(p) \/ UNCHANGED <<at, context, activated>>
      BY <1>6 DEF Step, ReserveExecution, Rebuild, WriteAuthorization,
                  CheckAuthorization, FinalizeEffect, FinalizeExecution,
                  BreakOff, port
    <2> QED  BY <1>3, <1>4, <2>1
  <1> QED  BY <1>5, <1>6

LEMMA NextLimit == LimitInv /\ [EffectNext]_effectVars => LimitInv'
  <1> SUFFICES ASSUME LimitInv, [EffectNext]_effectVars PROVE LimitInv'
    OBVIOUS
  <1>1. EffectInv' /\ PacketsShaped'
    BY NextInv, PacketsNext DEF LimitInv
  <1>2. ASSUME UNCHANGED <<gh, handoffs, edits, at, context, activated>>
        PROVE  LimitInv'
    BY <1>1, <1>2, PortsRest DEF LimitInv, PortsShaped
  <1>3. CASE \/ \E s \in Snapshots : PublishSnapshot(s)
             \/ \E p \in Procs : \/ \E x \in Calls : Start(p, x)
                                 \/ \E x \in Requests : Authorize(p, x)
             \/ UNCHANGED effectVars
    <2>1. UNCHANGED <<gh, handoffs, edits, at, context, activated>>
      BY <1>3 DEF PublishSnapshot, Start, Authorize, effectVars, port, ledgers,
                  bound
    <2> QED  BY <1>2, <2>1
  <1>4. CASE \E p \in Procs : Step(p) \/ \E n \in Issues : Dispatch(p, n)
    BY <1>1, <1>4, StepLimit, DispatchLimit
  <1>5. CASE \E i \in Issues : OwnerEdit(i)
    BY <1>1, <1>5, LimitOwnerEdit
  <1> QED  BY <1>3, <1>4, <1>5 DEF EffectNext

LEMMA InitLimit == EffectInit => LimitInv
  <1> SUFFICES ASSUME EffectInit PROVE LimitInv
    OBVIOUS
  <1>1. EffectInv
    BY InitInv
  <1>2. /\ handoffs = {}
        /\ \A p \in Procs, n \in Issues : at[p][n] = None
        /\ context = [p \in Procs |-> None]
        /\ activated = [p \in Procs |-> {}]
    BY DEF EffectInit, NoThreads
  <1>3. None \notin Running
    BY DispatchAssumption
  <1>4. None \notin Critical /\ None \notin InFlight /\ None # "append"
    BY <1>3 DEF Running, Critical, InFlight
  <1>5. \A i \in Issues : ~Handing(i)
    BY <1>2, <1>4 DEF Handing
  <1>6. PortsShaped /\ OneInside /\ \A p \in Procs, n \in Issues : Room(p, n)
    BY <1>2, <1>3, <1>4 DEF PortsShaped, OneInside, Room
  <1>7. StillActive
    BY <1>5 DEF StillActive
  <1>8. WithinWip
    <2> SUFFICES ASSUME NEW r \in Repositories
                 PROVE  Cardinality(Occupying(r)) <= MaxWip[r]
      BY DEF WithinWip
    <2>1. Occupying(r) = {}
      BY <1>5 DEF Occupying, InRepository
    <2>2. Cardinality(Occupying(r)) = 0
      BY <2>1, FS_EmptySet
    <2> QED  BY <2>2, DispatchAssumption
  <1>9. PacketsShaped
    <2>1. InitialPackets \in [Issues -> Bodies]
      BY DispatchAssumption DEF Packets, Bodies
    <2>2. /\ gh = InitialPackets
          /\ base = [p \in Procs |-> [n \in Issues |-> None]]
      BY DEF EffectInit, NoThreads
    <2> QED  BY <1>2, <1>4, <2>1, <2>2 DEF PacketsShaped, Critical
  <1> QED  BY <1>1, <1>6, <1>7, <1>8, <1>9 DEF LimitInv

\* The inductive invariant of the limit.
THEOREM LimitInductive == EffectSpec => []LimitInv
  <1>1. EffectInit => LimitInv
    BY InitLimit
  <1>2. LimitInv /\ [EffectNext]_effectVars => LimitInv'
    BY NextLimit
  <1> QED  BY <1>1, <1>2, PTL DEF EffectSpec

\* However many executions of different plans activate packets of one repository at
\* once (concurrency_handoff.py locks it within one port only), of the packets that were
\* handed over and never edited by the owner no more are ACTIVE than its max_wip.
THEOREM WithinLimit == EffectSpec => []HandedWithinLimit
  <1>1. LimitInv => HandedWithinLimit
    <2> SUFFICES ASSUME LimitInv, NEW r \in Repositories
                 PROVE  Cardinality({i \in ActiveIn(r) :
                            Untouched(i) /\ \E h \in handoffs : h.node = i})
                           <= MaxWip[r]
      BY DEF HandedWithinLimit
    <2> DEFINE S == {i \in ActiveIn(r) :
                        Untouched(i) /\ \E h \in handoffs : h.node = i}
    <2>1. S \subseteq Occupying(r) /\ Occupying(r) \subseteq Issues
      BY DEF ActiveIn, Occupying, Handing, InRepository
    <2> HIDE DEF S
    <2>2. /\ Cardinality(S) <= Cardinality(Occupying(r))
          /\ Cardinality(S) \in Nat /\ Cardinality(Occupying(r)) \in Nat
      BY <2>1, PartOfIssues
    <2>3. Cardinality(Occupying(r)) <= MaxWip[r] /\ MaxWip[r] \in Nat
      BY DispatchAssumption DEF LimitInv, WithinWip
    <2>4. Cardinality(S) <= MaxWip[r]
      BY <2>2, <2>3
    <2> QED  BY <2>4 DEF S
  <1> QED  BY <1>1, LimitInductive, PTL

HIDE DispatchAssumption DEF DispatchAssumption

------------------------------------------------------------------------------
(* The claims and the joins of what was handed over.                          *)

\* Where a claimer holds the reservation of its claim.
Late == {"recheck", "finalize"}

\* A handoff of a packet of its plan.
GoodHandoff(h) == h \in handoffs /\ h.node \in h.auth.plan.picked

\* A claim a claimer works for, or has been told of.
GoodClaim(c) ==
    /\ c = [claim |-> c.claim, handoff |-> c.handoff]
    /\ GoodHandoff(c.handoff) /\ EffectDispatched(c.handoff)

ClaimsShaped ==
    /\ claimPc = [q \in Claimers |-> claimPc[q]]
    /\ claiming = [q \in Claimers |-> claiming[q]]
    /\ \A q \in Claimers : claimPc[q] # "idle" => GoodClaim(claiming[q])
    /\ \A c \in claims :
          /\ c = ClaimOf(c.claim, c.handoff, c.state)
          /\ GoodHandoff(c.handoff) /\ EffectDispatched(c.handoff)
    /\ \A a \in acknowledged : GoodClaim(a)

\* Neither a claim id nor a handoff is used by two claims.
ClaimsOnce ==
    \A c, d \in claims : c.claim = d.claim \/ c.handoff = d.handoff => c = d

\* Nobody takes the claim of a claimer away, and no two work for the same one.
ClaimHeld(q) ==
    /\ claimPc[q] \in Late => Claimed(q, "IN_PROGRESS") \in claims
    /\ claimPc[q] = "acknowledge" => Claimed(q, "TERMINAL") \in claims

ClaimersApart ==
    \A q, r \in Claimers :
        claimPc[q] \in Late /\ claimPc[r] \in Late /\ claiming[q] = claiming[r] => q = r

Acknowledged ==
    \A a \in acknowledged : ClaimOf(a.claim, a.handoff, "TERMINAL") \in claims

\* An effect belongs to an execution, and neither its id nor its authorization to two;
\* a receipt says something of every node of the plan.
EffectsOwned ==
    /\ \A r \in effects :
          /\ r = [effect |-> r.effect, auth |-> r.auth, state |-> r.state,
                  receipt |-> r.receipt]
          /\ \E x \in executions : x.auth = r.auth /\ x.effect = r.effect
          /\ r.state \in {"IN_PROGRESS", "TERMINAL"}
          /\ r.state = "TERMINAL" => r.receipt \in Receipts(r.auth)
    /\ \A r, s \in effects : r.auth = s.auth => r = s
    /\ \A x \in executions :
          x.state \in {"IN_PROGRESS", "TERMINAL"} /\ x.auth.plan \in Snapshots
    /\ \A h \in handoffs : GoodHandoff(h)

\* A join has one outcome per node its effect dispatched.
JoinsShaped ==
    \A j \in joins : j.outcomes \in [Dispatched(j.source) -> Outcomes]

ClaimInv ==
    /\ EffectInv /\ EffectsOwned
    /\ ClaimsShaped /\ ClaimsOnce /\ ClaimersApart /\ Acknowledged /\ JoinsShaped
    /\ \A q \in Claimers : ClaimHeld(q)

-----------------------------------------------------------------------------
(* What the steps of the first half do to the ledgers.                        *)

\* Five steps write a ledger; every other one leaves all three alone.
LEMMA LedgerSteps ==
    ASSUME [EffectNext]_effectVars
    PROVE  \/ UNCHANGED <<executions, effects, handoffs>>
           \/ \E p \in Procs :
                 \/ ReserveExecution(p) \/ ReserveEffect(p)
                 \/ FinalizeEffect(p) \/ FinalizeExecution(p)
                 \/ \E n \in Issues : AppendHandoff(p, n)
  <1>1. CASE UNCHANGED effectVars
    BY <1>1 DEF effectVars, ledgers
  <1>2. ASSUME NEW s \in Snapshots, PublishSnapshot(s)
        PROVE  UNCHANGED <<executions, effects, handoffs>>
    BY <1>2 DEF PublishSnapshot, ledgers
  <1>3. ASSUME NEW p \in Procs, NEW x, Start(p, x) \/ Authorize(p, x)
        PROVE  UNCHANGED <<executions, effects, handoffs>>
    BY <1>3 DEF Start, Authorize, ledgers
  <1>4. ASSUME NEW p \in Procs,
               \/ Rebuild(p) \/ WriteAuthorization(p) \/ CheckAuthorization(p)
               \/ BreakOff(p)
        PROVE  UNCHANGED <<executions, effects, handoffs>>
    BY <1>4 DEF Rebuild, WriteAuthorization, CheckAuthorization, BreakOff, ledgers
  <1>5. ASSUME NEW p \in Procs, NEW n \in Issues, Dispatch(p, n), ~AppendHandoff(p, n)
        PROVE  UNCHANGED <<executions, effects, handoffs>>
    BY <1>5 DEF Dispatch, Enter, TakeLock, ViewPacket, Recheck, Edit, TimedOut, Land,
       FailDispatch, ThreadOnly, ledgers
  <1>6. ASSUME NEW i \in Issues, OwnerEdit(i)
        PROVE  UNCHANGED <<executions, effects, handoffs>>
    BY <1>6 DEF OwnerEdit, ledgers
  <1> QED  BY <1>1, <1>2, <1>3, <1>4, <1>5, <1>6 DEF EffectNext, Step

\* The records of a call have the fields of their ledger.
LEMMA RecordFields ==
    ASSUME NEW x, NEW s, NEW t, NEW r
    PROVE  /\ EffectOf(x, s, r) = [effect |-> EffectOf(x, s, r).effect,
                 auth |-> EffectOf(x, s, r).auth, state |-> EffectOf(x, s, r).state,
                 receipt |-> EffectOf(x, s, r).receipt]
           /\ EffectOf(x, s, r).effect = x.effect /\ EffectOf(x, s, r).auth = x.auth
           /\ EffectOf(x, s, r).state = s /\ EffectOf(x, s, r).receipt = r
           /\ ExecutionOf(x, s, t, r).effect = x.effect
           /\ ExecutionOf(x, s, t, r).auth = x.auth /\ ExecutionOf(x, s, t, r).state = s
           /\ ExecutionOf(x, s, t, r).result = t /\ ExecutionOf(x, s, t, r).receipt = r
  BY DEF EffectOf, ExecutionOf

\* A TERMINAL effect and a handoff stay for good.
LEMMA NothingIsTakenBack ==
    ASSUME [EffectNext]_effectVars
    PROVE  /\ handoffs \subseteq handoffs'
           /\ \A r \in effects : r.state = "TERMINAL" => r \in effects'
  <1>1. ASSUME NEW p \in Procs, FinalizeEffect(p), NEW r \in effects, r.state = "TERMINAL"
        PROVE  r \in effects'
    <2>1. r # EffectOf(call[p], "IN_PROGRESS", None)
      BY <1>1, RecordFields
    <2> QED  BY <1>1, <2>1 DEF FinalizeEffect, Replace
  <1>2. ASSUME NEW p \in Procs, FinalizeEffect(p)  PROVE handoffs' = handoffs
    BY <1>2 DEF FinalizeEffect
  <1>3. ASSUME NEW p \in Procs,
               \/ ReserveExecution(p) \/ ReserveEffect(p) \/ FinalizeExecution(p)
               \/ \E n \in Issues : AppendHandoff(p, n)
        PROVE  handoffs \subseteq handoffs' /\ effects \subseteq effects'
    BY <1>3 DEF ReserveExecution, ReserveEffect, FinalizeExecution, AppendHandoff
  <1> QED  BY <1>1, <1>2, <1>3, LedgerSteps

\* A call in progress is of a plan.
LEMMA PlanOfCall ==
    ASSUME EffectInv, NEW p \in Procs, pc[p] # "idle"
    PROVE  Plan(p) \in Snapshots /\ call[p] \in Calls
  <1>1. /\ call[p] \in [cycle : Nat, auth : Authorizations, effect : Nat]
        /\ call[p] \in Calls
    BY DispatchAssumption DEF DispatchAssumption, EffectInv, Shaped
  <1> QED  BY <1>1 DEF Plan, Authorizations

LEMMA InitOwned == EffectInit => EffectsOwned
  BY DEF EffectInit, EffectsOwned

LEMMA NextOwned ==
    ASSUME EffectInv, EffectsOwned, [EffectNext]_effectVars
    PROVE  EffectsOwned'
  <1>1. CASE UNCHANGED <<executions, effects, handoffs>>
    BY <1>1 DEF EffectsOwned, GoodHandoff, Receipts
  <1>2. ASSUME NEW p \in Procs, ReserveExecution(p)  PROVE EffectsOwned'
    <2>1. PICK y : /\ executions' = executions \union {y} /\ y.state = "IN_PROGRESS"
                   /\ y.auth = call[p].auth /\ UNCHANGED <<effects, handoffs>>
      BY <1>2, RecordFields DEF ReserveExecution
    <2>2. y.auth.plan \in Snapshots
      BY <1>2, <2>1, PlanOfCall DEF ReserveExecution, Goto, Plan
    <2> QED  BY <2>1, <2>2 DEF EffectsOwned, GoodHandoff, Receipts
  <1>3. ASSUME NEW p \in Procs, FinalizeExecution(p)  PROVE EffectsOwned'
    <2>1. PICK x, y :
                      /\ x \in executions
                      /\ executions' = (executions \ {x}) \union {y}
                      /\ y.state = "TERMINAL" /\ y.auth = x.auth /\ y.effect = x.effect
                      /\ UNCHANGED <<effects, handoffs>>
      BY <1>3, RecordFields DEF FinalizeExecution, Replace
    <2> QED  BY <2>1 DEF EffectsOwned, GoodHandoff, Receipts
  <1>4. ASSUME NEW p \in Procs, ReserveEffect(p)  PROVE EffectsOwned'
    <2>1. PICK y : /\ y = EffectOf(call[p], "IN_PROGRESS", None)
                   /\ effects' = effects \union {y}
                   /\ \A r \in effects : r.auth # y.auth
                   /\ UNCHANGED <<executions, handoffs>>
      BY <1>4, RecordFields DEF ReserveEffect, Auth
    <2>2. \E x \in executions : x.auth = y.auth /\ x.effect = y.effect
      BY <1>4, <2>1, RecordFields DEF ReserveEffect, Goto, EffectInv, Held, Past
    <2>3. /\ y = [effect |-> y.effect, auth |-> y.auth, state |-> y.state,
                  receipt |-> y.receipt]
          /\ y.state = "IN_PROGRESS"
      BY <2>1 DEF EffectOf
    <2> QED  BY <2>1, <2>2, <2>3 DEF EffectsOwned, GoodHandoff
  <1>5. ASSUME NEW p \in Procs, FinalizeEffect(p)  PROVE EffectsOwned'
    <2>1. PICK x, y :
             /\ x \in effects
             /\ x = EffectOf(call[p], "IN_PROGRESS", None)
             /\ y = EffectOf(call[p], "TERMINAL", ReceiptOf(p))
             /\ effects' = (effects \ {x}) \union {y}
             /\ UNCHANGED <<executions, handoffs>>
      BY <1>5 DEF FinalizeEffect, Replace
    <2>2. ReceiptOf(p) \in Receipts(call[p].auth)
      BY <1>5 DEF FinalizeEffect, ReceiptOf, Receipts, Plan
    <2>3. /\ y.auth = x.auth /\ y.effect = x.effect /\ y.state = "TERMINAL"
          /\ y.receipt \in Receipts(y.auth)
          /\ y = [effect |-> y.effect, auth |-> y.auth, state |-> y.state,
                  receipt |-> y.receipt]
      <3>1. y.auth = call[p].auth /\ y.receipt = ReceiptOf(p)
        BY <2>1 DEF EffectOf
      <3> QED  BY <2>1, <2>2, <3>1 DEF EffectOf
    <2>4. \A r \in effects \ {x} : r.auth # y.auth
      BY <2>1, <2>3 DEF EffectsOwned
    <2> QED  BY <2>1, <2>3, <2>4 DEF EffectsOwned, GoodHandoff
  <1>6. ASSUME NEW p \in Procs, NEW n \in Issues, AppendHandoff(p, n)
        PROVE  EffectsOwned'
    <2>1. /\ n \in call[p].auth.plan.picked
          /\ handoffs' \in {handoffs, handoffs \union {HandoffOf(p, n)}}
          /\ UNCHANGED <<executions, effects>>
      BY <1>6 DEF AppendHandoff, ThreadTo, Plan
    <2>2. HandoffOf(p, n).node \in HandoffOf(p, n).auth.plan.picked
      BY <2>1 DEF HandoffOf, Auth
    <2> QED  BY <2>1, <2>2 DEF EffectsOwned, GoodHandoff, Receipts
  <1> QED  BY <1>1, <1>2, <1>3, <1>4, <1>5, <1>6, LedgerSteps
-----------------------------------------------------------------------------
(* The claims.                                                                *)

\* What was handed over and dispatched stays so.
LEMMA HandoffsStay ==
    ASSUME [EffectNext]_effectVars, NEW h
    PROVE  /\ GoodHandoff(h) => GoodHandoff(h)'
           /\ EffectDispatched(h) => EffectDispatched(h)'
  BY NothingIsTakenBack DEF GoodHandoff, EffectDispatched

\* A step of the first half, with the claims as they are.
LEMMA FirstHalf ==
    ASSUME ClaimInv, [EffectNext]_effectVars, UNCHANGED claimVars
    PROVE  ClaimInv'
  <1>1. UNCHANGED <<claims, joins, claimJoins, claimPc, claiming, acknowledged>>
    BY DEF claimVars
  <1>2. EffectInv'
    BY NextInv DEF ClaimInv
  <1>3. EffectsOwned'
    BY NextOwned DEF ClaimInv
  <1>4. ClaimsShaped'
    BY <1>1, HandoffsStay DEF ClaimInv, ClaimsShaped, GoodClaim
  <1>5. ClaimsOnce' /\ ClaimersApart' /\ Acknowledged' /\ JoinsShaped'
    BY <1>1 DEF ClaimInv, ClaimsOnce, ClaimersApart, Acknowledged, JoinsShaped, Dispatched
  <1>6. \A q \in Claimers : ClaimHeld(q)'
    BY <1>1 DEF ClaimInv, ClaimHeld, Claimed
  <1> QED  BY <1>2, <1>3, <1>4, <1>5, <1>6 DEF ClaimInv

\* A step of the second half leaves what it relies on alone.
LEMMA SecondHalf ==
    ASSUME ClaimInv, UNCHANGED effectVars
    PROVE  /\ EffectInv' /\ EffectsOwned'
           /\ \A h : GoodHandoff(h)' = GoodHandoff(h)
           /\ \A h : EffectDispatched(h)' = EffectDispatched(h)
           /\ \A c : GoodClaim(c)' = GoodClaim(c)
  <1>1. EffectInv' /\ EffectsOwned'
    BY NextInv, NextOwned DEF ClaimInv
  <1>2. UNCHANGED <<executions, effects, handoffs>>
    BY DEF effectVars, ledgers
  <1>3. \A h : GoodHandoff(h)' = GoodHandoff(h) /\ EffectDispatched(h)' = EffectDispatched(h)
    BY <1>2 DEF GoodHandoff, EffectDispatched
  <1> QED  BY <1>1, <1>3 DEF GoodClaim

\* A step of one claimer that stores no claim.
LEMMA ClaimerMoves ==
    ASSUME ClaimInv, UNCHANGED <<effectVars, claims, joins>>, NEW q \in Claimers,
           claimPc' = [claimPc EXCEPT ![q] = claimPc'[q]],
           claiming' = [claiming EXCEPT ![q] = claiming'[q]],
           claimPc'[q] # "idle" => GoodClaim(claiming'[q]),
           claimPc'[q] \in Late => claimPc[q] \in Late /\ claiming'[q] = claiming[q],
           claimPc'[q] # "acknowledge",
           acknowledged' \subseteq acknowledged \union {claiming[q]},
           acknowledged' # acknowledged => claimPc[q] = "acknowledge"
    PROVE  ClaimInv'
  <1>1. /\ EffectInv' /\ EffectsOwned' /\ \A c : GoodClaim(c)' = GoodClaim(c)
        /\ \A h : GoodHandoff(h)' = GoodHandoff(h)
        /\ \A h : EffectDispatched(h)' = EffectDispatched(h)
    BY SecondHalf
  <1>2. /\ claimPc = [r \in Claimers |-> claimPc[r]]
        /\ claiming = [r \in Claimers |-> claiming[r]]
    BY DEF ClaimInv, ClaimsShaped
  <1>3. \A r \in Claimers \ {q} : claimPc'[r] = claimPc[r] /\ claiming'[r] = claiming[r]
    BY <1>2
  <1>4. \A a \in acknowledged' \ acknowledged :
           /\ a = claiming[q] /\ GoodClaim(a) /\ Claimed(q, "TERMINAL") \in claims
    BY DEF ClaimInv, ClaimsShaped, ClaimHeld
  <1>5. ClaimsShaped'
    <2>1. claimPc' = [r \in Claimers |-> claimPc'[r]]
          /\ claiming' = [r \in Claimers |-> claiming'[r]]
      BY <1>2
    <2>2. \A r \in Claimers : claimPc'[r] # "idle" => GoodClaim(claiming'[r])
      BY <1>3 DEF ClaimInv, ClaimsShaped
    <2>3. \A a \in acknowledged' : GoodClaim(a)
      BY <1>4 DEF ClaimInv, ClaimsShaped
    <2> QED  BY <1>1, <2>1, <2>2, <2>3 DEF ClaimInv, ClaimsShaped
  <1>6. ClaimsOnce' /\ JoinsShaped'
    BY DEF ClaimInv, ClaimsOnce, JoinsShaped, Dispatched
  <1>7. ClaimersApart'
    BY <1>3 DEF ClaimInv, ClaimersApart
  <1>8. Acknowledged'
    BY <1>4 DEF ClaimInv, Acknowledged, Claimed
  <1>9. \A r \in Claimers : ClaimHeld(r)'
    BY <1>3 DEF ClaimInv, ClaimHeld, Claimed, Late
  <1> QED  BY <1>1, <1>5, <1>6, <1>7, <1>8, <1>9 DEF ClaimInv

LEMMA ClaimerWalks ==
    ASSUME ClaimInv, UNCHANGED effectVars, NEW q \in Claimers,
           \/ \E k \in Ids, h \in handoffs : StartClaim(q, k, h)
           \/ RecheckClaim(q) \/ Acknowledge(q) \/ Abandon(q)
    PROVE  ClaimInv'
  <1>0. /\ claimPc = [r \in Claimers |-> claimPc[r]]
        /\ claiming = [r \in Claimers |-> claiming[r]]
        /\ claimPc[q] # "idle" => GoodClaim(claiming[q])
    BY DEF ClaimInv, ClaimsShaped
  <1>1. ASSUME NEW k \in Ids, NEW h \in handoffs, StartClaim(q, k, h)  PROVE ClaimInv'
    <2>1. claimPc'[q] = "reserve" /\ claiming'[q] = [claim |-> k, handoff |-> h]
      BY <1>0, <1>1 DEF StartClaim, ClaimGoto
    <2>2. GoodClaim(claiming'[q])
      BY <1>1, <2>1 DEF GoodClaim, StartClaim, Sources, ClaimInv, EffectsOwned
    <2>3. "reserve" \notin Late
      BY DEF Late
    <2> QED  BY <1>0, <1>1, <2>1, <2>2, <2>3, ClaimerMoves DEF StartClaim, ClaimGoto
  <1>2. CASE RecheckClaim(q)
    <2>1. claimPc[q] = "recheck" /\ claimPc'[q] = "finalize" /\ claiming' = claiming
      BY <1>0, <1>2 DEF RecheckClaim, ClaimGoto
    <2>2. {"recheck", "finalize"} \subseteq Late
      BY DEF Late
    <2> QED  BY <1>0, <1>2, <2>1, <2>2, ClaimerMoves DEF RecheckClaim, ClaimGoto
  <1>3. CASE Acknowledge(q) \/ Abandon(q)
    <2>1. claimPc'[q] = "idle"
      BY <1>0, <1>3 DEF Acknowledge, Abandon, ClaimGoto
    <2>2. "idle" \notin Late
      BY DEF Late
    <2> QED  BY <1>0, <1>3, <2>1, <2>2, ClaimerMoves DEF Acknowledge, Abandon, ClaimGoto
  <1> QED  BY <1>1, <1>2, <1>3
\* A claim is stored under an id, and for a handoff, that no claim has.
LEMMA ReserveClaimInv ==
    ASSUME ClaimInv, UNCHANGED effectVars, NEW q \in Claimers, ReserveClaim(q)
    PROVE  ClaimInv'
  <1>1. /\ EffectInv' /\ EffectsOwned' /\ \A c : GoodClaim(c)' = GoodClaim(c)
        /\ \A h : GoodHandoff(h)' = GoodHandoff(h)
        /\ \A h : EffectDispatched(h)' = EffectDispatched(h)
    BY SecondHalf
  <1>2. PICK y : y = Claimed(q, "IN_PROGRESS")
    OBVIOUS
  <1>3. /\ claimPc[q] = "reserve" /\ claimPc' = [claimPc EXCEPT ![q] = "recheck"]
        /\ claims' = claims \union {y}
        /\ UNCHANGED <<joins, claiming, acknowledged>>
        /\ \A c \in claims :
              c.claim # claiming[q].claim /\ c.handoff # claiming[q].handoff
    BY <1>2 DEF ReserveClaim, ClaimGoto
  <1>4. /\ y.claim = claiming[q].claim /\ y.handoff = claiming[q].handoff
        /\ y = ClaimOf(y.claim, y.handoff, y.state)
    BY <1>2 DEF Claimed, ClaimOf
  <1>5. GoodClaim(claiming[q])
    BY <1>3 DEF ClaimInv, ClaimsShaped
  <1>6. /\ claimPc = [r \in Claimers |-> claimPc[r]]
        /\ claimPc'[q] = "recheck" /\ \A r \in Claimers \ {q} : claimPc'[r] = claimPc[r]
    BY <1>3 DEF ClaimInv, ClaimsShaped
  <1>7. ClaimsShaped'
    <2>1. claimPc' = [r \in Claimers |-> claimPc'[r]]
          /\ claiming' = [r \in Claimers |-> claiming'[r]]
      BY <1>3, <1>6 DEF ClaimInv, ClaimsShaped
    <2>2. \A r \in Claimers : claimPc'[r] # "idle" => GoodClaim(claiming'[r])
      BY <1>3, <1>5, <1>6 DEF ClaimInv, ClaimsShaped
    <2>3. \A c \in claims' : /\ c = ClaimOf(c.claim, c.handoff, c.state)
                             /\ GoodHandoff(c.handoff) /\ EffectDispatched(c.handoff)
      BY <1>3, <1>4, <1>5 DEF ClaimInv, ClaimsShaped, GoodClaim
    <2>4. \A a \in acknowledged' : GoodClaim(a)
      BY <1>3 DEF ClaimInv, ClaimsShaped
    <2> QED  BY <1>1, <2>1, <2>2, <2>3, <2>4 DEF ClaimsShaped
  <1>8. ClaimsOnce'
    BY <1>3, <1>4 DEF ClaimInv, ClaimsOnce
  <1>9. ClaimersApart'
    <2>1. \A r \in Claimers : claimPc[r] \in Late => claiming[r] # claiming[q]
      <3> SUFFICES ASSUME NEW r \in Claimers, claimPc[r] \in Late
                   PROVE  claiming[r] # claiming[q]
        OBVIOUS
      <3>1. Claimed(r, "IN_PROGRESS") \in claims
        BY DEF ClaimInv, ClaimHeld
      <3>2. Claimed(r, "IN_PROGRESS").claim = claiming[r].claim
        BY DEF Claimed, ClaimOf
      <3> QED  BY <1>3, <3>1, <3>2
    <2> QED  BY <1>3, <1>6, <2>1 DEF ClaimInv, ClaimersApart
  <1>10. Acknowledged' /\ JoinsShaped'
    BY <1>3 DEF ClaimInv, Acknowledged, JoinsShaped, Dispatched
  <1>11. \A r \in Claimers : ClaimHeld(r)'
    <2>1. \A r, s : Claimed(r, s)' = Claimed(r, s)
      BY <1>3 DEF Claimed
    <2> QED  BY <1>2, <1>3, <1>6, <2>1 DEF ClaimInv, ClaimHeld
  <1> QED  BY <1>1, <1>7, <1>8, <1>9, <1>10, <1>11 DEF ClaimInv

\* The claim becomes TERMINAL; it is nobody else's.
LEMMA FinalizeClaimInv ==
    ASSUME ClaimInv, UNCHANGED effectVars, NEW q \in Claimers, FinalizeClaim(q)
    PROVE  ClaimInv'
  <1>1. /\ EffectInv' /\ EffectsOwned' /\ \A c : GoodClaim(c)' = GoodClaim(c)
        /\ \A h : GoodHandoff(h)' = GoodHandoff(h)
        /\ \A h : EffectDispatched(h)' = EffectDispatched(h)
    BY SecondHalf
  <1>2. PICK x, y : x = Claimed(q, "IN_PROGRESS") /\ y = Claimed(q, "TERMINAL")
    OBVIOUS
  <1>3. /\ claimPc[q] = "finalize" /\ claimPc' = [claimPc EXCEPT ![q] = "acknowledge"]
        /\ x \in claims /\ claims' = (claims \ {x}) \union {y}
        /\ UNCHANGED <<joins, claiming, acknowledged>>
    BY <1>2 DEF FinalizeClaim, ClaimGoto, Replace
  <1>4. /\ y.claim = x.claim /\ y.handoff = x.handoff /\ x.state = "IN_PROGRESS"
        /\ y = ClaimOf(y.claim, y.handoff, y.state) /\ y.state = "TERMINAL"
        /\ x.claim = claiming[q].claim /\ x.handoff = claiming[q].handoff
    BY <1>2 DEF Claimed, ClaimOf
  <1>5. GoodHandoff(y.handoff) /\ EffectDispatched(y.handoff)
    BY <1>3, <1>4 DEF ClaimInv, ClaimsShaped
  <1>6. /\ claimPc = [r \in Claimers |-> claimPc[r]]
        /\ claimPc'[q] = "acknowledge"
        /\ \A r \in Claimers \ {q} : claimPc'[r] = claimPc[r]
    BY <1>3 DEF ClaimInv, ClaimsShaped
  <1>7. ClaimsShaped'
    <2>1. claimPc' = [r \in Claimers |-> claimPc'[r]]
          /\ claiming' = [r \in Claimers |-> claiming'[r]]
      BY <1>3, <1>6 DEF ClaimInv, ClaimsShaped
    <2>2. \A r \in Claimers : claimPc'[r] # "idle" => GoodClaim(claiming'[r])
      BY <1>3, <1>6 DEF ClaimInv, ClaimsShaped
    <2>3. \A c \in claims' : /\ c = ClaimOf(c.claim, c.handoff, c.state)
                             /\ GoodHandoff(c.handoff) /\ EffectDispatched(c.handoff)
      BY <1>3, <1>4, <1>5 DEF ClaimInv, ClaimsShaped
    <2>4. \A a \in acknowledged' : GoodClaim(a)
      BY <1>3 DEF ClaimInv, ClaimsShaped
    <2> QED  BY <1>1, <2>1, <2>2, <2>3, <2>4 DEF ClaimsShaped
  <1>8. ClaimsOnce'
    BY <1>3, <1>4 DEF ClaimInv, ClaimsOnce
  <1>9. "acknowledge" \notin Late /\ "finalize" \in Late
    BY DEF Late
  <1>10. ClaimersApart'
    BY <1>3, <1>6, <1>9 DEF ClaimInv, ClaimersApart
  <1>11. Acknowledged' /\ JoinsShaped'
    <2>1. \A a \in acknowledged : ClaimOf(a.claim, a.handoff, "TERMINAL") # x
      BY <1>4 DEF ClaimOf
    <2> QED  BY <1>3, <2>1 DEF ClaimInv, Acknowledged, JoinsShaped, Dispatched
  <1>12. ASSUME NEW r \in Claimers  PROVE ClaimHeld(r)'
    <2>1. \A s : Claimed(r, s)' = Claimed(r, s)
      BY <1>3 DEF Claimed
    <2>2. CASE r = q
      BY <1>2, <1>3, <1>6, <1>9, <2>1, <2>2 DEF ClaimHeld
    <2>3. CASE r # q
      <3>1. claimPc[r] \in Late => Claimed(r, "IN_PROGRESS") # x
        <4> SUFFICES ASSUME claimPc[r] \in Late, Claimed(r, "IN_PROGRESS") = x
                     PROVE  FALSE
          OBVIOUS
        <4>1. x.claim = claiming[r].claim /\ x.handoff = claiming[r].handoff
          BY DEF Claimed, ClaimOf
        <4>2. GoodClaim(claiming[r]) /\ GoodClaim(claiming[q])
          BY <1>3 DEF ClaimInv, ClaimsShaped, Late
        <4>3. claiming[r] = claiming[q]
          BY <1>4, <4>1, <4>2 DEF GoodClaim
        <4> QED  BY <1>3, <1>9, <2>3, <4>3 DEF ClaimInv, ClaimersApart
      <3>2. Claimed(r, "TERMINAL") # x
        BY <1>4 DEF Claimed, ClaimOf
      <3> QED  BY <1>3, <1>6, <2>1, <2>3, <3>1, <3>2 DEF ClaimInv, ClaimHeld
    <2> QED  BY <2>2, <2>3
  <1> QED  BY <1>1, <1>7, <1>8, <1>10, <1>11, <1>12 DEF ClaimInv

LEMMA JoinInv ==
    ASSUME ClaimInv, UNCHANGED effectVars, JoinStep
    PROVE  ClaimInv'
  <1>1. /\ EffectInv' /\ EffectsOwned' /\ \A c : GoodClaim(c)' = GoodClaim(c)
        /\ \A h : GoodHandoff(h)' = GoodHandoff(h)
        /\ \A h : EffectDispatched(h)' = EffectDispatched(h)
    BY SecondHalf
  <1>2. UNCHANGED <<claims, claimPc, claiming, acknowledged>>
    BY DEF JoinStep, Join, JoinClaims
  <1>3. JoinsShaped'
    <2>1. CASE joins' = joins
      BY <2>1 DEF ClaimInv, JoinsShaped, Dispatched
    <2>2. ASSUME NEW k, NEW r, NEW o \in [Dispatched(r) -> Outcomes], Join(k, r, o)
          PROVE  JoinsShaped'
      <3> DEFINE y == [join |-> k, source |-> r, outcomes |-> o]
      <3>1. joins' = joins \union {y} /\ y.source = r /\ y.outcomes = o
        BY <2>2 DEF Join
      <3> HIDE DEF y
      <3>2. y.outcomes \in [Dispatched(y.source) -> Outcomes]
        BY <3>1
      <3>3. \A j : Dispatched(j.source)' = Dispatched(j.source)
        BY DEF Dispatched
      <3> QED  BY <3>1, <3>2, <3>3 DEF ClaimInv, JoinsShaped
    <2>3. ASSUME NEW k, NEW j, NEW b, JoinClaims(k, j, b)  PROVE joins' = joins
      BY <2>3 DEF JoinClaims
    <2>4. CASE \E k \in Ids, r \in effects :
                  /\ r.state = "TERMINAL"
                  /\ \E o \in [Dispatched(r) -> Outcomes] : Join(k, r, o)
      <3>1. PICK k, r : \E o \in [Dispatched(r) -> Outcomes] : Join(k, r, o)
        BY <2>4, Zenon
      <3> QED  BY <2>2, <3>1, Zenon
    <2>5. CASE \E k \in Ids, j \in joins :
                  \E b \in [DOMAIN j.outcomes -> claims] : JoinClaims(k, j, b)
      BY <2>1, <2>3, <2>5, Zenon
    <2> QED  BY <2>4, <2>5, Zenon DEF JoinStep
  <1>4. ClaimsShaped'
    BY <1>1, <1>2 DEF ClaimInv, ClaimsShaped
  <1>5. ClaimsOnce' /\ ClaimersApart' /\ Acknowledged'
    BY <1>2 DEF ClaimInv, ClaimsOnce, ClaimersApart, Acknowledged
  <1>6. \A q \in Claimers : ClaimHeld(q)'
    BY <1>2 DEF ClaimInv, ClaimHeld, Claimed
  <1> QED  BY <1>1, <1>3, <1>4, <1>5, <1>6 DEF ClaimInv

LEMMA InitClaims == Init => ClaimInv
  <1> SUFFICES ASSUME Init  PROVE ClaimInv
    OBVIOUS
  <1>1. EffectInv /\ EffectsOwned
    BY InitInv, InitOwned DEF Init
  <1>2. ClaimsShaped /\ ClaimsOnce /\ ClaimersApart /\ Acknowledged /\ JoinsShaped
    BY DEF Init, ClaimsShaped, ClaimsOnce, ClaimersApart, Acknowledged, JoinsShaped, Late
  <1>3. \A q \in Claimers : ClaimHeld(q)
    BY DEF Init, ClaimHeld, Late
  <1> QED  BY <1>1, <1>2, <1>3 DEF ClaimInv

LEMMA NextClaims == ClaimInv /\ [Next]_vars => ClaimInv'
  <1> SUFFICES ASSUME ClaimInv, [Next]_vars  PROVE ClaimInv'
    OBVIOUS
  <1>1. CASE EffectNext /\ UNCHANGED claimVars
    BY <1>1, FirstHalf
  <1>2. ASSUME NEW q \in Claimers, ClaimStep(q), UNCHANGED effectVars  PROVE ClaimInv'
    BY <1>2, ClaimerWalks, ReserveClaimInv, FinalizeClaimInv DEF ClaimStep
  <1>3. CASE JoinStep /\ UNCHANGED effectVars
    BY <1>3, JoinInv
  <1>4. CASE UNCHANGED vars
    BY <1>4, FirstHalf DEF vars
  <1> QED  BY <1>1, <1>2, <1>3, <1>4 DEF Next

\* The inductive invariant of the pipeline: a claim is stored for a dispatched handoff
\* that no other claim has, and stays its claimer's.
THEOREM PipelineInductive == Spec => []ClaimInv
  <1>1. Init => ClaimInv
    BY InitClaims
  <1>2. ClaimInv /\ [Next]_vars => ClaimInv'
    BY NextClaims
  <1> QED  BY <1>1, <1>2, PTL DEF Spec
-----------------------------------------------------------------------------
(* What follows a handoff is true of it.                                      *)

LEMMA HandoffsAreOnce == EffectInv => HandedOnce
  <1> SUFFICES ASSUME EffectInv, NEW h \in handoffs, NEW k \in handoffs,
                      h.auth.plan = k.auth.plan, h.node = k.node
               PROVE  h = k
    BY DEF HandedOnce
  <1>1. PICK x \in executions : x.auth = h.auth /\ x.effect = h.effect
    BY DEF EffectInv, HandoffsOwned
  <1>2. PICK y \in executions : y.auth = k.auth /\ y.effect = k.effect
    BY DEF EffectInv, HandoffsOwned
  <1>3. x = y
    BY <1>1, <1>2 DEF EffectInv, PlansOnce
  <1> QED  BY <1>1, <1>2, <1>3 DEF EffectInv, HandoffsOwned

LEMMA SoundClaims == ClaimInv => ClaimsAreSound
  <1> SUFFICES ASSUME ClaimInv  PROVE ClaimsAreSound
    OBVIOUS
  <1>1. \A c \in claims : EffectDispatched(c.handoff)
    BY DEF ClaimInv, ClaimsShaped
  <1>2. ASSUME NEW c \in acknowledged, NEW d \in acknowledged,
               c.handoff.auth.plan = d.handoff.auth.plan, c.handoff.node = d.handoff.node
        PROVE  c = d
    <2>1. GoodClaim(c) /\ GoodClaim(d)
      BY DEF ClaimInv, ClaimsShaped
    <2>2. c.handoff = d.handoff
      BY <1>2, <2>1, HandoffsAreOnce DEF GoodClaim, GoodHandoff, ClaimInv, HandedOnce
    <2>3. PICK x \in claims : x = ClaimOf(c.claim, c.handoff, "TERMINAL")
      BY DEF ClaimInv, Acknowledged
    <2>4. PICK y \in claims : y = ClaimOf(d.claim, d.handoff, "TERMINAL")
      BY DEF ClaimInv, Acknowledged
    <2>5. /\ x.handoff = c.handoff /\ y.handoff = d.handoff
          /\ x.claim = c.claim /\ y.claim = d.claim
      BY <2>3, <2>4 DEF ClaimOf
    <2>6. x = y
      BY <2>2, <2>5 DEF ClaimInv, ClaimsOnce
    <2> QED  BY <2>1, <2>2, <2>5, <2>6 DEF GoodClaim
  <1> QED  BY <1>1, <1>2 DEF ClaimsAreSound, ClaimInv, Acknowledged

\* Only outcomes that are COMPLETE one and all make a PASS.
LEMMA PassMeansAll ==
    ASSUME NEW f, JoinResult(f) \notin {"HUMAN_REQUIRED", "FAILED", "PARTIAL"}
    PROVE  \A n \in DOMAIN f : f[n] = "COMPLETE"
  BY DEF JoinResult

\* Only a receipt that calls every node dispatched is DISPATCHED.
LEMMA DispatchedMeansAll ==
    ASSUME NEW f, Aggregate(f) \notin {"HUMAN_REQUIRED", "FAILED", "PARTIAL"}
    PROVE  \A n \in DOMAIN f : f[n] = "DISPATCHED"
  BY DEF Aggregate

LEMMA TrueCompletion == ClaimInv => CompleteIsTrue
  <1> SUFFICES ASSUME ClaimInv, NEW x \in executions, Stage(x) = "COMPLETE"
               PROVE  /\ \A n \in x.auth.plan.picked :
                           [effect |-> x.effect, auth |-> x.auth, node |-> n] \in handoffs
                      /\ \E j \in joins :
                           /\ j.source.effect = x.effect
                           /\ j.outcomes = [n \in x.auth.plan.picked |-> "COMPLETE"]
    BY DEF CompleteIsTrue
  <1>1. PICK j \in joins :
           /\ j.source.effect = x.effect /\ j.source.receipt = x.receipt
           /\ JoinResult(j.outcomes) \notin {"HUMAN_REQUIRED", "FAILED", "PARTIAL"}
           /\ x.result \notin {"HUMAN_REQUIRED", "FAILED", "PARTIAL"}
           /\ x.state # "IN_PROGRESS"
    <2> DEFINE Of == {j \in joins : /\ j.source.effect = x.effect
                                   /\ j.source.receipt = x.receipt}
               One == CHOOSE j \in Of : TRUE
    <2>1. /\ Of # {} /\ x.state # "IN_PROGRESS"
          /\ JoinResult(One.outcomes) \notin {"HUMAN_REQUIRED", "FAILED", "PARTIAL"}
          /\ x.result \notin {"HUMAN_REQUIRED", "FAILED", "PARTIAL"}
      BY DEF Stage
    <2>2. One \in Of
      BY <2>1
    <2> HIDE DEF One
    <2> QED  BY <2>1, <2>2
  <1>2. x.state = "TERMINAL"
    BY <1>1 DEF ClaimInv, EffectsOwned
  <1>3. PICK r \in effects :
           /\ r.effect = x.effect /\ r.auth = x.auth /\ r.state = "TERMINAL"
           /\ r.receipt = x.receipt /\ x.result = Aggregate(r.receipt)
    BY <1>2 DEF ClaimInv, EffectInv, ReceiptsAreTrue
  <1>4. x.receipt \in [x.auth.plan.picked -> Results]
    BY <1>3 DEF ClaimInv, EffectsOwned, Receipts
  <1>5. DOMAIN x.receipt = x.auth.plan.picked
        /\ \A n \in x.auth.plan.picked : x.receipt[n] = "DISPATCHED"
    BY <1>1, <1>3, <1>4, DispatchedMeansAll
  <1>6. ASSUME NEW n \in x.auth.plan.picked
        PROVE  [effect |-> x.effect, auth |-> x.auth, node |-> n] \in handoffs
    BY <1>3, <1>5 DEF ClaimInv, EffectInv, ReceiptsAreTrue
  <1>7. Dispatched(j.source) = x.auth.plan.picked
    BY <1>1, <1>5 DEF Dispatched
  <1>8. j.outcomes \in [x.auth.plan.picked -> Outcomes]
    BY <1>7 DEF ClaimInv, JoinsShaped
  <1>9. j.outcomes = [n \in x.auth.plan.picked |-> "COMPLETE"]
    BY <1>1, <1>8, PassMeansAll
  <1> QED  BY <1>1, <1>6, <1>9

\* Whatever sessions claim, are overtaken or die, one is told CLAIMED for a node of a
\* plan, for a handoff its effect calls dispatched (atlas/concurrency_claim.py); and an
\* execution shown COMPLETE has handed over every node of its plan, each of which has
\* the outcome COMPLETE (concurrency_execution_dashboard).
THEOREM TrueFollowUp == Spec => []HandoffsAreFollowed
  <1>1. ClaimInv => HandoffsAreFollowed
    BY SoundClaims, TrueCompletion DEF HandoffsAreFollowed
  <1> QED  BY <1>1, PipelineInductive, PTL
-----------------------------------------------------------------------------
(* The one shot.                                                              *)

\* A plan has one effect, and claims only when that is TERMINAL.
LEMMA OneEffect ==
    ClaimInv => \A r, t \in effects : r.auth.plan = t.auth.plan => r = t
  <1> SUFFICES ASSUME ClaimInv, NEW r \in effects, NEW t \in effects,
                      r.auth.plan = t.auth.plan
               PROVE  r = t
    OBVIOUS
  <1>1. PICK x \in executions : x.auth = r.auth
    BY DEF ClaimInv, EffectsOwned
  <1>2. PICK y \in executions : y.auth = t.auth
    BY DEF ClaimInv, EffectsOwned
  <1>3. x = y
    BY <1>1, <1>2 DEF ClaimInv, EffectInv, PlansOnce
  <1> QED  BY <1>1, <1>2, <1>3 DEF ClaimInv, EffectsOwned

LEMMA UnclaimedUntilSealed ==
    ClaimInv => \A r \in effects, c \in claims :
                   r.auth.plan = c.handoff.auth.plan => r.state = "TERMINAL"
  <1> SUFFICES ASSUME ClaimInv, NEW r \in effects, NEW c \in claims,
                      r.auth.plan = c.handoff.auth.plan
               PROVE  r.state = "TERMINAL"
    OBVIOUS
  <1>1. PICK t \in effects : t.auth = c.handoff.auth /\ t.state = "TERMINAL"
    BY DEF ClaimInv, ClaimsShaped, EffectDispatched
  <1> QED  BY <1>1, OneEffect

\* Where a node of a plan stands, without counting.
NodeIs(s, n) ==
    IF HandoffsOf(s, n) = {} THEN "open"
    ELSE IF ClaimsOf(s, n) = {} THEN "handed" ELSE "claimed"

LEMMA NodesCounted == ClaimInv => \A s, n : NodeOf(s, n) = NodeIs(s, n)
  <1> SUFFICES ASSUME ClaimInv, NEW s, NEW n  PROVE NodeOf(s, n) = NodeIs(s, n)
    OBVIOUS
  <1>1. ASSUME NEW h \in HandoffsOf(s, n)
        PROVE  HandoffsOf(s, n) = {h} /\ Cardinality(HandoffsOf(s, n)) = 1
    <2>1. HandoffsOf(s, n) = {h}
      BY <1>1, HandoffsAreOnce DEF HandoffsOf, ClaimInv, HandedOnce
    <2> QED  BY <2>1, FS_Singleton
  <1>2. ASSUME NEW c \in ClaimsOf(s, n)
        PROVE  Cardinality(ClaimsOf(s, n)) = 1
    <2>1. \A d \in ClaimsOf(s, n) : d = c
      <3> SUFFICES ASSUME NEW d \in ClaimsOf(s, n)  PROVE d = c
        OBVIOUS
      <3>1. d.handoff \in handoffs /\ c.handoff \in handoffs
        BY DEF ClaimsOf, ClaimInv, ClaimsShaped, GoodHandoff
      <3>2. d.handoff = c.handoff
        BY <3>1, HandoffsAreOnce DEF ClaimsOf, ClaimInv, HandedOnce
      <3> QED  BY <3>2 DEF ClaimsOf, ClaimInv, ClaimsOnce
    <2>2. ClaimsOf(s, n) = {c}
      BY <1>2, <2>1
    <2> QED  BY <2>2, FS_Singleton
  <1>3. CASE HandoffsOf(s, n) = {}
    <2>1. Cardinality(HandoffsOf(s, n)) = 0
      BY <1>3, FS_EmptySet
    <2>2. NodeOf(s, n) = "open"
      BY <1>3, <2>1 DEF NodeOf
    <2> QED  BY <1>3, <2>2 DEF NodeIs
  <1>4. CASE HandoffsOf(s, n) # {} /\ ClaimsOf(s, n) = {}
    <2>1. Cardinality(HandoffsOf(s, n)) = 1
      BY <1>1, <1>4
    <2>2. Cardinality(ClaimsOf(s, n)) = 0
      BY <1>4, FS_EmptySet
    <2>3. NodeOf(s, n) = "handed"
      BY <1>4, <2>1, <2>2 DEF NodeOf
    <2> QED  BY <1>4, <2>3 DEF NodeIs
  <1>5. CASE HandoffsOf(s, n) # {} /\ ClaimsOf(s, n) # {}
    <2>1. Cardinality(HandoffsOf(s, n)) = 1 /\ Cardinality(ClaimsOf(s, n)) = 1
      BY <1>1, <1>2, <1>5
    <2>2. NodeOf(s, n) = "claimed"
      BY <1>5, <2>1 DEF NodeOf
    <2> QED  BY <1>5, <2>2 DEF NodeIs
  <1> QED  BY <1>3, <1>4, <1>5

LEMMA NodesCountedNext == ClaimInv' => (\A s, n : NodeOf(s, n) = NodeIs(s, n))'
  BY NodesCounted, PTL
\* The stage of the plan s, from the executions X and the effects R of it.
StageIn(s, X, R) ==
    IF \A x \in X : x.auth.plan # s THEN "none"
    ELSE IF R = {} THEN "reserved"
    ELSE IF \E r \in R : r.state = "IN_PROGRESS" THEN "armed"
    ELSE "sealed"

DispatchedIn(s, R) ==
    {n \in s.picked : \E r \in R : r.state = "TERMINAL" /\ r.receipt[n] = "DISPATCHED"}

OfPlan(s) == {r \in effects : r.auth.plan = s}

LEMMA PlanRecords ==
    ASSUME NEW s
    PROVE  /\ StageOf(s) = StageIn(s, executions, OfPlan(s))
           /\ StageOf(s)' = StageIn(s, executions', OfPlan(s)')
           /\ DispatchedOf(s) = DispatchedIn(s, OfPlan(s))
           /\ DispatchedOf(s)' = DispatchedIn(s, OfPlan(s)')
  <1>1. StageOf(s) = StageIn(s, executions, OfPlan(s))
    BY DEF StageOf, StageIn, OfPlan, EffectsOf
  <1>2. StageOf(s)' = StageIn(s, executions', OfPlan(s)')
    BY DEF StageOf, StageIn, OfPlan, EffectsOf
  <1>3. DispatchedOf(s) = DispatchedIn(s, OfPlan(s))
    BY DEF DispatchedOf, DispatchedIn, OfPlan, EffectsOf
  <1>4. DispatchedOf(s)' = DispatchedIn(s, OfPlan(s)')
    BY DEF DispatchedOf, DispatchedIn, OfPlan, EffectsOf
  <1> QED  BY <1>1, <1>2, <1>3, <1>4

\* What the ledgers tell of a plan, step by step.
StageStays(s) == StageOf(s)' = StageOf(s)
NodesStay(s) == \A n \in s.picked : NodeOf(s, n)' = NodeOf(s, n)
DispatchedStays(s) == DispatchedOf(s)' = DispatchedOf(s)

LEMMA ShotStutters ==
    ASSUME \A s \in Snapshots : StageStays(s) /\ NodesStay(s) /\ DispatchedStays(s)
    PROVE  UNCHANGED OneShot!vars
  <1>1. [s \in Snapshots |-> StageOf(s)]' = [s \in Snapshots |-> StageOf(s)]
    BY DEF StageStays
  <1>2. [s \in Snapshots |-> [n \in s.picked |-> NodeOf(s, n)]]'
          = [s \in Snapshots |-> [n \in s.picked |-> NodeOf(s, n)]]
    BY DEF NodesStay
  <1>3. [s \in Snapshots |-> DispatchedOf(s)]' = [s \in Snapshots |-> DispatchedOf(s)]
    BY DEF DispatchedStays
  <1> QED  BY <1>1, <1>2, <1>3 DEF OneShot!vars

LEMMA ShotAdvances ==
    ASSUME NEW s \in Snapshots, \A t \in Snapshots \ {s} : StageStays(t)
    PROVE  OneShot!Advance(s, StageOf(s), StageOf(s)')
  BY DEF OneShot!Advance, StageStays

LEMMA ShotNodeMoves ==
    ASSUME NEW s \in Snapshots, NEW n \in s.picked,
           \A t \in Snapshots \ {s} : NodesStay(t),
           \A m \in s.picked \ {n} : NodeOf(s, m)' = NodeOf(s, m)
    PROVE  [t \in Snapshots |-> [m \in t.picked |-> NodeOf(t, m)]]'
              = [[t \in Snapshots |-> [m \in t.picked |-> NodeOf(t, m)]]
                    EXCEPT ![s][n] = NodeOf(s, n)']
  BY DEF NodesStay
LEMMA HandoffsAreOnceNext == EffectInv' => HandedOnce'
  BY HandoffsAreOnce, PTL

\* A node stays where it is while neither its handoffs nor its TERMINAL claims change.
LEMMA NodeStays ==
    ASSUME ClaimInv, ClaimInv', NEW s, NEW n,
           HandoffsOf(s, n)' = HandoffsOf(s, n), ClaimsOf(s, n)' = ClaimsOf(s, n)
    PROVE  NodeOf(s, n)' = NodeOf(s, n)
  <1>1. NodeOf(s, n) = NodeIs(s, n)
    BY NodesCounted
  <1>2. NodeOf(s, n)' = NodeIs(s, n)'
    BY NodesCountedNext
  <1> QED  BY <1>1, <1>2 DEF NodeIs

\* Records of a plan's executions come, and go only to be replaced.
LEMMA ExecutionsOfPlan ==
    ASSUME ClaimInv, UNCHANGED effects,
           \/ \E p \in Procs : FinalizeExecution(p)
           \/ executions' = executions,
           NEW s
    PROVE  StageStays(s)
  <1>1. (\A x \in executions' : x.auth.plan # s) <=> (\A x \in executions : x.auth.plan # s)
    <2>1. ASSUME NEW p \in Procs, FinalizeExecution(p)
          PROVE  (\A x \in executions' : x.auth.plan # s)
                   <=> (\A x \in executions : x.auth.plan # s)
      <3>1. PICK x, y : /\ x \in executions /\ y.auth = x.auth
                        /\ executions' = (executions \ {x}) \union {y}
        BY <2>1, RecordFields DEF FinalizeExecution, Replace
      <3> QED  BY <3>1
    <2> QED  BY <2>1
  <1>2. OfPlan(s)' = OfPlan(s)
    BY DEF OfPlan
  <1> QED  BY <1>1, <1>2, PlanRecords DEF StageStays, StageIn

LEMMA EffectsOfPlan ==
    ASSUME NEW s, OfPlan(s)' = OfPlan(s)
    PROVE  /\ DispatchedStays(s)
           /\ executions' = executions => StageStays(s)
  BY PlanRecords DEF DispatchedStays, StageStays

\* The execution of a plan is reserved.
LEMMA ShotReserved ==
    ASSUME ClaimInv, ClaimInv', NEW p \in Procs, ReserveExecution(p), UNCHANGED claims
    PROVE  OneShot!Next
  <1>1. PICK s : s = Plan(p)
    OBVIOUS
  <1>2. s \in Snapshots
    BY <1>1, PlanOfCall DEF ClaimInv, ReserveExecution, Goto
  <1>3. PICK y : /\ executions' = executions \union {y} /\ y.auth.plan = s
                 /\ \A r \in executions : r.auth.plan # s
    BY <1>1, RecordFields DEF ReserveExecution, Plan
  <1>4. UNCHANGED <<effects, handoffs>>
    BY DEF ReserveExecution
  <1>5. OfPlan(s) = {}
    BY <1>3 DEF OfPlan, ClaimInv, EffectsOwned
  <1>6. \A t : OfPlan(t)' = OfPlan(t)
    BY <1>4 DEF OfPlan
  <1>7. StageOf(s) = "none" /\ StageOf(s)' = "reserved"
    BY <1>3, <1>5, <1>6, PlanRecords DEF StageIn
  <1>8. \A t \in Snapshots \ {s} : StageStays(t)
    BY <1>3, <1>6, PlanRecords DEF StageStays, StageIn
  <1>9. \A t \in Snapshots : NodesStay(t) /\ DispatchedStays(t)
    <2>1. \A t, n : HandoffsOf(t, n)' = HandoffsOf(t, n) /\ ClaimsOf(t, n)' = ClaimsOf(t, n)
      BY <1>4 DEF HandoffsOf, ClaimsOf
    <2> QED  BY <1>6, <2>1, NodeStays, EffectsOfPlan DEF NodesStay
  <1>10. OneShot!Advance(s, "none", "reserved")
    BY <1>2, <1>7, <1>8, ShotAdvances
  <1>11. /\ [t \in Snapshots |-> [n \in t.picked |-> NodeOf(t, n)]]'
                = [t \in Snapshots |-> [n \in t.picked |-> NodeOf(t, n)]]
         /\ [t \in Snapshots |-> DispatchedOf(t)]' = [t \in Snapshots |-> DispatchedOf(t)]
    BY <1>9 DEF NodesStay, DispatchedStays
  <1>12. OneShot!Reserve(s)
    BY <1>10, <1>11 DEF OneShot!Reserve
  <1> QED  BY <1>2, <1>12 DEF OneShot!Next

\* Its effect is reserved.
LEMMA ShotArmed ==
    ASSUME ClaimInv, ClaimInv', NEW p \in Procs, ReserveEffect(p), UNCHANGED claims
    PROVE  OneShot!Next
  <1>1. PICK s : s = Plan(p)
    OBVIOUS
  <1>2. s \in Snapshots
    BY <1>1, PlanOfCall DEF ClaimInv, ReserveEffect, Goto
  <1>3. PICK y : /\ effects' = effects \union {y} /\ y.auth.plan = s
                 /\ y.auth = Auth(p) /\ y.state = "IN_PROGRESS"
                 /\ \A r \in effects : r.auth # Auth(p)
    BY <1>1, RecordFields DEF ReserveEffect, Plan, Auth
  <1>4. UNCHANGED <<executions, handoffs>>
    BY DEF ReserveEffect
  <1>5. PICK x \in executions : x.auth = Auth(p)
    BY RecordFields DEF ClaimInv, EffectInv, Held, Past, ReserveEffect, Goto, Auth
  <1>6. OfPlan(s) = {}
    <2> SUFFICES ASSUME NEW r \in effects, r.auth.plan = s  PROVE FALSE
      BY DEF OfPlan
    <2>1. PICK z \in executions : z.auth = r.auth
      BY DEF ClaimInv, EffectsOwned
    <2>2. z = x
      BY <1>1, <1>5, <2>1 DEF ClaimInv, EffectInv, PlansOnce, Plan, Auth
    <2> QED  BY <1>3, <1>5, <2>1, <2>2
  <1>7. OfPlan(s)' = {y} /\ \A t : t # s => OfPlan(t)' = OfPlan(t)
    BY <1>3, <1>6 DEF OfPlan
  <1>8. StageOf(s) = "reserved" /\ StageOf(s)' = "armed"
    <2>1. ~ \A z \in executions : z.auth.plan # s
      BY <1>1, <1>5 DEF Plan, Auth
    <2> QED  BY <1>3, <1>4, <1>6, <1>7, <2>1, PlanRecords DEF StageIn
  <1>9. \A t \in Snapshots \ {s} : StageStays(t) /\ DispatchedStays(t)
    BY <1>4, <1>7, EffectsOfPlan
  <1>10. DispatchedStays(s)
    BY <1>3, <1>6, <1>7, PlanRecords DEF DispatchedStays, DispatchedIn
  <1>11. \A t \in Snapshots : NodesStay(t)
    <2>1. \A t, n : HandoffsOf(t, n)' = HandoffsOf(t, n) /\ ClaimsOf(t, n)' = ClaimsOf(t, n)
      BY <1>4 DEF HandoffsOf, ClaimsOf
    <2> QED  BY <2>1, NodeStays DEF NodesStay
  <1>12. OneShot!Advance(s, "reserved", "armed")
    BY <1>2, <1>8, <1>9, ShotAdvances
  <1>13. /\ [t \in Snapshots |-> [n \in t.picked |-> NodeOf(t, n)]]'
                = [t \in Snapshots |-> [n \in t.picked |-> NodeOf(t, n)]]
         /\ [t \in Snapshots |-> DispatchedOf(t)]' = [t \in Snapshots |-> DispatchedOf(t)]
    BY <1>9, <1>10, <1>11 DEF NodesStay, DispatchedStays
  <1>14. OneShot!Arm(s)
    BY <1>12, <1>13 DEF OneShot!Arm
  <1> QED  BY <1>2, <1>14 DEF OneShot!Next
\* A handoff is written: its node was open.
LEMMA ShotHanded ==
    ASSUME ClaimInv, ClaimInv', NEW p \in Procs, NEW n \in Issues, AppendHandoff(p, n),
           handoffs' # handoffs, UNCHANGED claims
    PROVE  OneShot!Next
  <1>1. PICK s, h : s = Plan(p) /\ h = HandoffOf(p, n)
    OBVIOUS
  <1>2. /\ s \in Snapshots /\ n \in s.picked /\ pc[p] = "dispatching"
        /\ h.auth.plan = s /\ h.node = n
        /\ handoffs' = handoffs \union {h} /\ h \notin handoffs
        /\ UNCHANGED <<executions, effects>>
    <2>1. pc[p] = "dispatching" /\ n \in s.picked
      BY <1>1 DEF AppendHandoff, ThreadTo
    <2>2. h.auth.plan = s /\ h.node = n
      BY <1>1 DEF HandoffOf, Plan, Auth
    <2> QED  BY <1>1, <2>1, <2>2, PlanOfCall DEF AppendHandoff, ClaimInv
  <1>3. PICK r \in effects : r.auth.plan = s /\ r.state = "IN_PROGRESS"
    BY <1>1, <1>2, RecordFields DEF ClaimInv, EffectInv, Held, Plan
  <1>4. StageOf(s) = "armed"
    <2>1. PICK x \in executions : x.auth = r.auth
      BY DEF ClaimInv, EffectsOwned
    <2>2. r \in OfPlan(s)
      BY <1>3 DEF OfPlan
    <2> QED  BY <1>3, <2>1, <2>2, PlanRecords DEF StageIn
  <1>5. HandoffsOf(s, n) = {}
    <2> SUFFICES ASSUME NEW k \in handoffs, k.auth.plan = s, k.node = n  PROVE FALSE
      BY DEF HandoffsOf
    <2>1. HandedOnce'
      BY HandoffsAreOnceNext DEF ClaimInv
    <2>2. k = h
      BY <1>2, <2>1 DEF HandedOnce
    <2> QED  BY <1>2, <2>2
  <1>6. \A m : ClaimsOf(s, m)' = {}
    <2>1. \A c \in claims : c.handoff.auth.plan # s
      BY <1>3, UnclaimedUntilSealed
    <2> QED  BY <2>1 DEF ClaimsOf
  <1>7. NodeOf(s, n) = "open"
    BY <1>5, NodesCounted DEF NodeIs
  <1>8. NodeOf(s, n)' = "handed"
    <2>1. h \in HandoffsOf(s, n)'
      BY <1>2 DEF HandoffsOf
    <2>2. NodeOf(s, n)' = NodeIs(s, n)'
      BY NodesCountedNext
    <2> QED  BY <1>6, <2>1, <2>2 DEF NodeIs
  <1>9. \A t, m : t # s \/ m # n =>
           HandoffsOf(t, m)' = HandoffsOf(t, m) /\ ClaimsOf(t, m)' = ClaimsOf(t, m)
    BY <1>2 DEF HandoffsOf, ClaimsOf
  <1>10. /\ \A t \in Snapshots \ {s} : NodesStay(t)
         /\ \A m \in s.picked \ {n} : NodeOf(s, m)' = NodeOf(s, m)
    BY <1>9, NodeStays DEF NodesStay
  <1>11. \A t \in Snapshots : StageStays(t) /\ DispatchedStays(t)
    <2>1. \A t : OfPlan(t)' = OfPlan(t)
      BY <1>2 DEF OfPlan
    <2> QED  BY <1>2, <2>1, EffectsOfPlan
  <1>12. [t \in Snapshots |-> [m \in t.picked |-> NodeOf(t, m)]]'
             = [[t \in Snapshots |-> [m \in t.picked |-> NodeOf(t, m)]]
                   EXCEPT ![s][n] = "handed"]
    BY <1>2, <1>8, <1>10, ShotNodeMoves
  <1>13. /\ [t \in Snapshots |-> StageOf(t)]' = [t \in Snapshots |-> StageOf(t)]
         /\ [t \in Snapshots |-> DispatchedOf(t)]' = [t \in Snapshots |-> DispatchedOf(t)]
    BY <1>11 DEF StageStays, DispatchedStays
  <1>14. OneShot!Hand(s, n)
    BY <1>2, <1>4, <1>7, <1>12, <1>13 DEF OneShot!Hand
  <1> QED  BY <1>2, <1>14 DEF OneShot!Next

\* The receipt is sealed: what it calls dispatched was handed over.
LEMMA ShotSealed ==
    ASSUME ClaimInv, ClaimInv', NEW p \in Procs, FinalizeEffect(p), UNCHANGED claims
    PROVE  OneShot!Next
  <1>1. PICK s : s = Plan(p)
    OBVIOUS
  <1>2. s \in Snapshots /\ pc[p] = "dispatching" /\ UNCHANGED <<executions, handoffs>>
    BY <1>1, PlanOfCall DEF ClaimInv, FinalizeEffect, Goto
  <1>3. PICK r, y :
           /\ r \in effects
           /\ effects' = (effects \ {r}) \union {y}
           /\ r.auth = Auth(p) /\ r.auth.plan = s /\ r.state = "IN_PROGRESS"
           /\ y.auth.plan = s /\ y.state = "TERMINAL" /\ y.receipt = ReceiptOf(p)
    <2>1. PICK r, y :
             /\ r \in effects
             /\ r = EffectOf(call[p], "IN_PROGRESS", None)
             /\ y = EffectOf(call[p], "TERMINAL", ReceiptOf(p))
             /\ effects' = (effects \ {r}) \union {y}
      BY DEF FinalizeEffect, Replace
    <2>2. /\ r.auth = Auth(p) /\ y.auth = Auth(p) /\ Auth(p).plan = s
          /\ r.state = "IN_PROGRESS" /\ y.state = "TERMINAL" /\ y.receipt = ReceiptOf(p)
      BY <1>1, <2>1 DEF EffectOf, Auth, Plan
    <2> QED  BY <2>1, <2>2
  <1>4. /\ OfPlan(s) = {r} /\ OfPlan(s)' = {y}
        /\ \A t : t # s => OfPlan(t)' = OfPlan(t)
    <2>1. OfPlan(s) = {r}
      BY <1>3, OneEffect DEF OfPlan
    <2> QED  BY <1>3, <2>1 DEF OfPlan
  <1>5. StageOf(s) = "armed" /\ StageOf(s)' = "sealed"
    <2>1. PICK x \in executions : x.auth.plan = s
      BY <1>3 DEF ClaimInv, EffectsOwned
    <2> QED  BY <1>2, <1>3, <1>4, <2>1, PlanRecords DEF StageIn
  <1>6. \A t \in Snapshots \ {s} : StageStays(t) /\ DispatchedStays(t)
    BY <1>2, <1>4, EffectsOfPlan
  <1>7. \A t \in Snapshots : NodesStay(t)
    <2>1. \A t, n : HandoffsOf(t, n)' = HandoffsOf(t, n) /\ ClaimsOf(t, n)' = ClaimsOf(t, n)
      BY <1>2 DEF HandoffsOf, ClaimsOf
    <2> QED  BY <2>1, NodeStays DEF NodesStay
  <1>8. DispatchedOf(s)' = {n \in s.picked : at[p][n] = "DISPATCHED"}
    <2>1. \A n \in s.picked : y.receipt[n] = at[p][n]
      BY <1>1, <1>3 DEF ReceiptOf
    <2> QED  BY <1>3, <1>4, <2>1, PlanRecords DEF DispatchedIn
  <1>9. ASSUME NEW n \in s.picked, at[p][n] = "DISPATCHED"
        PROVE  NodeOf(s, n) = "handed"
    <2>1. HandoffOf(p, n) \in handoffs
      BY <1>1, <1>2, <1>9 DEF ClaimInv, EffectInv, Held, Written
    <2>2. HandoffOf(p, n) \in HandoffsOf(s, n)
      BY <1>1, <2>1 DEF HandoffsOf, HandoffOf, Plan, Auth
    <2>3. ClaimsOf(s, n) = {}
      BY <1>3, UnclaimedUntilSealed DEF ClaimsOf
    <2> QED  BY <2>2, <2>3, NodesCounted DEF NodeIs
  <1>10. OneShot!Advance(s, "armed", "sealed")
    BY <1>2, <1>5, <1>6, ShotAdvances
  <1>11. [t \in Snapshots |-> [n \in t.picked |-> NodeOf(t, n)]]'
             = [t \in Snapshots |-> [n \in t.picked |-> NodeOf(t, n)]]
    BY <1>7 DEF NodesStay
  <1>12. PICK D : D = DispatchedOf(s)'
    OBVIOUS
  <1>13. /\ [t \in Snapshots |-> DispatchedOf(t)]'
               = [[t \in Snapshots |-> DispatchedOf(t)] EXCEPT ![s] = D]
         /\ D \in SUBSET {n \in s.picked :
               [t \in Snapshots |-> [m \in t.picked |-> NodeOf(t, m)]][s][n] = "handed"}
    BY <1>2, <1>6, <1>8, <1>9, <1>12 DEF DispatchedStays
  <1>14. OneShot!Seal(s)
    BY <1>10, <1>11, <1>13 DEF OneShot!Seal
  <1> QED  BY <1>2, <1>14 DEF OneShot!Next

\* A claim becomes TERMINAL: its node was handed over, and nobody's.
LEMMA ShotClaimed ==
    ASSUME ClaimInv, ClaimInv', NEW q \in Claimers, FinalizeClaim(q), UNCHANGED effectVars
    PROVE  OneShot!Next
  <1>1. PICK x, y :
           /\ x \in claims
           /\ x = Claimed(q, "IN_PROGRESS") /\ y = Claimed(q, "TERMINAL")
           /\ claims' = (claims \ {x}) \union {y}
    BY DEF FinalizeClaim, Replace
  <1>2. PICK h, s, n : h = x.handoff /\ s = h.auth.plan /\ n = h.node
    OBVIOUS
  <1>3. /\ y.handoff = h /\ y.state = "TERMINAL" /\ x.state = "IN_PROGRESS"
        /\ h \in handoffs /\ n \in s.picked /\ EffectDispatched(h)
    <2>1. y.handoff = x.handoff /\ y.state = "TERMINAL" /\ x.state = "IN_PROGRESS"
      BY <1>1 DEF Claimed, ClaimOf
    <2> QED  BY <1>1, <1>2, <2>1 DEF ClaimInv, ClaimsShaped, GoodHandoff
  <1>4. UNCHANGED <<executions, effects, handoffs>>
    BY DEF effectVars, ledgers
  <1>5. PICK z \in executions : z.auth = h.auth
    BY <1>3 DEF ClaimInv, EffectInv, HandoffsOwned
  <1>6. s \in Snapshots
    BY <1>2, <1>5 DEF ClaimInv, EffectsOwned
  <1>7. PICK r \in effects : r.auth = h.auth /\ r.state = "TERMINAL"
                             /\ r.receipt[n] = "DISPATCHED"
    BY <1>2, <1>3 DEF EffectDispatched
  <1>8. OfPlan(s) = {r}
    BY <1>2, <1>7, OneEffect DEF OfPlan
  <1>9. StageOf(s) = "sealed" /\ n \in DispatchedOf(s)
    BY <1>2, <1>3, <1>5, <1>7, <1>8, PlanRecords DEF StageIn, DispatchedIn
  <1>10. ClaimsOf(s, n) = {} /\ y \in ClaimsOf(s, n)'
    <2>1. ASSUME NEW c \in claims, c.state = "TERMINAL", c.handoff.auth.plan = s,
                 c.handoff.node = n
          PROVE  FALSE
      <3>1. c.handoff \in handoffs
        BY DEF ClaimInv, ClaimsShaped, GoodHandoff
      <3>2. c.handoff = h
        BY <1>2, <1>3, <2>1, <3>1, HandoffsAreOnce DEF ClaimInv, HandedOnce
      <3>3. c = x
        BY <1>1, <1>2, <3>2 DEF ClaimInv, ClaimsOnce
      <3> QED  BY <1>3, <2>1, <3>3
    <2> QED  BY <1>1, <1>2, <1>3, <2>1 DEF ClaimsOf
  <1>11. NodeOf(s, n) = "handed" /\ NodeOf(s, n)' = "claimed"
    <2>1. h \in HandoffsOf(s, n) /\ h \in HandoffsOf(s, n)'
      BY <1>2, <1>3, <1>4 DEF HandoffsOf
    <2>2. NodeOf(s, n)' = NodeIs(s, n)'
      BY NodesCountedNext
    <2>3. NodeOf(s, n) = NodeIs(s, n)
      BY NodesCounted
    <2> QED  BY <1>10, <2>1, <2>2, <2>3 DEF NodeIs
  <1>12. \A t, m : t # s \/ m # n =>
            HandoffsOf(t, m)' = HandoffsOf(t, m) /\ ClaimsOf(t, m)' = ClaimsOf(t, m)
    BY <1>1, <1>2, <1>3, <1>4 DEF HandoffsOf, ClaimsOf
  <1>13. /\ \A t \in Snapshots \ {s} : NodesStay(t)
         /\ \A m \in s.picked \ {n} : NodeOf(s, m)' = NodeOf(s, m)
    BY <1>12, NodeStays DEF NodesStay
  <1>14. \A t \in Snapshots : StageStays(t) /\ DispatchedStays(t)
    <2>1. \A t : OfPlan(t)' = OfPlan(t)
      BY <1>4 DEF OfPlan
    <2> QED  BY <1>4, <2>1, EffectsOfPlan
  <1>15. [t \in Snapshots |-> [m \in t.picked |-> NodeOf(t, m)]]'
             = [[t \in Snapshots |-> [m \in t.picked |-> NodeOf(t, m)]]
                   EXCEPT ![s][n] = "claimed"]
    BY <1>3, <1>6, <1>11, <1>13, ShotNodeMoves
  <1>16. /\ [t \in Snapshots |-> StageOf(t)]' = [t \in Snapshots |-> StageOf(t)]
         /\ [t \in Snapshots |-> DispatchedOf(t)]' = [t \in Snapshots |-> DispatchedOf(t)]
    BY <1>14 DEF StageStays, DispatchedStays
  <1>17. OneShot!Claim(s, n)
    BY <1>3, <1>6, <1>9, <1>11, <1>15, <1>16 DEF OneShot!Claim
  <1> QED  BY <1>3, <1>6, <1>17 DEF OneShot!Next
\* A step of the pipeline is a step of the one shot, or none.
LEMMA ShotStays ==
    ASSUME ClaimInv, ClaimInv', UNCHANGED <<effects, handoffs>>,
           \/ \E p \in Procs : FinalizeExecution(p)
           \/ executions' = executions,
           \A s, n : ClaimsOf(s, n)' = ClaimsOf(s, n)
    PROVE  UNCHANGED OneShot!vars
  <1>1. \A s \in Snapshots : StageStays(s)
    BY ExecutionsOfPlan
  <1>2. \A s \in Snapshots : DispatchedStays(s)
    <2>1. \A s : OfPlan(s)' = OfPlan(s)
      BY DEF OfPlan
    <2> QED  BY <2>1, EffectsOfPlan
  <1>3. \A s \in Snapshots : NodesStay(s)
    <2>1. \A s, n : HandoffsOf(s, n)' = HandoffsOf(s, n)
      BY DEF HandoffsOf
    <2> QED  BY <2>1, NodeStays DEF NodesStay
  <1> QED  BY <1>1, <1>2, <1>3, ShotStutters

LEMMA ShotSteps ==
    ClaimInv /\ ClaimInv' /\ [Next]_vars => [OneShot!Next]_(OneShot!vars)
  <1> SUFFICES ASSUME ClaimInv, ClaimInv', [Next]_vars
               PROVE  OneShot!Next \/ UNCHANGED OneShot!vars
    OBVIOUS
  <1>1. CASE [EffectNext]_effectVars /\ UNCHANGED claimVars
    <2>1. claims' = claims /\ \A s, n : ClaimsOf(s, n)' = ClaimsOf(s, n)
      BY <1>1 DEF claimVars, ClaimsOf
    <2>2. CASE UNCHANGED <<executions, effects, handoffs>>
      BY <2>1, <2>2, ShotStays
    <2>3. ASSUME NEW p \in Procs, FinalizeExecution(p)  PROVE UNCHANGED OneShot!vars
      BY <2>1, <2>3, ShotStays DEF FinalizeExecution
    <2>4. ASSUME NEW p \in Procs, NEW n \in Issues, AppendHandoff(p, n),
                 handoffs' = handoffs
          PROVE  UNCHANGED OneShot!vars
      BY <2>1, <2>4, ShotStays DEF AppendHandoff
    <2> QED  BY <1>1, <2>1, <2>2, <2>3, <2>4, LedgerSteps, ShotReserved, ShotArmed,
                ShotHanded, ShotSealed
  <1>2. ASSUME NEW q \in Claimers, ClaimStep(q), ~FinalizeClaim(q), UNCHANGED effectVars
        PROVE  UNCHANGED OneShot!vars
    <2>1. \A s, n : ClaimsOf(s, n)' = ClaimsOf(s, n)
      <3>1. CASE claims' = claims
        BY <3>1 DEF ClaimsOf
      <3>2. CASE ReserveClaim(q)
        <4>1. PICK y : claims' = claims \union {y} /\ y.state = "IN_PROGRESS"
          <5>1. Claimed(q, "IN_PROGRESS").state = "IN_PROGRESS"
            BY DEF Claimed, ClaimOf
          <5> QED  BY <3>2, <5>1 DEF ReserveClaim
        <4> QED  BY <4>1 DEF ClaimsOf
      <3> QED  BY <1>2, <3>1, <3>2 DEF ClaimStep, StartClaim, RecheckClaim, Acknowledge,
                  Abandon
    <2>2. UNCHANGED <<executions, effects, handoffs>>
      BY <1>2 DEF effectVars, ledgers
    <2> QED  BY <2>1, <2>2, ShotStays
  <1>3. CASE JoinStep /\ UNCHANGED effectVars
    <2>1. claims' = claims
      BY <1>3 DEF JoinStep, Join, JoinClaims
    <2>2. \A s, n : ClaimsOf(s, n)' = ClaimsOf(s, n)
      BY <2>1 DEF ClaimsOf
    <2>3. UNCHANGED <<executions, effects, handoffs>>
      BY <1>3 DEF effectVars, ledgers
    <2> QED  BY <2>2, <2>3, ShotStays
  <1>4. UNCHANGED vars => UNCHANGED <<effectVars, claimVars>>
    BY DEF vars
  <1> QED  BY <1>1, <1>2, <1>3, <1>4, ShotClaimed DEF Next

LEMMA ShotBegins == Init => OneShot!Init
  <1> SUFFICES ASSUME Init  PROVE OneShot!Init
    OBVIOUS
  <1>1. executions = {} /\ effects = {} /\ handoffs = {}
    BY DEF Init, EffectInit
  <1>2. ClaimInv
    BY InitClaims
  <1>3. ASSUME NEW s  PROVE StageOf(s) = "none" /\ DispatchedOf(s) = {}
    BY <1>1, PlanRecords DEF StageIn, DispatchedIn, OfPlan
  <1>4. ASSUME NEW s, NEW n  PROVE NodeOf(s, n) = "open"
    BY <1>1, <1>2, NodesCounted DEF NodeIs, HandoffsOf
  <1> QED  BY <1>3, <1>4 DEF OneShot!Init

\* Every behaviour of the pipeline, with its deaths, broken-off calls, edits by the owner
\* and rival claimers, is a behaviour of OneShotDispatch: a plan is reserved once, armed
\* once, each node is handed over once and claimed once, and only what the sealed
\* receipt calls dispatched is claimed.
THEOREM ImplementsShot == Spec => ImplementsOneShot
  <1>1. Init => OneShot!Init
    BY ShotBegins
  <1>2. ClaimInv /\ ClaimInv' /\ [Next]_vars => [OneShot!Next]_(OneShot!vars)
    BY ShotSteps
  <1> QED  BY <1>1, <1>2, PipelineInductive, PTL DEF Spec, ImplementsOneShot, OneShot!Spec

-----------------------------------------------------------------------------
(* The watch host.  What went out, by which dispatch, and what is remembered of *)
(* it agree for any number of hosts, dispatches, changes and faults.            *)

HIDE DispatchAssumption DEF DispatchAssumption

\* The effect of a watch's journal, with the dispatch the journal names.
Named(h) == <<journal[h].effect, journal[h].dispatch>>
IsIntent(h, e) ==
    journal[h] # Nothing /\ journal[h].phase = "INTENT" /\ journal[h].effect = e
IsReceipt(h, e) ==
    journal[h] # Nothing /\ journal[h].phase = "RECEIPT" /\ journal[h].effect = e
IsApplied(h, decision) == [decision |-> decision, outcome |-> "APPLIED"] \in ledger[h]
Marked(d, e, state) == Binds(marker[d], e) /\ marker[d].state = state

\* A pass past its lock has an effect in hand; past its authorization, a dispatch.
Effective(o) == Typed(Decide(o)) /\ o.issue.status # "COMPLETE"
Handy(p) ==
    /\ stage[p] # "idle" => seen[p] \in Scenes
    /\ Holds(p) => Effective(seen[p])
    /\ stage[p] \notin {"idle", "lock", "recollect", "check", "authorize"} =>
          dispatch[p] \in Dispatches

\* Two passes never hold the lock of one watch.
LocksApart ==
    \A p, q \in Hosts : Holds(p) /\ Holds(q) /\ Watch(p) = Watch(q) => p = q

\* A journal is about an effect of its own watch, and names every effect of the
\* watch that was sent; an effect with its receipt was sent.
JournalsAreTrue ==
    /\ \A h \in Heads : journal[h] # Nothing => journal[h].effect.head = h
    /\ \A x \in posts :
          /\ journal[x[1].head] # Nothing /\ journal[x[1].head].phase # "INTENT"
          /\ x = Named(x[1].head)
    /\ \A h \in Heads : journal[h] # Nothing /\ journal[h].phase = "RECEIPT" =>
          Named(h) \in posts

\* The dispatch of an effect that was sent stays that effect's, or is torn.
DispatchesAreSpent ==
    \A x \in posts : marker[x[2]] = Torn \/ Binds(marker[x[2]], x[1])

\* What a pass can rely on at its step.
Standing(p) ==
    /\ stage[p] \in {"reserve", "sending"} => IsIntent(Watch(p), Effect(seen[p]))
    /\ stage[p] \in {"sending", "send"} => Marked(dispatch[p], Effect(seen[p]), "reserved")
    /\ stage[p] \in {"send", "receipt", "ambiguous"} =>
          journal[Watch(p)] = Entry(p, "SENDING")
    /\ stage[p] = "send" => \A x \in posts : x[1].head # Watch(p)
    /\ stage[p] = "receipt" => <<Effect(seen[p]), dispatch[p]>> \in posts
    /\ stage[p] \in {"finalize", "apply", "persist"} =>
          IsReceipt(Watch(p), Effect(seen[p]))
    /\ stage[p] = "apply" => Marked(dispatch[p], Effect(seen[p]), "consumed")
    /\ stage[p] = "persist" => IsApplied(Watch(p), Decide(seen[p]))

WatchInv ==
    /\ WatchTypeOK
    /\ \A p \in Hosts : Handy(p)
    /\ LocksApart
    /\ JournalsAreTrue
    /\ DispatchesAreSpent
    /\ \A p \in Hosts : Standing(p)
    /\ SentOnce
    /\ RememberedWasSent

-----------------------------------------------------------------------------
\* What the planner and the evaluator answer is a decision.
LEMMA DecideIsDecision ==
    ASSUME NEW o \in Scenes
    PROVE  Decide(o) \in Decisions
  <1>1. o.issue \in IssueFacts /\ o.tree \in TreeFacts
    BY WatchAssumption
  <1>2. ASSUME NEW i \in IssueFacts
        PROVE  AuditOrAuthorize(i) \in Decisions
    BY DEF AuditOrAuthorize, Decisions, Wakes
  <1>3. ASSUME NEW t \in TreeFacts
        PROVE  PrPipeline(t) \in Decisions
    BY DEF PrPipeline, Decisions, Wakes, Waits
  <1>4. ASSUME NEW i \in IssueFacts, NEW t \in TreeFacts
        PROVE  ImplementationPath(i, t) \in Decisions
    <2>1. CASE t.dirty = TRUE
      BY <1>2, <2>1 DEF ImplementationPath
    <2>2. CASE t.dirty # TRUE /\ t.dirty = FALSE /\ t.admission = "ALLOW"
      BY <2>2 DEF ImplementationPath, Decisions, Wakes
    <2>3. CASE t.dirty # TRUE /\ ~(t.dirty = FALSE /\ t.admission = "ALLOW")
      BY <2>3 DEF ImplementationPath, Decisions, Waits
    <2> QED
      BY <2>1, <2>2, <2>3
  <1>5. ASSUME NEW status
        PROVE  PlannedDecision(status, o.issue, o.tree) \in Decisions
    BY <1>1, <1>3, <1>4, Zenon DEF PlannedDecision, Decisions, Waits
  <1> QED
    BY <1>5 DEF Decide, Decisions

\* A packet that is complete needs no effect.
LEMMA CompleteNeedsNone ==
    ASSUME NEW o \in Scenes, o.issue.status = "COMPLETE"
    PROVE  ~Typed(Decide(o))
  BY DEF Decide, PlannedDecision, Typed, Wakes

\* The effect of a decision that needs one names its head and its decision.
LEMMA EffectIsEffect ==
    ASSUME NEW o \in Scenes, Effective(o)
    PROVE  /\ Effect(o) \in Effects
           /\ Effect(o).head = o.tree.head /\ Effect(o).decision = Decide(o)
           /\ o.tree.head \in Heads
  <1>1. o.issue \in IssueFacts /\ o.tree.head \in Heads
    BY WatchAssumption DEF Heads
  <1>2. o.issue.status \in {"ACTIVE", "PAUSED", "BLOCKED"}
    BY <1>1 DEF Effective, IssueFacts
  <1> QED
    BY <1>1, <1>2 DEF Effect, Effective, Effects, Typed
-----------------------------------------------------------------------------
\* The step of one pass, in the parts that are the same for many actions.

\* The other passes are where they were.
OthersRest(p) ==
    \A q \in Hosts : q # p =>
        stage'[q] = stage[q] /\ seen'[q] = seen[q] /\ dispatch'[q] = dispatch[q]

\* Nothing another pass relies on is taken from it.
NothingIsTaken(q) ==
    /\ Holds(q) => journal'[Watch(q)] = journal[Watch(q)]
    /\ \A x \in posts' : x \in posts \/ ~Holds(q) \/ x[1].head # Watch(q)
    /\ posts \subseteq posts'
    /\ Holds(q) => ledger[Watch(q)] \subseteq ledger'[Watch(q)]
    /\ Holds(q) /\ Binds(marker[dispatch[q]], Effect(seen[q])) =>
          marker'[dispatch[q]] = marker[dispatch[q]]

\* What a pass relies on survives such a step of another.
LEMMA OthersStand ==
    ASSUME NEW q \in Hosts, Standing(q), NothingIsTaken(q),
           stage'[q] = stage[q], seen'[q] = seen[q], dispatch'[q] = dispatch[q]
    PROVE  Standing(q)'
  <1> DEFINE w == Watch(q)
             e == Effect(seen[q])
  <1>1. Watch(q)' = w /\ Effect(seen[q])' = e /\ dispatch'[q] = dispatch[q]
    BY DEF Watch, Effect
  <1>2. Decide(seen[q])' = Decide(seen[q])
    BY DEF Decide, PlannedDecision, PrPipeline, ImplementationPath, AuditOrAuthorize
  <1>3. CASE ~Holds(q)
    BY <1>3 DEF Holds, Standing
  <1>4. CASE Holds(q)
    <2>1. journal'[w] = journal[w]
      BY <1>4 DEF NothingIsTaken
    <2>2. stage'[q] \in {"reserve", "sending"} => IsIntent(Watch(q), Effect(seen[q]))'
      BY <1>1, <2>1 DEF Standing, IsIntent
    <2>3. stage'[q] \in {"sending", "send"} =>
            Marked(dispatch[q], Effect(seen[q]), "reserved")'
      BY <1>1, <1>4 DEF Standing, NothingIsTaken, Marked, Binds
    <2>4. stage'[q] \in {"send", "receipt", "ambiguous"} =>
            (journal[Watch(q)] = Entry(q, "SENDING"))'
      BY <1>1, <2>1 DEF Standing, Entry
    <2>5. stage'[q] = "send" => \A x \in posts' : x[1].head # Watch(q)'
      BY <1>1, <1>4 DEF Standing, NothingIsTaken
    <2>6. stage'[q] = "receipt" => (<<Effect(seen[q]), dispatch[q]>> \in posts)'
      BY <1>1 DEF Standing, NothingIsTaken
    <2>7. stage'[q] \in {"finalize", "apply", "persist"} =>
            IsReceipt(Watch(q), Effect(seen[q]))'
      BY <1>1, <2>1 DEF Standing, IsReceipt
    <2>8. stage'[q] = "apply" => Marked(dispatch[q], Effect(seen[q]), "consumed")'
      BY <1>1, <1>4 DEF Standing, NothingIsTaken, Marked, Binds
    <2>9. stage'[q] = "persist" => IsApplied(Watch(q), Decide(seen[q]))'
      BY <1>1, <1>2, <1>4 DEF Standing, NothingIsTaken, IsApplied
    <2> QED
      BY <2>2, <2>3, <2>4, <2>5, <2>6, <2>7, <2>8, <2>9 DEF Standing
  <1> QED
    BY <1>3, <1>4

\* The locks stay apart when nobody takes one.
LEMMA LocksStay ==
    ASSUME NEW p \in Hosts, LocksApart, OthersRest(p),
           Holds(p)' => Holds(p) /\ seen'[p] = seen[p]
    PROVE  LocksApart'
  <1> SUFFICES ASSUME NEW q \in Hosts, NEW r \in Hosts, Holds(q)', Holds(r)',
                      Watch(q)' = Watch(r)'
               PROVE  q = r
    BY DEF LocksApart
  <1>1. ASSUME NEW o \in Hosts, Holds(o)'
        PROVE  Holds(o) /\ Watch(o)' = Watch(o)
    BY <1>1 DEF OthersRest, Holds, Watch
  <1> QED
    BY <1>1 DEF LocksApart

\* The files and what was sent stay as true as they were.
LEMMA FactsRest ==
    ASSUME WatchInv, UNCHANGED <<journal, ledger, marker, posts, again>>
    PROVE  /\ JournalsAreTrue' /\ DispatchesAreSpent' /\ SentOnce'
           /\ \A q \in Hosts : NothingIsTaken(q)
  <1>1. JournalsAreTrue'
    BY DEF WatchInv, JournalsAreTrue, Named
  <1>2. DispatchesAreSpent'
    BY DEF WatchInv, DispatchesAreSpent, Binds
  <1>3. SentOnce'
    BY DEF WatchInv, SentOnce
  <1>4. ASSUME NEW q \in Hosts
        PROVE  NothingIsTaken(q)
    BY DEF NothingIsTaken
  <1> QED
    BY <1>1, <1>2, <1>3, <1>4

LEMMA FilesRest ==
    ASSUME WatchInv, UNCHANGED <<files, sent>>
    PROVE  /\ JournalsAreTrue' /\ DispatchesAreSpent' /\ SentOnce' /\ RememberedWasSent'
           /\ \A q \in Hosts : NothingIsTaken(q)
  <1>1. UNCHANGED <<watch, journal, ledger, marker, posts, again>>
    BY DEF files, sent
  <1>2. RememberedWasSent'
    BY <1>1 DEF WatchInv, RememberedWasSent, Binds
  <1> QED
    BY <1>1, <1>2, FactsRest

\* All that a step must show: about the files, and about the pass that takes it.
LEMMA StepHolds ==
    ASSUME WatchInv, NEW p \in Hosts, WatchTypeOK', OthersRest(p), LocksApart',
           Handy(p)', Standing(p)', JournalsAreTrue', DispatchesAreSpent', SentOnce',
           RememberedWasSent', \A q \in Hosts : q # p => NothingIsTaken(q)
    PROVE  WatchInv'
  <1>1. ASSUME NEW q \in Hosts
        PROVE  Handy(q)'
    <2>1. CASE q = p
      BY <2>1
    <2>2. CASE q # p
      <3>1. stage'[q] = stage[q] /\ seen'[q] = seen[q] /\ dispatch'[q] = dispatch[q]
        BY <2>2 DEF OthersRest
      <3> QED
        BY <3>1 DEF WatchInv, Handy, Holds
    <2> QED
      BY <2>1, <2>2
  <1>2. ASSUME NEW q \in Hosts
        PROVE  Standing(q)'
    <2>1. CASE q = p
      BY <2>1
    <2>2. CASE q # p
      <3>1. stage'[q] = stage[q] /\ seen'[q] = seen[q] /\ dispatch'[q] = dispatch[q]
        BY <2>2 DEF OthersRest
      <3>2. Standing(q) /\ NothingIsTaken(q)
        BY <2>2 DEF WatchInv
      <3> QED
        BY <3>1, <3>2, OthersStand
    <2> QED
      BY <2>1, <2>2
  <1> QED
    BY <1>1, <1>2 DEF WatchInv

\* A step that only moves its pass.
LEMMA QuietHolds ==
    ASSUME WatchInv, NEW p \in Hosts, UNCHANGED <<files, sent>>, WatchTypeOK',
           OthersRest(p), LocksApart', Handy(p)', Standing(p)'
    PROVE  WatchInv'
  BY FilesRest, StepHolds

\* What a pass keeps for itself has its types.
LocalTyped ==
    /\ stage \in [Hosts -> Steps]
    /\ newer \in [Hosts -> SUBSET Hosts]
    /\ {seen, reread} \subseteq [Hosts -> Scenes \union {Nothing}]
    /\ dispatch \in [Hosts -> Dispatches \union {Nothing}]

\* A pass that ends leaves nothing behind that it relied on.
LEMMA LeavesWell ==
    ASSUME WatchInv, NEW p \in Hosts, Leaves(p)
    PROVE  LocalTyped' /\ OthersRest(p) /\ LocksApart' /\ Handy(p)' /\ Standing(p)'
  <1>1. stage' = [stage EXCEPT ![p] = "idle"] /\ stage'[p] = "idle"
    BY DEF Leaves, Move, WatchInv, WatchTypeOK
  <1>2. stage' \in [Hosts -> Steps]
    BY <1>1 DEF WatchInv, WatchTypeOK, Steps
  <1>3. newer' \in [Hosts -> SUBSET Hosts]
    BY DEF Leaves, WatchInv, WatchTypeOK
  <1>4. /\ seen' \in [Hosts -> Scenes \union {Nothing}]
        /\ reread' \in [Hosts -> Scenes \union {Nothing}]
        /\ dispatch' \in [Hosts -> Dispatches \union {Nothing}]
    BY DEF Leaves, WatchInv, WatchTypeOK
  <1>5. OthersRest(p)
    BY DEF Leaves, Move, OthersRest, WatchInv, WatchTypeOK
  <1>6. ~Holds(p)'
    BY <1>1 DEF Holds
  <1>7. LocksApart'
    BY <1>5, <1>6, LocksStay DEF WatchInv
  <1>8. Handy(p)' /\ Standing(p)'
    BY <1>1 DEF Handy, Standing, Holds
  <1> QED
    BY <1>2, <1>3, <1>4, <1>5, <1>7, <1>8 DEF LocalTyped

\* A pass that goes on keeps what it has in hand.
LEMMA GoesWell ==
    ASSUME WatchInv, NEW p \in Hosts, NEW step \in Steps, Goes(p, step)
    PROVE  /\ LocalTyped' /\ OthersRest(p) /\ older' = older
           /\ stage'[p] = step /\ seen' = seen /\ dispatch' = dispatch
  <1>1. stage' = [stage EXCEPT ![p] = step] /\ seen' = seen /\ reread' = reread
        /\ dispatch' = dispatch /\ newer' = newer /\ older' = older
    BY DEF Goes, Move, order
  <1> QED
    BY <1>1 DEF LocalTyped, OthersRest, WatchInv, WatchTypeOK

\* Also the locks, and what it has in hand, when it is past its lock.
LEMMA GoesOn ==
    ASSUME WatchInv, NEW p \in Hosts, NEW step \in Steps, Goes(p, step),
           Holds(p), dispatch[p] \in Dispatches
    PROVE  LocksApart' /\ Handy(p)'
  <1>1. OthersRest(p) /\ stage'[p] = step /\ seen' = seen /\ dispatch' = dispatch
    BY GoesWell
  <1>2. LocksApart'
    BY <1>1, LocksStay DEF WatchInv
  <1>3. Handy(p)
    BY DEF WatchInv
  <1>4. Handy(p)'
    BY <1>1, <1>3 DEF Handy, Holds
  <1> QED
    BY <1>2, <1>4
-----------------------------------------------------------------------------
\* Every action.  First those that leave the files and what was sent alone.

LEMMA Counted ==
    ASSUME WatchInv, Fault \/ UNCHANGED faults
    PROVE  faults' \in 0..MaxFaults
  <1>1. faults \in 0..MaxFaults /\ MaxFaults \in Nat
    BY WatchAssumption DEF WatchInv, WatchTypeOK
  <1> QED
    BY <1>1 DEF Fault

LEMMA QuietTypes ==
    ASSUME WatchInv, LocalTyped', older' \subseteq Hosts, UNCHANGED <<files, sent, world>>,
           Fault \/ UNCHANGED faults
    PROVE  WatchTypeOK'
  <1>1. /\ watch' = watch /\ journal' = journal /\ ledger' = ledger
        /\ marker' = marker /\ posts' = posts /\ again' = again
        /\ scene' = scene /\ changes' = changes
    BY DEF files, sent, world
  <1>2. faults' \in 0..MaxFaults
    BY Counted
  <1> QED
    BY <1>1, <1>2 DEF WatchInv, WatchTypeOK, LocalTyped

LEMMA EndsQuietly ==
    ASSUME WatchInv, NEW p \in Hosts, Ends(p), UNCHANGED <<files, sent, world>>,
           Fault \/ UNCHANGED faults
    PROVE  WatchInv'
  <1>1. Leaves(p) /\ older' \subseteq Hosts
    BY DEF Ends, WatchInv, WatchTypeOK
  <1>2. WatchTypeOK'
    BY <1>1, LeavesWell, QuietTypes
  <1> QED
    BY <1>1, <1>2, LeavesWell, QuietHolds

LEMMA GoesQuietly ==
    ASSUME WatchInv, NEW p \in Hosts, NEW step \in Steps, Goes(p, step), Quiet,
           OthersRest(p) /\ LocksApart' /\ Handy(p)' /\ Standing(p)'
    PROVE  WatchInv'
  <1>1. LocalTyped' /\ older' \subseteq Hosts
    BY GoesWell DEF WatchInv, WatchTypeOK
  <1>2. UNCHANGED <<files, sent, world>> /\ UNCHANGED faults
    BY DEF Quiet, files, sent
  <1> QED
    BY <1>1, <1>2, QuietTypes, QuietHolds

LEMMA CollectInv ==
    ASSUME WatchInv, NEW p \in Hosts, Collect(p)
    PROVE  WatchInv'
  <1>1. /\ stage' = [stage EXCEPT ![p] = "lock"] /\ seen' = [seen EXCEPT ![p] = scene]
        /\ reread' = reread /\ dispatch' = dispatch /\ older' = older
    BY DEF Collect, Move
  <1>2. UNCHANGED <<files, sent, world>> /\ UNCHANGED faults
    BY DEF Collect, Quiet, files, sent
  <1>3. newer' \in [Hosts -> SUBSET Hosts]
    <2>1. PICK tick \in BOOLEAN :
            newer' = [q \in Hosts |-> IF tick /\ stage[q] = "lock"
                                      THEN newer[q] \union {p} ELSE newer[q]]
      BY DEF Collect
    <2> QED
      BY <2>1 DEF WatchInv, WatchTypeOK
  <1>4. LocalTyped'
    BY <1>1, <1>3 DEF LocalTyped, WatchInv, WatchTypeOK, Steps
  <1>5. WatchTypeOK'
    BY <1>1, <1>2, <1>4, QuietTypes DEF WatchInv, WatchTypeOK
  <1>6. OthersRest(p)
    BY <1>1 DEF OthersRest, WatchInv, WatchTypeOK
  <1>7. stage'[p] = "lock" /\ seen'[p] \in Scenes
    BY <1>1 DEF WatchInv, WatchTypeOK
  <1>8. ~Holds(p)'
    BY <1>7 DEF Holds
  <1>9. LocksApart'
    BY <1>6, <1>8, LocksStay DEF WatchInv
  <1>10. Handy(p)' /\ Standing(p)'
    BY <1>7 DEF Handy, Holds, Standing
  <1> QED
    BY <1>2, <1>5, <1>6, <1>9, <1>10, QuietHolds

LEMMA ActInv ==
    ASSUME WatchInv, NEW p \in Hosts, Act(p)
    PROVE  WatchInv'
  <1>1. /\ stage' = [stage EXCEPT ![p] = "recollect"] /\ seen' = seen
        /\ reread' = reread /\ dispatch' = dispatch /\ older' = older
        /\ newer' = [newer EXCEPT ![p] = {}] /\ stage[p] = "lock"
    BY DEF Act, Move
  <1>2. UNCHANGED <<files, sent, world>> /\ UNCHANGED faults
    BY DEF Act, Quiet, files, sent
  <1>3. LocalTyped'
    BY <1>1 DEF LocalTyped, WatchInv, WatchTypeOK, Steps
  <1>4. WatchTypeOK'
    BY <1>1, <1>2, <1>3, QuietTypes DEF WatchInv, WatchTypeOK
  <1>5. OthersRest(p)
    BY <1>1 DEF OthersRest, WatchInv, WatchTypeOK
  <1>6. stage'[p] = "recollect"
    BY <1>1 DEF WatchInv, WatchTypeOK
  <1>7. LocksApart'
    <2> SUFFICES ASSUME NEW q \in Hosts, NEW r \in Hosts, Holds(q)', Holds(r)',
                        Watch(q)' = Watch(r)'
                 PROVE  q = r
      BY DEF LocksApart
    <2>1. Watch(q)' = Watch(q) /\ Watch(r)' = Watch(r)
      BY <1>1 DEF Watch
    <2>2. \A o \in Hosts : o # p => (Holds(o)' <=> Holds(o))
      BY <1>5 DEF OthersRest, Holds
    <2>3. \A o \in Hosts : Holds(o) => Watch(o) # Watch(p)
      BY DEF Act, Locked
    <2> QED
      BY <2>1, <2>2, <2>3 DEF WatchInv, LocksApart
  <1>8. Handy(p)'
    <2>1. seen[p] \in Scenes /\ Effective(seen[p])
      BY <1>1 DEF WatchInv, Handy, Act, Due, Effective
    <2> QED
      BY <1>1, <1>6, <2>1 DEF Handy
  <1>9. Standing(p)'
    BY <1>6 DEF Standing
  <1> QED
    BY <1>2, <1>4, <1>5, <1>7, <1>8, <1>9, QuietHolds
LEMMA QuietEndsInv ==
    ASSUME WatchInv, NEW p \in Hosts,
           \/ LockHeld(p) \/ Refuse(p) \/ Deny(p) \/ Unreconciled(p) \/ ReserveConflict(p)
    PROVE  WatchInv'
  <1>1. CASE LockHeld(p) \/ Refuse(p) \/ Unreconciled(p) \/ ReserveConflict(p)
    <2>1. Ends(p) /\ UNCHANGED <<files, sent, world>> /\ UNCHANGED faults
      BY <1>1 DEF LockHeld, Refuse, Unreconciled, ReserveConflict, Quiet, files, sent
    <2> QED
      BY <2>1, EndsQuietly
  <1>2. CASE Deny(p)
    <2>1. Ends(p) /\ UNCHANGED <<files, sent, world>>
      BY <1>2 DEF Deny
    <2>2. Fault \/ UNCHANGED faults
      BY <1>2 DEF Deny
    <2> QED
      BY <2>1, <2>2, EndsQuietly
  <1> QED
    BY <1>1, <1>2

LEMMA RecollectInv ==
    ASSUME WatchInv, NEW p \in Hosts, Recollect(p)
    PROVE  WatchInv'
  <1>1. /\ stage' = [stage EXCEPT ![p] = "check"] /\ seen' = seen
        /\ reread' = [reread EXCEPT ![p] = scene] /\ dispatch' = dispatch
        /\ older' = older /\ newer' = newer /\ stage[p] = "recollect"
    BY DEF Recollect, Move, order
  <1>2. UNCHANGED <<files, sent, world>> /\ UNCHANGED faults
    BY DEF Recollect, Quiet, files, sent
  <1>3. LocalTyped'
    BY <1>1 DEF LocalTyped, WatchInv, WatchTypeOK, Steps
  <1>4. WatchTypeOK'
    BY <1>1, <1>2, <1>3, QuietTypes DEF WatchInv, WatchTypeOK
  <1>5. OthersRest(p)
    BY <1>1 DEF OthersRest, WatchInv, WatchTypeOK
  <1>6. stage'[p] = "check"
    BY <1>1 DEF WatchInv, WatchTypeOK
  <1>7. LocksApart'
    BY <1>1, <1>5, LocksStay DEF WatchInv, Holds
  <1>8. Handy(p)' /\ Standing(p)'
    BY <1>1, <1>6 DEF Handy, Holds, Standing, WatchInv
  <1> QED
    BY <1>2, <1>4, <1>5, <1>7, <1>8, QuietHolds

LEMMA ProceedInv ==
    ASSUME WatchInv, NEW p \in Hosts, Proceed(p)
    PROVE  WatchInv'
  <1>1. Goes(p, "authorize") /\ Quiet /\ stage[p] = "check"
    BY DEF Proceed
  <1>2. "authorize" \in Steps
    BY DEF Steps
  <1>3. OthersRest(p) /\ stage'[p] = "authorize" /\ seen' = seen /\ dispatch' = dispatch
    BY <1>1, <1>2, GoesWell
  <1>4. LocksApart'
    BY <1>1, <1>3, LocksStay DEF WatchInv, Holds
  <1>5. Handy(p)' /\ Standing(p)'
    BY <1>1, <1>3 DEF Handy, Holds, Standing, WatchInv
  <1> QED
    BY <1>1, <1>2, <1>3, <1>4, <1>5, GoesQuietly

LEMMA AuthorizeEffectInv ==
    ASSUME WatchInv, NEW p \in Hosts, AuthorizeEffect(p)
    PROVE  WatchInv'
  <1>1. PICK d \in Dispatches :
          /\ dispatch' = [dispatch EXCEPT ![p] = d]
          /\ Fault \/ UNCHANGED faults
    BY DEF AuthorizeEffect
  <1>2. /\ stage' = [stage EXCEPT ![p] = "journal"] /\ seen' = seen /\ reread' = reread
        /\ older' = older /\ newer' = newer /\ stage[p] = "authorize"
        /\ UNCHANGED <<files, sent, world>>
    BY DEF AuthorizeEffect, Move, order
  <1>3. LocalTyped'
    BY <1>1, <1>2 DEF LocalTyped, WatchInv, WatchTypeOK, Steps
  <1>4. WatchTypeOK'
    BY <1>1, <1>2, <1>3, QuietTypes DEF WatchInv, WatchTypeOK
  <1>5. OthersRest(p)
    BY <1>1, <1>2 DEF OthersRest, WatchInv, WatchTypeOK
  <1>6. stage'[p] = "journal" /\ dispatch'[p] = d
    BY <1>1, <1>2 DEF WatchInv, WatchTypeOK
  <1>7. LocksApart'
    BY <1>2, <1>5, LocksStay DEF WatchInv, Holds
  <1>8. Handy(p)' /\ Standing(p)'
    BY <1>2, <1>6 DEF Handy, Holds, Standing, WatchInv
  <1> QED
    BY <1>2, <1>4, <1>5, <1>7, <1>8, QuietHolds

LEMMA ReceivedInv ==
    ASSUME WatchInv, NEW p \in Hosts, Received(p)
    PROVE  WatchInv'
  <1>1. Goes(p, "finalize") /\ Quiet /\ stage[p] = "journal"
    BY DEF Received
  <1>2. "finalize" \in Steps
    BY DEF Steps
  <1>3. OthersRest(p) /\ stage'[p] = "finalize" /\ seen' = seen /\ dispatch' = dispatch
    BY <1>1, <1>2, GoesWell
  <1>4. Holds(p) /\ dispatch[p] \in Dispatches
    BY <1>1 DEF Holds, WatchInv, Handy
  <1>5. LocksApart' /\ Handy(p)'
    BY <1>1, <1>2, <1>4, GoesOn
  <1>6. IsReceipt(Watch(p), Effect(seen[p]))'
    BY <1>1, <1>3 DEF Received, File, IsReceipt, Watch, Quiet
  <1>7. Standing(p)'
    BY <1>3, <1>6 DEF Standing
  <1> QED
    BY <1>1, <1>2, <1>3, <1>5, <1>7, GoesQuietly

LEMMA ChangeInv ==
    ASSUME WatchInv, Change
    PROVE  WatchInv'
  <1>1. /\ UNCHANGED <<files, sent>> /\ faults' = faults /\ scene' \in Scenes
        /\ stage' = stage /\ seen' = seen /\ reread' = reread /\ dispatch' = dispatch
        /\ newer' = newer /\ older' = older
    BY DEF Change, local, order
  <1>2. changes' \in 0..MaxChanges
    BY WatchAssumption DEF Change, WatchInv, WatchTypeOK
  <1>3. /\ watch' = watch /\ journal' = journal /\ ledger' = ledger
        /\ marker' = marker /\ posts' = posts /\ again' = again
    BY <1>1 DEF files, sent
  <1>4. WatchTypeOK'
    BY <1>1, <1>2, <1>3 DEF WatchInv, WatchTypeOK
  <1>5. /\ JournalsAreTrue' /\ DispatchesAreSpent' /\ SentOnce' /\ RememberedWasSent'
        /\ \A q \in Hosts : NothingIsTaken(q)
    BY <1>1, FilesRest
  <1>6. LocksApart'
    BY <1>1 DEF WatchInv, LocksApart, Holds, Watch
  <1>7. ASSUME NEW q \in Hosts
        PROVE  Handy(q)' /\ Standing(q)'
    <2>1. Handy(q)'
      BY <1>1 DEF WatchInv, Handy, Holds
    <2>2. Standing(q)'
      BY <1>1, <1>5, OthersStand DEF WatchInv
    <2> QED
      BY <2>1, <2>2
  <1> QED
    BY <1>4, <1>5, <1>6, <1>7 DEF WatchInv
-----------------------------------------------------------------------------
\* The actions that end a pass with a new memory of its watch.

LEMMA RememberInv ==
    ASSUME WatchInv, NEW p \in Hosts, stage[p] # "idle", Remember(p),
           UNCHANGED <<journal, ledger, marker, posts, again, faults, world>>,
           Typed(Decide(seen[p])) => IsApplied(Watch(p), Decide(seen[p]))
    PROVE  WatchInv'
  <1>1. seen[p] \in Scenes
    BY DEF WatchInv, Handy
  <1>2. Watch(p) \in Heads /\ Decide(seen[p]) \in Decisions
    BY <1>1, DecideIsDecision DEF Heads, Watch
  <1> DEFINE memory == [decision |-> Decide(seen[p]),
                        closed |-> seen[p].issue.status = "COMPLETE"]
  <1>3. watch' = [watch EXCEPT ![Watch(p)] = memory] /\ Leaves(p)
    BY DEF Remember
  <1>4. memory \in [decision : Decisions \union {Nothing}, closed : BOOLEAN]
    BY <1>2
  <1>5. memory.decision = Decide(seen[p])
    OBVIOUS
  <1> HIDE DEF memory
  <1>6. watch' \in [Heads -> [decision : Decisions \union {Nothing}, closed : BOOLEAN]]
    BY <1>3, <1>4 DEF WatchInv, WatchTypeOK
  <1>7. older' \subseteq Hosts
    BY DEF Remember, WatchInv, WatchTypeOK
  <1>8. /\ LocalTyped' /\ OthersRest(p) /\ LocksApart' /\ Handy(p)' /\ Standing(p)'
    BY <1>3, LeavesWell
  <1>9. scene' = scene /\ changes' = changes
    BY DEF world
  <1>10. WatchTypeOK'
    BY <1>6, <1>7, <1>8, <1>9 DEF WatchInv, WatchTypeOK, LocalTyped
  <1>11. RememberedWasSent'
    <2>1. \A h \in Heads : Typed(watch'[h].decision) =>
            [decision |-> watch'[h].decision, outcome |-> "APPLIED"] \in ledger[h]
      <3> SUFFICES ASSUME NEW h \in Heads, Typed(watch'[h].decision)
                   PROVE  [decision |-> watch'[h].decision, outcome |-> "APPLIED"]
                             \in ledger[h]
        OBVIOUS
      <3>1. CASE h = Watch(p)
        <4>1. watch'[h] = memory
          BY <1>2, <1>3, <3>1 DEF WatchInv, WatchTypeOK
        <4> QED
          BY <1>5, <3>1, <4>1 DEF IsApplied
      <3>2. CASE h # Watch(p)
        <4>1. watch'[h] = watch[h]
          BY <1>3, <3>2 DEF WatchInv, WatchTypeOK
        <4> QED
          BY <4>1 DEF WatchInv, RememberedWasSent
      <3> QED
        BY <3>1, <3>2
    <2>2. \A h \in Heads : \A e \in ledger'[h] : e.outcome = "APPLIED" =>
            /\ journal'[h] # Nothing
            /\ <<journal'[h].effect, journal'[h].dispatch>> \in posts'
            /\ journal'[h].effect.head = h /\ journal'[h].effect.decision = e.decision
            /\ \E d \in Dispatches : /\ Binds(marker'[d], journal'[h].effect)
                                     /\ marker'[d].state = "consumed"
      BY DEF WatchInv, RememberedWasSent
    <2> QED
      BY <2>1, <2>2 DEF RememberedWasSent
  <1> QED
    BY <1>8, <1>10, <1>11, FactsRest, StepHolds

LEMMA NoActionInv ==
    ASSUME WatchInv, NEW p \in Hosts, NoAction(p)
    PROVE  WatchInv'
  <1>1. UNCHANGED <<journal, ledger, marker, posts, again, faults, world>>
        /\ stage[p] = "lock"
    BY DEF NoAction
  <1>2. CASE Ignored(p)
    <2>1. Ends(p) /\ UNCHANGED <<files, sent, world>> /\ UNCHANGED faults
      BY <1>1, <1>2 DEF NoAction, files, sent
    <2> QED
      BY <2>1, EndsQuietly
  <1>3. CASE ~Ignored(p)
    <2>1. Remember(p) /\ ~Due(p)
      BY <1>3 DEF NoAction
    <2>2. seen[p] \in Scenes
      BY <1>1 DEF WatchInv, Handy
    <2>3. Watch(p) \in Heads
      BY <2>2 DEF Heads, Watch
    <2>4. Typed(Decide(seen[p])) => watch[Watch(p)].decision = Decide(seen[p])
      BY <2>1, <2>2, CompleteNeedsNone DEF Due
    <2>5. Typed(Decide(seen[p])) => IsApplied(Watch(p), Decide(seen[p]))
      BY <2>3, <2>4 DEF WatchInv, RememberedWasSent, IsApplied
    <2> QED
      BY <1>1, <2>1, <2>5, RememberInv
  <1> QED
    BY <1>2, <1>3

LEMMA DedupInv ==
    ASSUME WatchInv, NEW p \in Hosts, Dedup(p)
    PROVE  WatchInv'
  <1>1. Watch(p) \in Heads
    BY DEF WatchInv, Handy, Dedup, Heads, Watch
  <1>2. PICK e \in Entries(p) : e.outcome = "APPLIED"
    BY DEF Dedup, Recorded
  <1>3. e \in [decision : Decisions, outcome : {"APPLIED", "AMBIGUOUS"}]
        /\ e \in ledger[Watch(p)] /\ e.decision = Decide(seen[p])
    BY <1>1, <1>2 DEF Entries, WatchInv, WatchTypeOK
  <1>4. e = [decision |-> Decide(seen[p]), outcome |-> "APPLIED"]
    BY <1>2, <1>3
  <1>5. IsApplied(Watch(p), Decide(seen[p]))
    BY <1>3, <1>4 DEF IsApplied
  <1> QED
    BY <1>5, RememberInv DEF Dedup

LEMMA PersistInv ==
    ASSUME WatchInv, NEW p \in Hosts, Persist(p)
    PROVE  WatchInv'
  <1>1. IsApplied(Watch(p), Decide(seen[p]))
    BY DEF WatchInv, Standing, Persist
  <1>2. UNCHANGED <<journal, ledger, marker, posts, again, faults, world>>
    BY DEF Persist, sent
  <1> QED
    BY <1>1, <1>2, RememberInv DEF Persist
-----------------------------------------------------------------------------
\* The actions that write the journal.

\* A journal that still names what was sent of its watch.
LEMMA JournalWritten ==
    ASSUME WatchInv, NEW p \in Hosts, Holds(p), NEW f \in Files,
           journal' = [journal EXCEPT ![Watch(p)] = f],
           UNCHANGED <<watch, ledger, marker, posts, again>>,
           f.effect.head = Watch(p),
           \A x \in posts : x[1].head = Watch(p) =>
              f.phase # "INTENT" /\ x = <<f.effect, f.dispatch>>,
           f.phase = "RECEIPT" => <<f.effect, f.dispatch>> \in posts
    PROVE  /\ journal' \in [Heads -> Files \union {Nothing}] /\ Watch(p) \in Heads
           /\ journal'[Watch(p)] = f /\ f # Nothing
           /\ JournalsAreTrue' /\ DispatchesAreSpent' /\ SentOnce' /\ RememberedWasSent'
           /\ \A q \in Hosts : q # p => NothingIsTaken(q)
  <1> DEFINE w == Watch(p)
  <1>1. w \in Heads
    BY DEF WatchInv, Handy, Holds, Heads, Watch
  <1>2. journal \in [Heads -> Files \union {Nothing}] /\ posts \subseteq Effects \X Dispatches
    BY DEF WatchInv, WatchTypeOK
  <1>3. f # Nothing
    BY NothingAssumption
  <1> HIDE DEF w
  <1>4. /\ journal' \in [Heads -> Files \union {Nothing}] /\ journal'[w] = f
        /\ \A h \in Heads : h # w => journal'[h] = journal[h]
    BY <1>1, <1>2 DEF w
  <1>5. \A x \in posts : x[1].head \in Heads
    BY <1>2 DEF Effects
  <1>6. JournalsAreTrue'
    <2>1. \A h \in Heads : journal'[h] # Nothing => journal'[h].effect.head = h
      BY <1>4 DEF WatchInv, JournalsAreTrue, w
    <2>2. ASSUME NEW x \in posts
          PROVE  /\ journal'[x[1].head] # Nothing /\ journal'[x[1].head].phase # "INTENT"
                 /\ x = <<journal'[x[1].head].effect, journal'[x[1].head].dispatch>>
      <3>1. CASE x[1].head = w
        BY <1>3, <1>4, <3>1 DEF w
      <3>2. CASE x[1].head # w
        <4>1. journal'[x[1].head] = journal[x[1].head]
          BY <1>4, <1>5, <3>2
        <4> QED
          BY <4>1 DEF WatchInv, JournalsAreTrue, Named
      <3> QED
        BY <3>1, <3>2
    <2>3. \A h \in Heads : journal'[h] # Nothing /\ journal'[h].phase = "RECEIPT" =>
            <<journal'[h].effect, journal'[h].dispatch>> \in posts
      BY <1>4 DEF WatchInv, JournalsAreTrue, Named
    <2> QED
      BY <2>1, <2>2, <2>3 DEF JournalsAreTrue, Named
  <1>7. DispatchesAreSpent' /\ SentOnce'
    BY DEF WatchInv, DispatchesAreSpent, SentOnce, Binds
  <1>8. RememberedWasSent'
    <2>1. \A h \in Heads : Typed(watch'[h].decision) =>
            [decision |-> watch'[h].decision, outcome |-> "APPLIED"] \in ledger'[h]
      BY DEF WatchInv, RememberedWasSent
    <2>2. ASSUME NEW h \in Heads, NEW e \in ledger[h], e.outcome = "APPLIED"
          PROVE  /\ journal'[h] # Nothing
                 /\ <<journal'[h].effect, journal'[h].dispatch>> \in posts
                 /\ journal'[h].effect.head = h /\ journal'[h].effect.decision = e.decision
                 /\ \E d \in Dispatches : /\ Binds(marker[d], journal'[h].effect)
                                          /\ marker[d].state = "consumed"
      <3>1. /\ journal[h] # Nothing
            /\ <<journal[h].effect, journal[h].dispatch>> \in posts
            /\ journal[h].effect.head = h /\ journal[h].effect.decision = e.decision
            /\ \E d \in Dispatches : /\ Binds(marker[d], journal[h].effect)
                                     /\ marker[d].state = "consumed"
        BY <2>2 DEF WatchInv, RememberedWasSent
      <3>2. CASE h = w
        <4> DEFINE x == <<journal[h].effect, journal[h].dispatch>>
        <4>1. x \in posts /\ x[1].head = w
          BY <3>1, <3>2
        <4>2. x = <<f.effect, f.dispatch>>
          BY <4>1 DEF w
        <4>3. f.effect = journal[h].effect /\ f.dispatch = journal[h].dispatch
          BY <4>2
        <4> QED
          BY <1>3, <1>4, <3>1, <3>2, <4>3
      <3>3. CASE h # w
        BY <1>4, <3>1, <3>3
      <3> QED
        BY <3>2, <3>3
    <2> QED
      BY <2>1, <2>2 DEF RememberedWasSent
  <1>9. ASSUME NEW q \in Hosts, q # p
        PROVE  NothingIsTaken(q)
    <2>1. Holds(q) => Watch(q) # w /\ Watch(q) \in Heads
      BY <1>9 DEF WatchInv, LocksApart, w, Handy, Holds, Heads, Watch
    <2> QED
      BY <1>4, <2>1 DEF NothingIsTaken
  <1> QED
    BY <1>1, <1>3, <1>4, <1>6, <1>7, <1>8, <1>9 DEF w

\* The entry a pass writes.
LEMMA EntryIsFile ==
    ASSUME WatchInv, NEW p \in Hosts, Holds(p), dispatch[p] \in Dispatches,
           NEW phase \in Phases
    PROVE  /\ Entry(p, phase) \in Files
           /\ Entry(p, phase).phase = phase /\ Entry(p, phase).effect = Effect(seen[p])
           /\ Entry(p, phase).dispatch = dispatch[p]
           /\ Effect(seen[p]).head = Watch(p) /\ Effect(seen[p]).decision = Decide(seen[p])
           /\ Effect(seen[p]) \in Effects /\ Watch(p) \in Heads
  <1>1. seen[p] \in Scenes /\ Effective(seen[p])
    BY DEF WatchInv, Handy, Holds
  <1>2. /\ Effect(seen[p]) \in Effects /\ Effect(seen[p]).decision = Decide(seen[p])
        /\ Effect(seen[p]).head = Watch(p) /\ Watch(p) \in Heads
    BY <1>1, EffectIsEffect DEF Watch
  <1> QED
    BY <1>2 DEF Entry, Files

\* A pass that has written its journal goes on.
LEMMA GoesWriting ==
    ASSUME WatchInv, NEW p \in Hosts, NEW step \in Steps, Goes(p, step), Holds(p),
           dispatch[p] \in Dispatches, watch' = watch,
           journal' \in [Heads -> Files \union {Nothing}],
           UNCHANGED <<ledger, marker, sent, faults, world>>
    PROVE  WatchTypeOK'
  <1>1. LocalTyped' /\ older' = older
    BY GoesWell
  <1> QED
    BY <1>1 DEF WatchInv, WatchTypeOK, LocalTyped, sent, world
\* A watch whose journal is an intent, or has none, has sent nothing.
LEMMA Unsent ==
    ASSUME WatchInv, NEW h \in Heads,
           journal[h] = Nothing \/ (journal[h] # Nothing /\ journal[h].phase = "INTENT")
    PROVE  \A x \in posts : x[1].head # h
  BY DEF WatchInv, JournalsAreTrue

LEMMA IntendInv ==
    ASSUME WatchInv, NEW p \in Hosts, Intend(p)
    PROVE  WatchInv'
  <1>1. /\ stage[p] = "journal" /\ Goes(p, "reserve")
        /\ UNCHANGED <<watch, ledger, marker, sent, faults, world>>
    BY DEF Intend
  <1>2. Holds(p) /\ dispatch[p] \in Dispatches /\ "reserve" \in Steps
    BY <1>1 DEF Holds, WatchInv, Handy, Steps
  <1>3. OthersRest(p) /\ stage'[p] = "reserve" /\ seen' = seen /\ dispatch' = dispatch
    BY <1>1, <1>2, GoesWell
  <1>4. LocksApart' /\ Handy(p)'
    BY <1>1, <1>2, GoesOn
  <1>5. UNCHANGED <<watch, ledger, marker, posts, again>>
    BY <1>1 DEF sent
  <1> DEFINE f == Entry(p, "INTENT")
  <1>6. /\ f \in Files /\ f.phase = "INTENT" /\ f.effect = Effect(seen[p])
        /\ f.effect.head = Watch(p) /\ Watch(p) \in Heads
    BY <1>2, EntryIsFile DEF Phases
  <1> HIDE DEF f
  <1>7. CASE File(p) = Nothing /\ Write(p, "INTENT")
    <2>1. journal' = [journal EXCEPT ![Watch(p)] = f]
      BY <1>7 DEF Write, f
    <2>2. \A x \in posts : x[1].head # Watch(p)
      BY <1>6, <1>7, Unsent DEF File
    <2>3. /\ journal' \in [Heads -> Files \union {Nothing}]
          /\ journal'[Watch(p)] = f /\ f # Nothing
          /\ JournalsAreTrue' /\ DispatchesAreSpent' /\ SentOnce' /\ RememberedWasSent'
          /\ \A q \in Hosts : q # p => NothingIsTaken(q)
      BY <1>2, <1>5, <1>6, <2>1, <2>2, JournalWritten
    <2>4. WatchTypeOK'
      BY <1>1, <1>2, <2>3, GoesWriting
    <2>5. Watch(p)' = Watch(p) /\ Effect(seen[p])' = Effect(seen[p])
      BY <1>3 DEF Watch
    <2>6. Standing(p)'
      BY <1>3, <1>6, <2>3, <2>5 DEF Standing, IsIntent
    <2> QED
      BY <1>3, <1>4, <2>3, <2>4, <2>6, StepHolds
  <1>8. CASE UNCHANGED journal /\ File(p) # Nothing /\ File(p).phase # "RECEIPT"
             /\ ~Undecided(File(p)) /\ File(p).effect = Effect(seen[p])
    <2>1. journal[Watch(p)] \in Files
      BY <1>6, <1>8 DEF File, WatchInv, WatchTypeOK
    <2>2. IsIntent(Watch(p), Effect(seen[p]))
      BY <1>8, <2>1 DEF File, IsIntent, Undecided, Files, Phases
    <2>3. Watch(p)' = Watch(p) /\ Effect(seen[p])' = Effect(seen[p])
      BY <1>3 DEF Watch
    <2>4. Standing(p)'
      BY <1>3, <1>8, <2>2, <2>3 DEF Standing, IsIntent
    <2>5. UNCHANGED <<files, sent>>
      BY <1>1, <1>8 DEF files
    <2>6. WatchTypeOK'
      BY <1>1, <1>2, <1>8, GoesWriting DEF WatchInv, WatchTypeOK
    <2> QED
      BY <1>3, <1>4, <2>4, <2>5, <2>6, QuietHolds
  <1> QED
    BY <1>7, <1>8 DEF Intend

LEMMA SendingInv ==
    ASSUME WatchInv, NEW p \in Hosts, Sending(p)
    PROVE  WatchInv'
  <1>1. /\ stage[p] = "sending" /\ Goes(p, "send")
        /\ UNCHANGED <<watch, ledger, marker, sent, faults, world>>
    BY DEF Sending
  <1>2. Holds(p) /\ dispatch[p] \in Dispatches /\ "send" \in Steps
    BY <1>1 DEF Holds, WatchInv, Handy, Steps
  <1>3. OthersRest(p) /\ stage'[p] = "send" /\ seen' = seen /\ dispatch' = dispatch
    BY <1>1, <1>2, GoesWell
  <1>4. LocksApart' /\ Handy(p)'
    BY <1>1, <1>2, GoesOn
  <1>5. UNCHANGED <<watch, ledger, marker, posts, again>>
    BY <1>1 DEF sent
  <1> DEFINE f == Entry(p, "SENDING")
  <1>6. /\ f \in Files /\ f.phase = "SENDING" /\ f.effect = Effect(seen[p])
        /\ f.effect.head = Watch(p) /\ Watch(p) \in Heads
    BY <1>2, EntryIsFile DEF Phases
  <1>7. journal' = [journal EXCEPT ![Watch(p)] = f]
    BY DEF Sending, Write
  <1>8. Entry(p, "SENDING")' = f
    BY <1>3 DEF Entry, Effect
  <1> HIDE DEF f
  <1>9. IsIntent(Watch(p), Effect(seen[p])) /\ Marked(dispatch[p], Effect(seen[p]), "reserved")
    BY <1>1 DEF WatchInv, Standing
  <1>10. \A x \in posts : x[1].head # Watch(p)
    BY <1>6, <1>9, Unsent DEF IsIntent
  <1>11. /\ journal' \in [Heads -> Files \union {Nothing}] /\ journal'[Watch(p)] = f
         /\ JournalsAreTrue' /\ DispatchesAreSpent' /\ SentOnce' /\ RememberedWasSent'
         /\ \A q \in Hosts : q # p => NothingIsTaken(q)
    BY <1>2, <1>5, <1>6, <1>7, <1>10, JournalWritten
  <1>12. WatchTypeOK'
    BY <1>1, <1>2, <1>11, GoesWriting
  <1>13. Watch(p)' = Watch(p) /\ Effect(seen[p])' = Effect(seen[p])
    BY <1>3 DEF Watch
  <1>14. Marked(dispatch[p], Effect(seen[p]), "reserved")'
    BY <1>3, <1>5, <1>9, <1>13 DEF Marked, Binds
  <1>15. Standing(p)'
    BY <1>3, <1>5, <1>8, <1>10, <1>11, <1>13, <1>14 DEF Standing
  <1> QED
    BY <1>3, <1>4, <1>11, <1>12, <1>15, StepHolds

\* The journal after the effect was tried: it names the effect and the dispatch it
\* was tried with.
LEMMA TriedWell ==
    ASSUME WatchInv, NEW p \in Hosts, NEW phase \in {"AMBIGUOUS", "RECEIPT"},
           Write(p, phase), Holds(p), dispatch[p] \in Dispatches,
           UNCHANGED <<watch, ledger, marker, posts, again>>,
           journal[Watch(p)] = Entry(p, "SENDING"),
           phase = "RECEIPT" => <<Effect(seen[p]), dispatch[p]>> \in posts
    PROVE  /\ journal' \in [Heads -> Files \union {Nothing}]
           /\ journal'[Watch(p)] # Nothing
           /\ journal'[Watch(p)].phase = phase /\ journal'[Watch(p)].effect = Effect(seen[p])
           /\ JournalsAreTrue' /\ DispatchesAreSpent' /\ SentOnce' /\ RememberedWasSent'
           /\ \A q \in Hosts : q # p => NothingIsTaken(q)
  <1> DEFINE f == Entry(p, phase)
  <1>1. /\ f \in Files /\ f.phase = phase /\ f.effect = Effect(seen[p])
        /\ f.dispatch = dispatch[p] /\ f.effect.head = Watch(p) /\ Watch(p) \in Heads
    BY EntryIsFile DEF Phases
  <1>2. journal' = [journal EXCEPT ![Watch(p)] = f]
    BY DEF Write
  <1>3. Named(Watch(p)) = <<Effect(seen[p]), dispatch[p]>>
    BY DEF Named, Entry
  <1> HIDE DEF f
  <1>4. \A x \in posts : x[1].head = Watch(p) =>
           f.phase # "INTENT" /\ x = <<f.effect, f.dispatch>>
    BY <1>1, <1>3 DEF WatchInv, JournalsAreTrue
  <1>5. f.phase = "RECEIPT" => <<f.effect, f.dispatch>> \in posts
    BY <1>1
  <1> QED
    BY <1>1, <1>2, <1>4, <1>5, JournalWritten

LEMMA AmbiguousInv ==
    ASSUME WatchInv, NEW p \in Hosts, Ambiguous(p)
    PROVE  WatchInv'
  <1>1. /\ stage[p] = "ambiguous" /\ Goes(p, "record") /\ Write(p, "AMBIGUOUS")
        /\ UNCHANGED <<watch, ledger, marker, sent, faults, world>>
    BY DEF Ambiguous
  <1>2. Holds(p) /\ dispatch[p] \in Dispatches /\ "record" \in Steps
    BY <1>1 DEF Holds, WatchInv, Handy, Steps
  <1>3. OthersRest(p) /\ stage'[p] = "record"
    BY <1>1, <1>2, GoesWell
  <1>4. LocksApart' /\ Handy(p)'
    BY <1>1, <1>2, GoesOn
  <1>5. journal[Watch(p)] = Entry(p, "SENDING")
    BY <1>1 DEF WatchInv, Standing
  <1>6. /\ journal' \in [Heads -> Files \union {Nothing}]
        /\ JournalsAreTrue' /\ DispatchesAreSpent' /\ SentOnce' /\ RememberedWasSent'
        /\ \A q \in Hosts : q # p => NothingIsTaken(q)
    BY <1>1, <1>2, <1>5, TriedWell DEF sent
  <1>7. WatchTypeOK'
    BY <1>1, <1>2, <1>6, GoesWriting
  <1>8. Standing(p)'
    BY <1>3 DEF Standing
  <1> QED
    BY <1>3, <1>4, <1>6, <1>7, <1>8, StepHolds

LEMMA ReceiptInv ==
    ASSUME WatchInv, NEW p \in Hosts, Receipt(p)
    PROVE  WatchInv'
  <1>1. /\ stage[p] = "receipt" /\ Goes(p, "finalize") /\ Write(p, "RECEIPT")
        /\ UNCHANGED <<watch, ledger, marker, sent, faults, world>>
    BY DEF Receipt
  <1>2. Holds(p) /\ dispatch[p] \in Dispatches /\ "finalize" \in Steps
    BY <1>1 DEF Holds, WatchInv, Handy, Steps
  <1>3. OthersRest(p) /\ stage'[p] = "finalize" /\ seen' = seen
    BY <1>1, <1>2, GoesWell
  <1>4. LocksApart' /\ Handy(p)'
    BY <1>1, <1>2, GoesOn
  <1>5. journal[Watch(p)] = Entry(p, "SENDING") /\ <<Effect(seen[p]), dispatch[p]>> \in posts
    BY <1>1 DEF WatchInv, Standing
  <1>6. /\ journal' \in [Heads -> Files \union {Nothing}] /\ journal'[Watch(p)] # Nothing
        /\ journal'[Watch(p)].phase = "RECEIPT"
        /\ journal'[Watch(p)].effect = Effect(seen[p])
        /\ JournalsAreTrue' /\ DispatchesAreSpent' /\ SentOnce' /\ RememberedWasSent'
        /\ \A q \in Hosts : q # p => NothingIsTaken(q)
    BY <1>1, <1>2, <1>5, TriedWell DEF sent
  <1>7. WatchTypeOK'
    BY <1>1, <1>2, <1>6, GoesWriting
  <1>8. Watch(p)' = Watch(p) /\ Effect(seen[p])' = Effect(seen[p])
    BY <1>3 DEF Watch
  <1>9. Standing(p)'
    BY <1>3, <1>6, <1>8 DEF Standing, IsReceipt
  <1> QED
    BY <1>3, <1>4, <1>6, <1>7, <1>9, StepHolds
LEMMA OtherEffectInv ==
    ASSUME WatchInv, NEW p \in Hosts, OtherEffect(p)
    PROVE  WatchInv'
  <1>1. /\ stage[p] = "journal" /\ Ends(p) /\ File(p) # Nothing
        /\ journal' = [journal EXCEPT ![Watch(p)].phase = "AMBIGUOUS"]
        /\ UNCHANGED <<watch, ledger, marker, posts, again, faults, world>>
    BY DEF OtherEffect
  <1>2. Holds(p) /\ Watch(p) \in Heads
    BY <1>1 DEF Holds, WatchInv, Handy, Heads, Watch
  <1>3. Leaves(p) /\ older' \subseteq Hosts
    BY <1>1 DEF Ends, WatchInv, WatchTypeOK
  <1>4. LocalTyped' /\ OthersRest(p) /\ LocksApart' /\ Handy(p)' /\ Standing(p)'
    BY <1>3, LeavesWell
  <1> DEFINE j == journal[Watch(p)]
             f == [j EXCEPT !.phase = "AMBIGUOUS"]
  <1>5. j \in Files /\ j # Nothing
    BY <1>1, <1>2 DEF File, WatchInv, WatchTypeOK
  <1>6. /\ f \in Files /\ f.phase = "AMBIGUOUS" /\ f.effect = j.effect
        /\ f.dispatch = j.dispatch
    BY <1>5 DEF Files, Phases
  <1>7. journal' = [journal EXCEPT ![Watch(p)] = f]
    BY <1>1
  <1>8. j.effect.head = Watch(p)
    BY <1>2, <1>5 DEF WatchInv, JournalsAreTrue
  <1>9. \A x \in posts : x[1].head = Watch(p) => x = <<j.effect, j.dispatch>>
    BY DEF WatchInv, JournalsAreTrue, Named
  <1> HIDE DEF f, j
  <1>10. /\ f.effect.head = Watch(p) /\ f.phase # "RECEIPT"
         /\ \A x \in posts : x[1].head = Watch(p) =>
               f.phase # "INTENT" /\ x = <<f.effect, f.dispatch>>
    BY <1>6, <1>8, <1>9
  <1>11. UNCHANGED <<watch, ledger, marker, posts, again>>
    BY <1>1
  <1>12. /\ journal' \in [Heads -> Files \union {Nothing}]
         /\ JournalsAreTrue' /\ DispatchesAreSpent' /\ SentOnce' /\ RememberedWasSent'
         /\ \A q \in Hosts : q # p => NothingIsTaken(q)
    BY <1>2, <1>6, <1>7, <1>10, <1>11, JournalWritten
  <1>13. WatchTypeOK'
    BY <1>1, <1>3, <1>4, <1>12 DEF WatchInv, WatchTypeOK, LocalTyped, world
  <1> QED
    BY <1>4, <1>12, <1>13, StepHolds

-----------------------------------------------------------------------------
\* The actions that write a marker.

\* A marker that stays with its effect, and stays consumed.
StaysTrue(m, n, e) ==
    \/ m = Nothing
    \/ n = m
    \/ /\ Binds(m, e) /\ (Binds(n, e) \/ n = Torn)
       /\ m.state = "consumed" => n # Torn /\ n.state = "consumed"

LEMMA MarkerWritten ==
    ASSUME WatchInv, NEW p \in Hosts, Holds(p), dispatch[p] \in Dispatches,
           NEW m \in Markers \union {Nothing, Torn},
           marker' = [marker EXCEPT ![dispatch[p]] = m],
           UNCHANGED <<watch, journal, ledger, posts, again>>,
           StaysTrue(marker[dispatch[p]], m, Effect(seen[p]))
    PROVE  /\ marker' \in [Dispatches -> Markers \union {Nothing, Torn}]
           /\ marker'[dispatch[p]] = m
           /\ JournalsAreTrue' /\ DispatchesAreSpent' /\ SentOnce' /\ RememberedWasSent'
           /\ \A q \in Hosts : q # p => NothingIsTaken(q)
  <1> DEFINE d == dispatch[p]
             e == Effect(seen[p])
  <1>1. /\ marker \in [Dispatches -> Markers \union {Nothing, Torn}]
        /\ posts \subseteq Effects \X Dispatches
    BY DEF WatchInv, WatchTypeOK
  <1>2. /\ marker' \in [Dispatches -> Markers \union {Nothing, Torn}] /\ marker'[d] = m
        /\ \A c \in Dispatches : c # d => marker'[c] = marker[c]
    BY <1>1
  <1>3. StaysTrue(marker[d], m, e) /\ d \in Dispatches
    OBVIOUS
  <1>4. Torn # Nothing
    BY WatchAssumption
  <1>5. ASSUME NEW q \in Hosts, q # p, Holds(q)
        PROVE  Effect(seen[q]) # e
    BY <1>5 DEF WatchInv, LocksApart, Watch, Effect
  <1> HIDE DEF d, e
  <1>6. JournalsAreTrue' /\ SentOnce'
    BY DEF WatchInv, JournalsAreTrue, SentOnce, Named
  <1>7. DispatchesAreSpent'
    <2> SUFFICES ASSUME NEW x \in posts
                 PROVE  marker'[x[2]] = Torn \/ Binds(marker'[x[2]], x[1])
      BY DEF DispatchesAreSpent, Binds
    <2>1. x[2] \in Dispatches /\ (marker[x[2]] = Torn \/ Binds(marker[x[2]], x[1]))
      BY <1>1 DEF WatchInv, DispatchesAreSpent
    <2> QED
      BY <1>2, <1>3, <1>4, <2>1 DEF StaysTrue, Binds
  <1>8. RememberedWasSent'
    <2>1. \A h \in Heads : Typed(watch'[h].decision) =>
            [decision |-> watch'[h].decision, outcome |-> "APPLIED"] \in ledger'[h]
      BY DEF WatchInv, RememberedWasSent
    <2>2. ASSUME NEW h \in Heads, NEW a \in ledger[h], a.outcome = "APPLIED"
          PROVE  /\ journal[h] # Nothing
                 /\ <<journal[h].effect, journal[h].dispatch>> \in posts
                 /\ journal[h].effect.head = h /\ journal[h].effect.decision = a.decision
                 /\ \E c \in Dispatches : /\ Binds(marker'[c], journal[h].effect)
                                          /\ marker'[c].state = "consumed"
      <3>1. /\ journal[h] # Nothing
            /\ <<journal[h].effect, journal[h].dispatch>> \in posts
            /\ journal[h].effect.head = h /\ journal[h].effect.decision = a.decision
            /\ \E c \in Dispatches : /\ Binds(marker[c], journal[h].effect)
                                     /\ marker[c].state = "consumed"
        BY <2>2 DEF WatchInv, RememberedWasSent
      <3>2. PICK c \in Dispatches : /\ Binds(marker[c], journal[h].effect)
                                    /\ marker[c].state = "consumed"
        BY <3>1
      <3>3. Binds(marker'[c], journal[h].effect) /\ marker'[c].state = "consumed"
        BY <1>2, <1>3, <3>2 DEF StaysTrue, Binds
      <3> QED
        BY <3>1, <3>3
    <2> QED
      BY <2>1, <2>2 DEF RememberedWasSent
  <1>9. ASSUME NEW q \in Hosts, q # p
        PROVE  NothingIsTaken(q)
    <2>1. Holds(q) /\ Binds(marker[dispatch[q]], Effect(seen[q])) =>
            marker'[dispatch[q]] = marker[dispatch[q]]
      <3> SUFFICES ASSUME Holds(q), Binds(marker[dispatch[q]], Effect(seen[q]))
                   PROVE  marker'[dispatch[q]] = marker[dispatch[q]]
        OBVIOUS
      <3>1. CASE dispatch[q] # d
        BY <1>1, <3>1 DEF d
      <3>2. CASE dispatch[q] = d
        BY <1>2, <1>3, <1>5, <1>9, <3>2 DEF StaysTrue, Binds
      <3> QED
        BY <3>1, <3>2
    <2> QED
      BY <2>1 DEF NothingIsTaken
  <1> QED
    BY <1>2, <1>6, <1>7, <1>8, <1>9 DEF d
LEMMA ReserveInv ==
    ASSUME WatchInv, NEW p \in Hosts, Reserve(p)
    PROVE  WatchInv'
  <1>1. /\ stage[p] = "reserve" /\ Goes(p, "sending")
        /\ Reservable(marker[dispatch[p]], Effect(seen[p]))
        /\ UNCHANGED <<watch, journal, ledger, sent, faults, world>>
    BY DEF Reserve
  <1>2. Holds(p) /\ dispatch[p] \in Dispatches /\ "sending" \in Steps
    BY <1>1 DEF Holds, WatchInv, Handy, Steps
  <1>3. OthersRest(p) /\ stage'[p] = "sending" /\ seen' = seen /\ dispatch' = dispatch
    BY <1>1, <1>2, GoesWell
  <1>4. LocksApart' /\ Handy(p)'
    BY <1>1, <1>2, GoesOn
  <1> DEFINE d == dispatch[p]
             e == Effect(seen[p])
             fresh == [state |-> "reserved", effect |-> e]
             m == IF marker[d] = Nothing THEN fresh ELSE marker[d]
  <1>5. e \in Effects
    BY <1>2, EntryIsFile DEF Phases
  <1>6. fresh \in Markers /\ fresh.state = "reserved" /\ fresh.effect = e
    BY <1>5 DEF Markers
  <1>7. marker' = [marker EXCEPT ![d] = m]
    BY DEF Reserve
  <1>8. marker[d] \in Markers \union {Nothing, Torn}
    BY <1>2 DEF WatchInv, WatchTypeOK
  <1>9. Reservable(marker[d], e)
    BY <1>1
  <1> HIDE DEF fresh, d, e
  <1>10. m \in Markers \union {Nothing, Torn} /\ StaysTrue(marker[d], m, e)
    BY <1>6, <1>8 DEF StaysTrue
  <1>11. Binds(m, e) /\ m.state = "reserved"
    BY <1>6, <1>9, NothingAssumption DEF Reservable, Binds
  <1> HIDE DEF m
  <1>12. UNCHANGED <<watch, journal, ledger, posts, again>>
    BY <1>1 DEF sent
  <1>13. /\ marker' \in [Dispatches -> Markers \union {Nothing, Torn}] /\ marker'[d] = m
         /\ JournalsAreTrue' /\ DispatchesAreSpent' /\ SentOnce' /\ RememberedWasSent'
         /\ \A q \in Hosts : q # p => NothingIsTaken(q)
    BY <1>2, <1>7, <1>10, <1>12, MarkerWritten DEF d, e
  <1>14. WatchTypeOK'
    <2>1. LocalTyped' /\ older' = older
      BY <1>1, <1>2, GoesWell
    <2> QED
      BY <1>1, <1>13, <2>1 DEF WatchInv, WatchTypeOK, LocalTyped, sent, world
  <1>15. Watch(p)' = Watch(p) /\ Effect(seen[p])' = e /\ dispatch'[p] = d
    BY <1>3 DEF Watch, d, e
  <1>16. Marked(dispatch[p], Effect(seen[p]), "reserved")'
    BY <1>11, <1>13, <1>15 DEF Marked
  <1>17. IsIntent(Watch(p), Effect(seen[p]))'
    BY <1>1, <1>12, <1>15 DEF WatchInv, Standing, IsIntent, e
  <1>18. Standing(p)'
    BY <1>3, <1>16, <1>17 DEF Standing
  <1> QED
    BY <1>3, <1>4, <1>13, <1>14, <1>18, StepHolds

LEMMA FinalizeInv ==
    ASSUME WatchInv, NEW p \in Hosts, Finalize(p)
    PROVE  WatchInv'
  <1>1. /\ stage[p] = "finalize" /\ FinalizeDispatch(p)
        /\ UNCHANGED <<watch, journal, ledger, sent, faults, world>>
    BY DEF Finalize
  <1>2. Holds(p) /\ dispatch[p] \in Dispatches /\ "apply" \in Steps
    BY <1>1 DEF Holds, WatchInv, Handy, Steps
  <1>3. UNCHANGED <<watch, journal, ledger, posts, again>>
    BY <1>1 DEF sent
  <1> DEFINE d == dispatch[p]
             e == Effect(seen[p])
             m == [marker[d] EXCEPT !.state = "consumed"]
  <1>4. CASE ~Binds(marker[d], e)
    <2>1. Ends(p) /\ UNCHANGED <<files, sent, world>> /\ UNCHANGED faults
      BY <1>1, <1>3, <1>4 DEF FinalizeDispatch, files
    <2> QED
      BY <2>1, EndsQuietly
  <1>5. CASE Binds(marker[d], e)
    <2>1. marker' = [marker EXCEPT ![d] = m] /\ Goes(p, "apply")
      BY <1>1, <1>5 DEF FinalizeDispatch
    <2>2. OthersRest(p) /\ stage'[p] = "apply" /\ seen' = seen /\ dispatch' = dispatch
          /\ LocalTyped' /\ older' = older
      BY <1>2, <2>1, GoesWell
    <2>3. LocksApart' /\ Handy(p)'
      BY <1>2, <2>1, GoesOn
    <2>4. marker[d] \in Markers
      BY <1>2, <1>5 DEF WatchInv, WatchTypeOK, Binds
    <2>5. m \in Markers /\ m.state = "consumed" /\ m.effect = marker[d].effect
      BY <2>4 DEF Markers
    <2> HIDE DEF m
    <2>6. Binds(m, e)
      BY <1>5, <2>5, NothingAssumption DEF Binds
    <2>7. StaysTrue(marker[d], m, e) /\ m # Torn
      BY <1>5, <2>5, <2>6 DEF StaysTrue, Binds
    <2>8. /\ marker' \in [Dispatches -> Markers \union {Nothing, Torn}] /\ marker'[d] = m
          /\ JournalsAreTrue' /\ DispatchesAreSpent' /\ SentOnce' /\ RememberedWasSent'
          /\ \A q \in Hosts : q # p => NothingIsTaken(q)
      BY <1>2, <1>3, <2>1, <2>5, <2>7, MarkerWritten
    <2>9. WatchTypeOK'
      BY <1>1, <2>2, <2>8 DEF WatchInv, WatchTypeOK, LocalTyped, sent, world
    <2>10. Watch(p)' = Watch(p) /\ Effect(seen[p])' = e /\ dispatch'[p] = d
      BY <2>2 DEF Watch
    <2>11. Marked(dispatch[p], Effect(seen[p]), "consumed")'
      BY <2>5, <2>6, <2>8, <2>10 DEF Marked
    <2>12. IsReceipt(Watch(p), Effect(seen[p]))'
      BY <1>1, <1>3, <2>10 DEF WatchInv, Standing, IsReceipt
    <2>13. Standing(p)'
      BY <2>2, <2>11, <2>12 DEF Standing
    <2> QED
      BY <2>2, <2>3, <2>8, <2>9, <2>13, StepHolds
  <1> QED
    BY <1>4, <1>5

LEMMA DieInv ==
    ASSUME WatchInv, NEW p \in Hosts, Die(p)
    PROVE  WatchInv'
  <1>1. /\ stage[p] # "idle" /\ Fault /\ Ends(p)
        /\ UNCHANGED <<watch, journal, ledger, sent, world>>
    BY DEF Die
  <1>2. UNCHANGED <<watch, journal, ledger, posts, again>>
    BY <1>1 DEF sent
  <1> DEFINE d == dispatch[p]
             e == Effect(seen[p])
  <1>3. CASE UNCHANGED marker
    <2>1. UNCHANGED <<files, sent, world>>
      BY <1>1, <1>3 DEF files
    <2> QED
      BY <1>1, <2>1, EndsQuietly
  <1>4. CASE /\ \/ stage[p] = "reserve" /\ marker[d] = Nothing
                \/ /\ stage[p] = "finalize" /\ Binds(marker[d], e)
                   /\ marker[d].state = "reserved"
             /\ marker' = [marker EXCEPT ![d] = Torn]
    <2>1. Holds(p) /\ d \in Dispatches
      BY <1>4 DEF Holds, WatchInv, Handy
    <2>2. StaysTrue(marker[d], Torn, e)
      BY <1>4 DEF StaysTrue
    <2>3. /\ marker' \in [Dispatches -> Markers \union {Nothing, Torn}]
          /\ JournalsAreTrue' /\ DispatchesAreSpent' /\ SentOnce' /\ RememberedWasSent'
          /\ \A q \in Hosts : q # p => NothingIsTaken(q)
      BY <1>2, <1>4, <2>1, <2>2, MarkerWritten
    <2>4. Leaves(p) /\ older' \subseteq Hosts
      BY <1>1 DEF Ends, WatchInv, WatchTypeOK
    <2>5. LocalTyped' /\ OthersRest(p) /\ LocksApart' /\ Handy(p)' /\ Standing(p)'
      BY <2>4, LeavesWell
    <2>6. faults' \in 0..MaxFaults
      BY <1>1, Counted
    <2>7. WatchTypeOK'
      BY <1>1, <2>3, <2>4, <2>5, <2>6 DEF WatchInv, WatchTypeOK, LocalTyped, sent, world
    <2> QED
      BY <2>3, <2>5, <2>7, StepHolds
  <1> QED
    BY <1>3, <1>4 DEF Die
-----------------------------------------------------------------------------
\* The actions that send, and those that write the ledger.

\* An effect that is sent is the first of its watch, and the only one its dispatch
\* is spent on.
LEMMA PostIsFirst ==
    ASSUME WatchInv, NEW p \in Hosts, stage[p] = "send", Post(p), UNCHANGED files
    PROVE  /\ posts' \subseteq Effects \X Dispatches /\ again' = {}
           /\ posts' = posts \union {<<Effect(seen[p]), dispatch[p]>>}
           /\ JournalsAreTrue' /\ DispatchesAreSpent' /\ SentOnce' /\ RememberedWasSent'
           /\ \A q \in Hosts : q # p => NothingIsTaken(q)
  <1> DEFINE d == dispatch[p]
             e == Effect(seen[p])
             z == <<e, d>>
  <1>1. Holds(p) /\ d \in Dispatches
    BY DEF Holds, WatchInv, Handy
  <1>2. /\ e \in Effects /\ e.head = Watch(p) /\ Watch(p) \in Heads
        /\ Entry(p, "SENDING") \in Files /\ Entry(p, "SENDING").phase = "SENDING"
        /\ Entry(p, "SENDING").effect = e /\ Entry(p, "SENDING").dispatch = d
    BY <1>1, EntryIsFile DEF Phases
  <1>3. /\ journal[Watch(p)] = Entry(p, "SENDING") /\ Marked(d, e, "reserved")
        /\ \A x \in posts : x[1].head # Watch(p)
    BY DEF WatchInv, Standing
  <1>4. posts \subseteq Effects \X Dispatches /\ again = {}
    BY DEF WatchInv, WatchTypeOK, SentOnce
  <1>5. UNCHANGED <<watch, journal, ledger, marker>>
    BY DEF files
  <1>6. posts' = posts \union {z}
    BY DEF Post
  <1>7. \A x \in posts : x[1] # e
    BY <1>2, <1>3
  <1>8. again' = {}
    BY <1>4, <1>7 DEF Post
  <1>9. Entry(p, "SENDING") # Nothing
    BY <1>2, NothingAssumption
  <1>10. z[1] = e /\ z[2] = d
    OBVIOUS
  <1>11. z = Named(e.head) /\ journal[e.head] # Nothing /\ journal[e.head].phase # "INTENT"
    BY <1>2, <1>3, <1>9 DEF Named
  <1>12. Binds(marker[d], e)
    BY <1>3 DEF Marked
  <1>13. \A x \in posts : x[2] # d
    BY <1>7, <1>12 DEF WatchInv, DispatchesAreSpent, Binds
  <1> HIDE DEF z, d, e
  <1>14. JournalsAreTrue'
    <2>1. \A h \in Heads : journal'[h] # Nothing => journal'[h].effect.head = h
      BY <1>5 DEF WatchInv, JournalsAreTrue
    <2>2. ASSUME NEW x \in posts'
          PROVE  /\ journal'[x[1].head] # Nothing /\ journal'[x[1].head].phase # "INTENT"
                 /\ x = Named(x[1].head)'
      <3>1. CASE x \in posts
        BY <1>5, <3>1 DEF WatchInv, JournalsAreTrue, Named
      <3>2. CASE x = z
        BY <1>5, <1>10, <1>11, <3>2 DEF Named
      <3> QED
        BY <1>6, <3>1, <3>2
    <2>3. \A h \in Heads : journal'[h] # Nothing /\ journal'[h].phase = "RECEIPT" =>
            Named(h)' \in posts'
      BY <1>5, <1>6 DEF WatchInv, JournalsAreTrue, Named
    <2> QED
      BY <2>1, <2>2, <2>3 DEF JournalsAreTrue
  <1>15. DispatchesAreSpent'
    BY <1>5, <1>6, <1>10, <1>12 DEF WatchInv, DispatchesAreSpent, Binds
  <1>16. SentOnce'
    BY <1>6, <1>8, <1>10, <1>13 DEF WatchInv, SentOnce
  <1>17. RememberedWasSent'
    BY <1>5, <1>6 DEF WatchInv, RememberedWasSent, Binds
  <1>18. ASSUME NEW q \in Hosts, q # p
         PROVE  NothingIsTaken(q)
    <2>1. Holds(q) => Watch(q) # Watch(p)
      BY <1>1, <1>18 DEF WatchInv, LocksApart
    <2> QED
      BY <1>2, <1>5, <1>6, <1>10, <2>1 DEF NothingIsTaken
  <1> QED
    BY <1>1, <1>2, <1>4, <1>6, <1>8, <1>10, <1>14, <1>15, <1>16, <1>17, <1>18 DEF z, d, e

LEMMA SendInv ==
    ASSUME WatchInv, NEW p \in Hosts, Send(p)
    PROVE  WatchInv'
  <1>1. /\ stage[p] = "send" /\ Goes(p, "receipt") /\ Post(p)
        /\ UNCHANGED <<files, faults, world>>
    BY DEF Send
  <1>2. Holds(p) /\ dispatch[p] \in Dispatches /\ "receipt" \in Steps
    BY <1>1 DEF Holds, WatchInv, Handy, Steps
  <1>3. OthersRest(p) /\ stage'[p] = "receipt" /\ seen' = seen /\ dispatch' = dispatch
        /\ LocalTyped' /\ older' = older
    BY <1>1, <1>2, GoesWell
  <1>4. LocksApart' /\ Handy(p)'
    BY <1>1, <1>2, GoesOn
  <1>5. /\ posts' \subseteq Effects \X Dispatches /\ again' = {}
        /\ posts' = posts \union {<<Effect(seen[p]), dispatch[p]>>}
        /\ JournalsAreTrue' /\ DispatchesAreSpent' /\ SentOnce' /\ RememberedWasSent'
        /\ \A q \in Hosts : q # p => NothingIsTaken(q)
    BY <1>1, PostIsFirst
  <1>6. WatchTypeOK'
    BY <1>1, <1>3, <1>5 DEF WatchInv, WatchTypeOK, LocalTyped, files, world
  <1>7. Watch(p)' = Watch(p) /\ Effect(seen[p])' = Effect(seen[p])
        /\ Entry(p, "SENDING")' = Entry(p, "SENDING") /\ journal' = journal
    BY <1>1, <1>3 DEF Watch, Entry, files
  <1>8. journal[Watch(p)] = Entry(p, "SENDING")
    BY <1>1 DEF WatchInv, Standing
  <1>9. (<<Effect(seen[p]), dispatch[p]>> \in posts)'
    BY <1>3, <1>5, <1>7
  <1>10. Standing(p)'
    BY <1>3, <1>7, <1>8, <1>9 DEF Standing
  <1> QED
    BY <1>3, <1>4, <1>5, <1>6, <1>10, StepHolds

LEMMA SendUnknownInv ==
    ASSUME WatchInv, NEW p \in Hosts, SendUnknown(p)
    PROVE  WatchInv'
  <1>1. /\ stage[p] = "send" /\ Fault /\ Goes(p, "ambiguous")
        /\ Post(p) \/ UNCHANGED sent
        /\ UNCHANGED <<files, world>>
    BY DEF SendUnknown
  <1>2. Holds(p) /\ dispatch[p] \in Dispatches /\ "ambiguous" \in Steps
    BY <1>1 DEF Holds, WatchInv, Handy, Steps
  <1>3. OthersRest(p) /\ stage'[p] = "ambiguous" /\ seen' = seen /\ dispatch' = dispatch
        /\ LocalTyped' /\ older' = older
    BY <1>1, <1>2, GoesWell
  <1>4. LocksApart' /\ Handy(p)'
    BY <1>1, <1>2, GoesOn
  <1>5. faults' \in 0..MaxFaults
    BY <1>1, Counted
  <1>6. Watch(p)' = Watch(p) /\ Entry(p, "SENDING")' = Entry(p, "SENDING")
        /\ journal' = journal
    BY <1>1, <1>3 DEF Watch, Entry, Effect, files
  <1>7. journal[Watch(p)] = Entry(p, "SENDING")
    BY <1>1 DEF WatchInv, Standing
  <1>8. Standing(p)'
    BY <1>3, <1>6, <1>7 DEF Standing
  <1>9. CASE Post(p)
    <2>1. /\ posts' \subseteq Effects \X Dispatches /\ again' = {}
          /\ JournalsAreTrue' /\ DispatchesAreSpent' /\ SentOnce' /\ RememberedWasSent'
          /\ \A q \in Hosts : q # p => NothingIsTaken(q)
      BY <1>1, <1>9, PostIsFirst
    <2>2. WatchTypeOK'
      BY <1>1, <1>3, <1>5, <2>1 DEF WatchInv, WatchTypeOK, LocalTyped, files, world
    <2> QED
      BY <1>3, <1>4, <1>8, <2>1, <2>2, StepHolds
  <1>10. CASE UNCHANGED sent
    <2>1. WatchTypeOK'
      BY <1>1, <1>3, <1>10, QuietTypes DEF WatchInv, WatchTypeOK
    <2> QED
      BY <1>1, <1>3, <1>4, <1>8, <1>10, <2>1, QuietHolds
  <1> QED
    BY <1>1, <1>9, <1>10

\* A ledger that calls applied only what has its receipt and its dispatch.
LEMMA LedgerWritten ==
    ASSUME WatchInv, NEW p \in Hosts, Holds(p), NEW outcome \in {"APPLIED", "AMBIGUOUS"},
           Note(p, outcome), UNCHANGED <<watch, journal, marker, posts, again>>,
           outcome = "APPLIED" =>
              /\ IsReceipt(Watch(p), Effect(seen[p]))
              /\ \E d \in Dispatches : Marked(d, Effect(seen[p]), "consumed")
    PROVE  /\ ledger' \in [Heads -> SUBSET [decision : Decisions,
                                            outcome : {"APPLIED", "AMBIGUOUS"}]]
           /\ [decision |-> Decide(seen[p]), outcome |-> outcome] \in ledger'[Watch(p)]
           /\ JournalsAreTrue' /\ DispatchesAreSpent' /\ SentOnce' /\ RememberedWasSent'
           /\ \A q \in Hosts : q # p => NothingIsTaken(q)
  <1> DEFINE w == Watch(p)
             n == [decision |-> Decide(seen[p]), outcome |-> outcome]
  <1>1. seen[p] \in Scenes /\ Effective(seen[p])
    BY DEF WatchInv, Handy, Holds
  <1>2. w \in Heads /\ Effect(seen[p]).head = w /\ Effect(seen[p]).decision = Decide(seen[p])
    BY <1>1, EffectIsEffect DEF Watch
  <1>3. n \in [decision : Decisions, outcome : {"APPLIED", "AMBIGUOUS"}]
        /\ n.decision = Decide(seen[p]) /\ n.outcome = outcome
    BY <1>1, DecideIsDecision
  <1>4. ledger' = [ledger EXCEPT ![w] = ledger[w] \union {n}]
    BY DEF Note
  <1>5. ledger \in [Heads -> SUBSET [decision : Decisions,
                                     outcome : {"APPLIED", "AMBIGUOUS"}]]
    BY DEF WatchInv, WatchTypeOK
  <1> HIDE DEF w, n
  <1>6. /\ ledger' \in [Heads -> SUBSET [decision : Decisions,
                                         outcome : {"APPLIED", "AMBIGUOUS"}]]
        /\ ledger'[w] = ledger[w] \union {n}
        /\ \A h \in Heads : h # w => ledger'[h] = ledger[h]
    BY <1>2, <1>3, <1>4, <1>5
  <1>7. JournalsAreTrue' /\ DispatchesAreSpent' /\ SentOnce'
    BY DEF WatchInv, JournalsAreTrue, DispatchesAreSpent, SentOnce, Named, Binds
  <1>8. \A h \in Heads : ledger[h] \subseteq ledger'[h]
    BY <1>6
  <1>9. RememberedWasSent'
    <2>1. \A h \in Heads : Typed(watch'[h].decision) =>
            [decision |-> watch'[h].decision, outcome |-> "APPLIED"] \in ledger'[h]
      BY <1>8 DEF WatchInv, RememberedWasSent
    <2>2. ASSUME NEW h \in Heads, NEW a \in ledger'[h], a.outcome = "APPLIED"
          PROVE  /\ journal[h] # Nothing
                 /\ <<journal[h].effect, journal[h].dispatch>> \in posts
                 /\ journal[h].effect.head = h /\ journal[h].effect.decision = a.decision
                 /\ \E c \in Dispatches : /\ Binds(marker[c], journal[h].effect)
                                          /\ marker[c].state = "consumed"
      <3>1. CASE a \in ledger[h]
        BY <2>2, <3>1 DEF WatchInv, RememberedWasSent
      <3>2. CASE a \notin ledger[h]
        <4>1. h = w /\ a = n
          BY <1>6, <3>2
        <4>2. /\ IsReceipt(w, Effect(seen[p]))
              /\ \E d \in Dispatches : Marked(d, Effect(seen[p]), "consumed")
          BY <1>3, <2>2, <4>1 DEF w
        <4>3. /\ journal[h] # Nothing /\ journal[h].phase = "RECEIPT"
              /\ journal[h].effect = Effect(seen[p])
          BY <4>1, <4>2 DEF IsReceipt
        <4>4. <<journal[h].effect, journal[h].dispatch>> \in posts
          BY <4>3 DEF WatchInv, JournalsAreTrue, Named
        <4>5. journal[h].effect.head = h /\ journal[h].effect.decision = a.decision
          BY <1>2, <1>3, <4>1, <4>3
        <4>6. \E c \in Dispatches : /\ Binds(marker[c], journal[h].effect)
                                    /\ marker[c].state = "consumed"
          BY <4>2, <4>3 DEF Marked
        <4> QED
          BY <4>3, <4>4, <4>5, <4>6
      <3> QED
        BY <3>1, <3>2
    <2> QED
      BY <2>1, <2>2 DEF RememberedWasSent
  <1>10. ASSUME NEW q \in Hosts, q # p
         PROVE  NothingIsTaken(q)
    <2>1. Holds(q) => Watch(q) \in Heads
      BY DEF WatchInv, Handy, Holds, Heads, Watch
    <2> QED
      BY <1>8, <2>1 DEF NothingIsTaken
  <1> QED
    BY <1>6, <1>7, <1>9, <1>10 DEF w, n
LEMMA RecordAmbiguousInv ==
    ASSUME WatchInv, NEW p \in Hosts, RecordAmbiguous(p)
    PROVE  WatchInv'
  <1>1. /\ stage[p] = "record" /\ Ends(p) /\ Note(p, "AMBIGUOUS")
        /\ UNCHANGED <<watch, journal, marker, sent, faults, world>>
    BY DEF RecordAmbiguous
  <1>2. Holds(p)
    BY <1>1 DEF Holds
  <1>3. UNCHANGED <<watch, journal, marker, posts, again>>
    BY <1>1 DEF sent
  <1>4. Leaves(p) /\ older' \subseteq Hosts
    BY <1>1 DEF Ends, WatchInv, WatchTypeOK
  <1>5. LocalTyped' /\ OthersRest(p) /\ LocksApart' /\ Handy(p)' /\ Standing(p)'
    BY <1>4, LeavesWell
  <1>6. /\ ledger' \in [Heads -> SUBSET [decision : Decisions,
                                         outcome : {"APPLIED", "AMBIGUOUS"}]]
        /\ JournalsAreTrue' /\ DispatchesAreSpent' /\ SentOnce' /\ RememberedWasSent'
        /\ \A q \in Hosts : q # p => NothingIsTaken(q)
    BY <1>1, <1>2, <1>3, LedgerWritten
  <1>7. WatchTypeOK'
    BY <1>1, <1>4, <1>5, <1>6 DEF WatchInv, WatchTypeOK, LocalTyped, sent, world
  <1> QED
    BY <1>5, <1>6, <1>7, StepHolds

LEMMA ApplyInv ==
    ASSUME WatchInv, NEW p \in Hosts, Apply(p)
    PROVE  WatchInv'
  <1>1. /\ stage[p] = "apply" /\ Goes(p, "persist") /\ Note(p, "APPLIED")
        /\ UNCHANGED <<watch, journal, marker, sent, faults, world>>
    BY DEF Apply
  <1>2. Holds(p) /\ dispatch[p] \in Dispatches /\ "persist" \in Steps
    BY <1>1 DEF Holds, WatchInv, Handy, Steps
  <1>3. UNCHANGED <<watch, journal, marker, posts, again>>
    BY <1>1 DEF sent
  <1>4. OthersRest(p) /\ stage'[p] = "persist" /\ seen' = seen /\ dispatch' = dispatch
        /\ LocalTyped' /\ older' = older
    BY <1>1, <1>2, GoesWell
  <1>5. LocksApart' /\ Handy(p)'
    BY <1>1, <1>2, GoesOn
  <1>6. IsReceipt(Watch(p), Effect(seen[p])) /\ Marked(dispatch[p], Effect(seen[p]), "consumed")
    BY <1>1 DEF WatchInv, Standing
  <1>7. /\ ledger' \in [Heads -> SUBSET [decision : Decisions,
                                         outcome : {"APPLIED", "AMBIGUOUS"}]]
        /\ [decision |-> Decide(seen[p]), outcome |-> "APPLIED"] \in ledger'[Watch(p)]
        /\ JournalsAreTrue' /\ DispatchesAreSpent' /\ SentOnce' /\ RememberedWasSent'
        /\ \A q \in Hosts : q # p => NothingIsTaken(q)
    BY <1>1, <1>2, <1>3, <1>6, LedgerWritten
  <1>8. WatchTypeOK'
    BY <1>1, <1>4, <1>7 DEF WatchInv, WatchTypeOK, LocalTyped, sent, world
  <1>9. Watch(p)' = Watch(p) /\ Effect(seen[p])' = Effect(seen[p]) /\ journal' = journal
    BY <1>1, <1>4 DEF Watch
  <1>10. Decide(seen[p])' = Decide(seen[p])
    BY <1>4 DEF Decide, PlannedDecision, PrPipeline, ImplementationPath, AuditOrAuthorize
  <1>11. IsReceipt(Watch(p), Effect(seen[p]))' /\ IsApplied(Watch(p), Decide(seen[p]))'
    BY <1>6, <1>7, <1>9, <1>10 DEF IsReceipt, IsApplied
  <1>12. Standing(p)'
    BY <1>4, <1>11 DEF Standing
  <1> QED
    BY <1>4, <1>5, <1>7, <1>8, <1>12, StepHolds

-----------------------------------------------------------------------------
\* The invariant holds at the start, and through every step.
LEMMA WatchBegins == WatchInit => WatchInv
  <1> SUFFICES ASSUME WatchInit
               PROVE  WatchInv
    OBVIOUS
  <1>1. WatchTypeOK
    BY WatchAssumption DEF WatchInit, WatchTypeOK, Steps
  <1>2. \A p \in Hosts : stage[p] = "idle" /\ ~Holds(p)
    BY DEF WatchInit, Holds
  <1>3. /\ posts = {} /\ again = {}
        /\ \A h \in Heads : /\ journal[h] = Nothing /\ ledger[h] = {}
                            /\ watch[h].decision = Nothing
    BY DEF WatchInit
  <1>4. \A p \in Hosts : Handy(p) /\ Standing(p)
    BY <1>2 DEF Handy, Standing
  <1>5. LocksApart
    BY <1>2 DEF LocksApart
  <1>6. JournalsAreTrue /\ DispatchesAreSpent /\ SentOnce
    BY <1>3 DEF JournalsAreTrue, DispatchesAreSpent, SentOnce
  <1>7. ~Typed(Nothing)
    BY NothingAssumption DEF Typed, Decisions
  <1>8. RememberedWasSent
    BY <1>3, <1>7 DEF RememberedWasSent
  <1> QED
    BY <1>1, <1>4, <1>5, <1>6, <1>8 DEF WatchInv

LEMMA WatchStutters ==
    ASSUME WatchInv, UNCHANGED watchVars
    PROVE  WatchInv'
  <1>1. /\ UNCHANGED <<scene, changes, watch, journal, ledger, marker, posts, again,
                       stage, seen, reread, dispatch, newer, older, faults>>
    BY DEF watchVars, world, files, sent, local, order
  <1>2. WatchTypeOK' /\ LocksApart'
    BY <1>1 DEF WatchInv, WatchTypeOK, LocksApart, Holds, Watch
  <1>3. /\ JournalsAreTrue' /\ DispatchesAreSpent' /\ SentOnce' /\ RememberedWasSent'
        /\ \A q \in Hosts : NothingIsTaken(q)
    BY <1>1, FilesRest DEF files, sent
  <1>4. ASSUME NEW q \in Hosts
        PROVE  Handy(q)' /\ Standing(q)'
    <2>1. Handy(q)'
      BY <1>1 DEF WatchInv, Handy, Holds
    <2>2. Standing(q)'
      BY <1>1, <1>3, OthersStand DEF WatchInv
    <2> QED
      BY <2>1, <2>2
  <1> QED
    BY <1>2, <1>3, <1>4 DEF WatchInv

LEMMA WatchSteps == WatchInv /\ [WatchNext]_watchVars => WatchInv'
  <1> SUFFICES ASSUME WatchInv, [WatchNext]_watchVars
               PROVE  WatchInv'
    OBVIOUS
  <1>1. CASE Change
    BY <1>1, ChangeInv
  <1>2. ASSUME NEW p \in Hosts, PassStep(p)
        PROVE  WatchInv'
    <2>1. CASE Collect(p) \/ Act(p) \/ Recollect(p) \/ Proceed(p) \/ AuthorizeEffect(p)
      BY <2>1, CollectInv, ActInv, RecollectInv, ProceedInv, AuthorizeEffectInv
    <2>2. CASE \/ LockHeld(p) \/ Refuse(p) \/ Deny(p) \/ Unreconciled(p)
               \/ ReserveConflict(p)
      BY <2>2, QuietEndsInv
    <2>3. CASE NoAction(p) \/ Dedup(p) \/ Persist(p)
      BY <2>3, NoActionInv, DedupInv, PersistInv
    <2>4. CASE OtherEffect(p) \/ Received(p) \/ Intend(p) \/ Reserve(p) \/ Sending(p)
      BY <2>4, OtherEffectInv, ReceivedInv, IntendInv, ReserveInv, SendingInv
    <2>5. CASE Send(p) \/ Ambiguous(p) \/ RecordAmbiguous(p) \/ Receipt(p)
      BY <2>5, SendInv, AmbiguousInv, RecordAmbiguousInv, ReceiptInv
    <2>6. CASE Finalize(p) \/ Apply(p)
      BY <2>6, FinalizeInv, ApplyInv
    <2> QED
      BY <1>2, <2>1, <2>2, <2>3, <2>4, <2>5, <2>6 DEF PassStep
  <1>3. ASSUME NEW p \in Hosts, SendUnknown(p) \/ Die(p)
        PROVE  WatchInv'
    BY <1>3, SendUnknownInv, DieInv
  <1>4. CASE UNCHANGED watchVars
    BY <1>4, WatchStutters
  <1> QED
    BY <1>1, <1>2, <1>3, <1>4 DEF WatchNext

\* The inductive invariant of the watch host: what every pass relies on, whatever
\* the others do and wherever one dies.
THEOREM WatchInductive == WatchSpec => []WatchInv
  BY WatchBegins, WatchSteps, PTL DEF WatchSpec

\* Each effect goes out once, and the watch remembers only what went out: for any
\* number of hosts, dispatches, changes and faults.
THEOREM TrueEffects == WatchSpec => []EffectsAreTrue
  <1>1. WatchInv => EffectsAreTrue
    BY DEF WatchInv, EffectsAreTrue
  <1> QED
    BY <1>1, WatchInductive, PTL
=============================================================================
