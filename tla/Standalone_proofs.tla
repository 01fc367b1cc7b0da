--------------------------- MODULE Standalone_proofs ---------------------------
(***************************************************************************)
(* Theorems about the components that work on files of their own: Cutover,    *)
(* EvidenceAudit, DataRoot, ProviderTransition and InstructionGovernance. The *)
(* modules share no state and MCStandalone checks them the same way, so their *)
(* theorems stand side by side here, a part to each.                         *)
(***************************************************************************)
EXTENDS Cutover, ProviderTransition, DataRoot, InstructionGovernance, EvidenceAudit,
        FiniteSetTheorems, WellFoundedInduction, TLAPS

------------------------------------------------------------------------------
(* The switch of the ingress, for any number of operators and faults: the slot of
   the fresh backup admits one switch, only its operator moves files, and what is
   reported of the switch holds of the files and of the units. *)

\* What an operator does between the publication of its backup and its end.
Switching == {"switch", "switched", "caught", "back", "restored"}
PCs == {"idle", "copy", "fill", "stage env", "slot", "partial", "publish", "proof"}
          \union Switching

\* A published backup belongs to one operator: until its switch begins nobody's
\* has begun, and nobody else is beyond the publication.
SlotIsOwned ==
    /\ pc \in [Operators -> PCs] /\ attempts \in 0..1
    /\ \A p \in Operators : pc[p] \in {"proof"} \union Switching =>
          /\ slot
          /\ \A q \in Operators : pc[q] \in {"proof"} \union Switching => q = p
    /\ \A p \in Operators : pc[p] = "proof" => attempts = 0
    /\ ~slot => attempts = 0

LEMMA InitOwned == Init => SlotIsOwned
  BY DEF Init, SlotIsOwned, PCs, Switching

\* A step of one operator that neither publishes nor begins a switch.
LEMMA Advances ==
    ASSUME SlotIsOwned, NEW p \in Operators, NEW to \in PCs, Goto(p, to),
           UNCHANGED <<slot, attempts>>,
           to \in {"proof"} \union Switching => pc[p] \in Switching, to # "proof"
    PROVE  SlotIsOwned'
  <1>1. pc' = [pc EXCEPT ![p] = to]
    BY DEF Goto
  <1> QED  BY <1>1 DEF SlotIsOwned, PCs, Switching

LEMMA OwnedStep == SlotIsOwned /\ [Next]_vars => SlotIsOwned'
  <1> SUFFICES ASSUME SlotIsOwned, [Next]_vars PROVE SlotIsOwned'
    OBVIOUS
  <1> USE DEF PCs, Switching
  <1>1. CASE UNCHANGED vars
    BY <1>1 DEF vars, SlotIsOwned
  <1>2. CASE Connect
    BY <1>2 DEF Connect, SlotIsOwned, backup, history
  <1>3. ASSUME NEW p \in Operators,
               \/ Prepare(p) \/ CopyStage(p) \/ FillStage(p) \/ StageEnv(p)
               \/ Preflight(p) \/ CheckSlot(p) \/ MakePartial(p) \/ AbandonPartial(p)
        PROVE  SlotIsOwned'
    <2>1. /\ UNCHANGED <<slot, attempts>>
          /\ \E to \in {"idle", "copy", "fill", "stage env", "slot", "partial", "publish"} :
                Goto(p, to)
      BY <1>3 DEF Prepare, CopyStage, FillStage, StageEnv, Preflight, CheckSlot,
                  MakePartial, AbandonPartial, backup, history
    <2> QED  BY <2>1, Advances
  <1>4. ASSUME NEW p \in Operators, Publish(p) PROVE SlotIsOwned'
    <2>1. CASE slot
      <3>1. Goto(p, "idle") /\ UNCHANGED <<slot, attempts>>
        BY <1>4, <2>1 DEF Publish, backup, history
      <3> QED  BY <3>1, Advances
    <2>2. CASE ~slot
      <3>1. /\ slot' = TRUE /\ pc' = [pc EXCEPT ![p] = "proof"] /\ attempts' = attempts
        BY <1>4, <2>2 DEF Publish, Goto, history
      <3>2. \A q \in Operators : pc[q] \notin {"proof"} \union Switching
        BY <2>2 DEF SlotIsOwned
      <3>3. attempts = 0
        BY <2>2 DEF SlotIsOwned
      <3> QED  BY <3>1, <3>2, <3>3 DEF SlotIsOwned
    <2> QED  BY <2>1, <2>2
  <1>5. ASSUME NEW p \in Operators, Prove(p) PROVE SlotIsOwned'
    <2>1. CASE Goto(p, "idle") /\ UNCHANGED attempts
      <3>1. Goto(p, "idle") /\ UNCHANGED <<slot, attempts>>
        BY <1>5, <2>1 DEF Prove, backup
      <3> QED  BY <3>1, Advances
    <2>2. CASE Goto(p, "switch") /\ attempts' = attempts + 1
      <3>1. pc[p] = "proof" /\ slot' = slot /\ pc' = [pc EXCEPT ![p] = "switch"]
        BY <1>5, <2>2 DEF Prove, Goto, backup
      <3>2. slot' /\ \A q \in Operators : pc[q] \in {"proof"} \union Switching => q = p
        BY <3>1, Zenon DEF SlotIsOwned
      <3>3. attempts = 0 /\ attempts' = 1
        <4>1. attempts = 0
          BY <3>1, Zenon DEF SlotIsOwned
        <4> QED  BY <4>1, <2>2
      <3>4. pc' \in [Operators -> PCs]
        BY <3>1 DEF SlotIsOwned
      <3>5. \A q \in Operators : q # p => pc'[q] \notin {"proof"} \union Switching
        BY <3>1, <3>2 DEF SlotIsOwned
      <3>6. pc'[p] = "switch"
        BY <3>1 DEF SlotIsOwned
      <3>7. /\ \A q \in Operators : pc'[q] \in {"proof"} \union Switching => q = p
            /\ \A q \in Operators : pc'[q] # "proof"
        BY <3>5, <3>6
      <3>8. attempts' \in 0..1
        BY <3>3
      <3> QED  BY <3>2, <3>4, <3>7, <3>8, Zenon DEF SlotIsOwned
    <2> QED  BY <1>5, <2>1, <2>2 DEF Prove
  <1>6. ASSUME NEW p \in Operators,
               Switch(p) \/ Finish(p) \/ EnterRollback(p) \/ Rollback(p) \/ EndRollback(p)
        PROVE  SlotIsOwned'
    <2>1. /\ UNCHANGED <<slot, attempts>> /\ pc[p] \in Switching
          /\ \E to \in {"idle"} \union Switching : Goto(p, to)
      BY <1>6 DEF Switch, Finish, EnterRollback, Rollback, EndRollback, End, backup, history
    <2> QED  BY <2>1, Advances
  <1>7. ASSUME NEW p \in Operators, Kill(p) PROVE SlotIsOwned'
    <2>1. UNCHANGED <<slot, attempts>> /\ Goto(p, "idle")
      BY <1>7 DEF Kill, backup
    <2> QED  BY <2>1, Advances
  <1> QED  BY <1>1, <1>2, <1>3, <1>4, <1>5, <1>6, <1>7 DEF Next

\* The invariant that OneAttempt is a part of.
THEOREM SlotOwnership == Spec => []SlotIsOwned
  BY InitOwned, OwnedStep, PTL DEF Spec

\* However often operators retry and whatever fails, the units are stopped for
\* one switch at most.
THEOREM SwitchedOnce == Spec => []OneAttempt
  <1>1. SlotIsOwned => OneAttempt
    BY DEF SlotIsOwned, OneAttempt
  <1> QED  BY <1>1, SlotOwnership, PTL

-----------------------------------------------------------------------------
(* What the host is, step by step, and what the outcome says of it.           *)

Places == Versions \union {"none", "half"}
Staged == {"none", "half", "new"}
Images == Versions \union {"on", "off", "mixed", "none", "half"}
Hosts ==
    [code : [live : Places, stage : Staged, old : {"none", "old"}, failed : Places],
     env : [live : Places, stage : Staged, old : {"none", "old"}],
     run : [Units -> Images]]

\* The old code is at its own path or at the rollback path.
OldIsKept(h) == h \in Hosts /\ ((h.code.live = "old") <=> (h.code.old = "none"))

As(u, v) == IF u = "socket" THEN "on" ELSE v
HostIsWhole(h, v) ==
    /\ h.code.live = v /\ h.env.live = v
    /\ \A u \in Units : h.run[u] = As(u, v)

\* The steps that stop and start a unit; the switch starts units from its ninth
\* step on, the rollback from its eighth.
StopAt(u) == CASE u = "socket" -> 1 [] u = "ingress" -> 2 [] u = "web" -> 3 [] u = "mcp" -> 4
StartAt(u, f) ==
    CASE u = "mcp" -> f [] u = "web" -> f + 1 [] u = "socket" -> f + 3 [] u = "ingress" -> f + 4

\* Before step k what was stopped is off until it is started, and from then on it
\* runs version v; a connection may start the ingress before its step.
Running(h, k, f, v) ==
    \A u \in Units :
        /\ k > StartAt(u, f) => h.run[u] = As(u, v)
        /\ k > StopAt(u) /\ k <= StartAt(u, f) =>
              \/ h.run[u] = "off"
              \/ u = "ingress" /\ k > StartAt("socket", f) /\ h.run[u] = v

\* Before step k of the switch.
ForwardAt(h, k) ==
    /\ (k <= 5) <=> (h.code.live = "old")
    /\ k <= 7 => h.env.live = "old"
    /\ k >= 8 => h.env.live # "old"
    /\ k >= 10 => h.code.live = "new" /\ h.env.live = "new"
    /\ Running(h, k, 9, "new")

\* Before step k of a rollback without an error so far.
BackAt(h, k) ==
    /\ k >= 7 => h.code.live = "old"
    /\ k >= 8 => h.env.live = "old"
    /\ Running(h, k, 8, "old")

\* What an operator at q, before step k, with or without errors, knows of host h.
Doing(h, q, k, e) ==
    /\ q = "switch" => k \in 1..14 /\ ForwardAt(h, k)
    /\ q = "switched" => HostIsWhole(h, "new")
    /\ q = "back" => k \in 1..13 /\ (~e => BackAt(h, k))
    /\ q = "restored" => e \/ HostIsWhole(h, "old")

\* Nothing has moved before the first switch; while one is under way it has no
\* outcome yet, and the host is what its operator's step says.
TruthInv ==
    /\ SlotIsOwned /\ OldIsKept(host)
    /\ at \in [Operators -> Nat] /\ errors \in [Operators -> BOOLEAN]
    /\ attempts = 0 => outcome = "none" /\ HostIsWhole(host, "old")
    /\ outcome = "finished" => HostIsWhole(host, "new")
    /\ outcome = "rolled back" => HostIsWhole(host, "old")
    /\ \A p \in Operators :
          /\ pc[p] \in Switching => attempts = 1 /\ outcome = "none"
          /\ Doing(host, pc[p], at[p], errors[p])

-----------------------------------------------------------------------------
(* What the steps do to a host.                                                *)

\* The renames of the switch, and the parts of a step: its kind, the unit or the
\* path it is about, the path a rename leads to.
CodeMoved(h, from, to) == [h EXCEPT !.code = Moved(h.code, from, to)]
EnvMoved(h, from, to) == [h EXCEPT !.env = Moved(h.env, from, to)]

Kind(s) == s[1]
On(s) == s[2]
To(s) == s[3]

\* The steps by number: what is done, and to which unit or paths.
LEMMA ForwardSteps ==
    /\ Len(Forward) = 14
    /\ \A k \in 1..4 : Kind(Forward[k]) = "stop"
    /\ On(Forward[1]) = "socket" /\ On(Forward[2]) = "ingress"
    /\ On(Forward[3]) = "web" /\ On(Forward[4]) = "mcp"
    /\ Kind(Forward[5]) = "code" /\ On(Forward[5]) = "live" /\ To(Forward[5]) = "old"
    /\ Kind(Forward[6]) = "code" /\ On(Forward[6]) = "stage" /\ To(Forward[6]) = "live"
    /\ Kind(Forward[7]) = "env" /\ On(Forward[7]) = "live" /\ To(Forward[7]) = "old"
    /\ Kind(Forward[8]) = "env" /\ On(Forward[8]) = "stage" /\ To(Forward[8]) = "live"
    /\ \A k \in {9, 10, 12, 13} : Kind(Forward[k]) = "start"
    /\ On(Forward[9]) = "mcp" /\ On(Forward[10]) = "web"
    /\ On(Forward[12]) = "socket" /\ On(Forward[13]) = "ingress"
    /\ Kind(Forward[11]) = "reset" /\ Kind(Forward[14]) = "verify"
  BY DEF Forward, Kind, On, To

LEMMA BackSteps ==
    /\ Len(Back) = 13
    /\ Kind(Back[1]) = "stop" /\ Kind(Back[2]) = "stop"
    /\ Kind(Back[3]) = "stop" /\ Kind(Back[4]) = "stop"
    /\ On(Back[1]) = "socket" /\ On(Back[2]) = "ingress"
    /\ On(Back[3]) = "web" /\ On(Back[4]) = "mcp"
    /\ Kind(Back[5]) = "set aside" /\ Kind(Back[6]) = "put back" /\ Kind(Back[7]) = "restore env"
    /\ \A k \in {8, 9, 11, 12} : Kind(Back[k]) = "start"
    /\ On(Back[8]) = "mcp" /\ On(Back[9]) = "web"
    /\ On(Back[11]) = "socket" /\ On(Back[12]) = "ingress"
    /\ Kind(Back[10]) = "reset" /\ Kind(Back[13]) = "verify"
  BY DEF Back, Kind, On

LEMMA Effects ==
    ASSUME NEW h, NEW s
    PROVE  /\ Kind(s) = "stop" => After(h, s) = Stopped(h, On(s))
           /\ Kind(s) = "start" => After(h, s) = Started(h, On(s))
           /\ Kind(s) = "code" => After(h, s) = CodeMoved(h, On(s), To(s))
           /\ Kind(s) = "env" => After(h, s) = EnvMoved(h, On(s), To(s))
           /\ Kind(s) = "set aside" => After(h, s) = SetAside(h)
           /\ Kind(s) = "put back" => After(h, s) = PutBack(h)
           /\ Kind(s) = "restore env" => After(h, s) = RestoredEnv(h)
           /\ Kind(s) \in {"reset", "verify"} => After(h, s) = h
  BY DEF After, CodeMoved, EnvMoved, Kind, On, To

LEMMA Working ==
    ASSUME NEW h, NEW s
    PROVE  /\ Kind(s) = "start" => (Works(h, s) <=> Startable(h, On(s)))
           /\ Kind(s) = "put back" => (Works(h, s) <=> PutBack(h).code.live = "old")
  BY DEF Works, Kind, On

LEMMA ForwardEffects ==
    ASSUME NEW h, NEW k \in 1..14, NEW g, g = After(h, Forward[k])
    PROVE  /\ \A u \in Units : k = StopAt(u) => g = Stopped(h, u)
           /\ \A u \in Units : k = StartAt(u, 9) => g = Started(h, u)
           /\ k = 5 => g = CodeMoved(h, "live", "old")
           /\ k = 6 => g = CodeMoved(h, "stage", "live")
           /\ k = 7 => g = EnvMoved(h, "live", "old")
           /\ k = 8 => g = EnvMoved(h, "stage", "live")
           /\ k \in {11, 14} => g = h
           /\ k = 9 /\ Works(h, Forward[k]) => Startable(h, "mcp")
  <1>1. ASSUME NEW u \in Units, k = StopAt(u)  PROVE g = Stopped(h, u)
    <2>1. Kind(Forward[k]) = "stop" /\ On(Forward[k]) = u
      BY <1>1, ForwardSteps DEF StopAt, Units
    <2> QED  BY <2>1, Effects, Zenon
  <1>2. ASSUME NEW u \in Units, k = StartAt(u, 9)  PROVE g = Started(h, u)
    <2>1. Kind(Forward[k]) = "start" /\ On(Forward[k]) = u
      BY <1>2, ForwardSteps DEF StartAt, Units
    <2> QED  BY <2>1, Effects, Zenon
  <1>3. ASSUME k = 5  PROVE g = CodeMoved(h, "live", "old")
    <2>1. Kind(Forward[k]) = "code" /\ On(Forward[k]) = "live" /\ To(Forward[k]) = "old"
      BY <1>3, ForwardSteps
    <2>2. g = CodeMoved(h, On(Forward[k]), To(Forward[k]))
      BY <2>1, Effects
    <2> QED  BY <2>1, <2>2
  <1>4. ASSUME k = 6  PROVE g = CodeMoved(h, "stage", "live")
    <2>1. Kind(Forward[k]) = "code" /\ On(Forward[k]) = "stage" /\ To(Forward[k]) = "live"
      BY <1>4, ForwardSteps
    <2>2. g = CodeMoved(h, On(Forward[k]), To(Forward[k]))
      BY <2>1, Effects
    <2> QED  BY <2>1, <2>2
  <1>5. ASSUME k = 7  PROVE g = EnvMoved(h, "live", "old")
    <2>1. Kind(Forward[k]) = "env" /\ On(Forward[k]) = "live" /\ To(Forward[k]) = "old"
      BY <1>5, ForwardSteps
    <2>2. g = EnvMoved(h, On(Forward[k]), To(Forward[k]))
      BY <2>1, Effects
    <2> QED  BY <2>1, <2>2
  <1>6. ASSUME k = 8  PROVE g = EnvMoved(h, "stage", "live")
    <2>1. Kind(Forward[k]) = "env" /\ On(Forward[k]) = "stage" /\ To(Forward[k]) = "live"
      BY <1>6, ForwardSteps
    <2>2. g = EnvMoved(h, On(Forward[k]), To(Forward[k]))
      BY <2>1, Effects
    <2> QED  BY <2>1, <2>2
  <1>7. k \in {11, 14} => g = h
    BY ForwardSteps, Effects
  <1>8. k = 9 /\ Works(h, Forward[k]) => Startable(h, "mcp")
    BY ForwardSteps, Working
  <1> QED  BY <1>1, <1>2, <1>3, <1>4, <1>5, <1>6, <1>7, <1>8

LEMMA BackEffects ==
    ASSUME NEW h, NEW k \in 1..13, NEW g, g = After(h, Back[k])
    PROVE  /\ \A u \in Units : k = StopAt(u) => g = Stopped(h, u)
           /\ \A u \in Units : k = StartAt(u, 8) => g = Started(h, u)
           /\ k = 5 => g = SetAside(h)
           /\ k = 6 => g = PutBack(h)
           /\ k = 7 => g = RestoredEnv(h)
           /\ k \in {10, 13} => g = h
           /\ k = 6 /\ Works(h, Back[k]) => g.code.live = "old"
  <1>1. ASSUME NEW u \in Units, k = StopAt(u)  PROVE g = Stopped(h, u)
    <2>1. \/ k = 1 /\ u = "socket"
          \/ k = 2 /\ u = "ingress"
          \/ k = 3 /\ u = "web"
          \/ k = 4 /\ u = "mcp"
      BY <1>1 DEF StopAt, Units
    <2>2. Kind(Back[k]) = "stop" /\ On(Back[k]) = u
      BY <2>1, BackSteps
    <2> QED  BY <2>2, Effects
  <1>2. ASSUME NEW u \in Units, k = StartAt(u, 8)  PROVE g = Started(h, u)
    <2>1. \/ k = 8 /\ u = "mcp"
          \/ k = 9 /\ u = "web"
          \/ k = 11 /\ u = "socket"
          \/ k = 12 /\ u = "ingress"
      BY <1>2 DEF StartAt, Units
    <2>2. Kind(Back[k]) = "start" /\ On(Back[k]) = u
      BY <2>1, BackSteps
    <2> QED  BY <2>2, Effects
  <1>3. /\ k = 5 => g = SetAside(h)
        /\ k = 6 => g = PutBack(h)
        /\ k = 7 => g = RestoredEnv(h)
    BY BackSteps, Effects
  <1>4. k \in {10, 13} => g = h
    BY BackSteps, Effects
  <1>5. k = 6 /\ Works(h, Back[k]) => g.code.live = "old"
    BY <1>3, BackSteps, Working
  <1> QED  BY <1>1, <1>2, <1>3, <1>4, <1>5

LEMMA Stopping ==
    ASSUME NEW h, OldIsKept(h), NEW u \in Units, NEW g, g = Stopped(h, u)
    PROVE  /\ OldIsKept(g) /\ g.code = h.code /\ g.env = h.env
           /\ \A v \in Units : g.run[v] =
                 IF v = u \/ (u = "mcp" /\ v = "ingress") THEN "off" ELSE h.run[v]
  BY DEF OldIsKept, Hosts, Stopped, Images

LEMMA Starting ==
    ASSUME NEW h, OldIsKept(h), NEW u \in Units, NEW g, g = Started(h, u)
    PROVE  /\ OldIsKept(g) /\ g.code = h.code /\ g.env = h.env
           /\ \A v \in Units : g.run[v] =
                 IF h.run[v] = "off" /\ (v = u \/ (u = "ingress" /\ v = "mcp"))
                 THEN Image(h, v) ELSE h.run[v]
  <1>1. \A v \in Units : Image(h, v) \in Images
    BY DEF OldIsKept, Hosts, Image, Images, Places
  <1> QED  BY <1>1 DEF OldIsKept, Hosts, Started

LEMMA StopRuns ==
    ASSUME NEW h, OldIsKept(h), NEW k \in 1..4, NEW u \in Units, k = StopAt(u),
           NEW f \in {8, 9}, NEW v, Running(h, k, f, v), NEW g, g = Stopped(h, u)
    PROVE  Running(g, k + 1, f, v)
  BY Stopping DEF Running, StopAt, StartAt, Units

LEMMA StartRuns ==
    ASSUME NEW h, OldIsKept(h), NEW f \in {8, 9}, NEW k \in 1..14, NEW u \in Units,
           k = StartAt(u, f), NEW v \in Versions, h.code.live = v, h.env.live = v,
           Running(h, k, f, v), NEW g, g = Started(h, u)
    PROVE  Running(g, k + 1, f, v)
  BY Starting DEF Running, StopAt, StartAt, Units, Image, As, Versions

\* A step that neither stops nor starts a unit.
LEMMA RunsOn ==
    ASSUME NEW f \in {8, 9}, NEW k \in 1..14, \A u \in Units : k # StopAt(u) /\ k # StartAt(u, f),
           NEW h, NEW v, Running(h, k, f, v), NEW g, g.run = h.run
    PROVE  Running(g, k + 1, f, v)
  BY DEF Running, StopAt, StartAt, Units

LEMMA AllRun ==
    ASSUME NEW f \in {8, 9}, NEW h, NEW v, Running(h, f + 5, f, v),
           h.code.live = v, h.env.live = v
    PROVE  HostIsWhole(h, v)
  BY DEF Running, HostIsWhole, StartAt, Units

\* A connection starts the ingress only between two steps that start units.
LEMMA Connects ==
    ASSUME NEW h, OldIsKept(h), h.run.socket = "on", h.run.ingress = "off",
           NEW f \in {8, 9}, NEW k \in 1..14, NEW v \in Versions,
           k > StartAt("socket", f) => h.code.live = v /\ h.env.live = v,
           Running(h, k, f, v), NEW g, g = Started(h, "ingress")
    PROVE  Running(g, k, f, v)
  BY Starting DEF Running, StopAt, StartAt, Units, Image, As, Versions

LEMMA Done == ASSUME NEW h, OldIsKept(h), NEW v, HostIsWhole(h, v)
    PROVE h.run = [socket |-> "on", ingress |-> v, web |-> v, mcp |-> v]
  BY DEF HostIsWhole, As, OldIsKept, Hosts, Units

-----------------------------------------------------------------------------
(* The switch and the rollback, step by step.                                  *)

LEMMA KeptForward ==
    ASSUME NEW h, NEW k \in 1..14, OldIsKept(h), ForwardAt(h, k),
           NEW g, g = After(h, Forward[k])
    PROVE  OldIsKept(g)
  <1>1. ASSUME NEW u \in Units, g = Stopped(h, u) \/ g = Started(h, u)  PROVE OldIsKept(g)
    BY <1>1, Stopping, Starting
  <1>2. CASE k = 5
    <2>1. g = CodeMoved(h, "live", "old") /\ h.code.live = "old"
      BY <1>2, ForwardEffects DEF ForwardAt
    <2> QED  BY <2>1 DEF Moved, CodeMoved, EnvMoved, OldIsKept, Hosts, Places, Versions
  <1>3. CASE k = 6
    <2>1. g = CodeMoved(h, "stage", "live") /\ h.code.live # "old"
      BY <1>3, ForwardEffects DEF ForwardAt
    <2> QED  BY <2>1 DEF Moved, CodeMoved, EnvMoved, OldIsKept, Hosts, Places, Versions, Staged
  <1>4. CASE k = 7
    <2>1. g = EnvMoved(h, "live", "old") /\ h.env.live = "old"
      BY <1>4, ForwardEffects DEF ForwardAt
    <2> QED  BY <2>1 DEF Moved, CodeMoved, EnvMoved, OldIsKept, Hosts, Places, Versions
  <1>5. CASE k = 8
    <2>1. g = EnvMoved(h, "stage", "live")
      BY <1>5, ForwardEffects
    <2> QED  BY <2>1 DEF Moved, CodeMoved, EnvMoved, OldIsKept, Hosts, Places, Versions, Staged
  <1>6. CASE k \in {11, 14}
    BY <1>6, ForwardEffects
  <1>7. \/ k \in 5..8 \/ k \in {11, 14}
        \/ \E u \in Units : k = StopAt(u) \/ k = StartAt(u, 9)
    BY DEF Units, StopAt, StartAt
  <1> QED  BY <1>1, <1>2, <1>3, <1>4, <1>5, <1>6, <1>7, ForwardEffects

\* A step of the switch that works leads to the next one, the last to a new host.
LEMMA GoesForward ==
    ASSUME NEW h, NEW k \in 1..14, OldIsKept(h), ForwardAt(h, k), Works(h, Forward[k]),
           NEW g, g = After(h, Forward[k])
    PROVE  /\ k < 14 => ForwardAt(g, k + 1)
           /\ k = 14 => HostIsWhole(g, "new")
  <1>1. ASSUME NEW u \in Units, k = StopAt(u)  PROVE ForwardAt(g, k + 1)
    <2>1. g = Stopped(h, u) /\ k \in 1..4
      BY <1>1, ForwardEffects DEF StopAt, Units
    <2>2. Running(g, k + 1, 9, "new")
      BY <1>1, <2>1, StopRuns DEF ForwardAt
    <2>3. g.code = h.code /\ g.env = h.env
      BY <2>1, Stopping
    <2> QED  BY <2>1, <2>2, <2>3 DEF ForwardAt
  <1>2. ASSUME NEW u \in Units, k = StartAt(u, 9)  PROVE ForwardAt(g, k + 1)
    <2>1. g = Started(h, u) /\ k \in 9..13
      BY <1>2, ForwardEffects DEF StartAt, Units
    <2>2. h.code.live = "new" /\ h.env.live = "new"
      <3>1. CASE k = 9
        <4>1. h.code.live \in Versions /\ h.env.live \in Versions
          BY <3>1, ForwardEffects DEF Startable
        <4> QED  BY <3>1, <4>1 DEF ForwardAt, Versions
      <3> QED  BY <2>1, <3>1 DEF ForwardAt
    <2>3. Running(g, k + 1, 9, "new")
      BY <1>2, <2>1, <2>2, StartRuns DEF ForwardAt, Versions
    <2>4. g.code = h.code /\ g.env = h.env
      BY <2>1, Starting
    <2> QED  BY <2>1, <2>2, <2>3, <2>4 DEF ForwardAt
  <1>3. ASSUME k \in {5, 6, 7, 8, 11}, g.run = h.run  PROVE Running(g, k + 1, 9, "new")
    BY <1>3, RunsOn DEF ForwardAt, StopAt, StartAt, Units
  <1>4. CASE k = 5
    <2>1. g = CodeMoved(h, "live", "old")
      BY <1>4, ForwardEffects
    <2>2. g.code.live = "none" /\ g.env = h.env /\ g.run = h.run
      BY <2>1 DEF OldIsKept, Hosts, Moved, CodeMoved, EnvMoved
    <2> QED  BY <1>3, <1>4, <2>2 DEF ForwardAt
  <1>5. CASE k = 6
    <2>1. g = CodeMoved(h, "stage", "live")
      BY <1>5, ForwardEffects
    <2>2. g.code.live # "old" /\ g.env = h.env /\ g.run = h.run
      BY <2>1 DEF OldIsKept, Hosts, Moved, CodeMoved, EnvMoved, Staged
    <2> QED  BY <1>3, <1>5, <2>2 DEF ForwardAt
  <1>6. CASE k = 7
    <2>1. g = EnvMoved(h, "live", "old")
      BY <1>6, ForwardEffects
    <2>2. g.env.live = "none" /\ g.code = h.code /\ g.run = h.run
      BY <2>1 DEF OldIsKept, Hosts, Moved, CodeMoved, EnvMoved
    <2> QED  BY <1>3, <1>6, <2>2 DEF ForwardAt
  <1>7. CASE k = 8
    <2>1. g = EnvMoved(h, "stage", "live")
      BY <1>7, ForwardEffects
    <2>2. g.env.live # "old" /\ g.code = h.code /\ g.run = h.run
      BY <2>1 DEF OldIsKept, Hosts, Moved, CodeMoved, EnvMoved, Staged
    <2> QED  BY <1>3, <1>7, <2>2 DEF ForwardAt
  <1>8. CASE k = 11
    <2>1. g = h
      BY <1>8, ForwardEffects
    <2> QED  BY <1>3, <1>8, <2>1 DEF ForwardAt
  <1>9. CASE k = 14
    <2>1. g = h /\ Running(h, 14, 9, "new") /\ h.code.live = "new" /\ h.env.live = "new"
      BY <1>9, ForwardEffects DEF ForwardAt
    <2> QED  BY <1>9, <2>1, AllRun
  <1>10. \/ k \in 5..8 \/ k \in {11, 14}
         \/ \E u \in Units : k = StopAt(u) \/ k = StartAt(u, 9)
    BY DEF Units, StopAt, StartAt
  <1> QED  BY <1>1, <1>2, <1>4, <1>5, <1>6, <1>7, <1>8, <1>9, <1>10
              DEF Units, StopAt, StartAt

LEMMA KeptBack ==
    ASSUME NEW h, NEW k \in 1..13, OldIsKept(h), NEW g, g = After(h, Back[k])
    PROVE  OldIsKept(g)
  <1>1. ASSUME NEW u \in Units, g = Stopped(h, u) \/ g = Started(h, u)  PROVE OldIsKept(g)
    BY <1>1, Stopping, Starting
  <1>2. CASE g = SetAside(h)
    BY <1>2 DEF SetAside, Moved, OldIsKept, Hosts, Places, Versions
  <1>3. CASE g = PutBack(h)
    BY <1>3 DEF PutBack, Moved, OldIsKept, Hosts, Places, Versions
  <1>4. CASE g = RestoredEnv(h)
    BY <1>4 DEF RestoredEnv, Moved, OldIsKept, Hosts, Places, Versions
  <1>5. \/ k \in 5..7 \/ k \in {10, 13}
        \/ \E u \in Units : k = StopAt(u) \/ k = StartAt(u, 8)
    BY DEF Units, StopAt, StartAt
  <1> QED  BY <1>1, <1>2, <1>3, <1>4, <1>5, BackEffects

\* So does a step of a rollback in which nothing has failed; the last leaves the
\* old host.
LEMMA GoesBack ==
    ASSUME NEW h, NEW k \in 1..13, OldIsKept(h), BackAt(h, k), Works(h, Back[k]),
           NEW g, g = After(h, Back[k])
    PROVE  /\ k < 13 => BackAt(g, k + 1)
           /\ k = 13 => HostIsWhole(g, "old")
  <1>1. ASSUME NEW u \in Units, k = StopAt(u)  PROVE BackAt(g, k + 1)
    <2>1. g = Stopped(h, u) /\ k \in 1..4
      BY <1>1, BackEffects DEF StopAt, Units
    <2>2. Running(g, k + 1, 8, "old")
      BY <1>1, <2>1, StopRuns DEF BackAt
    <2> QED  BY <2>1, <2>2 DEF BackAt
  <1>2. ASSUME NEW u \in Units, k = StartAt(u, 8)  PROVE BackAt(g, k + 1)
    <2>1. g = Started(h, u) /\ k \in 8..12
      BY <1>2, BackEffects DEF StartAt, Units
    <2>2. h.code.live = "old" /\ h.env.live = "old"
      BY <2>1 DEF BackAt
    <2>3. Running(g, k + 1, 8, "old")
      BY <1>2, <2>1, <2>2, StartRuns DEF BackAt, Versions
    <2>4. g.code = h.code /\ g.env = h.env
      BY <2>1, Starting
    <2> QED  BY <2>1, <2>2, <2>3, <2>4 DEF BackAt
  <1>3. ASSUME k \in {5, 6, 7, 10}, g.run = h.run  PROVE Running(g, k + 1, 8, "old")
    BY <1>3, RunsOn DEF BackAt, StopAt, StartAt, Units
  <1>4. CASE k = 5
    <2>1. g.run = h.run
      BY <1>4, BackEffects DEF SetAside, OldIsKept, Hosts
    <2> QED  BY <1>3, <1>4, <2>1 DEF BackAt
  <1>5. CASE k = 6
    <2>1. g.code.live = "old" /\ g = PutBack(h)
      BY <1>5, BackEffects
    <2>2. g.run = h.run
      BY <2>1 DEF PutBack, OldIsKept, Hosts
    <2> QED  BY <1>3, <1>5, <2>1, <2>2 DEF BackAt
  <1>6. CASE k = 7
    <2>1. g = RestoredEnv(h)
      BY <1>6, BackEffects
    <2>2. g.env.live = "old" /\ g.code = h.code /\ g.run = h.run
      BY <2>1 DEF RestoredEnv, Moved, OldIsKept, Hosts
    <2> QED  BY <1>3, <1>6, <2>2 DEF BackAt
  <1>7. CASE k = 10
    <2>1. g = h
      BY <1>7, BackEffects
    <2> QED  BY <1>3, <1>7, <2>1 DEF BackAt
  <1>8. CASE k = 13
    <2>1. g = h /\ Running(h, 13, 8, "old") /\ h.code.live = "old" /\ h.env.live = "old"
      BY <1>8, BackEffects DEF BackAt
    <2> QED  BY <1>8, <2>1, AllRun
  <1>9. \/ k \in 5..7 \/ k \in {10, 13}
        \/ \E u \in Units : k = StopAt(u) \/ k = StartAt(u, 8)
    BY DEF Units, StopAt, StartAt
  <1> QED  BY <1>1, <1>2, <1>4, <1>5, <1>6, <1>7, <1>8, <1>9 DEF Units, StopAt, StartAt

\* A step that fails keeps the old code too: it was not taken, or it was, or it
\* tore the environment.
LEMMA KeptFailing ==
    ASSUME NEW h, OldIsKept(h), NEW s, NEW g \in Failing(h, s), Works(h, s) => OldIsKept(After(h, s))
    PROVE  OldIsKept(g)
  <1>1. g = h \/ (Works(h, s) /\ g = After(h, s)) \/ g = [h EXCEPT !.env.live = "half"]
    BY DEF Failing
  <1>2. ASSUME g = [h EXCEPT !.env.live = "half"]  PROVE OldIsKept(g)
    BY <1>2 DEF OldIsKept, Hosts, Places
  <1> QED  BY <1>1, <1>2

-----------------------------------------------------------------------------
(* What the others do to a host: they stage, and connections come in.         *)

\* Apart from what is staged and what failed g is h.
Alike(h, g) ==
    /\ g.code.live = h.code.live /\ g.code.old = h.code.old
    /\ g.env.live = h.env.live /\ g.run = h.run

LEMMA AlikeDoing ==
    ASSUME NEW h, NEW g, Alike(h, g)
    PROVE  /\ \A v : HostIsWhole(h, v) => HostIsWhole(g, v)
           /\ \A q, k, e : Doing(h, q, k, e) => Doing(g, q, k, e)
  <1>1. ASSUME NEW k, NEW f, NEW v, Running(h, k, f, v)  PROVE Running(g, k, f, v)
    BY <1>1 DEF Alike, Running
  <1>2. ASSUME NEW v, HostIsWhole(h, v)  PROVE HostIsWhole(g, v)
    BY <1>2 DEF Alike, HostIsWhole
  <1>3. ASSUME NEW k, ForwardAt(h, k)  PROVE ForwardAt(g, k)
    BY <1>1, <1>3 DEF Alike, ForwardAt
  <1>4. ASSUME NEW k, BackAt(h, k)  PROVE BackAt(g, k)
    BY <1>1, <1>4 DEF Alike, BackAt
  <1> QED  BY <1>2, <1>3, <1>4 DEF Doing

LEMMA ConnectDoing ==
    ASSUME NEW h, OldIsKept(h), h.run.socket = "on", h.run.ingress = "off",
           NEW g, g = Started(h, "ingress")
    PROVE  /\ \A v \in Versions : ~HostIsWhole(h, v)
           /\ \A q, k, e : Doing(h, q, k, e) => Doing(g, q, k, e)
  <1>1. ASSUME NEW v \in Versions  PROVE ~HostIsWhole(h, v)
    BY DEF HostIsWhole, As, Units, Versions
  <1>2. OldIsKept(g) /\ g.code = h.code /\ g.env = h.env
    BY Starting DEF Units
  <1>3. ASSUME NEW k \in 1..14, ForwardAt(h, k)  PROVE ForwardAt(g, k)
    <2>1. k > StartAt("socket", 9) => h.code.live = "new" /\ h.env.live = "new"
      BY <1>3 DEF ForwardAt, StartAt
    <2>2. Running(g, k, 9, "new")
      BY <1>3, <2>1, Connects DEF ForwardAt, Versions
    <2> QED  BY <1>2, <1>3, <2>2 DEF ForwardAt
  <1>4. ASSUME NEW k \in 1..13, BackAt(h, k)  PROVE BackAt(g, k)
    <2>1. k > StartAt("socket", 8) => h.code.live = "old" /\ h.env.live = "old"
      BY <1>4 DEF BackAt, StartAt
    <2>2. Running(g, k, 8, "old")
      BY <1>4, <2>1, Connects DEF BackAt, Versions
    <2> QED  BY <1>2, <1>4, <2>2 DEF BackAt
  <1> QED  BY <1>1, <1>3, <1>4 DEF Doing, Versions

-----------------------------------------------------------------------------
(* TruthInv is inductive.                                                      *)

LEMMA InitTruth == Init => TruthInv
  <1> SUFFICES ASSUME Init PROVE TruthInv
    OBVIOUS
  <1>1. OldIsKept(host) /\ HostIsWhole(host, "old")
    BY DEF Init, OldIsKept, Hosts, Images, Places, Staged, Versions, Units, HostIsWhole, As
  <1> QED  BY <1>1, InitOwned DEF Init, TruthInv, Switching, Doing

\* A step of an operator that is not, and does not get, beyond its backup.
LEMMA Aside ==
    ASSUME TruthInv, SlotIsOwned', NEW p \in Operators, NEW to \in PCs \ Switching,
           Goto(p, to), UNCHANGED <<errors, attempts>>,
           at' \in [Operators -> Nat], \A q \in Operators \ {p} : at'[q] = at[q],
           OldIsKept(host'), Alike(host, host'),
           outcome' = outcome \/ (attempts = 1 /\ outcome' \notin {"finished", "rolled back"}),
           outcome' = "none" \/ \A q \in Operators \ {p} : pc[q] \notin Switching
    PROVE  TruthInv'
  <1>1. /\ pc' = [pc EXCEPT ![p] = to]
        /\ attempts' = 0 => outcome' = "none" /\ HostIsWhole(host', "old")
        /\ outcome' = "finished" => HostIsWhole(host', "new")
        /\ outcome' = "rolled back" => HostIsWhole(host', "old")
    <2>1. \A v \in Versions : HostIsWhole(host, v) => HostIsWhole(host', v)
      BY AlikeDoing
    <2>2. attempts = 0 => outcome' = "none" /\ HostIsWhole(host, "old")
      BY DEF TruthInv
    <2>3. /\ outcome' = "finished" => HostIsWhole(host, "new")
          /\ outcome' = "rolled back" => HostIsWhole(host, "old")
      BY DEF TruthInv
    <2> QED  BY <2>1, <2>2, <2>3 DEF Goto, Versions
  <1>2. pc \in [Operators -> PCs]
    BY DEF TruthInv, SlotIsOwned
  <1>3. ASSUME NEW q \in Operators
        PROVE  /\ pc'[q] \in Switching => attempts' = 1 /\ outcome' = "none"
               /\ Doing(host', pc'[q], at'[q], errors'[q])
    <2>1. CASE q = p
      <3>1. pc'[q] = to
        BY <1>1, <1>2, <2>1
      <3> QED  BY <3>1 DEF Doing, Switching
    <2>2. CASE q # p
      <3>1. pc'[q] = pc[q] /\ at'[q] = at[q] /\ errors'[q] = errors[q]
        BY <1>1, <1>2, <2>2
      <3>2. Doing(host', pc[q], at[q], errors[q])
        BY AlikeDoing DEF TruthInv
      <3> QED  BY <2>2, <3>1, <3>2 DEF TruthInv
    <2> QED  BY <2>1, <2>2
  <1> QED  BY <1>1, <1>3 DEF TruthInv

LEMMA Begun ==
    ASSUME TruthInv, NEW p \in Operators, pc[p] \in Switching, attempts' = attempts
    PROVE  ~(attempts' = 0)
  <1>1. attempts = 1
    BY Zenon DEF TruthInv
  <1> QED  BY <1>1

\* A step of the operator whose switch or rollback is under way.
LEMMA Beyond ==
    ASSUME TruthInv, SlotIsOwned', NEW p \in Operators, pc[p] \in Switching,
           NEW to \in PCs, Goto(p, to), attempts' = attempts, OldIsKept(host'),
           at' \in [Operators -> Nat], errors' \in [Operators -> BOOLEAN],
           to \in Switching => outcome' = "none" /\ Doing(host', to, at'[p], errors'[p]),
           outcome' = "finished" => HostIsWhole(host', "new"),
           outcome' = "rolled back" => HostIsWhole(host', "old")
    PROVE  TruthInv'
  <1>1. pc' = [pc EXCEPT ![p] = to] /\ pc \in [Operators -> PCs] /\ attempts' = 1
    BY DEF Goto, TruthInv, SlotIsOwned
  <1>2. ASSUME NEW q \in Operators
        PROVE  /\ pc'[q] \in Switching => attempts' = 1 /\ outcome' = "none"
               /\ Doing(host', pc'[q], at'[q], errors'[q])
    <2>1. CASE q = p
      <3>1. pc'[q] = to
        BY <1>1, <2>1
      <3>2. CASE to \in Switching
        BY <1>1, <2>1, <3>1, <3>2
      <3>3. CASE to \notin Switching
        BY <3>1, <3>3 DEF Doing, Switching
      <3> QED  BY <3>2, <3>3
    <2>2. CASE q # p
      <3>1. pc'[q] = pc[q] /\ pc[q] \notin Switching
        BY <1>1, <2>2 DEF TruthInv, SlotIsOwned
      <3> QED  BY <3>1 DEF Doing, Switching
    <2> QED  BY <2>1, <2>2
  <1>3. ~(attempts' = 0)
    BY Begun
  <1> QED  BY <1>2, <1>3, Zenon DEF TruthInv

LEMMA SwitchStep ==
    ASSUME TruthInv, SlotIsOwned', NEW p \in Operators, Switch(p)
    PROVE  TruthInv'
  <1> DEFINE k == at[p]
             s == Forward[k]
  <1>1. /\ pc[p] = "switch" /\ k \in 1..14 /\ ForwardAt(host, k) /\ OldIsKept(host)
        /\ outcome = "none" /\ at \in [Operators -> Nat] /\ errors \in [Operators -> BOOLEAN]
    BY DEF Switch, TruthInv, Doing, Switching
  <1>2. UNCHANGED <<attempts, outcome, errors>>
    BY DEF Switch, history
  <1>3. CASE Goto(p, "caught") /\ at' = at /\ (host' = host \/ host' \in Failing(host, s))
    <2>1. OldIsKept(host')
      BY <1>1, <1>3, KeptForward, KeptFailing
    <2> QED  BY <1>1, <1>2, <1>3, <2>1, Beyond DEF Switching, PCs, Doing
  <1>4. ASSUME Works(host, s), host' = After(host, s), at' = [at EXCEPT ![p] = @ + 1],
               Goto(p, IF k = Len(Forward) THEN "switched" ELSE "switch")
        PROVE  TruthInv'
    <2>1. OldIsKept(host') /\ at' \in [Operators -> Nat] /\ at'[p] = k + 1
      BY <1>1, <1>4, KeptForward
    <2>2. /\ k < 14 => ForwardAt(host', k + 1)
          /\ k = 14 => HostIsWhole(host', "new")
      BY <1>1, <1>4, GoesForward
    <2>3. CASE k = 14
      <3>1. Goto(p, "switched") /\ Doing(host', "switched", at'[p], errors'[p])
        BY <1>4, <2>2, <2>3, ForwardSteps DEF Doing
      <3> QED  BY <1>1, <1>2, <2>1, <3>1, Beyond DEF Switching, PCs
    <2>4. CASE k # 14
      <3>1. Goto(p, "switch") /\ Doing(host', "switch", at'[p], errors'[p])
        BY <1>1, <1>4, <2>1, <2>2, <2>4, ForwardSteps DEF Doing
      <3> QED  BY <1>1, <1>2, <2>1, <3>1, Beyond DEF Switching, PCs
    <2> QED  BY <2>3, <2>4
  <1>5. \/ /\ Works(host, s) /\ host' = After(host, s) /\ at' = [at EXCEPT ![p] = @ + 1]
           /\ Goto(p, IF k = Len(Forward) THEN "switched" ELSE "switch")
        \/ Goto(p, "caught") /\ at' = at /\ (host' = host \/ host' \in Failing(host, s))
    BY Zenon DEF Switch
  <1> QED  BY <1>3, <1>4, <1>5, Zenon

LEMMA NextSteps ==
    ASSUME NEW k \in 1..13, NEW failed \in BOOLEAN
    PROVE  /\ NextBack(k, failed) \in 1..15
           /\ k < 13 => NextBack(k, failed) \in 1..13
           /\ ~failed => NextBack(k, failed) = k + 1
  <1>1. NextBack(k, failed) \in {k + 1, k + 2} /\ (~failed => NextBack(k, failed) = k + 1)
    BY DEF NextBack
  <1>2. NextBack(12, failed) = 13
    BY DEF NextBack, Back
  <1>3. CASE k = 12
    BY <1>1, <1>2, <1>3
  <1>4. CASE k # 12
    BY <1>1, <1>4
  <1> QED  BY <1>3, <1>4

LEMMA RollbackStep ==
    ASSUME TruthInv, SlotIsOwned', NEW p \in Operators, Rollback(p)
    PROVE  TruthInv'
  <1> DEFINE k == at[p]
             s == Back[k]
  <1>1. /\ pc[p] = "back" /\ k \in 1..13 /\ OldIsKept(host) /\ (errors[p] \/ BackAt(host, k))
        /\ outcome = "none" /\ at \in [Operators -> Nat] /\ errors \in [Operators -> BOOLEAN]
    BY DEF Rollback, TruthInv, Doing, Switching
  <1>2. UNCHANGED <<attempts, outcome>>
    BY DEF Rollback, history
  <1>3. ASSUME NEW failed \in BOOLEAN, OldIsKept(host'),
               at' = [at EXCEPT ![p] = NextBack(k, failed)],
               errors' = [errors EXCEPT ![p] = @ \/ failed],
               Goto(p, IF k = Len(Back) THEN "restored" ELSE "back"),
               ~failed => Works(host, s) /\ host' = After(host, s)
        PROVE  TruthInv'
    <2>1. /\ NextBack(k, failed) \in 1..15
          /\ k < 13 => NextBack(k, failed) \in 1..13
          /\ ~failed => NextBack(k, failed) = k + 1
      BY <1>1, NextSteps
    <2>2. at' \in [Operators -> Nat] /\ at'[p] = NextBack(k, failed)
      BY <1>1, <1>3, <2>1
    <2>3. errors' \in [Operators -> BOOLEAN] /\ (~errors'[p] => ~errors[p] /\ ~failed)
      BY <1>1, <1>3
    <2>4. ~errors'[p] => /\ k < 13 => BackAt(host', k + 1)
                         /\ k = 13 => HostIsWhole(host', "old")
      BY <1>1, <1>3, <2>3, GoesBack
    <2>5. CASE k = 13
      <3>1. Goto(p, "restored") /\ Doing(host', "restored", at'[p], errors'[p])
        BY <1>3, <2>4, <2>5, BackSteps DEF Doing
      <3> QED  BY <1>1, <1>2, <1>3, <2>2, <2>3, <3>1, Beyond DEF Switching, PCs
    <2>6. CASE k # 13
      <3>1. Goto(p, "back") /\ k < 13
        <4>1. Len(Back) = 13 /\ k \in 1..13
          BY <1>1, BackSteps
        <4>2. k < 13
          BY <2>6, <4>1
        <4>3. Goto(p, "back")
          BY <1>3, <2>6, <4>1, Zenon
        <4> QED  BY <4>2, <4>3
      <3>2. at'[p] \in 1..13
        BY <2>1, <2>2, <3>1
      <3>3. ~errors'[p] => BackAt(host', at'[p])
        <4>1. ~failed => at'[p] = k + 1
          BY <2>1, <2>2
        <4> QED  BY <2>3, <2>4, <3>1, <4>1
      <3>4. Doing(host', "back", at'[p], errors'[p])
        BY <3>2, <3>3 DEF Doing
      <3> QED  BY <1>1, <1>2, <1>3, <2>2, <2>3, <3>1, <3>4, Beyond DEF Switching, PCs
    <2> QED  BY <2>5, <2>6
  <1>4. PICK failed \in BOOLEAN :
           /\ at' = [at EXCEPT ![p] = NextBack(k, failed)]
           /\ errors' = [errors EXCEPT ![p] = @ \/ (failed /\ Recorded(s))]
           /\ Goto(p, IF k = Len(Back) THEN "restored" ELSE "back")
           /\ \/ ~failed /\ Works(host, s) /\ host' = After(host, s)
              \/ failed /\ (host' = host \/ host' \in Failing(host, s))
    BY Zenon DEF Rollback
  <1>5. OldIsKept(host')
    BY <1>1, <1>4, KeptBack, KeptFailing
  <1>6. errors' = [errors EXCEPT ![p] = @ \/ failed]
    BY <1>4 DEF Recorded
  <1> QED  BY <1>3, <1>4, <1>5, <1>6

\* A host that was prepared before any switch is the old one.
LEMMA BeginStep ==
    ASSUME TruthInv, SlotIsOwned', NEW p \in Operators, Prove(p)
    PROVE  TruthInv'
  <1>1. /\ pc[p] = "proof" /\ attempts = 0 /\ host' = host /\ errors' = errors
        /\ outcome' = outcome /\ at' = [at EXCEPT ![p] = 1]
        /\ \/ Goto(p, "idle") /\ attempts' = attempts
           \/ Goto(p, "switch") /\ attempts' = attempts + 1
    BY DEF Prove, TruthInv, SlotIsOwned, backup
  <1>2. /\ OldIsKept(host) /\ HostIsWhole(host, "old") /\ outcome = "none"
        /\ pc \in [Operators -> PCs] /\ at \in [Operators -> Nat]
        /\ errors \in [Operators -> BOOLEAN]
    BY <1>1, Zenon DEF TruthInv, SlotIsOwned
  <1>3. \A q \in Operators \ {p} : pc[q] \notin Switching
    BY <1>1 DEF TruthInv, SlotIsOwned
  <1>4. at' \in [Operators -> Nat] /\ at'[p] = 1 /\ \A q \in Operators \ {p} : at'[q] = at[q]
    BY <1>1, <1>2
  <1>5. CASE Goto(p, "idle") /\ attempts' = attempts
    <2>1. OldIsKept(host') /\ Alike(host, host')
      BY <1>1, <1>2 DEF Alike
    <2> QED  BY <1>1, <1>2, <1>4, <1>5, <2>1, Aside DEF PCs, Switching
  <1>6. CASE Goto(p, "switch") /\ attempts' = attempts + 1
    <2>1. ForwardAt(host, 1)
      BY <1>2 DEF HostIsWhole, ForwardAt, Running, StopAt, StartAt, Units
    <2>2. attempts' = 1 /\ outcome' = "none" /\ Doing(host', "switch", at'[p], errors'[p])
      BY <1>1, <1>2, <1>4, <1>6, <2>1 DEF Doing
    <2>3. pc'[p] = "switch" /\ \A q \in Operators \ {p} : pc'[q] = pc[q]
      BY <1>2, <1>6 DEF Goto
    <2>4. \A q \in Operators :
             /\ pc'[q] \in Switching => attempts' = 1 /\ outcome' = "none"
             /\ Doing(host', pc'[q], at'[q], errors'[q])
      BY <1>3, <2>2, <2>3 DEF Doing, Switching
    <2>5. ~(attempts' = 0)
      BY <1>1, <1>6
    <2> QED  BY <1>1, <1>2, <1>4, <2>2, <2>4, <2>5, Zenon DEF TruthInv
  <1> QED  BY <1>1, <1>5, <1>6

\* Whoever stages works beside the paths that are live.
LEMMA StageStep ==
    ASSUME TruthInv, SlotIsOwned', NEW p \in Operators,
           \/ Prepare(p) \/ CopyStage(p) \/ FillStage(p) \/ StageEnv(p)
           \/ Preflight(p) \/ CheckSlot(p) \/ MakePartial(p) \/ AbandonPartial(p)
           \/ Publish(p)
    PROVE  TruthInv'
  <1>1. UNCHANGED <<at, errors, attempts, outcome>> /\ pc[p] \notin Switching
    BY DEF Prepare, CopyStage, FillStage, StageEnv, Preflight, CheckSlot, MakePartial,
           AbandonPartial, Publish, history, Switching
  <1>2. PICK to \in PCs \ Switching : Goto(p, to)
    BY DEF Prepare, CopyStage, FillStage, StageEnv, Preflight, CheckSlot, MakePartial,
           AbandonPartial, Publish, PCs, Switching
  <1>3. OldIsKept(host) /\ at \in [Operators -> Nat]
    BY DEF TruthInv
  <1>4. \/ host' = host
        \/ \E x \in {"half", "new"} : host' = [host EXCEPT !.code.stage = x]
        \/ \E x \in {"half", "new"} : host' = [host EXCEPT !.env.stage = x]
    BY DEF Prepare, CopyStage, FillStage, StageEnv, Preflight, CheckSlot, MakePartial,
           AbandonPartial, Publish
  <1>5. OldIsKept(host') /\ Alike(host, host')
    BY <1>3, <1>4 DEF OldIsKept, Hosts, Staged, Alike
  <1>6. outcome = "none" \/ \A q \in Operators \ {p} : pc[q] \notin Switching
    BY Zenon DEF TruthInv
  <1> QED  BY <1>1, <1>2, <1>3, <1>5, <1>6, Aside

LEMMA EndStep ==
    ASSUME TruthInv, SlotIsOwned', NEW p \in Operators,
           Finish(p) \/ EnterRollback(p) \/ EndRollback(p)
    PROVE  TruthInv'
  <1>1. /\ OldIsKept(host) /\ host' = host /\ attempts' = attempts /\ pc[p] \in Switching
        /\ outcome = "none" /\ Doing(host, pc[p], at[p], errors[p])
        /\ at \in [Operators -> Nat] /\ errors \in [Operators -> BOOLEAN]
    BY Zenon DEF TruthInv, Finish, EnterRollback, EndRollback, Switching
  <1>2. CASE Finish(p)
    <2>1. /\ HostIsWhole(host, "new") /\ UNCHANGED <<at, errors>> /\ Goto(p, "idle")
          /\ outcome' \in {"finished", "interrupted"}
      BY <1>1, <1>2 DEF Finish, End, Doing
    <2> QED  BY <1>1, <2>1, Beyond DEF PCs, Switching
  <1>3. CASE EnterRollback(p)
    <2>1. at' = [at EXCEPT ![p] = 1] /\ errors' = [errors EXCEPT ![p] = FALSE]
      BY <1>3 DEF EnterRollback
    <2>2. /\ at' \in [Operators -> Nat] /\ errors' \in [Operators -> BOOLEAN] /\ at'[p] = 1
      BY <1>1, <2>1
    <2>3. CASE Goto(p, "back") /\ outcome' = outcome
      <3>1. BackAt(host, 1)
        BY DEF BackAt, Running, StopAt, StartAt, Units
      <3>2. Doing(host', "back", at'[p], errors'[p])
        BY <1>1, <2>2, <3>1 DEF Doing
      <3> QED  BY <1>1, <2>2, <2>3, <3>2, Beyond DEF PCs, Switching
    <2>4. CASE Goto(p, "idle") /\ outcome' = "interrupted"
      BY <1>1, <2>2, <2>4, Beyond DEF PCs, Switching
    <2> QED  BY <1>3, <2>3, <2>4 DEF EnterRollback, End
  <1>4. CASE EndRollback(p)
    <2>1. /\ errors[p] \/ HostIsWhole(host, "old")
          /\ UNCHANGED <<at, errors>> /\ Goto(p, "idle")
          /\ \/ outcome' = "rolled back" /\ ~errors[p]
             \/ outcome' \in {"incident", "interrupted"}
      BY <1>1, <1>4 DEF EndRollback, End, Doing
    <2> QED  BY <1>1, <2>1, Beyond DEF PCs, Switching
  <1> QED  BY <1>2, <1>3, <1>4

LEMMA KillStep ==
    ASSUME TruthInv, SlotIsOwned', NEW p \in Operators, Kill(p)
    PROVE  TruthInv'
  <1>1. /\ OldIsKept(host) /\ UNCHANGED <<host, attempts, at, errors>> /\ Goto(p, "idle")
        /\ at \in [Operators -> Nat] /\ errors \in [Operators -> BOOLEAN]
        /\ outcome' = IF pc[p] \in Switching THEN "killed" ELSE outcome
    BY Zenon DEF TruthInv, Kill, Switching
  <1>2. CASE pc[p] \in Switching
    BY <1>1, <1>2, Beyond DEF PCs, Switching
  <1>3. CASE pc[p] \notin Switching
    <2>1. outcome = "none" \/ \A q \in Operators \ {p} : pc[q] \notin Switching
      BY Zenon DEF TruthInv
    <2>2. OldIsKept(host') /\ Alike(host, host') /\ at' \in [Operators -> Nat]
      BY <1>1 DEF Alike
    <2>3. "idle" \in PCs \ Switching
      BY DEF PCs, Switching
    <2> QED  BY <1>1, <1>3, <2>1, <2>2, <2>3, Aside
  <1> QED  BY <1>2, <1>3

LEMMA ConnectStep == ASSUME TruthInv, SlotIsOwned', Connect  PROVE TruthInv'
  <1>1. /\ OldIsKept(host) /\ host.run.socket = "on" /\ host.run.ingress = "off"
        /\ host' = Started(host, "ingress")
        /\ UNCHANGED <<pc, at, errors, attempts, outcome>>
    BY DEF TruthInv, Connect, history
  <1>2. OldIsKept(host')
    BY <1>1, Starting DEF Units
  <1>3. ~HostIsWhole(host, "old") /\ ~HostIsWhole(host, "new")
    BY <1>1, ConnectDoing DEF Versions
  <1>4. \A p \in Operators : Doing(host', pc[p], at[p], errors[p])
    BY <1>1, ConnectDoing DEF TruthInv
  <1>5. /\ at \in [Operators -> Nat] /\ errors \in [Operators -> BOOLEAN]
        /\ ~(attempts = 0) /\ outcome # "finished" /\ outcome # "rolled back"
        /\ \A p \in Operators : pc[p] \in Switching => attempts = 1 /\ outcome = "none"
    BY <1>3, Zenon DEF TruthInv
  <1> QED  BY <1>1, <1>2, <1>4, <1>5, Zenon DEF TruthInv

LEMMA TruthStep == TruthInv /\ [Next]_vars => TruthInv'
  <1> SUFFICES ASSUME TruthInv, [Next]_vars PROVE TruthInv'
    OBVIOUS
  <1>1. SlotIsOwned'
    BY OwnedStep DEF TruthInv
  <1>2. CASE UNCHANGED vars
    BY <1>1, <1>2 DEF vars, TruthInv
  <1> QED  BY <1>1, <1>2, SwitchStep, RollbackStep, BeginStep, StageStep, EndStep,
              KillStep, ConnectStep DEF Next

\* The invariant that OutcomeIsTrue is a part of.
THEOREM TruthInductive == Spec => []TruthInv
  BY InitTruth, TruthStep, PTL DEF Spec

\* What the script reports holds of the files and of the processes, for any
\* number of operators, failing steps, signals and kills.
THEOREM TrueOutcome == Spec => []OutcomeIsTrue
  <1>1. TruthInv => OutcomeIsTrue
    <2> SUFFICES ASSUME TruthInv PROVE OutcomeIsTrue
      OBVIOUS
    <2>1. OldIsKept(host)
      BY DEF TruthInv
    <2>2. \A v : HostIsWhole(host, v) => Everything(v)
      BY <2>1, Done DEF Everything, HostIsWhole
    <2>3. "old" \in {host.code.live, host.code.old}
      BY <2>1 DEF OldIsKept, Hosts
    <2> QED  BY <2>2, <2>3, Zenon DEF TruthInv, OutcomeIsTrue
  <1> QED  BY <1>1, TruthInductive, PTL

\* Both, for any number of operators: what is reported of the cutover is true, and
\* there is one at most.
THEOREM TrueCutover == Spec => []CutoverIsTrue
  <1>1. OutcomeIsTrue /\ OneAttempt => CutoverIsTrue
    BY DEF CutoverIsTrue
  <1> QED  BY <1>1, TrueOutcome, SwitchedOnce, PTL

------------------------------------------------------------------------------
(* The evidence audit, for any limits and ceilings, faults and changes: a
   verdict rests on the evidence that was read, and the month keeps to its limit. *)

Auditors == {"codex", "bounded", "responses"}
Answered == Verdicts \union {"none"}
Threads == Collecting \ {"reviews", "inline", "conversation"}
Looking == {"identity", "porcelain", "again", "bound"}
Asking == {"codex", "post", "poll"}
Reading == Statuses \union {"none"}
Bundles ==
    [git : Reading, head : {0, 1, 2}, diff : {0, 1, 2}, left : BOOLEAN,
     packet : Reading, tests : {"none", "PASS", "FAIL", "ERROR"},
     ci : {"none", "OK", "PENDING", "ERROR", "FAIL", "ABSENT"},
     pr : {0, 1}, atThreads : Comments, reviews : Reading, shown : BOOLEAN]

EvidenceTyped ==
    /\ auditPc \in {"idle", "judgeable"} \union Collecting \union Looking \union Asking
    /\ gate \in {"none", "evidence", "answer", "controller"}
    /\ auditor \in Auditors
    /\ checkout \in Worktrees
    /\ github \in [pr : {0, 1, 2}, rows : SUBSET {"pass", "pending", "fail"},
                   thread : Comments]
    /\ bundle \in Bundles
    /\ answer \in Answered
    /\ result \in [verdict : Answered \union {"raised"}, by : Auditors]
    /\ instants \subseteq Worktrees
    /\ spent \in Nat

\* A finding that is open and that the judge of commit 1 has to see, and the same one
\* whether or not it was resolved since.
Concerns(c) == ~c.resolved /\ (c.original = 1 \/ (c.mapped = 1 /\ c.actionable))
Likewise(c, d) ==
    c.original = d.original /\ c.mapped = d.mapped /\ c.actionable = d.actionable
Shows(b) == Concerns(b.atThreads) => b.shown

\* What an audit that goes on has collected, and what a verdict needs of it.
Sufficient(b, a) ==
    /\ b.tests # "none" /\ b.ci # "none"
    /\ b.head # 0 /\ (b.left \/ b.diff = b.head)
    /\ a = "bounded" => b.head = 1
    /\ Shows(b)
Supports(b, v) ==
    v \in {"PASS", "REWORK"} =>
        /\ b.tests \in {"PASS", "FAIL"} /\ b.ci \in {"OK", "ABSENT", "FAIL"}
        /\ v = "PASS" => b.tests = "PASS" /\ b.ci # "FAIL"

OnTheCommit(ws) == \E w \in ws : w = [head |-> 1, dirt |-> "clean"] \/ w.head # 1

\* Each gate looks at the worktree of its instants.
GateLooks ==
    /\ gate # "none" <=> auditPc \in Looking
    /\ auditPc \in Looking \ {"bound"} => checkout \in instants
    /\ auditPc = "again" => OnTheCommit(instants)
    /\ auditPc = "bound" => gate = "evidence" /\ auditor = "codex"

\* What is in the bundle at each read of the collection.
AfterChecks == {"threads", "reviews", "inline", "conversation", "judgeable"}
AfterTests == {"ci", "checks"} \union AfterChecks
AfterDiff == {"packet", "tests"} \union AfterTests
Gathered(place, b) ==
    /\ place \in Threads => b.atThreads = NoComment
    /\ place \in {"diff"} \union AfterDiff /\ b.head = 0 => b.git = "ERROR"
    /\ place \in AfterDiff => b.left \/ b.head = 0 \/ b.diff = b.head
    /\ place \in AfterTests => b.tests # "none"
    /\ place \in AfterChecks => b.ci # "none"
    /\ place \in {"reviews", "inline"} /\ Concerns(b.atThreads) =>
          Likewise(b.atThreads, github.thread)
    /\ place = "conversation" => Shows(b)
    /\ place = "judgeable" /\ b.reviews \notin {"ERROR", "INCOMPLETE"} => Shows(b)
Gathers ==
    /\ Gathered(auditPc, bundle)
    /\ auditPc \in Collecting \union {"judgeable"} => auditor # "responses"

\* HEAD is what was read, or it was left since.
Follows == bundle.head # 0 => bundle.left \/ checkout.head = bundle.head

\* What the judge and the gates behind it rest on.
Judges ==
    /\ gate = "evidence" => auditor # "responses" /\ Sufficient(bundle, auditor)
    /\ gate \in {"answer", "controller"} => answer \in Verdicts
    /\ gate \in {"answer", "controller"} /\ auditor # "responses" =>
          Sufficient(bundle, auditor) /\ Supports(bundle, answer)
    /\ auditPc \in Asking /\ auditor # "responses" =>
          Sufficient(bundle, auditor) /\ Supports(bundle, "PASS")

\* A request that may cost its ceiling still fits into the month.
Affordable ==
    /\ Within(spent, MonthLimits)
    /\ auditPc \in {"post", "poll"} /\ auditor = "bounded" =>
          Within(spent + Ceiling, MonthLimits)

EvidenceInv ==
    /\ EvidenceTyped
    /\ GateLooks /\ Gathers /\ Follows /\ Judges /\ Affordable
    /\ LeavesOnTheCommit /\ StandsOnTheEvidence

-----------------------------------------------------------------------------
(* The moves of an audit between its parts.                                  *)

\* The limits of the month are amounts of money.
LEMMA MonthIs == MonthLimits \subseteq Nat /\ Ceiling \in Nat
  BY EvidenceAssumption DEF MonthLimits

\* Outside the collection there is nothing to say of it.
LEMMA NoGathering ==
    ASSUME auditPc' \notin Collecting \union {"judgeable"}
    PROVE  Gathers'
  BY DEF Gathers, Gathered, Collecting, Threads, AfterDiff, AfterTests, AfterChecks

LEMMA EvidenceInitInv == EvidenceInit => EvidenceInv
  <1> SUFFICES ASSUME EvidenceInit PROVE EvidenceInv
    OBVIOUS
  <1>1. EvidenceTyped
    <2>1. NoComment \in Comments
      BY DEF NoComment, Comments
    <2>2. Uncollected \in Bundles
      BY <2>1 DEF Uncollected, Bundles, Reading
    <2>3. github \in [pr : {0, 1, 2}, rows : SUBSET {"pass", "pending", "fail"},
                      thread : Comments]
      BY <2>1 DEF EvidenceInit
    <2>4. checkout \in Worktrees
      BY DEF EvidenceInit, Worktrees
    <2>5. result \in [verdict : Answered \union {"raised"}, by : Auditors]
      BY DEF EvidenceInit, Answered, Auditors
    <2> QED  BY <2>2, <2>3, <2>4, <2>5 DEF EvidenceInit, EvidenceTyped, Answered, Auditors
  <1>2. GateLooks /\ Judges /\ LeavesOnTheCommit /\ StandsOnTheEvidence
    BY DEF EvidenceInit, GateLooks, Judges, LeavesOnTheCommit, StandsOnTheEvidence,
           Autonomous, Looking, Asking
  <1>3. Gathers /\ Follows
    BY DEF EvidenceInit, Gathers, Gathered, Follows, Threads, Collecting, AfterDiff,
           AfterTests, AfterChecks, Uncollected
  <1>4. Affordable
    BY MonthIs DEF EvidenceInit, Affordable, Within
  <1> QED  BY <1>1, <1>2, <1>3, <1>4 DEF EvidenceInv

\* An audit ends.
LEMMA EndHolds ==
    ASSUME EvidenceInv, NEW v \in Verdicts \union {"raised"}, Ends(v),
           UNCHANGED surroundings, spent' \in Nat, Within(spent', MonthLimits),
           v \in {"PASS", "REWORK"} =>
              /\ checkout.head = 1 /\ OnTheCommit(instants)
              /\ auditor # "responses" =>
                    Sufficient(bundle, auditor) /\ Supports(bundle, v)
    PROVE  EvidenceInv'
  <1>1. /\ auditPc' = "idle" /\ gate' = "none" /\ answer' = "none"
        /\ result' = [verdict |-> v, by |-> auditor]
        /\ checkout' = checkout /\ github' = github /\ auditor' = auditor
        /\ v \in {"PASS", "REWORK"} => bundle' = bundle /\ instants' = instants
        /\ v \notin {"PASS", "REWORK"} => bundle' = Uncollected /\ instants' = {}
    BY DEF Ends, surroundings
  <1>2. Uncollected \in Bundles
    BY DEF Bundles, Uncollected, NoComment, Comments, Reading
  <1>3. EvidenceTyped'
    BY <1>1, <1>2 DEF EvidenceInv, EvidenceTyped, Answered, Verdicts
  <1>4. GateLooks' /\ Gathers' /\ Judges' /\ Affordable'
    BY <1>1, NoGathering DEF GateLooks, Judges, Affordable, Looking, Asking, Collecting
  <1>7. Follows'
    BY <1>1 DEF EvidenceInv, Follows, Uncollected
  <1>5. LeavesOnTheCommit'
    BY <1>1 DEF LeavesOnTheCommit, Autonomous, OnTheCommit
  <1>6. StandsOnTheEvidence'
    <2> SUFFICES ASSUME v \in {"PASS", "REWORK"}, auditor # "responses"
                 PROVE  StandsOnTheEvidence'
      BY <1>1 DEF StandsOnTheEvidence, Autonomous
    <2>1. Sufficient(bundle', auditor) /\ Supports(bundle', v)
      BY <1>1
    <2>2. checkout.head = 1 /\ Follows /\ bundle' = bundle
      BY <1>1 DEF EvidenceInv
    <2>3. bundle'.left \/ bundle'.diff = 1
      BY <2>1, <2>2 DEF Follows, Sufficient
    <2> QED  BY <1>1, <2>1, <2>3 DEF StandsOnTheEvidence, Sufficient, Supports, Shows, Concerns
  <1> QED  BY <1>3, <1>4, <1>5, <1>6, <1>7 DEF EvidenceInv

\* A gate begins to look at the worktree.
LEMMA ValidateHolds ==
    ASSUME EvidenceInv, NEW g \in {"evidence", "answer", "controller"}, Validate(g),
           answer' \in Answered, g # "evidence" => answer' \in Verdicts,
           GoesOn(result), UNCHANGED surroundings,
           spent' \in Nat, Within(spent', MonthLimits),
           g = "evidence" => auditor # "responses" /\ Sufficient(bundle, auditor),
           g # "evidence" /\ auditor # "responses" =>
              Sufficient(bundle, auditor) /\ Supports(bundle, answer')
    PROVE  EvidenceInv'
  <1>1. /\ auditPc' = "identity" /\ gate' = g /\ instants' = {checkout}
        /\ result' = result /\ auditor' = auditor /\ bundle' = bundle
        /\ checkout' = checkout /\ github' = github
    BY DEF Validate, GoesOn, surroundings
  <1>2. EvidenceTyped'
    BY <1>1 DEF EvidenceInv, EvidenceTyped, Looking
  <1>3. /\ GateLooks' /\ Gathers' /\ Follows' /\ Affordable'
        /\ LeavesOnTheCommit' /\ StandsOnTheEvidence'
    BY <1>1, NoGathering DEF EvidenceInv, GateLooks, Follows, Affordable, Looking, Collecting,
                LeavesOnTheCommit, StandsOnTheEvidence, Autonomous
  <1>4. Judges'
    BY <1>1 DEF Judges, Asking
  <1> QED  BY <1>2, <1>3, <1>4 DEF EvidenceInv

\* A gate looks on, at the same worktree.
LEMMA LookHolds ==
    ASSUME EvidenceInv, NEW to \in {"porcelain", "again", "bound"}, auditPc' = to,
           auditPc \in Looking, auditPc # "bound", Looks, UNCHANGED <<surroundings, spent>>,
           to = "again" => OnTheCommit(instants),
           to = "bound" => gate = "evidence" /\ auditor = "codex"
    PROVE  EvidenceInv'
  <1>1. /\ result' = result /\ auditor' = auditor /\ bundle' = bundle
        /\ checkout' = checkout /\ github' = github /\ spent' = spent
        /\ gate' = gate /\ answer' = answer /\ instants' = instants
    BY DEF Looks, GoesOn, surroundings
  <1>2. EvidenceTyped'
    BY <1>1 DEF EvidenceInv, EvidenceTyped, Looking
  <1>3. Gathers' /\ Follows' /\ Affordable' /\ LeavesOnTheCommit' /\ StandsOnTheEvidence'
    BY <1>1, NoGathering DEF EvidenceInv, Follows, Affordable, Looking, Collecting,
                LeavesOnTheCommit, StandsOnTheEvidence, Autonomous
  <1>4. Judges'
    BY <1>1 DEF EvidenceInv, Judges, Asking
  <1>5. GateLooks'
    BY <1>1 DEF EvidenceInv, GateLooks, Looking
  <1> QED  BY <1>2, <1>3, <1>4, <1>5 DEF EvidenceInv

\* A judge is asked.
LEMMA AskHolds ==
    ASSUME EvidenceInv, NEW judge \in {"codex", "post"}, Asks(judge),
           UNCHANGED <<surroundings, spent>>,
           auditor # "responses" => Sufficient(bundle, auditor) /\ Supports(bundle, "PASS"),
           judge = "post" /\ auditor = "bounded" => Within(spent + Ceiling, MonthLimits)
    PROVE  EvidenceInv'
  <1>1. /\ result' = result /\ auditor' = auditor /\ bundle' = bundle
        /\ checkout' = checkout /\ github' = github /\ spent' = spent
        /\ gate' = "none" /\ answer' = answer /\ instants' = {} /\ auditPc' = judge
    BY DEF Asks, GoesOn, surroundings
  <1>2. EvidenceTyped'
    BY <1>1 DEF EvidenceInv, EvidenceTyped, Asking
  <1>3. Gathers' /\ Follows' /\ Affordable' /\ LeavesOnTheCommit' /\ StandsOnTheEvidence'
    BY <1>1, NoGathering DEF EvidenceInv, Follows, Affordable, Looking, Collecting,
                LeavesOnTheCommit, StandsOnTheEvidence, Autonomous
  <1>4. Judges'
    BY <1>1 DEF EvidenceInv, Judges, Asking
  <1>5. GateLooks'
    BY <1>1 DEF EvidenceInv, GateLooks, Looking
  <1> QED  BY <1>2, <1>3, <1>4, <1>5 DEF EvidenceInv

\* A verdict on sufficient evidence is delivered.
LEMMA DeliverHolds ==
    ASSUME EvidenceInv, NEW v \in Verdicts, Delivers(v),
           UNCHANGED surroundings, spent' \in Nat, Within(spent', MonthLimits),
           auditor # "responses" => Sufficient(bundle, auditor) /\ Supports(bundle, v),
           auditor = "bounded" => checkout.head = 1 /\ OnTheCommit(instants)
    PROVE  EvidenceInv'
  <1>1. CASE auditor = "bounded"
    <2>1. Ends(v)
      BY <1>1 DEF Delivers
    <2> QED  BY <1>1, <2>1, EndHolds
  <1>2. CASE auditor # "bounded"
    <2>1. answer' = v /\ Validate("controller") /\ GoesOn(result)
      BY <1>2 DEF Delivers
    <2> QED  BY <1>2, <2>1, ValidateHolds DEF Answered
  <1> QED  BY <1>1, <1>2
-----------------------------------------------------------------------------
(* The collection.                                                           *)

LEMMA CollectHolds ==
    ASSUME EvidenceInv, NEW from \in Collecting, NEW to \in Collecting \union {"judgeable"},
           NEW b \in Bundles, Collects(from, to, b), Gathered(to, b),
           b.head # 0 => b.left \/ checkout.head = b.head
    PROVE  EvidenceInv'
  <1>1. /\ auditPc = from /\ auditPc' = to /\ bundle' = b
        /\ UNCHANGED <<gate, auditor, checkout, github, spent, answer, result, instants>>
    BY DEF Collects, surroundings, money
  <1>2. EvidenceTyped'
    BY <1>1 DEF EvidenceInv, EvidenceTyped
  <1>3. GateLooks' /\ Follows' /\ Affordable' /\ LeavesOnTheCommit' /\ StandsOnTheEvidence'
    BY <1>1 DEF EvidenceInv, GateLooks, Follows, Affordable, Looking, Collecting,
                LeavesOnTheCommit, StandsOnTheEvidence, Autonomous
  <1>4. gate = "none"
    BY <1>1 DEF EvidenceInv, GateLooks, Looking, Collecting, EvidenceTyped
  <1>5. Judges'
    BY <1>1, <1>4 DEF Judges, Asking, Collecting
  <1>6. auditor # "responses"
    BY <1>1 DEF EvidenceInv, Gathers
  <1>7. Gathers'
    BY <1>1, <1>6 DEF Gathers, Gathered
  <1> QED  BY <1>2, <1>3, <1>5, <1>7 DEF EvidenceInv

\* What is known of the bundle at a read.
LEMMA SoFar ==
    ASSUME EvidenceInv
    PROVE  /\ bundle \in Bundles /\ Gathered(auditPc, bundle)
           /\ bundle.head # 0 => bundle.left \/ checkout.head = bundle.head
           /\ checkout.head \in {1, 2} /\ github.thread \in Comments
  BY DEF EvidenceInv, Gathers, Follows, EvidenceTyped, Worktrees

\* Reads before the threads, of what is not about them.
LEMMA GitReadHolds ==
    ASSUME EvidenceInv, ReadStatus \/ ReadHead \/ ReadDiff
    PROVE  EvidenceInv'
  <1>1. CASE ReadStatus
    <2> PICK status \in Statuses :
            Collects("status", "head", [bundle EXCEPT !.git = status])
      BY <1>1 DEF ReadStatus
    <2> DEFINE b == [bundle EXCEPT !.git = status]
    <2>1. /\ b \in Bundles /\ b.atThreads = bundle.atThreads /\ b.head = bundle.head
          /\ b.left = bundle.left
      BY SoFar DEF Bundles, Reading
    <2>2. auditPc = "status"
      BY DEF Collects
    <2> HIDE DEF b
    <2>3. Gathered("head", b)
      BY <2>1, <2>2, SoFar DEF Gathered, Threads, Collecting, AfterDiff, AfterTests, AfterChecks
    <2> QED  BY <2>1, <2>3, SoFar, CollectHolds DEF b, Collecting
  <1>2. CASE ReadHead
    <2> DEFINE Read(head, git) == [bundle EXCEPT !.head = head, !.git = git]
    <2>0. PICK head \in {0, 1, 2}, git \in Reading :
            /\ Collects("head", "diff", Read(head, git))
            /\ head = 0 => git = "ERROR"
            /\ head # 0 => head = checkout.head
      <3>1. bundle.git \in Reading /\ "ERROR" \in Reading
        BY SoFar DEF Bundles, Reading, Statuses
      <3>2. [bundle EXCEPT !.head = checkout.head] = Read(checkout.head, bundle.git)
        BY SoFar DEF Bundles
      <3>3. \/ Collects("head", "diff", Read(checkout.head, bundle.git))
            \/ \E head \in {0, checkout.head} : Collects("head", "diff", Read(head, "ERROR"))
        BY <1>2, <3>2, Zenon DEF ReadHead
      <3>4. checkout.head \in {1, 2}
        BY SoFar
      <3> HIDE DEF Read
      <3> QED  BY <3>1, <3>3, <3>4
    <2> DEFINE b == Read(head, git)
    <2>1. /\ b \in Bundles /\ b.atThreads = bundle.atThreads /\ b.head = head
          /\ b.git = git
      BY <2>0, SoFar DEF Bundles
    <2>2. auditPc = "head"
      BY <2>0 DEF Collects
    <2> HIDE DEF b
    <2>3. Gathered("diff", b)
      BY <2>0, <2>1, <2>2, SoFar DEF Gathered, Threads, Collecting, AfterDiff, AfterTests, AfterChecks
    <2> QED  BY <2>0, <2>1, <2>3, SoFar, CollectHolds DEF b, Collecting
  <1>3. CASE ReadDiff
    <2> PICK status \in Statuses :
            /\ Collects("diff", "packet",
                 [bundle EXCEPT !.git = status, !.diff = checkout.head])
            /\ bundle.git = "ERROR" => status = "ERROR"
      BY <1>3 DEF ReadDiff
    <2> DEFINE b == [bundle EXCEPT !.git = status, !.diff = checkout.head]
    <2>1. /\ b \in Bundles /\ b.atThreads = bundle.atThreads /\ b.head = bundle.head
          /\ b.left = bundle.left /\ b.diff = checkout.head
          /\ bundle.git = "ERROR" => b.git = "ERROR"
      BY SoFar DEF Bundles, Reading
    <2>2. auditPc = "diff"
      BY DEF Collects
    <2> HIDE DEF b
    <2>3. Gathered("packet", b)
      BY <2>1, <2>2, SoFar DEF Gathered, Threads, Collecting, AfterDiff, AfterTests, AfterChecks
    <2> QED  BY <2>1, <2>3, SoFar, CollectHolds DEF b, Collecting
  <1> QED  BY <1>1, <1>2, <1>3

\* Two bundles with the same commits.
SameGit(b, c) ==
    b.head = c.head /\ b.left = c.left /\ b.diff = c.diff /\ b.git = c.git

LEMMA ReadHolds ==
    ASSUME EvidenceInv, ReadPacket \/ RunTests \/ FindPullRequest \/ ReadChecks
    PROVE  EvidenceInv'
  <1>3. CASE ReadPacket
    <2> PICK status \in Statuses :
            Collects("packet", "tests", [bundle EXCEPT !.packet = status])
      BY <1>3 DEF ReadPacket
    <2> DEFINE b == [bundle EXCEPT !.packet = status]
    <2>1. b \in Bundles /\ b.atThreads = bundle.atThreads /\ SameGit(b, bundle)
      BY SoFar DEF Bundles, Reading, SameGit
    <2>2. auditPc = "packet"
      BY DEF Collects
    <2> HIDE DEF b
    <2>3. Gathered("tests", b)
      BY <2>1, <2>2, SoFar DEF Gathered, Threads, Collecting, AfterDiff, AfterTests,
         AfterChecks, SameGit
    <2> QED  BY <2>1, <2>3, SoFar, CollectHolds DEF b, Collecting, SameGit
  <1>4. CASE RunTests
    <2> PICK t \in {"PASS", "FAIL", "ERROR"} :
            Collects("tests", "ci", [bundle EXCEPT !.tests = t])
      BY <1>4 DEF RunTests, ClassifyTests
    <2> DEFINE b == [bundle EXCEPT !.tests = t]
    <2>1. b \in Bundles /\ b.atThreads = bundle.atThreads /\ b.tests = t /\ SameGit(b, bundle)
      BY SoFar DEF Bundles, SameGit
    <2>2. auditPc = "tests"
      BY DEF Collects
    <2> HIDE DEF b
    <2>3. Gathered("ci", b)
      BY <2>1, <2>2, SoFar DEF Gathered, Threads, Collecting, AfterDiff, AfterTests,
         AfterChecks, SameGit
    <2> QED  BY <2>1, <2>3, SoFar, CollectHolds DEF b, Collecting, SameGit
  <1>5. CASE FindPullRequest /\ auditPc' = "checks"
    <2> DEFINE b == [bundle EXCEPT !.pr = 1]
    <2>1. Collects("ci", "checks", b)
      BY <1>5 DEF FindPullRequest, Collects
    <2>2. /\ b \in Bundles /\ b.atThreads = bundle.atThreads /\ b.tests = bundle.tests
          /\ SameGit(b, bundle)
      BY SoFar DEF Bundles, SameGit
    <2>3. auditPc = "ci"
      BY <2>1 DEF Collects
    <2> HIDE DEF b
    <2>4. Gathered("checks", b)
      BY <2>2, <2>3, SoFar DEF Gathered, Threads, Collecting, AfterDiff, AfterTests,
         AfterChecks, SameGit
    <2> QED  BY <2>1, <2>2, <2>4, SoFar, CollectHolds DEF Collecting, SameGit
  <1>6. CASE \E from \in {"ci", "checks"}, ci \in {"OK", "PENDING", "ERROR", "FAIL", "ABSENT"} :
                Collects(from, "threads", [bundle EXCEPT !.ci = ci])
    <2> PICK from \in {"ci", "checks"}, ci \in {"OK", "PENDING", "ERROR", "FAIL", "ABSENT"} :
                Collects(from, "threads", [bundle EXCEPT !.ci = ci])
      BY <1>6
    <2> DEFINE b == [bundle EXCEPT !.ci = ci]
    <2>1. /\ b \in Bundles /\ b.atThreads = bundle.atThreads /\ b.tests = bundle.tests
          /\ b.ci = ci /\ SameGit(b, bundle)
      BY SoFar DEF Bundles, SameGit
    <2>2. auditPc = from
      BY DEF Collects
    <2> HIDE DEF b
    <2>3. Gathered("threads", b)
      BY <2>1, <2>2, SoFar DEF Gathered, Threads, Collecting, AfterDiff, AfterTests,
         AfterChecks, SameGit
    <2> QED  BY <2>1, <2>3, SoFar, CollectHolds DEF b, Collecting, SameGit
  <1>7. ReadChecks => \E ci \in {"OK", "PENDING", "ERROR", "FAIL", "ABSENT"} :
                         Collects("checks", "threads", [bundle EXCEPT !.ci = ci])
    BY DEF ReadChecks, ClassifyChecks
  <1>8. FindPullRequest =>
          \/ auditPc' = "checks"
          \/ \E ci \in {"ABSENT", "ERROR"} : Collects("ci", "threads", [bundle EXCEPT !.ci = ci])
    BY DEF FindPullRequest, Collects
  <1> QED  BY <1>3, <1>4, <1>5, <1>6, <1>7, <1>8

\* The threads, and what was said in them.
LEMMA ThreadsHold ==
    ASSUME EvidenceInv, LoadThreads
    PROVE  EvidenceInv'
  <1>1. CASE bundle.pr = 1 /\ bundle.ci # "ERROR"
    <2> PICK status \in Statuses :
            Collects("threads", AfterRead(status, "reviews"),
                 [bundle EXCEPT !.atThreads = github.thread, !.reviews = status])
      BY <1>1 DEF LoadThreads
    <2> DEFINE b == [bundle EXCEPT !.atThreads = github.thread, !.reviews = status]
               to == AfterRead(status, "reviews")
    <2>1. /\ b \in Bundles /\ b.atThreads = github.thread /\ b.tests = bundle.tests
          /\ b.ci = bundle.ci /\ b.reviews = status /\ SameGit(b, bundle)
      BY SoFar DEF Bundles, Reading, SameGit
    <2>2. auditPc = "threads"
      BY DEF Collects
    <2>3. Likewise(b.atThreads, github.thread)
      BY <2>1 DEF Likewise
    <2> HIDE DEF b
    <2>4. Gathered(to, b)
      BY <2>1, <2>2, <2>3, SoFar DEF Gathered, Threads, Collecting, AfterDiff, AfterTests,
         AfterChecks, SameGit, AfterRead, WithoutThreads
    <2> QED  BY <2>1, <2>4, SoFar, CollectHolds DEF b, Collecting, SameGit, AfterRead
  <1>2. CASE ~(bundle.pr = 1 /\ bundle.ci # "ERROR")
    <2> DEFINE b == [bundle EXCEPT !.reviews = WithoutThreads]
    <2>1. Collects("threads", "judgeable", b)
      BY <1>2 DEF LoadThreads
    <2>2. /\ b \in Bundles /\ b.atThreads = bundle.atThreads /\ b.tests = bundle.tests
          /\ b.ci = bundle.ci /\ SameGit(b, bundle)
      BY SoFar DEF Bundles, Reading, Statuses, SameGit, WithoutThreads
    <2>3. auditPc = "threads"
      BY <2>1 DEF Collects
    <2>4. b.atThreads = NoComment
      BY <2>2, <2>3, SoFar DEF Gathered, Threads, Collecting
    <2>5. Shows(b)
      BY <2>4 DEF Shows, Concerns, NoComment
    <2> HIDE DEF b
    <2>6. Gathered("judgeable", b)
      BY <2>2, <2>3, <2>5, SoFar DEF Gathered, Threads, Collecting, AfterDiff, AfterTests,
         AfterChecks, SameGit, AfterRead, WithoutThreads
    <2> QED  BY <2>1, <2>2, <2>6, SoFar, CollectHolds DEF Collecting, SameGit
  <1> QED  BY <1>1, <1>2

\* A list of the pull request is read.
LEMMA ListHolds ==
    ASSUME EvidenceInv, NEW from \in {"reviews", "inline", "conversation"},
           NEW to \in {"inline", "conversation", "judgeable"}, NEW b \in Bundles,
           ReadList(from, to, b),
           SameGit(b, bundle), b.atThreads = bundle.atThreads, b.tests = bundle.tests,
           b.ci = bundle.ci,
           from = "reviews" <=> to = "inline",
           to \in {"conversation", "judgeable"} => Shows(b)
    PROVE  EvidenceInv'
  <1> PICK status \in Statuses :
          Collects(from, AfterRead(status, to), [b EXCEPT !.reviews = status])
    BY DEF ReadList
  <1> DEFINE c == [b EXCEPT !.reviews = status]
             next == AfterRead(status, to)
  <1>1. auditPc = from
    BY DEF Collects
  <1>2. /\ c \in Bundles /\ SameGit(c, b) /\ c.atThreads = b.atThreads /\ c.tests = b.tests
        /\ c.ci = b.ci /\ c.shown = b.shown /\ c.reviews = status
    BY DEF Bundles, Reading, SameGit
  <1>3. Shows(b) => Shows(c)
    BY <1>2 DEF Shows
  <1> HIDE DEF c
  <1>4. Gathered(next, c)
    BY <1>1, <1>2, <1>3, SoFar DEF Gathered, Threads, Collecting, AfterDiff, AfterTests,
       AfterChecks, SameGit, AfterRead
  <1> QED  BY <1>2, <1>4, SoFar, CollectHolds DEF c, Collecting, SameGit, AfterRead

\* Whether the judge is shown the finding.
Showing == /\ github.thread # NoComment
           /\ KeptInline(github.thread,
                         bundle.atThreads # NoComment /\ bundle.atThreads.resolved)

LEMMA ReviewsHold ==
    ASSUME EvidenceInv, ReadReviews \/ ReadInlineComments \/ ReadConversation
    PROVE  EvidenceInv'
  <1>1. CASE ReadReviews
    BY <1>1, SoFar, ListHolds DEF ReadReviews, SameGit
  <1>2. CASE ReadInlineComments
    <2> DEFINE b == [bundle EXCEPT !.shown = Showing]
    <2>1. ReadList("inline", "conversation", b)
      BY <1>2 DEF ReadInlineComments, Showing
    <2>2. auditPc = "inline"
      BY <2>1 DEF ReadList, Collects
    <2>3. Showing \in BOOLEAN
      BY DEF Showing
    <2>4. /\ b \in Bundles /\ SameGit(b, bundle) /\ b.atThreads = bundle.atThreads
          /\ b.tests = bundle.tests /\ b.ci = bundle.ci /\ b.shown = Showing
      BY <2>3, SoFar DEF Bundles, SameGit
    <2>5. ASSUME Concerns(bundle.atThreads) PROVE Showing
      <3>1. Likewise(bundle.atThreads, github.thread)
        BY <2>2, <2>5, SoFar DEF Gathered
      <3>2. github.thread # NoComment
        BY <2>5, <3>1 DEF Concerns, Likewise, NoComment
      <3>3. KeptInline(github.thread, FALSE)
        BY <2>5, <3>1 DEF Concerns, Likewise, KeptInline
      <3>4. ~bundle.atThreads.resolved
        BY <2>5 DEF Concerns
      <3> QED  BY <3>2, <3>3, <3>4 DEF Showing, KeptInline
    <2>6. Shows(b)
      BY <2>4, <2>5 DEF Shows
    <2> HIDE DEF b
    <2> QED  BY <2>1, <2>4, <2>6, ListHolds
  <1>3. CASE ReadConversation
    <2>1. auditPc = "conversation"
      BY <1>3 DEF ReadConversation, ReadList, Collects
    <2>2. Shows(bundle)
      BY <2>1, SoFar DEF Gathered
    <2> QED  BY <1>3, <2>2, SoFar, ListHolds DEF ReadConversation, SameGit
  <1> QED  BY <1>1, <1>2, <1>3
-----------------------------------------------------------------------------
(* The gates and the judge.                                                  *)

LEMMA StartHolds ==
    ASSUME EvidenceInv, StartCodex \/ StartBounded \/ StartResponses
    PROVE  EvidenceInv'
  <1> USE DEF EvidenceInv
  <1>1. PICK a \in Auditors, where \in {"status", "idle", "post"} :
            /\ Starts(a, where)
            /\ a = "responses" <=> where = "post"
    BY DEF StartCodex, StartBounded, StartResponses, Auditors
  <1>2. /\ auditPc = "idle" /\ auditPc' = where /\ auditor' = a
        /\ bundle' = Uncollected /\ instants' = {}
        /\ result' = [verdict |-> IF where = "idle" THEN "raised" ELSE "none", by |-> a]
        /\ UNCHANGED <<gate, answer, checkout, github, spent>>
    BY <1>1 DEF Starts, surroundings, money
  <1>3. Uncollected \in Bundles
    BY DEF Bundles, Uncollected, NoComment, Comments, Reading
  <1>4. EvidenceTyped'
    BY <1>2, <1>3 DEF EvidenceTyped, Answered, Collecting, Asking
  <1>5. gate = "none"
    BY <1>2 DEF GateLooks, Looking, EvidenceTyped
  <1>6. GateLooks' /\ Affordable' /\ Judges'
    BY <1>1, <1>2, <1>5 DEF GateLooks, Affordable, Judges, Looking, Asking
  <1>7. Gathers' /\ Follows'
    BY <1>1, <1>2 DEF Gathers, Gathered, Follows, Uncollected, Threads, Collecting, AfterDiff,
       AfterTests, AfterChecks
  <1>8. LeavesOnTheCommit' /\ StandsOnTheEvidence'
    BY <1>2 DEF LeavesOnTheCommit, StandsOnTheEvidence, Autonomous
  <1> QED  BY <1>4, <1>6, <1>7, <1>8

\* The evidence is complete, and on the commit where that is asked.
LEMMA ConsiderHolds ==
    ASSUME EvidenceInv, ConsiderEvidence
    PROVE  EvidenceInv'
  <1>1. /\ auditPc = "judgeable" /\ UNCHANGED <<surroundings, spent>>
        /\ spent \in Nat /\ Within(spent, MonthLimits) /\ answer \in Answered
    BY DEF EvidenceInv, ConsiderEvidence, EvidenceTyped, Affordable
  <1>2. CASE StaleHead
    BY <1>1, <1>2, EndHolds DEF ConsiderEvidence, Raises
  <1>3. CASE ~StaleHead /\ IncompleteEvidence
    BY <1>1, <1>3, EndHolds DEF ConsiderEvidence, Verdicts
  <1>4. CASE ~StaleHead /\ ~IncompleteEvidence
    <2>1. Validate("evidence") /\ GoesOn(result) /\ answer' = answer
      BY <1>4 DEF ConsiderEvidence
    <2>2. auditor # "responses" /\ Sufficient(bundle, auditor)
      BY <1>1, <1>4, SoFar DEF EvidenceInv, Gathers, Gathered, Sufficient, StaleHead,
         IncompleteEvidence, Bundles, AfterDiff, AfterTests, AfterChecks
    <2> QED  BY <1>1, <2>1, <2>2, ValidateHolds
  <1> QED  BY <1>2, <1>3, <1>4

LEMMA LooksHold ==
    ASSUME EvidenceInv, FirstIdentity \/ Porcelain
    PROVE  EvidenceInv'
  <1>1. /\ UNCHANGED <<surroundings, spent>>
        /\ spent' \in Nat /\ Within(spent', MonthLimits)
    BY DEF EvidenceInv, FirstIdentity, Porcelain, EvidenceTyped, Affordable
  <1>2. CASE Rejected
    BY <1>1, <1>2, EndHolds DEF Rejected, Verdicts
  <1>3. CASE FirstIdentity /\ ~Rejected
    <2>1. auditPc = "identity" /\ auditPc' = "porcelain" /\ Looks
      BY <1>3 DEF FirstIdentity
    <2> QED  BY <1>1, <2>1, LookHolds DEF Looking
  <1>4. CASE Porcelain /\ ~Rejected
    <2>1. /\ auditPc = "porcelain" /\ auditPc' = "again" /\ Looks
          /\ checkout.dirt = "clean"
      BY <1>4 DEF Porcelain
    <2>2. checkout \in instants /\ checkout \in Worktrees
      BY <2>1 DEF EvidenceInv, GateLooks, Looking, EvidenceTyped
    <2>3. checkout = [head |-> 1, dirt |-> "clean"] \/ checkout.head # 1
      BY <2>1, <2>2 DEF Worktrees
    <2>4. OnTheCommit(instants)
      BY <2>2, <2>3 DEF OnTheCommit
    <2> QED  BY <1>1, <2>1, <2>4, LookHolds DEF Looking
  <1> QED  BY <1>2, <1>3, <1>4

\* The verdict the deterministic gate gives, and what it means when it gives none.
LEMMA GateSupports ==
    ASSUME EvidenceTyped, Sufficient(bundle, auditor)
    PROVE  /\ Gate \in {"none", "HUMAN_REQUIRED", "REWORK"}
           /\ Gate # "none" => Supports(bundle, Gate)
           /\ Gate = "none" => Supports(bundle, "PASS")
  <1>1. /\ bundle.tests \in {"PASS", "FAIL", "ERROR"}
        /\ bundle.ci \in {"OK", "PENDING", "ERROR", "FAIL", "ABSENT"}
    BY DEF EvidenceTyped, Bundles, Sufficient
  <1>2. CASE bundle.tests = "ERROR" \/ bundle.ci \in {"PENDING", "ERROR"}
    BY <1>2 DEF Gate, Supports
  <1>3. CASE /\ ~(bundle.tests = "ERROR" \/ bundle.ci \in {"PENDING", "ERROR"})
             /\ bundle.tests = "FAIL" \/ bundle.ci = "FAIL"
    BY <1>1, <1>3 DEF Gate, Supports
  <1>4. CASE /\ ~(bundle.tests = "ERROR" \/ bundle.ci \in {"PENDING", "ERROR"})
             /\ ~(bundle.tests = "FAIL" \/ bundle.ci = "FAIL")
    BY <1>1, <1>4 DEF Gate, Supports
  <1> QED  BY <1>2, <1>3, <1>4

LEMMA JudgeHolds ==
    ASSUME EvidenceInv, Sufficient(bundle, auditor), UNCHANGED <<surroundings, spent>>,
           \/ JudgeByCodex /\ auditor = "codex"
           \/ /\ JudgeByResponses /\ auditor = "bounded"
              /\ checkout.head = 1 /\ OnTheCommit(instants)
    PROVE  EvidenceInv'
  <1>1. spent \in Nat /\ Within(spent, MonthLimits) /\ EvidenceTyped
    BY DEF EvidenceInv, EvidenceTyped, Affordable
  <1>2. /\ Gate \in {"none", "HUMAN_REQUIRED", "REWORK"}
        /\ Gate # "none" => Supports(bundle, Gate)
        /\ Gate = "none" => Supports(bundle, "PASS")
    BY <1>1, GateSupports
  <1>3. CASE Gate # "none"
    <2>1. Gate \in Verdicts /\ Delivers(Gate)
      BY <1>2, <1>3 DEF Verdicts, JudgeByCodex, JudgeByResponses
    <2> HIDE DEF Gate
    <2> QED  BY <1>1, <1>2, <1>3, <2>1, DeliverHolds
  <1>4. CASE Gate = "none" /\ \E v \in {"HUMAN_REQUIRED"} : Ends(v)
    BY <1>1, <1>4, EndHolds DEF Verdicts
  <1>5. CASE Gate = "none" /\ Asks("codex")
    BY <1>1, <1>2, <1>5, AskHolds
  <1>6. CASE Gate = "none" /\ Asks("post") /\ ~Blocked
    <2>1. Within(spent + Ceiling, MonthLimits)
      BY <1>6 DEF Blocked
    <2> QED  BY <1>1, <1>2, <1>6, <2>1, AskHolds
  <1> QED  BY <1>3, <1>4, <1>5, <1>6 DEF JudgeByCodex, JudgeByResponses, Unsendable

LEMMA SecondHolds ==
    ASSUME EvidenceInv, SecondIdentity
    PROVE  EvidenceInv'
  <1>1. /\ auditPc = "again" /\ UNCHANGED <<surroundings, spent>>
        /\ spent' \in Nat /\ Within(spent', MonthLimits)
        /\ gate \in {"evidence", "answer", "controller"} /\ auditor \in Auditors
        /\ answer \in Answered
        /\ OnTheCommit(instants)
    BY DEF EvidenceInv, SecondIdentity, EvidenceTyped, Affordable, GateLooks, Looking
  <1>2. CASE ~SecondLook
    BY <1>1, <1>2, EndHolds DEF SecondIdentity, Rejected, Verdicts
  <1>3. CASE SecondLook /\ gate = "evidence"
    <2>1. auditor # "responses" /\ Sufficient(bundle, auditor)
      BY <1>3 DEF EvidenceInv, Judges
    <2>2. CASE auditor = "bounded"
      <3>1. JudgeByResponses
        BY <1>1, <1>3, <2>2 DEF SecondIdentity
      <3> QED  BY <1>1, <1>3, <2>1, <2>2, <3>1, JudgeHolds DEF SecondLook, Identified
    <2>3. CASE auditor = "codex"
      <3>1. auditPc' = "bound" /\ Looks
        BY <1>1, <1>3, <2>3 DEF SecondIdentity
      <3> QED  BY <1>1, <1>3, <2>3, <3>1, LookHolds DEF Looking
    <2> QED  BY <1>1, <2>1, <2>2, <2>3 DEF Auditors
  <1>4. CASE SecondLook /\ gate = "answer"
    <2>1. Delivers(answer)
      BY <1>1, <1>4 DEF SecondIdentity
    <2>2. auditor # "responses" => Sufficient(bundle, auditor) /\ Supports(bundle, answer)
      BY <1>4 DEF EvidenceInv, Judges
    <2>3. answer \in Verdicts
      BY <1>4 DEF EvidenceInv, Judges
    <2> QED  BY <1>1, <1>4, <2>1, <2>2, <2>3, DeliverHolds DEF SecondLook, Identified
  <1>5. CASE SecondLook /\ gate = "controller"
    <2>1. Ends(answer)
      BY <1>1, <1>5 DEF SecondIdentity
    <2>2. auditor # "responses" => Sufficient(bundle, auditor) /\ Supports(bundle, answer)
      BY <1>5 DEF EvidenceInv, Judges
    <2>3. answer \in Verdicts
      BY <1>5 DEF EvidenceInv, Judges
    <2> QED  BY <1>1, <1>5, <2>1, <2>2, <2>3, EndHolds DEF SecondLook, Identified
  <1> QED  BY <1>1, <1>2, <1>3, <1>4, <1>5

LEMMA BindHolds ==
    ASSUME EvidenceInv, BindIdentity
    PROVE  EvidenceInv'
  <1>1. /\ UNCHANGED <<surroundings, spent>> /\ spent' \in Nat /\ Within(spent', MonthLimits)
        /\ gate = "evidence" /\ auditor = "codex" /\ Sufficient(bundle, auditor)
    BY DEF EvidenceInv, BindIdentity, EvidenceTyped, Affordable, GateLooks, Judges
  <1>2. CASE Raises
    BY <1>1, <1>2, EndHolds DEF Raises
  <1>3. CASE JudgeByCodex
    BY <1>1, <1>3, JudgeHolds
  <1> QED  BY <1>2, <1>3 DEF BindIdentity

\* A verdict of the judge, on evidence that the gate let pass.
LEMMA ConcludeHolds ==
    ASSUME EvidenceInv, auditPc \in Asking, NEW v \in Verdicts, Concludes(v),
           UNCHANGED surroundings, spent' \in Nat, Within(spent', MonthLimits)
    PROVE  EvidenceInv'
  <1>1. auditor # "responses" => Sufficient(bundle, auditor) /\ Supports(bundle, v)
    BY DEF EvidenceInv, Judges, Supports, Verdicts
  <1>2. CASE v = "HUMAN_REQUIRED"
    BY <1>2, EndHolds DEF Concludes
  <1>3. CASE v # "HUMAN_REQUIRED" /\ auditor = "responses"
    BY <1>3, DeliverHolds DEF Concludes
  <1>4. CASE v # "HUMAN_REQUIRED" /\ auditor # "responses"
    <2>1. answer' = v /\ Validate("answer") /\ GoesOn(result)
      BY <1>4 DEF Concludes
    <2> QED  BY <1>1, <2>1, ValidateHolds DEF Answered
  <1> QED  BY <1>2, <1>3, <1>4

LEMMA AnswerHolds ==
    ASSUME EvidenceInv, RunCodex \/ GiveUpPolling \/ ReadResponse
    PROVE  EvidenceInv'
  <1>1. /\ UNCHANGED surroundings
        /\ spent \in Nat /\ Within(spent, MonthLimits)
        /\ auditPc \in {"codex", "poll"}
    BY DEF EvidenceInv, EvidenceTyped, Affordable, RunCodex, GiveUpPolling, ReadResponse
  <1>2. spent' \in Nat /\ Within(spent', MonthLimits)
    <2>1. CASE ReadResponse
      <3>1. PICK cost \in 1..Ceiling : spent' = Reconciled(cost)
        BY <2>1 DEF ReadResponse
      <3>2. auditor = "bounded" => Within(spent + Ceiling, MonthLimits)
        BY <2>1 DEF EvidenceInv, Affordable, ReadResponse
      <3>3. CASE auditor = "bounded"
        <4>1. spent' = spent + cost
          BY <3>1, <3>3 DEF Reconciled
        <4>2. \A limit \in MonthLimits : spent + cost <= limit
          <5> TAKE limit \in MonthLimits
          <5>1. spent + Ceiling <= limit
            BY <3>2, <3>3 DEF Within
          <5> QED  BY <1>1, <5>1, MonthIs
        <4> QED  BY <1>1, <4>1, <4>2, MonthIs DEF Within
      <3>4. CASE auditor # "bounded"
        BY <1>1, <3>1, <3>4 DEF Reconciled
      <3> QED  BY <3>3, <3>4
    <2> QED  BY <1>1, <2>1 DEF RunCodex, GiveUpPolling
  <1>3. CASE \E v \in {"HUMAN_REQUIRED", "raised"} : Ends(v)
    BY <1>1, <1>2, <1>3, EndHolds DEF Verdicts
  <1>4. CASE \E v \in Verdicts : Concludes(v)
    BY <1>1, <1>2, <1>4, ConcludeHolds DEF Asking
  <1>5. ReadResponse => \/ \E v \in {"HUMAN_REQUIRED", "raised"} : Ends(v)
                        \/ \E v \in Verdicts : Concludes(v)
    BY DEF ReadResponse, Answers, Unusable, Verdicts
  <1> QED  BY <1>3, <1>4, <1>5 DEF RunCodex, GiveUpPolling, Raises

LEMMA PostHolds ==
    ASSUME EvidenceInv, PostRequest
    PROVE  EvidenceInv'
  <1>1. /\ auditPc = "post" /\ UNCHANGED <<surroundings, spent>>
        /\ spent \in Nat /\ Within(spent, MonthLimits)
    BY DEF EvidenceInv, EvidenceTyped, Affordable, PostRequest
  <1>2. CASE Raises
    BY <1>1, <1>2, EndHolds DEF Raises
  <1>3. CASE /\ auditPc' \in {"post", "poll"}
             /\ UNCHANGED <<gate, auditor, bundle, answer, result, instants>>
    <2>1. UNCHANGED <<checkout, github>>
      BY <1>1 DEF surroundings
    <2>2. EvidenceTyped'
      BY <1>1, <1>3, <2>1 DEF EvidenceInv, EvidenceTyped, Asking
    <2> QED  BY <1>1, <1>3, <2>1, <2>2, NoGathering DEF EvidenceInv, GateLooks, Follows,
                  Judges, Affordable, Looking, Asking, Collecting, LeavesOnTheCommit,
                  StandsOnTheEvidence, Autonomous
  <1> QED  BY <1>1, <1>2, <1>3 DEF PostRequest

-----------------------------------------------------------------------------
(* Around the audit.                                                         *)

\* Nothing that was collected is lost when HEAD is left.
LEMMA MovedBundle ==
    ASSUME EvidenceInv, NEW w \in Worktrees, checkout' = w, github' = github,
           bundle' = [bundle EXCEPT !.left = @ \/ (bundle.head # 0 /\ w.head # bundle.head)]
    PROVE  /\ bundle' \in Bundles /\ Follows'
           /\ bundle' = [bundle EXCEPT !.left = bundle'.left]
           /\ bundle.left => bundle'.left
           /\ \A place : Gathered(place, bundle) => Gathered(place, bundle)'
           /\ \A a : Sufficient(bundle, a) => Sufficient(bundle', a)
           /\ \A v : Supports(bundle, v) => Supports(bundle', v)
  <1> DEFINE left == bundle.left \/ (bundle.head # 0 /\ w.head # bundle.head)
  <1>1. /\ bundle' \in Bundles /\ bundle'.left = left
        /\ bundle'.head = bundle.head /\ bundle'.diff = bundle.diff /\ bundle'.git = bundle.git
        /\ bundle'.atThreads = bundle.atThreads /\ bundle'.tests = bundle.tests
        /\ bundle'.ci = bundle.ci /\ bundle'.reviews = bundle.reviews
        /\ bundle'.shown = bundle.shown
        /\ bundle' = [bundle EXCEPT !.left = bundle'.left]
    BY SoFar DEF Bundles
  <1>2. Follows'
    BY <1>1 DEF Follows
  <1>3. Shows(bundle) <=> Shows(bundle')
    BY <1>1 DEF Shows
  <1>4. ASSUME NEW place, Gathered(place, bundle) PROVE Gathered(place, bundle)'
    BY <1>1, <1>3, <1>4 DEF Gathered
  <1>5. \A a : Sufficient(bundle, a) => Sufficient(bundle', a)
    BY <1>1, <1>3 DEF Sufficient
  <1>6. \A v : Supports(bundle, v) => Supports(bundle', v)
    BY <1>1 DEF Supports
  <1> QED  BY <1>1, <1>2, <1>4, <1>5, <1>6

LEMMA MoveOnHolds ==
    ASSUME EvidenceInv, MoveOn
    PROVE  EvidenceInv'
  <1> USE DEF EvidenceInv
  <1>1. PICK w \in Worktrees :
            /\ checkout' = w
            /\ instants' = IF gate = "none" THEN {} ELSE instants \union {w}
            /\ bundle' = [bundle EXCEPT !.left =
                             @ \/ (bundle.head # 0 /\ w.head # bundle.head)]
    BY DEF MoveOn
  <1>2. /\ auditPc # "idle"
        /\ UNCHANGED <<auditPc, gate, auditor, answer, result, spent, github>>
    BY DEF MoveOn, unconcerned, money
  <1>0. /\ bundle' \in Bundles /\ Follows'
        /\ \A place : Gathered(place, bundle) => Gathered(place, bundle)'
        /\ \A a : Sufficient(bundle, a) => Sufficient(bundle', a)
        /\ \A v : Supports(bundle, v) => Supports(bundle', v)
    BY <1>1, <1>2, MovedBundle
  <1>3. EvidenceTyped'
    BY <1>0, <1>1, <1>2 DEF EvidenceTyped
  <1>4. Judges' /\ Affordable'
    BY <1>0, <1>2 DEF Judges, Affordable
  <1>7. Gathers'
    BY <1>0, <1>2 DEF Gathers, Gathered
  <1>5. GateLooks'
    <2>1. OnTheCommit(instants) => OnTheCommit(instants \union {w})
      BY DEF OnTheCommit
    <2> QED  BY <1>1, <1>2, <2>1 DEF GateLooks, Looking
  <1>6. LeavesOnTheCommit' /\ StandsOnTheEvidence'
    BY <1>2 DEF LeavesOnTheCommit, StandsOnTheEvidence, Autonomous
  <1> QED  BY <1>0, <1>3, <1>4, <1>5, <1>6, <1>7

LEMMA TalkHolds ==
    ASSUME EvidenceInv, NEW g, Talk(g),
           g \in [pr : {0, 1, 2}, rows : SUBSET {"pass", "pending", "fail"},
                  thread : Comments],
           github.thread # NoComment => Likewise(github.thread, g.thread)
    PROVE  EvidenceInv'
  <1> USE DEF EvidenceInv
  <1>1. /\ auditPc \in Collecting /\ github' = g
        /\ UNCHANGED <<auditPc, gate, auditor, bundle, answer, result, spent, checkout,
                       instants>>
    BY DEF Talk, unconcerned, money
  <1>2. EvidenceTyped'
    BY <1>1 DEF EvidenceTyped
  <1>3. /\ GateLooks' /\ Follows' /\ Judges' /\ Affordable'
        /\ LeavesOnTheCommit' /\ StandsOnTheEvidence'
    BY <1>1 DEF GateLooks, Follows, Judges, Affordable, LeavesOnTheCommit,
                StandsOnTheEvidence, Autonomous, Collecting
  <1>4. ASSUME auditPc \in {"reviews", "inline"}, Concerns(bundle.atThreads)
        PROVE  Likewise(bundle.atThreads, g.thread)
    <2>1. Likewise(bundle.atThreads, github.thread)
      BY <1>4 DEF Gathers, Gathered
    <2>2. github.thread # NoComment
      BY <1>4, <2>1 DEF Concerns, Likewise, NoComment
    <2> QED  BY <2>1, <2>2 DEF Likewise
  <1>5. Gathers'
    BY <1>1, <1>4 DEF Gathers, Gathered
  <1> QED  BY <1>2, <1>3, <1>5

LEMMA GitHubHolds ==
    ASSUME EvidenceInv, Push \/ Check \/ Comment \/ Resolve
    PROVE  EvidenceInv'
  <1>1. github \in [pr : {0, 1, 2}, rows : SUBSET {"pass", "pending", "fail"},
                    thread : Comments]
    BY DEF EvidenceInv, EvidenceTyped
  <1>2. CASE Push
    <2> PICK pr \in {1, 2} : Talk([github EXCEPT !.pr = pr, !.rows = {}])
      BY <1>2 DEF Push
    <2> DEFINE g == [github EXCEPT !.pr = pr, !.rows = {}]
    <2>1. g \in [pr : {0, 1, 2}, rows : SUBSET {"pass", "pending", "fail"},
                 thread : Comments] /\ g.thread = github.thread
      BY <1>1
    <2> HIDE DEF g
    <2> QED  BY <2>1, TalkHolds DEF g, Likewise
  <1>3. CASE Check
    <2> PICK rows \in SUBSET {"pass", "pending", "fail"} : Talk([github EXCEPT !.rows = rows])
      BY <1>3 DEF Check
    <2> DEFINE g == [github EXCEPT !.rows = rows]
    <2>1. g \in [pr : {0, 1, 2}, rows : SUBSET {"pass", "pending", "fail"},
                 thread : Comments] /\ g.thread = github.thread
      BY <1>1
    <2> HIDE DEF g
    <2> QED  BY <2>1, TalkHolds DEF g, Likewise
  <1>4. CASE Comment
    <2> PICK c \in Comments : Talk([github EXCEPT !.thread = c])
      BY <1>4 DEF Comment
    <2> DEFINE g == [github EXCEPT !.thread = c]
    <2>1. g \in [pr : {0, 1, 2}, rows : SUBSET {"pass", "pending", "fail"},
                 thread : Comments]
      BY <1>1
    <2>2. github.thread = NoComment
      BY <1>4 DEF Comment
    <2> HIDE DEF g
    <2> QED  BY <2>1, <2>2, TalkHolds DEF g
  <1>5. CASE Resolve
    <2> PICK r \in BOOLEAN : Talk([github EXCEPT !.thread.resolved = r])
      BY <1>5 DEF Resolve
    <2> DEFINE d == [github.thread EXCEPT !.resolved = r]
               g == [github EXCEPT !.thread = d]
    <2>1. g = [github EXCEPT !.thread.resolved = r]
      BY <1>1
    <2>2. d \in Comments /\ Likewise(github.thread, d)
      BY <1>1 DEF Comments, Likewise
    <2> HIDE DEF d
    <2>3. g \in [pr : {0, 1, 2}, rows : SUBSET {"pass", "pending", "fail"},
                 thread : Comments] /\ g.thread = d
      BY <1>1, <2>2
    <2>4. Talk(g)
      BY <2>1
    <2> HIDE DEF g
    <2> QED  BY <2>2, <2>3, <2>4, TalkHolds
  <1> QED  BY <1>2, <1>3, <1>4, <1>5

LEMMA EvidenceStep == EvidenceInv /\ [EvidenceNext]_evidenceVars => EvidenceInv'
  <1> SUFFICES ASSUME EvidenceInv, [EvidenceNext]_evidenceVars PROVE EvidenceInv'
    OBVIOUS
  <1>1. CASE UNCHANGED evidenceVars
    BY <1>1 DEF evidenceVars, EvidenceInv, EvidenceTyped, GateLooks, Gathers, Gathered,
                Follows, Judges, Affordable, LeavesOnTheCommit, StandsOnTheEvidence, Autonomous
  <1> QED  BY <1>1, StartHolds, GitReadHolds, ReadHolds, ThreadsHold, ReviewsHold, ConsiderHolds,
              LooksHold, SecondHolds, BindHolds, AnswerHolds, PostHolds, MoveOnHolds,
              GitHubHolds DEF EvidenceNext

\* The invariant that VerdictsAreTrue is a part of.
THEOREM EvidenceInductive == EvidenceSpec => []EvidenceInv
  BY EvidenceInitInv, EvidenceStep, PTL DEF EvidenceSpec

\* What an audit passes on is true, for any limits and ceilings, any number of audits
\* and any faults and changes around them.
THEOREM TrueVerdicts == EvidenceSpec => []VerdictsAreTrue
  <1>1. EvidenceInv => VerdictsAreTrue
    BY DEF EvidenceInv, VerdictsAreTrue, Affordable, WithinTheMonth
  <1> QED  BY <1>1, EvidenceInductive, PTL

------------------------------------------------------------------------------
(* The data root, for any writers, sources and contents: who holds the lock, what
   the interrupted writer left behind, and that the root a reader finds is whole. *)

Digests == Contents \union {"failed"}
Trees ==
    [registry : SUBSET Sources, snapshots : [Personal -> Contents \union {Absent}],
     documents : [Sources -> Contents \union {Absent}],
     index : [Sources -> Digests \union {Absent}],
     indexed : BOOLEAN, marker : BOOLEAN]

Syncs == [kind : {"sync"}, src : Sources, value : Digests]
Jobs ==
    [kind : {"register"}, src : Canonical] \union Syncs
    \union [kind : {"import", "directory"}, src : Personal, value : Contents]
    \union [kind : {"clear"}] \union [kind : {"backup"}, dest : Dests]

WriteOps ==
    [file : {"registry", "snapshot", "document", "index"}, src : Sources,
     value : Digests \union {Absent}]
    \union [file : {"documents", "clear"}, src : {Sources}, value : {Absent}]

Tasks ==
    {Free}
    \union [is : {"ready"}, job : Jobs, after : Syncs \union {Absent}]
    \union [is : {"waiting"}, job : Jobs, after : Syncs \union {Absent}, dir : Directories]
    \union [is : {"inside"}, job : Jobs, after : Syncs \union {Absent}, dir : Directories,
            todo : Seq(WriteOps)]
    \union [is : {"copying", "filling", "publishing"}, what : Trees, dest : Dests,
            from : {"root", "backup"}]

Shelved == {Nothing, Half, Damaged} \union {Whole(t) : t \in Trees}

RootTyped ==
    /\ tree \in [Directories -> Trees]
    /\ rootPath \in Directories
    /\ lockedBy \in [Directories -> Writers \union {Absent}]
    /\ task \in [Writers -> Tasks]
    /\ copies \in [Dests -> [target : Shelved, partial : Shelved, from : {"root", "backup"}]]
    /\ harmed \in [Directories -> BOOLEAN]

\* A personal source that is registered has its snapshot.
Anchored(t) == \A s \in Personal \cap t.registry : t.snapshots[s] # Absent
WholeTree(t) == Readable(t) /\ Anchored(t)

\* What a tree is before the writes that a section has left.
Unprojected(t, s, v) ==
    /\ ~t.marker
    /\ \A x \in Sources \ {s} : t.index[x] \in {Absent, "failed", t.documents[x]}
    /\ v \in {"failed", t.documents[s]}
Cleared(t) == ~t.marker /\ \A s \in Sources : t.documents[s] = Absent
Registrable(t, s) == s \notin t.registry /\ (s \in Personal => t.snapshots[s] # Absent)

OnlyIndex(t, todo, h, r) ==
    \E s \in Sources, v \in Digests :
        todo = <<Write("index", s, v)>> /\ (~h[r] => Unprojected(t, s, v))
Projects(t, todo, h, r) ==
    \E s \in Sources, v \in Contents :
        /\ todo = <<Write("document", s, v), Write("index", s, v)>>
        /\ ~h[r] => Readable(t)
Registers(t, todo, h, r) ==
    \E s \in Sources, v \in Contents \union {Absent} :
        /\ \/ todo = <<Write("registry", s, v)>>
           \/ /\ v \in Contents
              /\ todo = <<Write("registry", s, v), Write("document", s, v),
                          Write("index", s, v)>>
        /\ Registrable(t, s)
        /\ ~h[r] => Readable(t)
Snapshots(t, todo, h, r) ==
    \E s \in Personal, v \in Contents :
        /\ \/ s \notin t.registry /\ todo = <<Write("snapshot", s, v), Write("registry", s, v)>>
           \/ /\ s \notin t.registry
              /\ todo = <<Write("snapshot", s, v), Write("registry", s, v),
                          Write("document", s, v), Write("index", s, v)>>
           \/ todo = <<Write("snapshot", s, v), Write("document", s, v), Write("index", s, v)>>
        /\ ~h[r] => Readable(t)
Clears(t, todo, h, r) ==
    \/ /\ todo = <<Write("documents", Sources, Absent), Write("clear", Sources, Absent)>>
       /\ ~h[r] => Readable(t)
    \/ /\ todo = <<Write("clear", Sources, Absent)>>
       /\ ~h[r] => Cleared(t)
Section(t, todo, h, r) ==
    \/ todo = <<>> /\ (~h[r] => Readable(t))
    \/ OnlyIndex(t, todo, h, r) \/ Projects(t, todo, h, r) \/ Registers(t, todo, h, r)
    \/ Snapshots(t, todo, h, r) \/ Clears(t, todo, h, r)

\* Who is in a section holds the lock of the directory at the path.
Sectioned ==
    \A p \in Writers : task[p].is = "inside" =>
        /\ task[p].dir = rootPath /\ lockedBy[rootPath] = p
        /\ Section(tree[rootPath], task[p].todo, harmed, rootPath)

\* A partial directory belongs to the one who made it.
Copies ==
    /\ \A p \in Writers :
          /\ task[p].is \in {"copying", "filling", "publishing"} => WholeTree(task[p].what)
          /\ task[p].is = "filling" => copies[task[p].dest].partial = Half
          /\ task[p].is = "publishing" => copies[task[p].dest].partial = Whole(task[p].what)
    /\ \A p, q \in Writers :
          /\ task[p].is \in {"filling", "publishing"}
          /\ task[q].is \in {"filling", "publishing"}
          /\ task[p].dest = task[q].dest
          => p = q

RootInv ==
    /\ RootTyped
    /\ Anchored(tree[rootPath])
    /\ Sectioned /\ Copies
    /\ CopiesAreWhole /\ QuietRootIsReadable
-----------------------------------------------------------------------------
(* The writes of a section.                                                  *)

LEMMA Tuples ==
    \A x, y, z, w :
        /\ Head(<<x>>) = x /\ Tail(<<x>>) = <<>> /\ <<x>> # <<>>
        /\ Head(<<x, y>>) = x /\ Tail(<<x, y>>) = <<y>> /\ <<x, y>> # <<>>
        /\ Head(<<x, y, z>>) = x /\ Tail(<<x, y, z>>) = <<y, z>> /\ <<x, y, z>> # <<>>
        /\ Head(<<x, y, z, w>>) = x /\ Tail(<<x, y, z, w>>) = <<y, z, w>>
        /\ <<x, y, z, w>> # <<>>
  OBVIOUS

\* What one write leaves of the tree.
Shot(t, s, v) == [t EXCEPT !.snapshots[s] = v]
Enrolled(t, s) == [t EXCEPT !.registry = t.registry \union {s}]
Documented(t, s, v) == [t EXCEPT !.documents[s] = v]
Indexed(t, s, v) == [t EXCEPT !.index[s] = v, !.indexed = TRUE]
Emptied(t) == [t EXCEPT !.documents = [s \in Sources |-> Absent]]
Unindexed(t) == [t EXCEPT !.index = NoIndex, !.indexed = TRUE]

LEMMA WrittenIs ==
    ASSUME NEW t, NEW s, NEW v
    PROVE  /\ Written(t, Write("snapshot", s, v)) = Shot(t, s, v)
           /\ Written(t, Write("registry", s, v)) = Enrolled(t, s)
           /\ Written(t, Write("document", s, v)) = Documented(t, s, v)
           /\ Written(t, Write("index", s, v)) = Indexed(t, s, v)
           /\ Written(t, Write("documents", Sources, Absent)) = Emptied(t)
           /\ Written(t, Write("clear", Sources, Absent)) = Unindexed(t)
  <1>1. Written(t, Write("registry", s, v)) = Enrolled(t, s)
    BY DEF Written, Write, Enrolled
  <1>2. Written(t, Write("snapshot", s, v)) = Shot(t, s, v)
    BY DEF Written, Write, Shot
  <1>3. Written(t, Write("document", s, v)) = Documented(t, s, v)
    BY DEF Written, Write, Documented
  <1>4. Written(t, Write("index", s, v)) = Indexed(t, s, v)
    BY DEF Written, Write, Indexed
  <1>5. Written(t, Write("documents", Sources, Absent)) = Emptied(t)
    BY DEF Written, Write, Emptied
  <1>6. Written(t, Write("clear", Sources, Absent)) = Unindexed(t)
    BY DEF Written, Write, Unindexed
  <1> QED  BY <1>1, <1>2, <1>3, <1>4, <1>5, <1>6

LEMMA WrittenTyped ==
    ASSUME NEW t \in Trees, NEW s \in Sources
    PROVE  /\ Enrolled(t, s) \in Trees
           /\ \A v \in Contents : s \in Personal => Shot(t, s, v) \in Trees
           /\ \A v \in Contents : Documented(t, s, v) \in Trees
           /\ \A v \in Digests : Indexed(t, s, v) \in Trees
  <1>1. Enrolled(t, s) \in Trees
    BY DEF Trees, Enrolled
  <1>2. ASSUME NEW v \in Contents, s \in Personal PROVE Shot(t, s, v) \in Trees
    BY <1>2 DEF Trees, Shot
  <1>3. ASSUME NEW v \in Contents PROVE Documented(t, s, v) \in Trees
    BY DEF Trees, Documented
  <1>4. ASSUME NEW v \in Digests PROVE Indexed(t, s, v) \in Trees
    BY DEF Trees, Indexed
  <1> QED  BY <1>1, <1>2, <1>3, <1>4

LEMMA AllTyped ==
    ASSUME NEW t \in Trees
    PROVE  Emptied(t) \in Trees /\ Unindexed(t) \in Trees
  BY DEF Trees, Emptied, Unindexed, NoIndex

\* A write of a section leads to the section that is left.
LEMMA SectionGoesOn ==
    ASSUME NEW t \in Trees, NEW todo, NEW h, NEW r, Section(t, todo, h, r),
           todo # <<>>, Anchored(t)
    PROVE  /\ Written(t, Head(todo)) \in Trees
           /\ Anchored(Written(t, Head(todo)))
           /\ Section(Written(t, Head(todo)), Tail(todo), h, r)
  <1>1. CASE OnlyIndex(t, todo, h, r)
    <2> PICK s \in Sources, v \in Digests :
            todo = <<Write("index", s, v)>> /\ (~h[r] => Unprojected(t, s, v))
      BY <1>1 DEF OnlyIndex
    <2> DEFINE u == Indexed(t, s, v)
    <2>1. Written(t, Head(todo)) = u /\ u \in Trees /\ Tail(todo) = <<>>
      <3>1. Head(todo) = Write("index", s, v) /\ Tail(todo) = <<>>
        BY Tuples
      <3>2. Written(t, Write("index", s, v)) = u /\ u \in Trees
        BY WrittenIs, WrittenTyped
      <3> QED  BY <3>1, <3>2
    <2>2. Anchored(u)
      BY DEF Anchored, Trees, Indexed
    <2>3. Unprojected(t, s, v) => Readable(u)
      BY DEF Unprojected, Readable, Trees, Indexed
    <2> HIDE DEF u
    <2> QED  BY <2>1, <2>2, <2>3 DEF Section
  <1>2. CASE Projects(t, todo, h, r)
    <2> PICK s \in Sources, v \in Contents :
            /\ todo = <<Write("document", s, v), Write("index", s, v)>>
            /\ ~h[r] => Readable(t)
      BY <1>2 DEF Projects
    <2> DEFINE u == Documented(t, s, v)
    <2>1. /\ Written(t, Head(todo)) = u /\ u \in Trees
          /\ Tail(todo) = <<Write("index", s, v)>>
      <3>1. Head(todo) = Write("document", s, v) /\ Tail(todo) = <<Write("index", s, v)>>
        BY Tuples
      <3>2. Written(t, Write("document", s, v)) = u /\ u \in Trees
        BY WrittenIs, WrittenTyped
      <3> QED  BY <3>1, <3>2
    <2>2. Anchored(u)
      BY DEF Anchored, Trees, Documented
    <2>3. Readable(t) => Unprojected(u, s, v)
      BY DEF Unprojected, Readable, Trees, Documented
    <2> HIDE DEF u
    <2>4. OnlyIndex(u, Tail(todo), h, r)
      BY <2>1, <2>3 DEF OnlyIndex, Digests
    <2> QED  BY <2>1, <2>2, <2>4 DEF Section
  <1>3. CASE Registers(t, todo, h, r)
    <2> PICK s \in Sources, v \in Contents \union {Absent} :
            /\ \/ todo = <<Write("registry", s, v)>>
               \/ /\ v \in Contents
                  /\ todo = <<Write("registry", s, v), Write("document", s, v),
                              Write("index", s, v)>>
            /\ Registrable(t, s)
            /\ ~h[r] => Readable(t)
      BY <1>3 DEF Registers
    <2> DEFINE u == Enrolled(t, s)
    <2>1. Written(t, Head(todo)) = u /\ u \in Trees
      <3>1. Head(todo) = Write("registry", s, v)
        BY Tuples
      <3>2. Written(t, Write("registry", s, v)) = u /\ u \in Trees
        BY WrittenIs, WrittenTyped
      <3> QED  BY <3>1, <3>2
    <2>2. Anchored(u)
      BY DEF Anchored, Trees, Enrolled, Registrable
    <2>3. Readable(t) => Readable(u)
      BY DEF Readable, Trees, Enrolled
    <2> HIDE DEF u
    <2>4. CASE todo = <<Write("registry", s, v)>>
      BY <2>1, <2>2, <2>3, <2>4, Tuples DEF Section
    <2>5. CASE /\ v \in Contents
               /\ todo = <<Write("registry", s, v), Write("document", s, v),
                           Write("index", s, v)>>
      <3>1. Tail(todo) = <<Write("document", s, v), Write("index", s, v)>>
        BY <2>5, Tuples
      <3>2. Projects(u, Tail(todo), h, r)
        BY <2>3, <2>5, <3>1 DEF Projects
      <3> QED  BY <2>1, <2>2, <3>2 DEF Section
    <2> QED  BY <2>4, <2>5
  <1>4. CASE Snapshots(t, todo, h, r)
    <2> PICK s \in Personal, v \in Contents :
            /\ \/ /\ s \notin t.registry
                  /\ todo = <<Write("snapshot", s, v), Write("registry", s, v)>>
               \/ /\ s \notin t.registry
                  /\ todo = <<Write("snapshot", s, v), Write("registry", s, v),
                              Write("document", s, v), Write("index", s, v)>>
               \/ todo = <<Write("snapshot", s, v), Write("document", s, v),
                           Write("index", s, v)>>
            /\ ~h[r] => Readable(t)
      BY <1>4 DEF Snapshots
    <2> DEFINE u == Shot(t, s, v)
    <2>1. s \in Sources /\ v # Absent
      BY RootAssumption DEF Sources
    <2>2. Written(t, Head(todo)) = u /\ u \in Trees
      <3>1. Head(todo) = Write("snapshot", s, v)
        BY Tuples
      <3>2. Written(t, Write("snapshot", s, v)) = u /\ u \in Trees
        BY <2>1, WrittenIs, WrittenTyped
      <3> QED  BY <3>1, <3>2
    <2>3. Anchored(u) /\ (s \notin t.registry => Registrable(u, s))
      BY <2>1 DEF Anchored, Trees, Shot, Registrable
    <2>4. Readable(t) => Readable(u)
      BY DEF Readable, Trees, Shot
    <2> HIDE DEF u
    <2>5. CASE /\ s \notin t.registry
               /\ todo = <<Write("snapshot", s, v), Write("registry", s, v)>>
      <3>1. Tail(todo) = <<Write("registry", s, v)>>
        BY <2>5, Tuples
      <3>2. Registers(u, Tail(todo), h, r)
        BY <2>1, <2>3, <2>4, <2>5, <3>1 DEF Registers
      <3> QED  BY <2>2, <2>3, <3>2 DEF Section
    <2>6. CASE /\ s \notin t.registry
               /\ todo = <<Write("snapshot", s, v), Write("registry", s, v),
                           Write("document", s, v), Write("index", s, v)>>
      <3>1. Tail(todo) = <<Write("registry", s, v), Write("document", s, v),
                           Write("index", s, v)>>
        BY <2>6, Tuples
      <3>2. Registers(u, Tail(todo), h, r)
        BY <2>1, <2>3, <2>4, <2>6, <3>1 DEF Registers
      <3> QED  BY <2>2, <2>3, <3>2 DEF Section
    <2>7. CASE todo = <<Write("snapshot", s, v), Write("document", s, v),
                        Write("index", s, v)>>
      <3>1. Tail(todo) = <<Write("document", s, v), Write("index", s, v)>>
        BY <2>7, Tuples
      <3>2. Projects(u, Tail(todo), h, r)
        BY <2>1, <2>4, <3>1 DEF Projects
      <3> QED  BY <2>2, <2>3, <3>2 DEF Section
    <2> QED  BY <2>5, <2>6, <2>7
  <1>5. CASE Clears(t, todo, h, r)
    <2>1. CASE /\ todo = <<Write("documents", Sources, Absent),
                           Write("clear", Sources, Absent)>>
               /\ ~h[r] => Readable(t)
      <3> DEFINE u == Emptied(t)
      <3>1. /\ Written(t, Head(todo)) = u /\ u \in Trees
            /\ Tail(todo) = <<Write("clear", Sources, Absent)>>
        <4>1. /\ Head(todo) = Write("documents", Sources, Absent)
              /\ Tail(todo) = <<Write("clear", Sources, Absent)>>
          BY <2>1, Tuples
        <4> QED  BY <4>1, WrittenIs, AllTyped
      <3>2. Anchored(u)
        BY DEF Anchored, Trees, Emptied
      <3>3. Readable(t) => Cleared(u)
        BY DEF Readable, Trees, Emptied, Cleared
      <3> HIDE DEF u
      <3>4. Clears(u, Tail(todo), h, r)
        BY <2>1, <3>1, <3>3 DEF Clears
      <3> QED  BY <3>1, <3>2, <3>4 DEF Section
    <2>2. CASE todo = <<Write("clear", Sources, Absent)>> /\ (~h[r] => Cleared(t))
      <3> DEFINE u == Unindexed(t)
      <3>1. /\ Written(t, Head(todo)) = u /\ u \in Trees /\ Tail(todo) = <<>>
        <4>1. Head(todo) = Write("clear", Sources, Absent) /\ Tail(todo) = <<>>
          BY <2>2, Tuples
        <4> QED  BY <4>1, WrittenIs, AllTyped
      <3>2. Anchored(u)
        BY DEF Anchored, Trees, Unindexed
      <3>3. Cleared(t) => Readable(u)
        BY DEF Readable, Trees, Unindexed, Cleared, NoIndex
      <3> HIDE DEF u
      <3> QED  BY <2>2, <3>1, <3>2, <3>3 DEF Section
    <2> QED  BY <1>5, <2>1, <2>2 DEF Clears
  <1> QED  BY <1>1, <1>2, <1>3, <1>4, <1>5 DEF Section
\* What a section writes next is in one of its files; what it registers is new.
LEMMA HeadIs ==
    ASSUME NEW t \in Trees, NEW todo, NEW h, NEW r, Section(t, todo, h, r), todo # <<>>
    PROVE  \E f, s, v :
              /\ Head(todo) = Write(f, s, v)
              /\ f = "registry" => s \in Sources /\ s \notin t.registry
  <1>1. CASE OnlyIndex(t, todo, h, r)
    <2> PICK s \in Sources, v \in Digests : todo = <<Write("index", s, v)>>
      BY <1>1 DEF OnlyIndex
    <2> QED  BY Tuples
  <1>2. CASE Projects(t, todo, h, r)
    <2> PICK s \in Sources, v \in Contents :
            todo = <<Write("document", s, v), Write("index", s, v)>>
      BY <1>2 DEF Projects
    <2> QED  BY Tuples
  <1>3. CASE Registers(t, todo, h, r)
    <2> PICK s \in Sources, v \in Contents \union {Absent} :
            /\ \/ todo = <<Write("registry", s, v)>>
               \/ todo = <<Write("registry", s, v), Write("document", s, v),
                           Write("index", s, v)>>
            /\ Registrable(t, s)
      BY <1>3 DEF Registers
    <2>1. Head(todo) = Write("registry", s, v)
      BY Tuples
    <2> QED  BY <2>1 DEF Registrable
  <1>4. CASE Snapshots(t, todo, h, r)
    <2> PICK s \in Personal, v \in Contents :
            \/ todo = <<Write("snapshot", s, v), Write("registry", s, v)>>
            \/ todo = <<Write("snapshot", s, v), Write("registry", s, v),
                        Write("document", s, v), Write("index", s, v)>>
            \/ todo = <<Write("snapshot", s, v), Write("document", s, v),
                        Write("index", s, v)>>
      BY <1>4 DEF Snapshots
    <2>1. Head(todo) = Write("snapshot", s, v)
      BY Tuples
    <2> QED  BY <2>1
  <1>5. CASE Clears(t, todo, h, r)
    <2>1. PICK f \in {"documents", "clear"} : Head(todo) = Write(f, Sources, Absent)
      BY <1>5, Tuples DEF Clears
    <2> QED  BY <2>1
  <1> QED  BY <1>1, <1>2, <1>3, <1>4, <1>5 DEF Section

Marked(t) == [t EXCEPT !.marker = TRUE]
Unshot(t, s) == [t EXCEPT !.snapshots[s] = Absent]

\* A section that breaks off takes no snapshot from under a registered source.
LEMMA SectionBreaks ==
    ASSUME NEW t \in Trees, NEW todo, NEW h, NEW r, Section(t, todo, h, r), todo # <<>>,
           Anchored(t), NEW job, NEW x, x \in Torn(t, Head(todo)),
           NEW u, u = x \/ u = CleanedUp(x, Head(todo), job)
    PROVE  u \in Trees /\ Anchored(u)
  <1> PICK f, s, v : /\ Head(todo) = Write(f, s, v)
                     /\ f = "registry" => s \in Sources /\ s \notin t.registry
    BY HeadIs
  <1>1. x \in Trees /\ Anchored(x) /\ x.registry = t.registry
    <2>1. CASE f = "documents"
      <3> DEFINE w == Head(todo)
      <3>0. w.file = "documents" /\ w = Write(f, s, v)
        BY <2>1 DEF Write
      <3> HIDE DEF w
      <3>2. x \in Torn(t, w)
        BY DEF w
      <3> PICK gone \in SUBSET Sources : x = Written(t, [w EXCEPT !.src = gone])
        BY <3>0, <3>2 DEF Torn
      <3>3. [w EXCEPT !.src = gone] = Write("documents", gone, v)
        BY <2>1, <3>0 DEF Write
      <3>1. x = [t EXCEPT !.documents =
                    [y \in Sources |-> IF y \in gone THEN Absent ELSE t.documents[y]]]
        BY <3>3 DEF Written, Write
      <3> QED  BY <3>1 DEF Trees, Anchored
    <2>2. CASE f # "documents"
      <3>1. x \in {t, Marked(t)}
        BY <2>2 DEF Torn, Write, Marked
      <3>2. Marked(t) \in Trees /\ Anchored(Marked(t)) /\ Marked(t).registry = t.registry
        BY DEF Trees, Anchored, Marked
      <3> QED  BY <3>1, <3>2
    <2> QED  BY <2>1, <2>2
  <1>2. CASE u # x
    <2>1. f = "registry" /\ u = Unshot(x, s)
      BY <1>2 DEF CleanedUp, Write, Unshot
    <2>2. Unshot(x, s) \in Trees
      BY <1>1 DEF Trees, Unshot
    <2>3. Anchored(Unshot(x, s))
      BY <1>1, <2>1 DEF Trees, Anchored, Unshot
    <2> QED  BY <2>1, <2>2, <2>3
  <1> QED  BY <1>1, <1>2

\* What a section writes, once it holds the lock.
LEMMA ProjectingBegins ==
    ASSUME NEW t \in Trees, NEW s \in Sources, NEW v \in Digests, NEW h, NEW r,
           ~h[r] => Readable(t)
    PROVE  Section(t, Projecting(t, s, v), h, r)
  <1>1. CASE v # "failed"
    <2>1. Projecting(t, s, v) = <<Write("document", s, v), Write("index", s, v)>>
      BY <1>1 DEF Projecting
    <2>2. Projects(t, Projecting(t, s, v), h, r)
      BY <1>1, <2>1 DEF Projects, Digests
    <2> QED  BY <2>2 DEF Section
  <1>2. CASE v = "failed"
    <2> DEFINE w == IF t.index[s] = Absent THEN "failed" ELSE t.index[s]
    <2>1. Projecting(t, s, v) = <<Write("index", s, w)>>
      BY <1>2 DEF Projecting
    <2>2. w \in Digests
      BY DEF Trees, Digests
    <2>3. Readable(t) => Unprojected(t, s, w)
      BY DEF Readable, Unprojected
    <2> HIDE DEF w
    <2>4. OnlyIndex(t, Projecting(t, s, v), h, r)
      BY <2>1, <2>2, <2>3 DEF OnlyIndex
    <2> QED  BY <2>4 DEF Section
  <1> QED  BY <1>1, <1>2

LEMMA SectionBegins ==
    ASSUME NEW t \in Trees, NEW job \in Jobs, job.kind # "backup", NEW h, NEW r,
           ~h[r] => Readable(t)
    PROVE  Section(t, Writes(t, job), h, r)
  <1>1. CASE job.kind = "register"
    <2>1. job.src \in Canonical
      BY <1>1 DEF Jobs, Syncs
    <2>2. CASE job.src \in t.registry
      <3>1. Writes(t, job) = <<>>
        BY <1>1, <2>2 DEF Writes
      <3> QED  BY <3>1 DEF Section
    <2>3. CASE job.src \notin t.registry
      <3>1. Writes(t, job) = <<Write("registry", job.src, Absent)>>
        BY <1>1, <2>3 DEF Writes
      <3>2. Registrable(t, job.src) /\ job.src \in Sources
        BY <2>1, <2>3, RootAssumption DEF Registrable, Sources
      <3>3. Registers(t, Writes(t, job), h, r)
        BY <3>1, <3>2 DEF Registers
      <3> QED  BY <3>3 DEF Section
    <2> QED  BY <2>2, <2>3
  <1>2. CASE job.kind = "sync"
    <2>1. job.src \in Sources /\ job.value \in Digests
      BY <1>2 DEF Jobs, Syncs
    <2>2. Writes(t, job) = Projecting(t, job.src, job.value)
      BY <1>2 DEF Writes
    <2> QED  BY <2>1, <2>2, ProjectingBegins
  <1>3. CASE job.kind \in {"import", "directory"}
    <2> DEFINE s == job.src
               v == job.value
               new == <<Write("snapshot", s, v), Write("registry", s, v),
                        Write("document", s, v), Write("index", s, v)>>
               old == <<Write("snapshot", s, v), Write("document", s, v),
                        Write("index", s, v)>>
    <2>1. s \in Personal /\ v \in Contents
      BY <1>3 DEF Jobs, Syncs
    <2>2. v # "failed" /\ s \in Sources /\ v \in Digests
      BY <2>1, RootAssumption DEF Sources, Digests
    <2> HIDE DEF s, v
    <2>4. CASE s \notin t.registry
      <3>1. Importing(t, s, v) = new
        BY <2>4 DEF Importing
      <3>3. Writes(t, job) \in {new, <<Write("snapshot", s, v), Write("registry", s, v)>>}
        BY <1>3, <2>4, <3>1 DEF Writes, s, v
      <3> HIDE DEF new
      <3>4. Snapshots(t, Writes(t, job), h, r)
        BY <2>1, <2>4, <3>3 DEF Snapshots, new
      <3> QED  BY <3>4 DEF Section
    <2>5. CASE s \in t.registry /\ job.kind = "import"
      <3>1. Writes(t, job) = <<>>
        BY <2>5 DEF Writes, s
      <3> QED  BY <3>1 DEF Section
    <2>6. CASE s \in t.registry /\ job.kind = "directory" /\ t.snapshots[s] = v
      <3>1. Writes(t, job) = Projecting(t, s, v)
        BY <2>6 DEF Writes, Importing, s, v
      <3> QED  BY <2>2, <3>1, ProjectingBegins
    <2>7. CASE s \in t.registry /\ job.kind = "directory" /\ t.snapshots[s] # v
      <3>1. Writes(t, job) = old
        BY <2>7 DEF Writes, Importing, s, v
      <3>2. Snapshots(t, Writes(t, job), h, r)
        BY <2>1, <3>1 DEF Snapshots
      <3> QED  BY <3>2 DEF Section
    <2> QED  BY <1>3, <2>4, <2>5, <2>6, <2>7
  <1>4. CASE job.kind = "clear"
    <2>1. Clears(t, Writes(t, job), h, r)
      BY <1>4 DEF Writes, Clears
    <2> QED  BY <2>1 DEF Section
  <1> QED  BY <1>1, <1>2, <1>3, <1>4 DEF Jobs, Syncs

LEMMA SectionTyped ==
    ASSUME NEW t, NEW todo, NEW h, NEW r, Section(t, todo, h, r)
    PROVE  todo \in Seq(WriteOps)
  <1>0. /\ \A f \in {"registry", "snapshot", "document", "index"}, s \in Sources,
              v \in Digests \union {Absent} : Write(f, s, v) \in WriteOps
        /\ \A f \in {"documents", "clear"} : Write(f, Sources, Absent) \in WriteOps
    BY DEF WriteOps, Write
  <1>a. Personal \subseteq Sources /\ Contents \subseteq Digests
    BY DEF Sources, Digests
  <1>b. \A x, y, z, w \in WriteOps :
            /\ <<x>> \in Seq(WriteOps) /\ <<x, y>> \in Seq(WriteOps)
            /\ <<x, y, z>> \in Seq(WriteOps) /\ <<x, y, z, w>> \in Seq(WriteOps)
    OBVIOUS
  <1>1. CASE OnlyIndex(t, todo, h, r)
    BY <1>0, <1>1, <1>b DEF OnlyIndex
  <1>2. CASE Projects(t, todo, h, r)
    <2> PICK s \in Sources, v \in Contents :
            todo = <<Write("document", s, v), Write("index", s, v)>>
      BY <1>2 DEF Projects
    <2>1. Write("document", s, v) \in WriteOps /\ Write("index", s, v) \in WriteOps
      BY <1>0, <1>a
    <2> QED  BY <2>1, <1>b
  <1>3. CASE Registers(t, todo, h, r)
    <2> PICK s \in Sources, v \in Contents \union {Absent} :
            \/ todo = <<Write("registry", s, v)>>
            \/ todo = <<Write("registry", s, v), Write("document", s, v),
                        Write("index", s, v)>>
      BY <1>3 DEF Registers
    <2>1. /\ Write("registry", s, v) \in WriteOps /\ Write("document", s, v) \in WriteOps
          /\ Write("index", s, v) \in WriteOps
      BY <1>0, <1>a
    <2> QED  BY <2>1, <1>b
  <1>4. CASE Snapshots(t, todo, h, r)
    <2> PICK s \in Personal, v \in Contents :
            \/ todo = <<Write("snapshot", s, v), Write("registry", s, v)>>
            \/ todo = <<Write("snapshot", s, v), Write("registry", s, v),
                        Write("document", s, v), Write("index", s, v)>>
            \/ todo = <<Write("snapshot", s, v), Write("document", s, v),
                        Write("index", s, v)>>
      BY <1>4 DEF Snapshots
    <2>1. /\ Write("registry", s, v) \in WriteOps /\ Write("document", s, v) \in WriteOps
          /\ Write("index", s, v) \in WriteOps /\ Write("snapshot", s, v) \in WriteOps
      BY <1>0, <1>a
    <2> QED  BY <2>1, <1>b
  <1>5. CASE Clears(t, todo, h, r)
    BY <1>0, <1>5, <1>b DEF Clears
  <1>6. CASE todo = <<>>
    BY <1>6
  <1> QED  BY <1>1, <1>2, <1>3, <1>4, <1>5, <1>6 DEF Section

\* A section that is through leaves a tree that can be read.
LEMMA SectionEnds ==
    ASSUME NEW t, NEW h, NEW r, Section(t, <<>>, h, r), ~h[r]
    PROVE  Readable(t)
  <1>1. ~OnlyIndex(t, <<>>, h, r) /\ ~Projects(t, <<>>, h, r)
    BY Tuples DEF OnlyIndex, Projects
  <1>2. ~Registers(t, <<>>, h, r)
    BY Tuples DEF Registers
  <1>3. ~Snapshots(t, <<>>, h, r)
    BY Tuples DEF Snapshots
  <1>4. ~Clears(t, <<>>, h, r)
    BY Tuples DEF Clears
  <1> QED  BY <1>1, <1>2, <1>3, <1>4 DEF Section

-----------------------------------------------------------------------------
(* The steps.                                                                *)

LEMMA FreeTask == Free \in Tasks /\ Free.is = "free"
  BY DEF Tasks, Free

LEMMA InsideIs ==
    ASSUME RootInv, NEW p \in Writers, task[p].is = "inside"
    PROVE  /\ task[p].dir = rootPath /\ lockedBy[rootPath] = p /\ p # Absent
           /\ task[p].job \in Jobs /\ task[p].after \in Syncs \union {Absent}
           /\ Section(tree[rootPath], task[p].todo, harmed, rootPath)
           /\ \A q \in Writers \ {p} : task[q].is # "inside"
  <1>1. task[p] \in Tasks
    BY DEF RootInv, RootTyped
  <1>2. task[p].job \in Jobs /\ task[p].after \in Syncs \union {Absent}
    BY <1>1 DEF Tasks, Free
  <1>3. \A q \in Writers \ {p} : task[q].is # "inside"
    BY DEF RootInv, Sectioned
  <1> QED  BY <1>2, <1>3, RootAssumption DEF RootInv, Sectioned

LEMMA CopyingIs ==
    ASSUME RootInv, NEW p \in Writers,
           task[p].is \in {"copying", "filling", "publishing"}
    PROVE  /\ task[p].dest \in Dests /\ task[p].what \in Trees
           /\ task[p].from \in {"root", "backup"} /\ WholeTree(task[p].what)
           /\ \A i \in {"copying", "filling", "publishing"} :
                 /\ [task[p] EXCEPT !.is = i] \in Tasks
                 /\ [task[p] EXCEPT !.is = i].is = i
                 /\ [task[p] EXCEPT !.is = i].what = task[p].what
                 /\ [task[p] EXCEPT !.is = i].dest = task[p].dest
  <1>1. task[p] \in Tasks
    BY DEF RootInv, RootTyped
  <1>2. task[p] \in [is : {"copying", "filling", "publishing"}, what : Trees, dest : Dests,
                     from : {"root", "backup"}]
    BY <1>1 DEF Tasks, Free
  <1>3. WholeTree(task[p].what)
    BY DEF RootInv, Copies
  <1> QED  BY <1>2, <1>3 DEF Tasks

LEMMA ShelvedIs ==
    /\ {Nothing, Half, Damaged} \subseteq Shelved
    /\ Nothing # Half /\ Nothing # Damaged /\ Half # Damaged
    /\ Nothing.is # "whole" /\ Half.is # "whole" /\ Damaged.is # "whole"
    /\ \A t \in Trees :
          /\ Whole(t) \in Shelved /\ Whole(t).is = "whole" /\ Whole(t).tree = t
          /\ Whole(t) \notin {Nothing, Half, Damaged}
    /\ \A c \in Shelved : c.is = "whole" => c.tree \in Trees
  <1>1. \A t : Whole(t).is = "whole" /\ Whole(t).tree = t
    BY DEF Whole
  <1>2. Nothing.is = "nothing" /\ Half.is = "half" /\ Damaged.is = "damaged"
    BY DEF Nothing, Half, Damaged
  <1>3. \A t \in Trees : Whole(t) \in Shelved
    BY DEF Shelved
  <1>4. \A c \in Shelved : c.is = "whole" => c.tree \in Trees
    BY <1>1, <1>2 DEF Shelved
  <1>5. {Nothing, Half, Damaged} \subseteq Shelved
    BY DEF Shelved
  <1> QED  BY <1>1, <1>2, <1>3, <1>4, <1>5

\* An operation goes on where it neither writes nor owns a partial directory.
LEMMA TaskHolds ==
    ASSUME RootInv, NEW p \in Writers, NEW new \in Tasks, Takes(p, new),
           new.is \notin {"inside", "filling", "publishing"},
           new.is = "copying" => WholeTree(new.what),
           UNCHANGED <<tree, rootPath, lockedBy, copies, harmed>>
    PROVE  RootInv'
  <1>1. task \in [Writers -> Tasks]
    BY DEF RootInv, RootTyped
  <1>2. \A q \in Writers : task'[q] = IF q = p THEN new ELSE task[q]
    BY <1>1 DEF Takes
  <1>3. RootTyped'
    BY <1>1 DEF RootInv, RootTyped, Takes
  <1>4. Sectioned'
    BY <1>2 DEF RootInv, Sectioned
  <1>5. Copies'
    BY <1>2 DEF RootInv, Copies
  <1>6. Anchored(tree[rootPath])' /\ CopiesAreWhole' /\ QuietRootIsReadable'
    BY DEF RootInv, CopiesAreWhole, QuietRootIsReadable
  <1> QED  BY <1>3, <1>4, <1>5, <1>6 DEF RootInv

\* An operation begins.
LEMMA BeginsHolds ==
    ASSUME RootInv, NEW p \in Writers, NEW job \in Jobs, NEW after \in Syncs \union {Absent},
           Begins(p, job, after)
    PROVE  RootInv'
  <1> DEFINE new == [is |-> "ready", job |-> job, after |-> after]
  <1>1. new \in Tasks /\ new.is = "ready"
    BY DEF Tasks
  <1> HIDE DEF new
  <1>2. Takes(p, new) /\ UNCHANGED <<tree, rootPath, lockedBy, copies, harmed>>
    BY DEF Begins, new
  <1> QED  BY <1>1, <1>2, TaskHolds

LEMMA SyncSourceHolds ==
    ASSUME RootInv, NEW p \in Writers, SyncSource(p)
    PROVE  RootInv'
  <1> DEFINE t == tree[rootPath]
  <1>1. t \in Trees
    BY DEF RootInv, RootTyped
  <1> HIDE DEF t
  <1>2. PICK s \in t.registry :
            \E v \in IF s \in Canonical THEN Contents \union {"failed"} ELSE {t.snapshots[s]} :
              Begins(p, [kind |-> "sync", src |-> s, value |-> IF v = Absent THEN "failed" ELSE v],
                     Absent)
    BY DEF SyncSource, t
  <1>3. PICK v \in IF s \in Canonical THEN Contents \union {"failed"} ELSE {t.snapshots[s]} :
              Begins(p, [kind |-> "sync", src |-> s, value |-> IF v = Absent THEN "failed" ELSE v],
                     Absent)
    BY <1>2
  <1>4. s \in Sources /\ v \in Contents \union {"failed", Absent}
    BY <1>1, <1>3 DEF Trees, Sources
  <1>5. [kind |-> "sync", src |-> s, value |-> IF v = Absent THEN "failed" ELSE v] \in Jobs
    BY <1>4 DEF Jobs, Syncs, Digests
  <1> QED  BY <1>3, <1>5, BeginsHolds

LEMMA RegisterHolds ==
    ASSUME RootInv, NEW p \in Writers, Register(p)
    PROVE  RootInv'
  <1> PICK s \in Canonical, v \in Contents \union {Absent} :
        Begins(p, [kind |-> "register", src |-> s],
               IF v = Absent THEN Absent ELSE [kind |-> "sync", src |-> s, value |-> v])
    BY DEF Register
  <1>1. [kind |-> "register", src |-> s] \in Jobs
    BY DEF Jobs
  <1>2. (IF v = Absent THEN Absent ELSE [kind |-> "sync", src |-> s, value |-> v])
           \in Syncs \union {Absent}
    BY DEF Syncs, Digests, Sources
  <1> QED  BY <1>1, <1>2, BeginsHolds

LEMMA ImportHolds ==
    ASSUME RootInv, NEW p \in Writers, Import(p)
    PROVE  RootInv'
  <1> PICK kind \in {"import", "directory"}, s \in Personal, v \in Contents :
        Begins(p, [kind |-> kind, src |-> s, value |-> v], Absent)
    BY DEF Import
  <1>1. [kind |-> kind, src |-> s, value |-> v] \in Jobs
    BY DEF Jobs
  <1> QED  BY <1>1, BeginsHolds

LEMMA ClearHolds ==
    ASSUME RootInv, NEW p \in Writers, Clear(p)
    PROVE  RootInv'
  <1>1. [kind |-> "clear"] \in Jobs
    BY DEF Jobs
  <1> QED  BY <1>1, BeginsHolds DEF Clear

LEMMA BackupHolds ==
    ASSUME RootInv, NEW p \in Writers, NEW d \in Dests, Backup(p, d)
    PROVE  RootInv'
  <1>1. [kind |-> "backup", dest |-> d] \in Jobs
    BY DEF Jobs
  <1> QED  BY <1>1, BeginsHolds DEF Backup

LEMMA OpenRootHolds ==
    ASSUME RootInv, NEW p \in Writers, OpenRoot(p)
    PROVE  RootInv'
  <1> DEFINE new == [is |-> "waiting", job |-> task[p].job, after |-> task[p].after,
                     dir |-> rootPath]
  <1>1. task[p] \in Tasks /\ rootPath \in Directories
    BY DEF RootInv, RootTyped
  <1>2. task[p].job \in Jobs /\ task[p].after \in Syncs \union {Absent}
    BY <1>1 DEF Tasks, Free, OpenRoot
  <1>3. new \in Tasks /\ new.is = "waiting"
    BY <1>1, <1>2 DEF Tasks
  <1> HIDE DEF new
  <1>4. Takes(p, new) /\ UNCHANGED <<tree, rootPath, lockedBy, copies, harmed>>
    BY DEF OpenRoot, new
  <1> QED  BY <1>3, <1>4, TaskHolds

\* Nobody else is inside, and the section that begins is one of those that keep the tree
\* whole.
LEMMA EnterHolds ==
    ASSUME RootInv, NEW p \in Writers, Enter(p)
    PROVE  RootInv'
  <1>1. CASE ~SameRoot(task[p].dir)
    <2>1. Takes(p, Free) /\ UNCHANGED <<tree, rootPath, lockedBy, copies, harmed>>
      BY <1>1 DEF Enter
    <2> QED  BY <2>1, FreeTask, TaskHolds
  <1>2. CASE SameRoot(task[p].dir)
    <2> DEFINE todo == Writes(tree[rootPath], task[p].job)
               new == [is |-> "inside", job |-> task[p].job, after |-> task[p].after,
                       dir |-> task[p].dir, todo |-> todo]
    <2>1. /\ task \in [Writers -> Tasks] /\ tree[rootPath] \in Trees
          /\ rootPath \in Directories /\ lockedBy \in [Directories -> Writers \union {Absent}]
      BY DEF RootInv, RootTyped
    <2>2. task[p].job \in Jobs /\ task[p].after \in Syncs \union {Absent}
      BY <2>1 DEF Tasks, Free, Enter
    <2>3. task[p].dir = rootPath /\ lockedBy[rootPath] = Absent /\ task[p].job.kind # "backup"
      BY <1>2 DEF Enter, SameRoot
    <2>4. Section(tree[rootPath], todo, harmed, rootPath)
      BY <2>1, <2>2, <2>3, SectionBegins DEF RootInv, QuietRootIsReadable
    <2>5. todo \in Seq(WriteOps)
      BY <2>4, SectionTyped
    <2>6. /\ Takes(p, new) /\ lockedBy' = [lockedBy EXCEPT ![rootPath] = p]
          /\ UNCHANGED <<tree, rootPath, copies, harmed>>
      BY <1>2, <2>3 DEF Enter
    <2> HIDE DEF todo
    <2>7. /\ new \in Tasks /\ new.is = "inside" /\ new.dir = rootPath /\ new.todo = todo
      BY <2>1, <2>2, <2>3, <2>5 DEF Tasks
    <2> HIDE DEF new
    <2>8. \A q \in Writers : task'[q] = IF q = p THEN new ELSE task[q]
      BY <2>1, <2>6 DEF Takes
    <2>9. \A q \in Writers : task[q].is # "inside"
      BY <2>3, RootAssumption DEF RootInv, Sectioned
    <2>10. RootTyped'
      BY <2>1, <2>6, <2>7 DEF RootInv, RootTyped, Takes
    <2>11. lockedBy'[rootPath] = p /\ p # Absent
      BY <2>1, <2>6, RootAssumption
    <2>12. Sectioned'
      BY <2>4, <2>6, <2>7, <2>8, <2>9, <2>11 DEF Sectioned
    <2>13. Copies'
      BY <2>6, <2>7, <2>8 DEF RootInv, Copies
    <2>14. Anchored(tree[rootPath])' /\ CopiesAreWhole' /\ QuietRootIsReadable'
      BY <2>6, <2>11 DEF RootInv, CopiesAreWhole, QuietRootIsReadable
    <2> QED  BY <2>10, <2>12, <2>13, <2>14 DEF RootInv
  <1> QED  BY <1>1, <1>2

LEMMA WriteFileHolds ==
    ASSUME RootInv, NEW p \in Writers, WriteFile(p)
    PROVE  RootInv'
  <1> DEFINE t == tree[rootPath]
             u == Written(t, Head(task[p].todo))
             new == [task[p] EXCEPT !.todo = Tail(task[p].todo)]
  <1>1. /\ task \in [Writers -> Tasks] /\ tree \in [Directories -> Trees] /\ t \in Trees
        /\ rootPath \in Directories
    BY DEF RootInv, RootTyped
  <1>2. /\ task[p].is = "inside" /\ task[p].todo # <<>> /\ Takes(p, new)
        /\ tree' = [tree EXCEPT ![rootPath] = u]
        /\ UNCHANGED <<rootPath, lockedBy, copies, harmed>>
    BY DEF WriteFile
  <1>3. /\ task[p].dir = rootPath /\ lockedBy[rootPath] = p /\ p # Absent
        /\ Section(t, task[p].todo, harmed, rootPath)
        /\ \A q \in Writers \ {p} : task[q].is # "inside"
    BY <1>2, InsideIs
  <1>4. u \in Trees /\ Anchored(u) /\ Section(u, Tail(task[p].todo), harmed, rootPath)
    BY <1>1, <1>2, <1>3, SectionGoesOn DEF RootInv
  <1>5. Tail(task[p].todo) \in Seq(WriteOps)
    BY <1>4, SectionTyped
  <1>6. /\ new \in Tasks /\ new.is = "inside" /\ new.dir = rootPath
        /\ new.todo = Tail(task[p].todo)
    <2>1. task[p] \in [is : {"inside"}, job : Jobs, after : Syncs \union {Absent},
                       dir : Directories, todo : Seq(WriteOps)]
      BY <1>1, <1>2 DEF Tasks, Free
    <2>2. new \in [is : {"inside"}, job : Jobs, after : Syncs \union {Absent},
                   dir : Directories, todo : Seq(WriteOps)]
      BY <1>5, <2>1
    <2>3. new.dir = task[p].dir /\ new.todo = Tail(task[p].todo)
      BY <2>1
    <2> QED  BY <1>3, <2>2, <2>3 DEF Tasks
  <1> HIDE DEF new, u, t
  <1>7. \A q \in Writers : task'[q] = IF q = p THEN new ELSE task[q]
    BY <1>1, <1>2 DEF Takes
  <1>8. tree'[rootPath] = u
    BY <1>1, <1>2
  <1>9. RootTyped'
    BY <1>1, <1>2, <1>4, <1>6 DEF RootInv, RootTyped, Takes
  <1>10. Sectioned'
    BY <1>2, <1>3, <1>4, <1>6, <1>7, <1>8 DEF Sectioned
  <1>11. Copies'
    BY <1>2, <1>6, <1>7 DEF RootInv, Copies
  <1>12. Anchored(tree[rootPath])'
    BY <1>2, <1>4, <1>8
  <1>13. CopiesAreWhole' /\ QuietRootIsReadable'
    BY <1>2, <1>3 DEF RootInv, CopiesAreWhole, QuietRootIsReadable
  <1> QED  BY <1>9, <1>10, <1>11, <1>12, <1>13 DEF RootInv

\* Where a section ends, the tree can be read or the directory is harmed, and the lock is
\* free.
LEMMA ReleaseHolds ==
    ASSUME RootInv, NEW p \in Writers, task[p].is = "inside", Released(p),
           NEW new \in Tasks, Takes(p, new), new.is \in {"free", "ready"},
           NEW u \in Trees, Anchored(u), tree' = [tree EXCEPT ![rootPath] = u],
           NEW h \in BOOLEAN, harmed' = [harmed EXCEPT ![rootPath] = h],
           ~h => Readable(u),
           UNCHANGED <<rootPath, copies>>
    PROVE  RootInv'
  <1>1. /\ task \in [Writers -> Tasks] /\ tree \in [Directories -> Trees]
        /\ rootPath \in Directories /\ lockedBy \in [Directories -> Writers \union {Absent}]
        /\ harmed \in [Directories -> BOOLEAN]
    BY DEF RootInv, RootTyped
  <1>2. task[p].dir = rootPath /\ \A q \in Writers \ {p} : task[q].is # "inside"
    BY InsideIs
  <1>3. lockedBy' = [lockedBy EXCEPT ![rootPath] = Absent]
    BY <1>2 DEF Released
  <1>4. \A q \in Writers : task'[q] = IF q = p THEN new ELSE task[q]
    BY <1>1 DEF Takes
  <1>5. tree'[rootPath] = u /\ harmed'[rootPath] = h
    BY <1>1
  <1>6. RootTyped'
    BY <1>1, <1>3 DEF RootInv, RootTyped, Takes
  <1>7. Sectioned'
    BY <1>2, <1>4 DEF Sectioned
  <1>8. Copies'
    BY <1>4 DEF RootInv, Copies
  <1>9. Anchored(tree[rootPath])'
    BY <1>5
  <1>10. CopiesAreWhole' /\ QuietRootIsReadable'
    BY <1>5 DEF RootInv, CopiesAreWhole, QuietRootIsReadable
  <1> QED  BY <1>6, <1>7, <1>8, <1>9, <1>10 DEF RootInv

LEMMA LeaveHolds ==
    ASSUME RootInv, NEW p \in Writers, Leave(p)
    PROVE  RootInv'
  <1> DEFINE new == IF task[p].after = Absent THEN Free
                    ELSE [is |-> "ready", job |-> task[p].after, after |-> Absent]
  <1>1. /\ tree \in [Directories -> Trees] /\ rootPath \in Directories
        /\ harmed \in [Directories -> BOOLEAN]
    BY DEF RootInv, RootTyped
  <1>2. /\ task[p].is = "inside" /\ task[p].todo = <<>> /\ Released(p) /\ Takes(p, new)
        /\ UNCHANGED <<tree, rootPath, copies, harmed>>
    BY DEF Leave
  <1>3. /\ task[p].after \in Syncs \union {Absent}
        /\ Section(tree[rootPath], <<>>, harmed, rootPath)
    BY <1>2, InsideIs
  <1>4. ~harmed[rootPath] => Readable(tree[rootPath])
    BY <1>3, SectionEnds
  <1>5. new \in Tasks /\ new.is \in {"free", "ready"}
    BY <1>3 DEF Tasks, Free, Jobs
  <1> HIDE DEF new
  <1>6. /\ tree' = [tree EXCEPT ![rootPath] = tree[rootPath]]
        /\ harmed' = [harmed EXCEPT ![rootPath] = harmed[rootPath]]
        /\ tree[rootPath] \in Trees /\ harmed[rootPath] \in BOOLEAN
    BY <1>1, <1>2
  <1>7. Anchored(tree[rootPath])
    BY DEF RootInv
  <1> QED  BY <1>2, <1>4, <1>5, <1>6, <1>7, ReleaseHolds

LEMMA BreakOffHolds ==
    ASSUME RootInv, NEW p \in Writers, BreakOff(p)
    PROVE  RootInv'
  <1> DEFINE t == tree[rootPath]
             w == Head(task[p].todo)
  <1>1. t \in Trees /\ Anchored(t)
    BY DEF RootInv, RootTyped
  <1>2. /\ task[p].is = "inside" /\ task[p].todo # <<>> /\ Released(p) /\ Takes(p, Free)
        /\ harmed' = [harmed EXCEPT ![rootPath] = TRUE]
        /\ UNCHANGED <<rootPath, copies>>
        /\ \E x \in Torn(t, w) : \E u \in {x, CleanedUp(x, w, task[p].job)} :
              tree' = [tree EXCEPT ![rootPath] = u]
    BY DEF BreakOff
  <1>3. Section(t, task[p].todo, harmed, rootPath)
    BY <1>2, InsideIs
  <1> PICK x \in Torn(t, w) : \E u \in {x, CleanedUp(x, w, task[p].job)} :
              tree' = [tree EXCEPT ![rootPath] = u]
    BY <1>2
  <1> PICK u \in {x, CleanedUp(x, w, task[p].job)} : tree' = [tree EXCEPT ![rootPath] = u]
    OBVIOUS
  <1>4. u \in Trees /\ Anchored(u)
    <2>1. x \in Torn(t, Head(task[p].todo))
      OBVIOUS
    <2>2. u = x \/ u = CleanedUp(x, Head(task[p].todo), task[p].job)
      OBVIOUS
    <2>3. task[p].todo # <<>>
      BY <1>2
    <2> HIDE DEF t, w
    <2> QED  BY <1>1, <1>3, <2>1, <2>2, <2>3, SectionBreaks
  <1> QED  BY <1>2, <1>4, FreeTask, ReleaseHolds

LEMMA CollectCopyHolds ==
    ASSUME RootInv, NEW p \in Writers, Collect(p)
    PROVE  RootInv'
  <1> DEFINE ok == SameRoot(task[p].dir) /\ Readable(tree[rootPath])
             new == Copying(tree[rootPath], task[p].job.dest, "root")
  <1>1. UNCHANGED <<tree, rootPath, lockedBy, copies, harmed>>
    BY DEF Collect
  <1>2. CASE ok
    <2>1. task[p] \in Tasks /\ tree[rootPath] \in Trees
      BY DEF RootInv, RootTyped
    <2>2. task[p].job.dest \in Dests
      <3>1. task[p].job \in Jobs /\ task[p].job.kind = "backup"
        BY <2>1 DEF Tasks, Free, Collect
      <3> QED  BY <3>1 DEF Jobs, Syncs
    <2>3. new \in Tasks /\ new.is = "copying" /\ new.what = tree[rootPath]
      BY <2>1, <2>2 DEF Tasks, Copying
    <2>4. WholeTree(tree[rootPath])
      BY <1>2 DEF WholeTree, RootInv
    <2>5. Takes(p, new)
      BY <1>2 DEF Collect
    <2> HIDE DEF new
    <2> QED  BY <1>1, <2>3, <2>4, <2>5, TaskHolds
  <1>3. CASE ~ok
    <2>1. Takes(p, Free)
      BY <1>3 DEF Collect
    <2> QED  BY <1>1, <2>1, FreeTask, TaskHolds
  <1> QED  BY <1>2, <1>3

LEMMA ShelfIs ==
    ASSUME RootInv, NEW d \in Dests
    PROVE  /\ copies[d].target \in Shelved /\ copies[d].partial \in Shelved
           /\ copies[d].from \in {"root", "backup"}
           /\ copies[d].target.is = "whole" =>
                 copies[d].target.tree \in Trees /\ WholeTree(copies[d].target.tree)
  <1>1. copies[d] \in [target : Shelved, partial : Shelved, from : {"root", "backup"}]
    BY DEF RootInv, RootTyped
  <1>2. copies[d].target.is = "whole" => copies[d].target.tree \in Trees
    BY <1>1, ShelvedIs
  <1>3. copies[d].target.is = "whole" => WholeTree(copies[d].target.tree)
    BY DEF RootInv, CopiesAreWhole, WholeTree, Anchored
  <1> QED  BY <1>1, <1>2, <1>3

LEMMA RestoreTestHolds ==
    ASSUME RootInv, NEW p \in Writers, NEW b \in Dests, NEW d \in Dests, RestoreTest(p, b, d)
    PROVE  RootInv'
  <1> DEFINE new == Copying(copies[b].target.tree, d, "backup")
  <1>1. copies[b].target.tree \in Trees /\ WholeTree(copies[b].target.tree)
    BY ShelfIs DEF RestoreTest
  <1>2. new \in Tasks /\ new.is = "copying" /\ new.what = copies[b].target.tree
    BY <1>1 DEF Tasks, Copying
  <1>3. Takes(p, new) /\ UNCHANGED <<tree, rootPath, lockedBy, copies, harmed>>
    BY DEF RestoreTest
  <1> HIDE DEF new
  <1> QED  BY <1>1, <1>2, <1>3, TaskHolds


-----------------------------------------------------------------------------
(* Copies.                                                                   *)

\* A step of an operation on one destination.
LEMMA CopyHolds ==
    ASSUME RootInv, NEW d \in Dests, NEW c, copies' = [copies EXCEPT ![d] = c],
           c \in [target : Shelved, partial : Shelved, from : {"root", "backup"}],
           c.target # Half, c.from = "backup" => c.target # Damaged,
           c.target.is = "whole" => WholeTree(c.target.tree),
           task' \in [Writers -> Tasks],
           \A p \in Writers : task'[p].is = "inside" => task'[p] = task[p],
           Copies',
           UNCHANGED <<tree, rootPath, lockedBy, harmed>>
    PROVE  RootInv'
  <1>1. copies \in [Dests -> [target : Shelved, partial : Shelved, from : {"root", "backup"}]]
    BY DEF RootInv, RootTyped
  <1>2. \A e \in Dests : copies'[e] = IF e = d THEN c ELSE copies[e]
    BY <1>1
  <1>3. copies' \in [Dests -> [target : Shelved, partial : Shelved, from : {"root", "backup"}]]
    BY <1>1
  <1>4. RootTyped'
    BY <1>3 DEF RootInv, RootTyped
  <1>5. Sectioned'
    BY DEF RootInv, Sectioned
  <1>6. Anchored(tree[rootPath])' /\ QuietRootIsReadable'
    BY DEF RootInv, QuietRootIsReadable
  <1>7. CopiesAreWhole'
    <2> SUFFICES ASSUME NEW e \in Dests
                 PROVE  LET x == copies'[e] IN
                        /\ x.target # Half
                        /\ x.from = "backup" => x.target # Damaged
                        /\ x.target.is = "whole" =>
                              /\ Readable(x.target.tree)
                              /\ \A s \in Personal \cap x.target.tree.registry :
                                    x.target.tree.snapshots[s] # Absent
      BY DEF CopiesAreWhole
    <2>1. CASE e = d
      BY <1>2, <2>1 DEF WholeTree, Anchored
    <2>2. CASE e # d
      BY <1>2, <2>2 DEF RootInv, CopiesAreWhole
    <2> QED  BY <2>1, <2>2
  <1> QED  BY <1>4, <1>5, <1>6, <1>7 DEF RootInv

\* What is known of a destination, and what stays so when its target does.
LEMMA TargetIs ==
    ASSUME RootInv, NEW d \in Dests
    PROVE  /\ copies[d] \in [target : Shelved, partial : Shelved, from : {"root", "backup"}]
           /\ copies[d].target # Half
           /\ copies[d].from = "backup" => copies[d].target # Damaged
           /\ copies[d].target.is = "whole" => WholeTree(copies[d].target.tree)
           /\ \A x \in Shelved :
                 LET c == [copies[d] EXCEPT !.partial = x] IN
                 /\ c \in [target : Shelved, partial : Shelved, from : {"root", "backup"}]
                 /\ c.target = copies[d].target /\ c.from = copies[d].from /\ c.partial = x
  <1>1. copies[d] \in [target : Shelved, partial : Shelved, from : {"root", "backup"}]
    BY DEF RootInv, RootTyped
  <1>2. copies[d].target # Half /\ (copies[d].from = "backup" => copies[d].target # Damaged)
    BY DEF RootInv, CopiesAreWhole
  <1> QED  BY <1>1, <1>2, ShelfIs

Owning(p) == task[p].is \in {"filling", "publishing"}

\* The one who works on a partial directory goes on with it.
LEMMA OwnerHolds ==
    ASSUME RootInv, NEW p \in Writers, task[p].is \in {"copying", "filling", "publishing"},
           \A q \in Writers \ {p} : ~(Owning(q) /\ task[q].dest = task[p].dest),
           NEW new \in Tasks, Takes(p, new), new.is # "inside",
           NEW c, copies' = [copies EXCEPT ![task[p].dest] = c],
           c \in [target : Shelved, partial : Shelved, from : {"root", "backup"}],
           c.target # Half, c.from = "backup" => c.target # Damaged,
           c.target.is = "whole" => WholeTree(c.target.tree),
           new.is \in {"copying", "filling", "publishing"} =>
              WholeTree(new.what) /\ new.dest = task[p].dest,
           new.is = "filling" => c.partial = Half,
           new.is = "publishing" => c.partial = Whole(new.what),
           UNCHANGED <<tree, rootPath, lockedBy, harmed>>
    PROVE  RootInv'
  <1>1. /\ task \in [Writers -> Tasks]
        /\ copies \in [Dests -> [target : Shelved, partial : Shelved, from : {"root", "backup"}]]
    BY DEF RootInv, RootTyped
  <1>2. task[p].dest \in Dests
    BY CopyingIs
  <1>3. \A q \in Writers : task'[q] = IF q = p THEN new ELSE task[q]
    BY <1>1 DEF Takes
  <1>4. \A e \in Dests : copies'[e] = IF e = task[p].dest THEN c ELSE copies[e]
    BY <1>1
  <1>5. task' \in [Writers -> Tasks]
    BY <1>1 DEF Takes
  <1>6. \A q \in Writers : Owning(q) => task[q].dest \in Dests
    BY CopyingIs DEF Owning
  <1>7. \A q \in Writers :
          /\ task'[q].is \in {"copying", "filling", "publishing"} => WholeTree(task'[q].what)
          /\ task'[q].is = "filling" => copies'[task'[q].dest].partial = Half
          /\ task'[q].is = "publishing" => copies'[task'[q].dest].partial = Whole(task'[q].what)
    <2> SUFFICES ASSUME NEW q \in Writers
                 PROVE  /\ task'[q].is \in {"copying", "filling", "publishing"} =>
                              WholeTree(task'[q].what)
                        /\ task'[q].is = "filling" => copies'[task'[q].dest].partial = Half
                        /\ task'[q].is = "publishing" =>
                              copies'[task'[q].dest].partial = Whole(task'[q].what)
      OBVIOUS
    <2>1. CASE q = p
      BY <1>2, <1>3, <1>4, <2>1
    <2>2. CASE q # p
      BY <1>3, <1>4, <1>6, <2>2 DEF RootInv, Copies, Owning
    <2> QED  BY <2>1, <2>2
  <1>8. \A q, r \in Writers :
          /\ task'[q].is \in {"filling", "publishing"}
          /\ task'[r].is \in {"filling", "publishing"}
          /\ task'[q].dest = task'[r].dest
          => q = r
    BY <1>3 DEF RootInv, Copies, Owning
  <1>9. Copies'
    BY <1>7, <1>8 DEF Copies
  <1>10. \A q \in Writers : task'[q].is = "inside" => task'[q] = task[q]
    BY <1>3
  <1> QED  BY <1>2, <1>5, <1>9, <1>10, CopyHolds

LEMMA OwnerAlone ==
    ASSUME RootInv, NEW p \in Writers, Owning(p)
    PROVE  \A q \in Writers \ {p} : ~(Owning(q) /\ task[q].dest = task[p].dest)
  BY DEF RootInv, Copies, Owning

LEMMA MakeCopyHolds ==
    ASSUME RootInv, NEW p \in Writers, MakeCopy(p)
    PROVE  RootInv'
  <1> DEFINE d == task[p].dest
             new == [task[p] EXCEPT !.is = "filling"]
             c == [copies[d] EXCEPT !.partial = Half]
  <1>1. task[p].is = "copying"
    BY DEF MakeCopy
  <1>2. CASE copies[d].partial = Nothing
    <2>1. /\ copies' = [copies EXCEPT ![d] = c] /\ Takes(p, new)
          /\ UNCHANGED <<tree, rootPath, lockedBy, harmed>>
      BY <1>2 DEF MakeCopy
    <2>2. d \in Dests /\ WholeTree(task[p].what)
      BY <1>1, CopyingIs
    <2>3. new \in Tasks /\ new.is = "filling" /\ new.what = task[p].what /\ new.dest = d
      BY <1>1, CopyingIs
    <2>4. /\ c \in [target : Shelved, partial : Shelved, from : {"root", "backup"}]
          /\ c.target = copies[d].target /\ c.from = copies[d].from /\ c.partial = Half
          /\ copies[d].target # Half
          /\ copies[d].from = "backup" => copies[d].target # Damaged
          /\ copies[d].target.is = "whole" => WholeTree(copies[d].target.tree)
      BY <2>2, ShelvedIs, TargetIs
    <2> HIDE DEF new, c
    <2>5. \A q \in Writers \ {p} : ~(Owning(q) /\ task[q].dest = task[p].dest)
      <3> SUFFICES ASSUME NEW q \in Writers, Owning(q), task[q].dest = d
                   PROVE  FALSE
        OBVIOUS
      <3>1. task[q].what \in Trees
        BY CopyingIs DEF Owning
      <3>2. copies[d].partial \in {Half, Whole(task[q].what)}
        BY DEF RootInv, Copies, Owning
      <3> QED  BY <1>2, <3>1, <3>2, ShelvedIs
    <2>6. /\ c.target # Half /\ (c.from = "backup" => c.target # Damaged)
          /\ c.target.is = "whole" => WholeTree(c.target.tree)
      BY <2>4
    <2>7. task[p].is \in {"copying", "filling", "publishing"} /\ new.is # "inside"
          /\ new.is # "publishing"
      BY <1>1, <2>3
    <2> QED  BY <2>1, <2>2, <2>3, <2>4, <2>5, <2>6, <2>7, OwnerHolds
  <1>3. CASE copies[d].partial # Nothing
    <2>1. Takes(p, Free) /\ UNCHANGED <<tree, rootPath, lockedBy, copies, harmed>>
      BY <1>3 DEF MakeCopy
    <2> QED  BY <2>1, FreeTask, TaskHolds
  <1> QED  BY <1>2, <1>3

LEMMA FillCopyHolds ==
    ASSUME RootInv, NEW p \in Writers, FillCopy(p)
    PROVE  RootInv'
  <1> DEFINE d == task[p].dest
             new == [task[p] EXCEPT !.is = "publishing"]
             c == [copies[d] EXCEPT !.partial = Whole(task[p].what)]
  <1>1. /\ task[p].is = "filling" /\ Takes(p, new) /\ copies' = [copies EXCEPT ![d] = c]
        /\ UNCHANGED <<tree, rootPath, lockedBy, harmed>>
    BY DEF FillCopy
  <1>2. d \in Dests /\ task[p].what \in Trees /\ WholeTree(task[p].what)
    BY <1>1, CopyingIs
  <1>3. new \in Tasks /\ new.is = "publishing" /\ new.what = task[p].what /\ new.dest = d
    BY <1>1, CopyingIs
  <1>4. /\ c \in [target : Shelved, partial : Shelved, from : {"root", "backup"}]
        /\ c.target = copies[d].target /\ c.from = copies[d].from
        /\ c.partial = Whole(task[p].what)
        /\ copies[d].target # Half
        /\ copies[d].from = "backup" => copies[d].target # Damaged
        /\ copies[d].target.is = "whole" => WholeTree(copies[d].target.tree)
    BY <1>2, ShelvedIs, TargetIs
  <1> HIDE DEF new, c
  <1>5. \A q \in Writers \ {p} : ~(Owning(q) /\ task[q].dest = task[p].dest)
    BY <1>1, OwnerAlone DEF Owning
  <1>6. /\ c.target # Half /\ (c.from = "backup" => c.target # Damaged)
        /\ c.target.is = "whole" => WholeTree(c.target.tree)
    BY <1>4
  <1>7. /\ task[p].is \in {"copying", "filling", "publishing"} /\ new.is # "inside"
        /\ new.is \in {"copying", "filling", "publishing"} =>
              WholeTree(new.what) /\ new.dest = task[p].dest
        /\ new.is # "filling" /\ (new.is = "publishing" => c.partial = Whole(new.what))
    BY <1>1, <1>2, <1>3, <1>4
  <1>8. c \in [target : Shelved, partial : Shelved, from : {"root", "backup"}]
    BY <1>4
  <1> QED  BY <1>1, <1>3, <1>5, <1>6, <1>7, <1>8, OwnerHolds

\* What is published is what was filled.
LEMMA PublishCopyHolds ==
    ASSUME RootInv, NEW p \in Writers, PublishCopy(p)
    PROVE  RootInv'
  <1> DEFINE d == task[p].dest
             c == [target |-> copies[d].partial, partial |-> Nothing, from |-> task[p].from]
  <1>1. /\ task[p].is = "publishing" /\ Takes(p, Free)
        /\ UNCHANGED <<tree, rootPath, lockedBy, harmed>>
    BY DEF PublishCopy
  <1>2. CASE copies[d].target = Nothing
    <2>1. copies' = [copies EXCEPT ![d] = c]
      BY <1>2 DEF PublishCopy
    <2>2. /\ d \in Dests /\ task[p].what \in Trees /\ WholeTree(task[p].what)
          /\ task[p].from \in {"root", "backup"}
      BY <1>1, CopyingIs
    <2>3. copies[d].partial = Whole(task[p].what)
      BY <1>1 DEF RootInv, Copies
    <2>4. /\ Nothing \in Shelved /\ Whole(task[p].what) \in Shelved
          /\ Whole(task[p].what).tree = task[p].what
          /\ Whole(task[p].what) # Half /\ Whole(task[p].what) # Damaged
      BY <2>2, ShelvedIs
    <2>5. /\ c \in [target : Shelved, partial : Shelved, from : {"root", "backup"}]
          /\ c.target = Whole(task[p].what)
      BY <2>2, <2>3, <2>4
    <2> HIDE DEF c
    <2>6. \A q \in Writers \ {p} : ~(Owning(q) /\ task[q].dest = task[p].dest)
      BY <1>1, OwnerAlone DEF Owning
    <2>7. /\ c.target # Half /\ (c.from = "backup" => c.target # Damaged)
          /\ c.target.is = "whole" => WholeTree(c.target.tree)
      BY <2>2, <2>4, <2>5
    <2> QED  BY <1>1, <2>1, <2>5, <2>6, <2>7, FreeTask, OwnerHolds
  <1>3. CASE copies[d].target # Nothing
    <2>1. copies' = copies
      BY <1>3 DEF PublishCopy
    <2> QED  BY <1>1, <2>1, FreeTask, TaskHolds
  <1> QED  BY <1>2, <1>3

LEMMA AbandonCopyHolds ==
    ASSUME RootInv, NEW p \in Writers, AbandonCopy(p)
    PROVE  RootInv'
  <1> DEFINE d == task[p].dest
             c == [copies[d] EXCEPT !.partial = Nothing]
  <1>1. /\ task[p].is \in {"filling", "publishing"} /\ Takes(p, Free)
        /\ UNCHANGED <<tree, rootPath, lockedBy, harmed>>
    BY DEF AbandonCopy
  <1>2. CASE copies' = copies
    BY <1>1, <1>2, FreeTask, TaskHolds
  <1>3. CASE copies' = [copies EXCEPT ![d] = c]
    <2>1. d \in Dests
      BY <1>1, CopyingIs
    <2>2. /\ c \in [target : Shelved, partial : Shelved, from : {"root", "backup"}]
          /\ c.target = copies[d].target /\ c.from = copies[d].from
          /\ copies[d].target # Half
          /\ copies[d].from = "backup" => copies[d].target # Damaged
          /\ copies[d].target.is = "whole" => WholeTree(copies[d].target.tree)
      BY <2>1, ShelvedIs, TargetIs
    <2> HIDE DEF c
    <2>3. \A q \in Writers \ {p} : ~(Owning(q) /\ task[q].dest = task[p].dest)
      BY <1>1, OwnerAlone DEF Owning
    <2>4. /\ c.target # Half /\ (c.from = "backup" => c.target # Damaged)
          /\ c.target.is = "whole" => WholeTree(c.target.tree)
      BY <2>2
    <2>5. c \in [target : Shelved, partial : Shelved, from : {"root", "backup"}]
      BY <2>2
    <2>6. /\ Free \in Tasks /\ Free.is \notin {"inside", "copying", "filling", "publishing"}
          /\ task[p].is \in {"copying", "filling", "publishing"}
      BY <1>1, FreeTask
    <2> QED  BY <1>1, <1>3, <2>3, <2>4, <2>5, <2>6, OwnerHolds
  <1> QED  BY <1>2, <1>3 DEF AbandonCopy

LEMMA DamageHolds ==
    ASSUME RootInv, NEW d \in Dests, Damage(d)
    PROVE  RootInv'
  <1> DEFINE c == [copies[d] EXCEPT !.target = Damaged]
  <1>1. /\ copies[d].from = "root" /\ copies' = [copies EXCEPT ![d] = c]
        /\ UNCHANGED <<tree, rootPath, lockedBy, task, harmed>>
    BY DEF Damage
  <1>2. /\ c \in [target : Shelved, partial : Shelved, from : {"root", "backup"}]
        /\ c.target = Damaged /\ c.from = "root" /\ c.partial = copies[d].partial
    BY <1>1, ShelvedIs, TargetIs
  <1> HIDE DEF c
  <1>3. c.target # Half /\ c.from # "backup" /\ c.target.is # "whole"
    BY <1>2, ShelvedIs
  <1>4. task \in [Writers -> Tasks]
        /\ copies \in [Dests -> [target : Shelved, partial : Shelved, from : {"root", "backup"}]]
    BY DEF RootInv, RootTyped
  <1>5. \A e \in Dests : copies'[e].partial = copies[e].partial
    BY <1>1, <1>2, <1>4
  <1>6. \A q \in Writers : task[q].is \in {"filling", "publishing"} => task[q].dest \in Dests
    BY CopyingIs
  <1>7. Copies'
    BY <1>1, <1>5, <1>6 DEF RootInv, Copies
  <1> QED  BY <1>1, <1>2, <1>3, <1>4, <1>7, CopyHolds

\* A restored copy takes the place of a directory in which nobody is.
LEMMA ReplaceHolds ==
    ASSUME RootInv, NEW d \in Dests, Replace(d)
    PROVE  RootInv'
  <1> DEFINE t == copies[d].target.tree
  <1>1. /\ rootPath = 1 /\ lockedBy[1] = Absent /\ copies[d].target.is = "whole"
        /\ rootPath' = 2 /\ tree' = [tree EXCEPT ![2] = t]
        /\ UNCHANGED <<lockedBy, task, copies, harmed>>
    BY DEF Replace
  <1>2. t \in Trees /\ WholeTree(t)
    BY <1>1, ShelfIs
  <1> HIDE DEF t
  <1>3. tree \in [Directories -> Trees]
    BY DEF RootInv, RootTyped
  <1>4. tree'[2] = t /\ RootTyped'
    BY <1>1, <1>2, <1>3 DEF RootInv, RootTyped, Directories
  <1>5. \A q \in Writers : task[q].is # "inside"
    BY <1>1, RootAssumption DEF RootInv, Sectioned
  <1>6. Sectioned' /\ Copies'
    BY <1>1, <1>5 DEF RootInv, Sectioned, Copies
  <1>7. Anchored(tree[rootPath])' /\ CopiesAreWhole' /\ QuietRootIsReadable'
    BY <1>1, <1>2, <1>4 DEF RootInv, WholeTree, CopiesAreWhole, QuietRootIsReadable
  <1> QED  BY <1>4, <1>6, <1>7 DEF RootInv

-----------------------------------------------------------------------------
(* The theorems.                                                             *)

LEMMA RootStarts ==
    ASSUME RootInit
    PROVE  RootInv
  <1>1. Empty \in Trees /\ Readable(Empty) /\ Anchored(Empty)
    BY DEF Empty, Trees, NoIndex, Readable, Anchored
  <1>2. Vacant.target = Nothing /\ Vacant.partial = Nothing /\ Vacant.from = "root"
    BY DEF Vacant
  <1>3. Vacant \in [target : Shelved, partial : Shelved, from : {"root", "backup"}]
    BY ShelvedIs DEF Vacant
  <1>4. /\ rootPath = 1 /\ \A dir \in Directories : tree[dir] = Empty
        /\ \A q \in Writers : task[q] = Free
        /\ \A d \in Dests : copies[d] = Vacant
    BY DEF RootInit
  <1>5. RootTyped
    BY <1>1, <1>3, FreeTask DEF RootInit, RootTyped, Directories
  <1>6. Sectioned /\ Copies
    BY <1>4, FreeTask DEF Sectioned, Copies
  <1>7. CopiesAreWhole
    BY <1>2, <1>4, ShelvedIs DEF CopiesAreWhole
  <1>8. Anchored(tree[rootPath]) /\ QuietRootIsReadable
    BY <1>1, <1>4 DEF QuietRootIsReadable, Directories
  <1> QED  BY <1>5, <1>6, <1>7, <1>8 DEF RootInv

LEMMA RootStep ==
    ASSUME RootInv, [RootNext]_rootVars
    PROVE  RootInv'
  <1>1. CASE UNCHANGED rootVars
    BY <1>1 DEF RootInv, RootTyped, Sectioned, Copies, CopiesAreWhole, QuietRootIsReadable,
                rootVars
  <1>2. CASE RootNext
    <2>1. ASSUME NEW p \in Writers,
                 \/ SyncSource(p) \/ Register(p) \/ Import(p) \/ Clear(p)
                 \/ OpenRoot(p) \/ Enter(p) \/ WriteFile(p) \/ Leave(p) \/ BreakOff(p)
                 \/ Collect(p) \/ MakeCopy(p) \/ FillCopy(p) \/ PublishCopy(p)
                 \/ AbandonCopy(p)
          PROVE  RootInv'
      BY <2>1, SyncSourceHolds, RegisterHolds, ImportHolds, ClearHolds, OpenRootHolds,
         EnterHolds, WriteFileHolds, LeaveHolds, BreakOffHolds, CollectCopyHolds, MakeCopyHolds,
         FillCopyHolds, PublishCopyHolds, AbandonCopyHolds
    <2>2. ASSUME NEW p \in Writers, NEW d \in Dests,
                 Backup(p, d) \/ \E b \in Dests : RestoreTest(p, b, d)
          PROVE  RootInv'
      BY <2>2, BackupHolds, RestoreTestHolds
    <2>3. ASSUME NEW d \in Dests, Damage(d) \/ Replace(d)
          PROVE  RootInv'
      BY <2>3, DamageHolds, ReplaceHolds
    <2> QED  BY <1>2, <2>1, <2>2, <2>3 DEF RootNext
  <1> QED  BY <1>1, <1>2

\* The data root, its sections, the copies under way and those that are published agree in
\* every reachable state.
THEOREM RootInductive == RootSpec => []RootInv
  <1>1. RootInit => RootInv
    BY RootStarts
  <1>2. RootInv /\ [RootNext]_rootVars => RootInv'
    BY RootStep
  <1> QED  BY <1>1, <1>2, PTL DEF RootSpec

\* For every set of writers, sources and destinations: what is published is whole, and a
\* root in which nobody writes can be backed up unless a write failed or a writer died in it.
THEOREM WholeRoot == RootSpec => []RootIsWhole
  <1>1. RootInv => RootIsWhole
    BY DEF RootInv, RootIsWhole
  <1> QED  BY <1>1, RootInductive, PTL

------------------------------------------------------------------------------
(* The provider chain, for any routes, callers and limits: what the state and its
   episode say of the moves, and what a move was earned with. *)

RouteStates == [route : Routes, epoch : Nat]
Proofs == [good : BOOLEAN, seen : Nat \union {None}]
RoutePlans ==
    [from : Routes, to : Routes \union {None}, failed : SUBSET Routes, made : Nat,
     until : Nat \union {None}, seen : Nat \union {None}]
Chains ==
    {Idle}
    \union [at : {"planned"}, plan : RoutePlans]
    \union [at : {"authorized"}, plan : RoutePlans, state : RouteStates]
    \union [at : {"sealed", "calling", "passed", "refused", "unknown"}, plan : RoutePlans,
            state : RouteStates, sealed : Nat]

SnapshotTyped ==
    snapshot # None =>
        /\ snapshot.at \in Nat /\ snapshot.strategy \in Strategies
        /\ Candidates \subseteq Routes
        /\ \A r \in Candidates : snapshot.evidence[r] \in Proofs

ProviderTyped ==
    /\ now \in Nat
    /\ evidence \in [Routes -> Proofs]
    /\ SnapshotTyped
    /\ state \in RouteStates
    /\ work \in [Callers -> Chains]
    /\ prior \in [Callers -> SUBSET Routes]
    /\ path \in [Callers -> Seq(Routes)]

\* A plan with a target rests on evidence that was there when it was made, and is of use no
\* longer than that evidence is fresh.
Rested(p) ==
    /\ p.from \in p.failed /\ p.to \notin p.failed
    /\ p.to # None =>
          /\ Cardinality(p.failed) < MaxAttempts
          /\ p.until # None /\ p.seen # None
          /\ p.seen <= p.made /\ p.until <= p.seen + MaxAge

\* A chain counts as failed what its episode saw fail, and the route it is to leave.
Chained(w, before) ==
    /\ w.at \in {"planned", "authorized", "sealed", "calling", "refused", "unknown"} =>
          /\ Rested(w.plan)
          /\ w.plan.failed = before \union {w.plan.from} /\ w.plan.from \notin before
    /\ w.at \in {"authorized", "sealed", "calling", "refused", "unknown"} =>
          w.plan.to # None
    /\ w.at \in {"sealed", "calling", "refused", "unknown"} =>
          w.plan.made <= w.sealed /\ w.sealed <= w.plan.until

Episode(before, trail) ==
    /\ Len(trail) < MaxAttempts /\ Len(trail) = Cardinality(before)
    /\ trail # <<>> => trail[Len(trail)] \notin before

ProviderInv ==
    /\ ProviderTyped
    /\ \A o \in Callers : Chained(work[o], prior[o]) /\ Episode(prior[o], path[o])
    /\ TransitionsAreTrue
-----------------------------------------------------------------------------
(* The broker chooses.                                                       *)

\* A set of naturals has a least element.
LEMMA LeastOf ==
    ASSUME NEW S, S \subseteq Nat, S # {}
    PROVE  Min(S) \in S /\ \A x \in S : Min(S) <= x
  <1> DEFINE R == OpToRel(<, Nat)
  <1>1. IsWellFoundedOn(R, Nat)
    BY NatLessThanWellFounded
  <1>2. \A x, y \in Nat : <<y, x>> \in R <=> y < x
    BY DEF OpToRel
  <1> HIDE DEF R
  <1>3. PICK x \in S : \A y \in S : ~(<<y, x>> \in R)
    BY <1>1, WFMin
  <1>4. \A y \in S : ~(y < x)
    BY <1>2, <1>3
  <1>5. \A y \in S : x <= y
    BY <1>4
  <1> QED  BY <1>3, <1>5 DEF Min

LEMMA Ranked ==
    Routes \subseteq Nat /\ \A s \in Strategies, r \in Routes : Preference[s][r] \in Nat
  <1>1. Routes \subseteq Nat /\ Preference \in [Strategies -> [Routes -> Nat]]
    BY TransitionAssumption
  <1>2. \A s \in Strategies : Preference[s] \in [Routes -> Nat]
    BY <1>1
  <1> QED  BY <1>1, <1>2

\* What the broker selects is eligible.
LEMMA SelectedIs ==
    ASSUME ProviderTyped, snapshot # None, NEW rs, rs \subseteq Candidates,
           NEW s \in Strategies, EligibleRoutes(rs) # {}
    PROVE  Selected(rs, s) \in EligibleRoutes(rs)
  <1> DEFINE fit == EligibleRoutes(rs)
             ranks == {Preference[s][r] : r \in fit}
             best == {r \in fit : Preference[s][r] = Min(ranks)}
  <1>1. fit \subseteq Routes /\ fit # {}
    BY DEF ProviderTyped, SnapshotTyped, EligibleRoutes
  <1> HIDE DEF fit
  <1>2. ranks \subseteq Nat /\ ranks # {}
    <2>1. \A r \in fit : Preference[s][r] \in Nat
      BY <1>1, Ranked
    <2> QED  BY <1>1, <2>1
  <1>3. Min(ranks) \in ranks /\ \A x \in ranks : Min(ranks) <= x
    BY <1>2, LeastOf
  <1>4. best \subseteq Nat /\ best # {}
    BY <1>1, <1>3, Ranked
  <1>5. Min(best) \in best /\ \A x \in best : Min(best) <= x
    BY <1>4, LeastOf
  <1> DEFINE top == Min(best)
  <1>6. \A q \in fit \ {top} : Before(s, top, q)
    <2> SUFFICES ASSUME NEW q \in fit \ {top} PROVE Before(s, top, q)
      OBVIOUS
    <2>1. /\ Preference[s][top] \in Nat /\ Preference[s][q] \in Nat /\ top \in Nat /\ q \in Nat
          /\ Preference[s][top] = Min(ranks) /\ Min(ranks) <= Preference[s][q]
      <3>1. top \in fit /\ Preference[s][top] = Min(ranks)
        BY <1>5
      <3>2. Preference[s][q] \in ranks
        OBVIOUS
      <3> HIDE DEF ranks, top
      <3> QED  BY <1>1, <1>3, <3>1, <3>2, Ranked
    <2>2. Preference[s][q] = Min(ranks) => top <= q
      BY <1>5
    <2> HIDE DEF top
    <2> QED  BY <2>1, <2>2 DEF Before
  <1>7. top \in fit
    BY <1>5
  <1> HIDE DEF top
  <1>8. Selected(rs, s) = CHOOSE r \in fit : \A q \in fit \ {r} : Before(s, r, q)
    BY DEF Selected, fit
  <1>9. Selected(rs, s) \in fit
    BY <1>6, <1>7, <1>8
  <1> QED  BY <1>9 DEF fit

\* Evidence of no eligible route gets stale before a plan that rests on it.
LEMMA FreshUntilIs ==
    ASSUME ProviderTyped, snapshot # None, NEW rs, rs \subseteq Candidates
    PROVE  /\ FreshUntil(rs) \in Nat \union {None}
           /\ EligibleRoutes(rs) # {} =>
                \A r \in EligibleRoutes(rs) : FreshUntil(rs) <= snapshot.evidence[r].seen + MaxAge
  <1> DEFINE ends == {snapshot.evidence[r].seen + MaxAge : r \in EligibleRoutes(rs)}
  <1>1. CASE EligibleRoutes(rs) = {}
    BY <1>1 DEF FreshUntil
  <1>2. CASE EligibleRoutes(rs) # {}
    <2>1. \A r \in EligibleRoutes(rs) : snapshot.evidence[r].seen \in Nat
      BY DEF ProviderTyped, SnapshotTyped, EligibleRoutes, Eligible, Proofs
    <2>2. ends \subseteq Nat /\ ends # {}
      BY <1>2, <2>1, TransitionAssumption
    <2>3. Min(ends) \in ends /\ \A x \in ends : Min(ends) <= x
      BY <2>2, LeastOf
    <2>4. FreshUntil(rs) = Min(ends)
      BY <1>2 DEF FreshUntil
    <2> QED  BY <2>2, <2>3, <2>4
  <1> QED  BY <1>1, <1>2

\* A plan that is kept rests on the evidence of the snapshot it is made from.
LEMMA PlanRests ==
    ASSUME ProviderTyped, snapshot # None, NEW from \in Routes, NEW failed \in SUBSET Routes,
           NEW p, p = TransitionPlan(snapshot.strategy, from, failed), ValidPlan(p)
    PROVE  p \in RoutePlans /\ Rested(p) /\ p.failed = failed /\ p.from = from
  <1> DEFINE rest == Candidates \ failed
             s == snapshot.strategy
             until == FreshUntil(rest)
  <1>1. s \in Strategies /\ snapshot.at \in Nat /\ Candidates \subseteq Routes
    BY DEF ProviderTyped, SnapshotTyped
  <1>2. /\ p.from = from /\ p.failed = failed /\ p.made = snapshot.at /\ p.until = until
        /\ p.to \in {None, Selected(rest, s)}
        /\ p.seen = IF p.to = None THEN None ELSE snapshot.evidence[p.to].seen
        /\ p = [from |-> p.from, to |-> p.to, failed |-> p.failed, made |-> p.made,
                until |-> p.until, seen |-> p.seen]
    BY DEF TransitionPlan
  <1>3. /\ until \in Nat \union {None}
        /\ EligibleRoutes(rest) # {} =>
             \A r \in EligibleRoutes(rest) : until <= snapshot.evidence[r].seen + MaxAge
    BY FreshUntilIs
  <1> HIDE DEF until
  <1>4. CASE p.to = None
    <2>1. p.seen = None
      BY <1>2, <1>4
    <2>2. p \in RoutePlans
      BY <1>1, <1>2, <1>3, <1>4, <2>1 DEF RoutePlans
    <2>3. Rested(p)
      BY <1>4 DEF Rested, ValidPlan
    <2> QED  BY <1>2, <2>2, <2>3
  <1>5. CASE p.to # None
    <2>1. EligibleRoutes(rest) # {}
      BY <1>2, <1>5 DEF Selected
    <2>2. p.to \in EligibleRoutes(rest)
      BY <1>1, <1>2, <1>5, <2>1, SelectedIs
    <2>3. /\ p.to \in Routes /\ p.seen = snapshot.evidence[p.to].seen
          /\ p.seen \in Nat \union {None} /\ p.seen # None /\ p.seen <= snapshot.at
      BY <1>1, <1>2, <1>5, <2>2 DEF ProviderTyped, SnapshotTyped, EligibleRoutes, Eligible, Proofs
    <2>4. p \in RoutePlans
      BY <1>1, <1>2, <1>3, <2>3 DEF RoutePlans
    <2>5. p.until <= p.seen + MaxAge
      BY <1>2, <1>3, <2>1, <2>2, <2>3
    <2>6. Rested(p)
      BY <1>2, <1>5, <2>3, <2>5 DEF Rested, ValidPlan
    <2> QED  BY <1>2, <2>4, <2>6
  <1> QED  BY <1>4, <1>5

-----------------------------------------------------------------------------
(* The chain.                                                                *)

LEMMA IdleIs == Idle \in Chains /\ Idle.at = "idle" /\ \A before : Chained(Idle, before)
  <1>1. Idle.at = "idle"
    BY DEF Idle
  <1> QED  BY <1>1 DEF Chains, Chained

LEMMA NoMoves == Episode({}, <<>>)
  <1>1. Cardinality({}) = 0
    BY FS_EmptySet
  <1>2. Len(<<>>) = 0 /\ 0 < MaxAttempts
    BY TransitionAssumption
  <1> QED  BY <1>1, <1>2 DEF Episode

LEMMA CallerIs ==
    ASSUME ProviderInv, NEW o \in Callers
    PROVE  /\ work[o] \in Chains /\ prior[o] \in SUBSET Routes /\ path[o] \in Seq(Routes)
           /\ Chained(work[o], prior[o]) /\ Episode(prior[o], path[o])
           /\ state \in RouteStates
  BY DEF ProviderInv, ProviderTyped

\* A caller goes on to something that is not a success, and the state stays or is
\* replaced by one with the next epoch.
LEMMA ChainHolds ==
    ASSUME ProviderInv, NEW o \in Callers,
           NEW w \in Chains, w.at # "passed", Does(o, w),
           NEW before \in SUBSET Routes, prior' = [prior EXCEPT ![o] = before],
           NEW trail \in Seq(Routes), path' = [path EXCEPT ![o] = trail],
           Chained(w, before), Episode(before, trail),
           state' \in RouteStates, state' = state \/ state'.epoch = state.epoch + 1,
           UNCHANGED <<now, evidence, snapshot>>
    PROVE  ProviderInv'
  <1>1. /\ work \in [Callers -> Chains] /\ prior \in [Callers -> SUBSET Routes]
        /\ path \in [Callers -> Seq(Routes)] /\ state \in RouteStates
    BY DEF ProviderInv, ProviderTyped
  <1>2. \A q \in Callers : /\ work'[q] = IF q = o THEN w ELSE work[q]
                           /\ prior'[q] = IF q = o THEN before ELSE prior[q]
                           /\ path'[q] = IF q = o THEN trail ELSE path[q]
    BY <1>1 DEF Does
  <1>3. ProviderTyped'
    BY <1>1 DEF ProviderInv, ProviderTyped, Does, SnapshotTyped, Candidates
  <1>4. \A q \in Callers : Chained(work'[q], prior'[q]) /\ Episode(prior'[q], path'[q])
    BY <1>2 DEF ProviderInv
  <1>5. \A q \in Callers : work'[q].at = "passed" => work'[q] = work[q] /\ work[q].at = "passed"
    BY <1>2
  <1>6. \A q \in Callers :
          work[q].at = "passed" =>
             \/ state' = Successor(work[q])
             \/ state'.epoch > work[q].state.epoch + 1
    <2> SUFFICES ASSUME NEW q \in Callers, work[q].at = "passed"
                 PROVE  \/ state' = Successor(work[q])
                        \/ state'.epoch > work[q].state.epoch + 1
      OBVIOUS
    <2>1. work[q].state \in RouteStates
      BY <1>1 DEF Chains, Idle
    <2>2. \/ state = Successor(work[q])
          \/ state.epoch > work[q].state.epoch + 1
      BY DEF ProviderInv, TransitionsAreTrue
    <2>3. Successor(work[q]).epoch = work[q].state.epoch + 1
      BY DEF Successor
    <2>4. state.epoch \in Nat /\ work[q].state.epoch \in Nat
      BY <1>1, <2>1 DEF RouteStates
    <2>5. state.epoch >= work[q].state.epoch + 1
      BY <2>2, <2>3, <2>4
    <2> QED  BY <2>2, <2>4, <2>5
  <1>7. \A p, q \in Callers :
          p # q /\ work[p].at = "passed" /\ work[q].at = "passed" =>
             work[p].state.epoch # work[q].state.epoch
    BY DEF ProviderInv, TransitionsAreTrue
  <1>8. TransitionsAreTrue'
    <2>1. \A q \in Callers : Successor(work[q])' = Successor(work'[q])
      BY DEF Successor
    <2>2. \A q \in Callers :
             work'[q].at = "passed" =>
                \/ state' = Successor(work'[q])
                \/ state'.epoch > work'[q].state.epoch + 1
      BY <1>5, <1>6
    <2>3. \A p, q \in Callers :
             p # q /\ work'[p].at = "passed" /\ work'[q].at = "passed" =>
                work'[p].state.epoch # work'[q].state.epoch
      BY <1>5, <1>7
    <2> QED  BY <2>2, <2>3 DEF TransitionsAreTrue, Successor
  <1> QED  BY <1>3, <1>4, <1>8 DEF ProviderInv

\* The same, where the episode stays as it is.
LEMMA WorkHolds ==
    ASSUME ProviderInv, NEW o \in Callers,
           NEW w \in Chains, w.at # "passed", Does(o, w), Chained(w, prior[o]),
           state' \in RouteStates, state' = state \/ state'.epoch = state.epoch + 1,
           UNCHANGED <<now, evidence, snapshot, prior, path>>
    PROVE  ProviderInv'
  <1>1. prior' = [prior EXCEPT ![o] = prior[o]] /\ path' = [path EXCEPT ![o] = path[o]]
    BY DEF ProviderInv, ProviderTyped
  <1>2. prior[o] \in SUBSET Routes /\ path[o] \in Seq(Routes) /\ Episode(prior[o], path[o])
    BY CallerIs
  <1> QED  BY <1>1, <1>2, ChainHolds

LEMMA RefuseHolds ==
    ASSUME ProviderInv, NEW o \in Callers, Refuse(o), UNCHANGED <<world, state>>
    PROVE  ProviderInv'
  <1>1. Does(o, Idle) /\ UNCHANGED <<now, evidence, snapshot, prior, path, state>>
    BY DEF Refuse, world
  <1>2. state \in RouteStates
    BY CallerIs
  <1> QED  BY <1>1, <1>2, IdleIs, WorkHolds

LEMMA HandsOverHolds ==
    ASSUME ProviderInv, NEW o \in Callers, HandsOver(o), UNCHANGED <<world, state>>
    PROVE  ProviderInv'
  <1>1. /\ Does(o, Idle) /\ prior' = [prior EXCEPT ![o] = {}]
        /\ path' = [path EXCEPT ![o] = <<>>] /\ UNCHANGED <<now, evidence, snapshot, state>>
    BY DEF HandsOver, world
  <1>2. state \in RouteStates
    BY CallerIs
  <1>3. {} \in SUBSET Routes /\ <<>> \in Seq(Routes)
    OBVIOUS
  <1> QED  BY <1>1, <1>2, <1>3, IdleIs, NoMoves, ChainHolds

LEMMA PlanHolds ==
    ASSUME ProviderInv, NEW o \in Callers, Plan(o)
    PROVE  ProviderInv'
  <1> DEFINE from == state.route
             p == TransitionPlan(snapshot.strategy, from, prior[o] \union {from})
             w == [at |-> "planned", plan |-> p]
  <1>1. /\ snapshot # None /\ from \notin prior[o] /\ ValidPlan(p) /\ Does(o, w)
        /\ UNCHANGED <<now, evidence, snapshot, state, prior, path>>
    BY DEF Plan, Keeps, world
  <1>2. ProviderTyped /\ from \in Routes /\ prior[o] \union {from} \in SUBSET Routes
    BY CallerIs DEF ProviderInv, RouteStates
  <1> HIDE DEF from, p
  <1>3. p \in RoutePlans /\ Rested(p) /\ p.failed = prior[o] \union {from} /\ p.from = from
    <2>1. p = TransitionPlan(snapshot.strategy, from, prior[o] \union {from})
      BY DEF p
    <2> QED  BY <1>1, <1>2, <2>1, PlanRests
  <1>4. w \in Chains /\ w.at = "planned" /\ w.plan = p
    BY <1>3 DEF Chains
  <1> HIDE DEF w
  <1>5. Chained(w, prior[o])
    BY <1>1, <1>3, <1>4 DEF Chained
  <1>6. state \in RouteStates
    BY CallerIs
  <1> QED  BY <1>1, <1>4, <1>5, <1>6, WorkHolds

LEMMA AuthorizeHolds ==
    ASSUME ProviderInv, NEW o \in Callers, Authorize(o)
    PROVE  ProviderInv'
  <1> DEFINE p == work[o].plan
             w == [at |-> "authorized", plan |-> p, state |-> state]
  <1>1. work[o].at = "planned" /\ UNCHANGED <<world, state>>
    BY DEF Authorize
  <1>2. CASE ~Usable(p)
    BY <1>1, <1>2, RefuseHolds DEF Authorize
  <1>3. CASE Usable(p) /\ (p.to = None \/ state.route # p.from)
    BY <1>1, <1>3, HandsOverHolds DEF Authorize
  <1>4. CASE Usable(p) /\ ~(p.to = None \/ state.route # p.from)
    <2>1. p.to # None /\ Does(o, w) /\ UNCHANGED <<now, evidence, snapshot, state, prior, path>>
      BY <1>4 DEF Authorize, world
    <2>2. work[o] \in Chains /\ Chained(work[o], prior[o]) /\ state \in RouteStates
      BY CallerIs
    <2>3. p \in RoutePlans
      BY <1>1, <2>2 DEF Chains, Idle
    <2>4. w \in Chains /\ w.at = "authorized" /\ w.plan = p
      BY <2>2, <2>3 DEF Chains
    <2> HIDE DEF w
    <2>5. Chained(w, prior[o])
      BY <1>1, <2>1, <2>2, <2>4 DEF Chained
    <2> QED  BY <2>1, <2>2, <2>4, <2>5, WorkHolds
  <1> QED  BY <1>2, <1>3, <1>4

LEMMA SealHolds ==
    ASSUME ProviderInv, NEW o \in Callers, Seal(o)
    PROVE  ProviderInv'
  <1> DEFINE a == work[o]
             w == [at |-> "sealed", plan |-> a.plan, state |-> a.state, sealed |-> now]
             ok == Usable(a.plan) /\ ValidAuthorization(a) /\ state = a.state /\ ValidRequest(a)
  <1>1. a.at = "authorized" /\ UNCHANGED <<world, state>>
    BY DEF Seal
  <1>2. CASE ~ok
    BY <1>1, <1>2, RefuseHolds DEF Seal
  <1>3. CASE ok
    <2>1. Does(o, w) /\ UNCHANGED <<now, evidence, snapshot, state, prior, path>>
      BY <1>3 DEF Seal, world
    <2>2. a \in Chains /\ Chained(a, prior[o]) /\ state \in RouteStates /\ now \in Nat
      BY CallerIs DEF ProviderInv, ProviderTyped
    <2>3. a.plan \in RoutePlans /\ a.state \in RouteStates
      BY <1>1, <2>2 DEF Chains, Idle
    <2>4. InWindow(a.plan)
      BY <1>3 DEF Usable
    <2> HIDE DEF a
    <2>5. w \in Chains /\ w.at = "sealed" /\ w.plan = a.plan /\ w.sealed = now
      BY <2>2, <2>3 DEF Chains
    <2> HIDE DEF w
    <2>6. Chained(w, prior[o])
      BY <1>1, <2>2, <2>4, <2>5 DEF Chained, InWindow, Rested
    <2> QED  BY <2>1, <2>2, <2>5, <2>6, WorkHolds
  <1> QED  BY <1>2, <1>3

\* A sealed chain that is called, refused, in doubt or tried again carries what it did.
LEMMA SealedGoesOn ==
    ASSUME ProviderInv, NEW o \in Callers,
           work[o].at \in {"sealed", "calling", "passed", "refused", "unknown"},
           NEW i \in {"sealed", "calling", "passed", "refused", "unknown"}
    PROVE  LET w == [work[o] EXCEPT !.at = i] IN
           /\ w \in Chains /\ w.at = i /\ w.plan = work[o].plan /\ w.state = work[o].state
           /\ w.sealed = work[o].sealed
           /\ work[o].plan \in RoutePlans /\ work[o].state \in RouteStates
           /\ work[o].at # "passed" /\ i # "passed" => Chained(w, prior[o])
  <1> DEFINE w == [work[o] EXCEPT !.at = i]
             Sealeds == [at : {"sealed", "calling", "passed", "refused", "unknown"},
                         plan : RoutePlans, state : RouteStates, sealed : Nat]
  <1>1. work[o] \in Sealeds
    BY CallerIs DEF Chains, Idle
  <1>2. /\ w \in Sealeds /\ w.at = i /\ w.plan = work[o].plan /\ w.state = work[o].state
        /\ w.sealed = work[o].sealed
    BY <1>1
  <1>3. work[o].plan \in RoutePlans /\ work[o].state \in RouteStates
    BY <1>1
  <1> HIDE DEF w
  <1>4. ASSUME work[o].at # "passed", i # "passed" PROVE Chained(w, prior[o])
    BY <1>2, <1>4, CallerIs DEF Chained
  <1>5. w \in Chains
    BY <1>2 DEF Chains
  <1> QED  BY <1>2, <1>3, <1>4, <1>5 DEF w

LEMMA CommitHolds ==
    ASSUME ProviderInv, NEW o \in Callers, Commit(o)
    PROVE  ProviderInv'
  <1> DEFINE a == work[o]
             w == [a EXCEPT !.at = "calling"]
             ok == ValidRequest(a) /\ state = a.state /\ state.epoch < MaxEpoch
  <1>1. a.at = "sealed" /\ UNCHANGED <<world, state>>
    BY DEF Commit
  <1>2. CASE ~ok
    BY <1>1, <1>2, RefuseHolds DEF Commit
  <1>3. CASE ok
    <2>1. Does(o, w) /\ UNCHANGED <<now, evidence, snapshot, state, prior, path>>
      BY <1>3 DEF Commit, world
    <2>2. w \in Chains /\ w.at = "calling" /\ Chained(w, prior[o])
      BY <1>1, SealedGoesOn
    <2>3. state \in RouteStates
      BY CallerIs
    <2> HIDE DEF w
    <2> QED  BY <2>1, <2>2, <2>3, WorkHolds
  <1> QED  BY <1>2, <1>3

\* What a call puts in the place of the state it expects.
LEMMA SuccessorIs ==
    ASSUME ProviderInv, NEW o \in Callers, work[o].at = "calling", state = work[o].state
    PROVE  /\ Successor(work[o]) \in RouteStates
           /\ Successor(work[o]).epoch = state.epoch + 1
           /\ Successor(work[o]).route = work[o].plan.to
  <1>1. work[o].plan \in RoutePlans /\ work[o].state \in RouteStates
    BY SealedGoesOn
  <1>2. work[o].plan.to \in Routes
    BY <1>1, CallerIs DEF Chained, RoutePlans
  <1> QED  BY <1>1, <1>2 DEF Successor, RouteStates

\* A success: the state has the epoch that no other success saw.
LEMMA PortCommitsHolds ==
    ASSUME ProviderInv, NEW o \in Callers, PortCommits(o)
    PROVE  ProviderInv'
  <1> DEFINE a == work[o]
             w == [a EXCEPT !.at = "passed"]
             failed == a.plan.failed
             trail == Append(path[o], a.plan.to)
  <1>1. /\ a.at = "calling" /\ state = a.state /\ state' = Successor(a) /\ Does(o, w)
        /\ prior' = [prior EXCEPT ![o] = failed] /\ path' = [path EXCEPT ![o] = trail]
        /\ UNCHANGED <<now, evidence, snapshot>>
    BY DEF PortCommits, Passed, world
  <1>2. /\ a \in Chains /\ prior[o] \in SUBSET Routes /\ path[o] \in Seq(Routes)
        /\ Chained(a, prior[o]) /\ Episode(prior[o], path[o]) /\ state \in RouteStates
    BY CallerIs
  <1>3. w \in Chains /\ w.at = "passed" /\ w.plan = a.plan /\ w.state = a.state
    BY <1>1, SealedGoesOn
  <1>4. a.plan \in RoutePlans /\ a.plan.to \in Routes
    BY <1>1, <1>2, SealedGoesOn DEF Chained, RoutePlans
  <1>5. /\ Rested(a.plan) /\ failed = prior[o] \union {a.plan.from} /\ a.plan.from \notin prior[o]
        /\ a.plan.to # None
    BY <1>1, <1>2 DEF Chained
  <1>6. state' \in RouteStates /\ state'.epoch = state.epoch + 1
    BY <1>1, SuccessorIs
  <1>7. failed \in SUBSET Routes /\ trail \in Seq(Routes)
    BY <1>2, <1>4 DEF RoutePlans
  <1>8. Episode(failed, trail)
    <2>1. IsFiniteSet(prior[o])
      BY <1>2, TransitionAssumption, FS_Subset
    <2>2. Cardinality(failed) = Cardinality(prior[o]) + 1
      BY <1>5, <2>1, FS_AddElement
    <2>3. Len(trail) = Len(path[o]) + 1 /\ trail[Len(path[o]) + 1] = a.plan.to
      BY <1>2, <1>4
    <2>4. Len(path[o]) = Cardinality(prior[o])
      BY <1>2 DEF Episode
    <2>5. a.plan.to \notin failed /\ Cardinality(failed) < MaxAttempts
      BY <1>5 DEF Rested
    <2> HIDE DEF a, failed, trail
    <2> QED  BY <2>2, <2>3, <2>4, <2>5 DEF Episode
  <1>9. Chained(w, failed)
    BY <1>3 DEF Chained
  <1>10. /\ work \in [Callers -> Chains] /\ prior \in [Callers -> SUBSET Routes]
         /\ path \in [Callers -> Seq(Routes)]
    BY DEF ProviderInv, ProviderTyped
  <1>11. \A q \in Callers :
            work[q].at = "passed" =>
               /\ work[q].state \in RouteStates
               /\ state.epoch >= work[q].state.epoch + 1
    <2> SUFFICES ASSUME NEW q \in Callers, work[q].at = "passed"
                 PROVE  /\ work[q].state \in RouteStates
                        /\ state.epoch >= work[q].state.epoch + 1
      OBVIOUS
    <2>1. work[q].state \in RouteStates
      BY SealedGoesOn
    <2>2. \/ state = Successor(work[q])
          \/ state.epoch > work[q].state.epoch + 1
      BY DEF ProviderInv, TransitionsAreTrue
    <2>3. Successor(work[q]).epoch = work[q].state.epoch + 1
      BY DEF Successor
    <2>4. state.epoch \in Nat /\ work[q].state.epoch \in Nat
      BY <1>2, <2>1 DEF RouteStates
    <2> QED  BY <2>1, <2>2, <2>3, <2>4
  <1>12. Successor(a) = Successor(w)
    BY <1>3 DEF Successor
  <1>13. state.epoch \in Nat /\ state.epoch = w.state.epoch
    BY <1>1, <1>2, <1>3 DEF RouteStates
  <1> HIDE DEF a, w, failed, trail
  <1>14. \A q \in Callers : /\ work'[q] = IF q = o THEN w ELSE work[q]
                            /\ prior'[q] = IF q = o THEN failed ELSE prior[q]
                            /\ path'[q] = IF q = o THEN trail ELSE path[q]
    BY <1>1, <1>10 DEF Does
  <1>15. ProviderTyped'
    BY <1>1, <1>3, <1>6, <1>7, <1>10 DEF ProviderInv, ProviderTyped, Does, SnapshotTyped,
                                         Candidates
  <1>16. \A q \in Callers : Chained(work'[q], prior'[q]) /\ Episode(prior'[q], path'[q])
    BY <1>8, <1>9, <1>14 DEF ProviderInv
  <1>17. \A q \in Callers :
            work'[q].at = "passed" =>
               \/ state' = Successor(work'[q])
               \/ state'.epoch > work'[q].state.epoch + 1
    <2> SUFFICES ASSUME NEW q \in Callers, work'[q].at = "passed"
                 PROVE  \/ state' = Successor(work'[q])
                        \/ state'.epoch > work'[q].state.epoch + 1
      OBVIOUS
    <2>1. CASE q = o
      BY <1>1, <1>12, <1>14, <2>1
    <2>2. CASE q # o
      <3>1. work'[q] = work[q] /\ work[q].state.epoch \in Nat
        BY <1>11, <1>14, <2>2 DEF RouteStates
      <3> QED  BY <1>6, <1>11, <1>13, <3>1
    <2> QED  BY <2>1, <2>2
  <1>18. \A q \in Callers \ {o} :
            work'[q].at = "passed" => work'[q].state.epoch # work'[o].state.epoch
    <2> SUFFICES ASSUME NEW q \in Callers \ {o}, work'[q].at = "passed"
                 PROVE  work'[q].state.epoch # work'[o].state.epoch
      OBVIOUS
    <2>1. /\ work'[q] = work[q] /\ work'[o] = w /\ work[q].state.epoch \in Nat
          /\ state.epoch >= work[q].state.epoch + 1
      BY <1>11, <1>14 DEF RouteStates
    <2> QED  BY <1>13, <2>1
  <1>19. \A p, q \in Callers :
            p # q /\ work'[p].at = "passed" /\ work'[q].at = "passed" =>
               work'[p].state.epoch # work'[q].state.epoch
    <2>1. \A p, q \in Callers \ {o} :
             p # q /\ work'[p].at = "passed" /\ work'[q].at = "passed" =>
                work'[p].state.epoch # work'[q].state.epoch
      BY <1>14 DEF ProviderInv, TransitionsAreTrue
    <2> QED  BY <1>18, <2>1
  <1>20. TransitionsAreTrue'
    BY <1>17, <1>19 DEF TransitionsAreTrue, Successor
  <1> QED  BY <1>15, <1>16, <1>20 DEF ProviderInv

LEMMA PortRefusesHolds ==
    ASSUME ProviderInv, NEW o \in Callers, PortRefuses(o)
    PROVE  ProviderInv'
  <1> DEFINE w == [work[o] EXCEPT !.at = "refused"]
  <1>1. /\ work[o].at = "calling" /\ Does(o, w)
        /\ UNCHANGED <<now, evidence, snapshot, state, prior, path>>
    BY DEF PortRefuses, NotPassed, world
  <1>2. w \in Chains /\ w.at = "refused" /\ Chained(w, prior[o])
    BY <1>1, SealedGoesOn
  <1>3. state \in RouteStates
    BY CallerIs
  <1> HIDE DEF w
  <1> QED  BY <1>1, <1>2, <1>3, WorkHolds

LEMMA PortFailsHolds ==
    ASSUME ProviderInv, NEW o \in Callers, PortFails(o)
    PROVE  ProviderInv'
  <1> DEFINE w == [work[o] EXCEPT !.at = "unknown"]
  <1>1. /\ work[o].at = "calling" /\ Does(o, w)
        /\ UNCHANGED <<now, evidence, snapshot, prior, path>>
        /\ state' = state \/ (state = work[o].state /\ state' = Successor(work[o]))
    BY DEF PortFails, NotPassed, world
  <1>2. w \in Chains /\ w.at = "unknown" /\ Chained(w, prior[o])
    BY <1>1, SealedGoesOn
  <1>3. state' \in RouteStates /\ (state' = state \/ state'.epoch = state.epoch + 1)
    BY <1>1, CallerIs, SuccessorIs
  <1> HIDE DEF w
  <1> QED  BY <1>1, <1>2, <1>3, WorkHolds

LEMMA GoOnHolds ==
    ASSUME ProviderInv, NEW o \in Callers, GoOn(o)
    PROVE  ProviderInv'
  <1>1. UNCHANGED <<world, state>> /\ state \in RouteStates
    BY CallerIs DEF GoOn
  <1>2. CASE Does(o, Idle) /\ UNCHANGED <<prior, path>>
    BY <1>1, <1>2, RefuseHolds DEF Refuse
  <1>3. CASE HandsOver(o)
    BY <1>1, <1>3, HandsOverHolds
  <1>4. CASE /\ work[o].at \in {"refused", "unknown"}
             /\ Does(o, [work[o] EXCEPT !.at = "sealed"]) /\ UNCHANGED <<prior, path>>
    <2> DEFINE w == [work[o] EXCEPT !.at = "sealed"]
    <2>1. w \in Chains /\ w.at = "sealed" /\ Chained(w, prior[o])
      BY <1>4, SealedGoesOn
    <2>2. UNCHANGED <<now, evidence, snapshot, state, prior, path>> /\ Does(o, w)
      BY <1>1, <1>4 DEF world
    <2> HIDE DEF w
    <2> QED  BY <1>1, <2>1, <2>2, WorkHolds
  <1> QED  BY <1>2, <1>3, <1>4 DEF GoOn

-----------------------------------------------------------------------------
(* The world.                                                                *)

LEMMA WorldHolds ==
    ASSUME ProviderInv, UNCHANGED <<work, prior, path, state>>,
           now' \in Nat, evidence' \in [Routes -> Proofs], SnapshotTyped'
    PROVE  ProviderInv'
  <1>1. ProviderTyped'
    BY DEF ProviderInv, ProviderTyped
  <1>2. TransitionsAreTrue'
    BY DEF ProviderInv, TransitionsAreTrue, Successor
  <1> QED  BY <1>1, <1>2 DEF ProviderInv

LEMMA TickHolds ==
    ASSUME ProviderInv, Tick
    PROVE  ProviderInv'
  <1>1. /\ UNCHANGED <<work, prior, path, state>> /\ now' \in Nat
        /\ evidence' \in [Routes -> Proofs] /\ SnapshotTyped'
    BY DEF ProviderInv, ProviderTyped, SnapshotTyped, Candidates, Tick
  <1> QED  BY <1>1, WorldHolds

LEMMA ObserveHolds ==
    ASSUME ProviderInv, NEW r \in Routes, Observe(r)
    PROVE  ProviderInv'
  <1> PICK e \in Evidence : e.seen \in {None, now, now + 1}
                            /\ evidence' = [evidence EXCEPT ![r] = e]
    BY DEF Observe
  <1>1. now \in Nat /\ evidence \in [Routes -> Proofs] /\ SnapshotTyped
    BY DEF ProviderInv, ProviderTyped
  <1>2. e \in Proofs
    BY <1>1 DEF Evidence, Proofs
  <1>3. evidence' \in [Routes -> Proofs]
    BY <1>1, <1>2
  <1>4. UNCHANGED <<work, prior, path, state, now, snapshot>>
    BY DEF Observe
  <1>5. SnapshotTyped'
    BY <1>1, <1>4 DEF SnapshotTyped, Candidates
  <1> QED  BY <1>1, <1>3, <1>4, <1>5, WorldHolds

LEMMA DisableHolds ==
    ASSUME ProviderInv, NEW r \in Routes, Disable(r)
    PROVE  ProviderInv'
  <1>1. /\ UNCHANGED <<work, prior, path, state>> /\ now' \in Nat
        /\ evidence' \in [Routes -> Proofs] /\ SnapshotTyped'
    BY DEF ProviderInv, ProviderTyped, SnapshotTyped, Candidates, Disable
  <1> QED  BY <1>1, WorldHolds

LEMMA PublishSnapshotHolds ==
    ASSUME ProviderInv, NEW rs \in Lists, NEW s \in Strategies, PublishSnapshot(rs, s)
    PROVE  ProviderInv'
  <1>1. now \in Nat /\ evidence \in [Routes -> Proofs] /\ rs \subseteq Routes
    BY TransitionAssumption DEF ProviderInv, ProviderTyped
  <1> DEFINE shown == [r \in rs |-> evidence[r]]
  <1>2. /\ UNCHANGED <<work, prior, path, state, now, evidence>>
        /\ snapshot' = [at |-> now, strategy |-> s, evidence |-> shown]
    BY DEF PublishSnapshot
  <1>3. DOMAIN shown = rs /\ \A r \in rs : shown[r] \in Proofs
    BY <1>1
  <1> HIDE DEF shown
  <1>4. snapshot'.at = now /\ snapshot'.strategy = s /\ snapshot'.evidence = shown
    BY <1>2
  <1>5. SnapshotTyped'
    BY <1>1, <1>3, <1>4 DEF SnapshotTyped, Candidates
  <1> QED  BY <1>1, <1>2, <1>5, WorldHolds

-----------------------------------------------------------------------------
(* The theorems.                                                             *)

LEMMA ProviderStarts ==
    ASSUME ProviderInit
    PROVE  ProviderInv
  <1>1. InitialRoute \in Routes /\ 0 \in Nat /\ 1 \in Nat
    BY TransitionAssumption
  <1>2. ProviderTyped
    BY <1>1, IdleIs DEF ProviderInit, ProviderTyped, SnapshotTyped, RouteStates, Proofs
  <1>3. \A o \in Callers : work[o] = Idle /\ prior[o] = {} /\ path[o] = <<>>
    BY DEF ProviderInit
  <1>4. TransitionsAreTrue
    BY <1>3, IdleIs DEF TransitionsAreTrue
  <1> QED  BY <1>2, <1>3, <1>4, IdleIs, NoMoves DEF ProviderInv

LEMMA ProviderStep ==
    ASSUME ProviderInv, [ProviderNext]_providerVars
    PROVE  ProviderInv'
  <1>1. CASE UNCHANGED providerVars
    <2>1. /\ UNCHANGED <<work, prior, path, state>> /\ now' \in Nat
          /\ evidence' \in [Routes -> Proofs] /\ SnapshotTyped'
      BY <1>1 DEF providerVars, ProviderInv, ProviderTyped, SnapshotTyped, Candidates
    <2> QED  BY <2>1, WorldHolds
  <1>2. ASSUME NEW o \in Callers, ChainStep(o) PROVE ProviderInv'
    BY <1>2, PlanHolds, AuthorizeHolds, SealHolds, CommitHolds, PortCommitsHolds,
       PortRefusesHolds, PortFailsHolds, GoOnHolds DEF ChainStep
  <1> QED  BY <1>1, <1>2, TickHolds, ObserveHolds, DisableHolds, PublishSnapshotHolds
           DEF ProviderNext

\* RoutePlans, requests and receipts of every caller agree with the state in every reachable
\* state.
THEOREM ProviderInductive == ProviderSpec => []ProviderInv
  <1>1. ProviderInit => ProviderInv
    BY ProviderStarts
  <1>2. ProviderInv /\ [ProviderNext]_providerVars => ProviderInv'
    BY ProviderStep
  <1> QED  BY <1>1, <1>2, PTL DEF ProviderSpec

\* For every set of callers and routes: a receipt is true of the state, no two are for one
\* change of it, and no episode moves more often than it may or to a route that failed.
THEOREM TrueEpisodes == ProviderSpec => []EpisodesAreTrue
  <1>1. ProviderInv => EpisodesAreTrue
    BY DEF ProviderInv, Episode, EpisodesAreTrue, EpisodesEnd
  <1> QED  BY <1>1, ProviderInductive, PTL

\* What MovesAreEarned says of a step.
Earned ==
    state' # state =>
        /\ state'.epoch = state.epoch + 1
        /\ \E o \in Callers :
              LET w == work[o] IN
              /\ w.at = "calling" /\ w.state = state /\ w.plan.to = state'.route
              /\ w.plan.to \notin w.plan.failed /\ prior[o] \subseteq w.plan.failed
              /\ w.plan.seen <= w.plan.made /\ w.plan.made <= w.sealed
              /\ w.sealed <= w.plan.seen + MaxAge

\* Only a call changes the state, and it was sealed while the evidence of its target was
\* fresh.
LEMMA CallIsEarned ==
    ASSUME ProviderInv, NEW o \in Callers, work[o].at = "calling", state = work[o].state,
           state' = Successor(work[o])
    PROVE  Earned
  <1> DEFINE w == work[o]
             p == w.plan
  <1>1. w \in Chains /\ Chained(w, prior[o])
    BY CallerIs
  <1>2. p \in RoutePlans /\ w.sealed \in Nat
    BY <1>1 DEF Chains, Idle
  <1>3. /\ Rested(p) /\ p.failed = prior[o] \union {p.from} /\ p.to # None
        /\ p.made <= w.sealed /\ w.sealed <= p.until
    BY <1>1 DEF Chained
  <1>4. state'.epoch = state.epoch + 1 /\ state'.route = p.to
    BY SuccessorIs
  <1>5. /\ p.to \notin p.failed /\ p.seen \in Nat /\ p.until \in Nat /\ p.made \in Nat
        /\ p.seen <= p.made /\ p.until <= p.seen + MaxAge
    BY <1>2, <1>3 DEF Rested, RoutePlans
  <1>6. w.sealed <= p.seen + MaxAge /\ prior[o] \subseteq p.failed
    BY <1>2, <1>3, <1>5, TransitionAssumption
  <1> QED  BY <1>3, <1>4, <1>5, <1>6 DEF Earned

\* For every set of callers and routes: the state moves only where fresh evidence, and the
\* broker, sent it.
THEOREM EarnedMoves == ProviderSpec => MovesAreEarned
  <1>1. ProviderInv /\ [ProviderNext]_providerVars => [Earned]_providerVars
    <2> SUFFICES ASSUME ProviderInv, ProviderNext
                 PROVE  Earned
      OBVIOUS
    <2>1. ASSUME NEW o \in Callers, PortCommits(o) \/ PortFails(o)
          PROVE  Earned
      <3>1. CASE state' = state
        BY <3>1 DEF Earned
      <3>2. CASE state' # state
        <4>1. work[o].at = "calling" /\ state = work[o].state /\ state' = Successor(work[o])
          BY <2>1, <3>2 DEF PortCommits, PortFails
        <4> QED  BY <4>1, CallIsEarned
      <3> QED  BY <3>1, <3>2
    <2>2. ASSUME NEW o \in Callers,
                 \/ Plan(o) \/ Authorize(o) \/ Seal(o) \/ Commit(o) \/ PortRefuses(o) \/ GoOn(o)
          PROVE  state' = state
      BY <2>2 DEF Plan, Authorize, Seal, Commit, PortRefuses, GoOn
    <2>3. ASSUME NEW r \in Routes, Observe(r) \/ Disable(r)
          PROVE  state' = state
      BY <2>3 DEF Observe, Disable
    <2>4. ASSUME NEW rs \in Lists, NEW s \in Strategies, PublishSnapshot(rs, s)
          PROVE  state' = state
      BY <2>4 DEF PublishSnapshot
    <2>5. Tick => state' = state
      BY DEF Tick
    <2>6. state' = state => Earned
      BY DEF Earned
    <2> QED  BY <2>1, <2>2, <2>3, <2>4, <2>5, <2>6 DEF ProviderNext, ChainStep
  <1>2. []ProviderInv /\ [][ProviderNext]_providerVars => [][Earned]_providerVars
    BY <1>1, PTL
  <1> QED  BY <1>2, ProviderInductive, PTL DEF ProviderSpec, MovesAreEarned, Earned

------------------------------------------------------------------------------
(* The instruction governance, for any heads and dispositions: what the ledger of
   handoffs holds, and what a request for the owner rests on. *)

Checkouts == [head : Heads, surfaces : Heads]
Audits == [of : Checkouts, result : Results, change : BOOLEAN, ref : Nat]

\* What is published agrees with its own routing.
Sound ==
    {d \in [audit : Audits, stale : BOOLEAN,
            is : {"REJECTED", "HUMAN_REQUIRED", "NO_CHANGE", "PR_CANDIDATE"}] :
        ValidDisposition(d)}
Proposals == {d \in Sound : d.is = "PR_CANDIDATE"}
Handed == Proposals \union {NoHandoff}

Commands ==
    {Resting}
    \union [is : {"starting"}, head : Heads]
    \union [is : {"preflight"}, of : Checkouts]
    \union [is : {"recording"}, audit : Audits]
    \union [is : {"building"}, audit : Audits, handoff : Handed]
    \union [is : {"built"}, audit : Audits, handoff : Handed, surfaces : Heads]
    \union [is : {"publishing"}, disposition : Sound]
    \union [is : {"rebinding"}, handoff : Sound, left : Seq(Sound), last : Sound]
    \union [is : {"rebound"}, handoff : Sound]
    \union [is : {"appending"}, handoff : Proposals]

GovernanceTyped ==
    /\ worktree \in Checkouts
    /\ audits \in SUBSET Audits
    /\ dispositions \in Seq(Sound)
    /\ command \in [Coordinators -> Commands]
    /\ evaluations \in Nat
    /\ confirmed \in [Coordinators -> 0..3]

\* What the reads of a canary, one after the other, have found to be as its handoff says.
Found(c) ==
    IF c.is = "appending" THEN 3
    ELSE IF c.is = "built" /\ c.audit = c.handoff.audit
            /\ c.surfaces = c.handoff.audit.of.surfaces THEN 2
    ELSE IF c.is \in {"building", "built"} /\ c.audit = c.handoff.audit THEN 1 ELSE 0

\* A command for a canary holds a disposition of the ledger, and what it has found to be
\* current was so in its time.
Handoffs ==
    \A p \in Coordinators :
        InCanary(command[p]) =>
            /\ command[p].handoff \in Range(dispositions)
            /\ Found(command[p]) <= confirmed[p]

GovernanceInv == GovernanceTyped /\ Handoffs
-----------------------------------------------------------------------------
LEMMA RestingIs == Resting \in Commands /\ Resting.is = "resting" /\ ~InCanary(Resting)
  <1>1. Resting.is = "resting"
    BY DEF Resting
  <1> QED  BY <1>1 DEF Commands, InCanary

LEMMA HandedIs ==
    /\ NoHandoff \notin Proposals
    /\ \A d \in Proposals : d \in Sound /\ d.is = "PR_CANDIDATE"
  BY DEF Proposals, Sound, NoHandoff

LEMMA CommandIs ==
    ASSUME GovernanceInv, NEW p \in Coordinators
    PROVE  /\ command[p] \in Commands
           /\ command[p].is = "starting" => command[p].head \in Heads
           /\ command[p].is = "preflight" => command[p].of \in Checkouts
           /\ command[p].is = "recording" => command[p].audit \in Audits
           /\ command[p].is \in {"building", "built"} =>
                command[p].audit \in Audits /\ command[p].handoff \in Handed
           /\ command[p].is = "built" => command[p].surfaces \in Heads
           /\ command[p].is = "publishing" => command[p].disposition \in Sound
           /\ command[p].is = "rebinding" =>
                command[p] \in [is : {"rebinding"}, handoff : Sound, left : Seq(Sound),
                                last : Sound]
           /\ command[p].is \in {"rebinding", "rebound", "appending"} =>
                InCanary(command[p]) /\ command[p].handoff \in Sound
           /\ command[p].is = "appending" => command[p].handoff \in Proposals
           /\ InCanary(command[p]) =>
                /\ command[p].handoff \in Range(dispositions)
                /\ Found(command[p]) <= confirmed[p]
  <1>1. command[p] \in Commands
    BY DEF GovernanceInv, GovernanceTyped
  <1>2. InCanary(command[p]) =>
           command[p].handoff \in Range(dispositions) /\ Found(command[p]) <= confirmed[p]
    BY DEF GovernanceInv, Handoffs
  <1>3. \A d \in Sound : d # NoHandoff
    BY DEF Sound, NoHandoff
  <1> QED  BY <1>1, <1>2, <1>3, HandedIs DEF Commands, Resting, InCanary

\* A candidate is of a behavior that passed, with a change, at the worktree it was made for.
LEMMA CandidateIs ==
    ASSUME NEW d \in Proposals
    PROVE  /\ d.audit \in Audits /\ d.audit.change /\ d.audit.result = "PASS"
  BY DEF Proposals, Sound, ValidDisposition

\* What a command has just found is so now, and the rest it found before.
Continues(c, before) ==
    InCanary(c) =>
        /\ c.handoff \in Range(dispositions')
        /\ InCanary(before) => c.handoff = before.handoff
        /\ Found(c) = 0 \/ (InCanary(before) /\ Found(c) <= Found(before))
           \/ (Found(c) = 1 /\ c.handoff.audit \in audits')
           \/ (/\ InCanary(before) /\ Found(c) = 2 /\ Found(before) >= 1
               /\ worktree'.surfaces = c.handoff.audit.of.surfaces)
           \/ (/\ InCanary(before) /\ Found(c) = 3 /\ Found(before) >= 2
               /\ worktree'.head = c.handoff.audit.of.head)

LEMMA ReachedIs ==
    ASSUME NEW was \in 0..3, NEW a
    PROVE  /\ Reached(was, a) \in was..3
           /\ a \in audits' => Reached(was, a) >= 1
           /\ was >= 1 /\ worktree'.surfaces = a.of.surfaces => Reached(was, a) >= 2
           /\ was >= 2 /\ worktree'.head = a.of.head => Reached(was, a) = 3
  BY DEF Reached

LEMMA FoundIs == \A c : Found(c) \in 0..3
  BY DEF Found

\* What the step of one command, or of the world, may do.
LEMMA GovernanceHolds ==
    ASSUME GovernanceInv, Confirm,
           worktree' \in Checkouts, audits' \in SUBSET Audits, dispositions' \in Seq(Sound),
           evaluations' \in Nat, Range(dispositions) \subseteq Range(dispositions'),
           command' \in [Coordinators -> Commands],
           \A p \in Coordinators :
              command'[p] = command[p] \/ Continues(command'[p], command[p])
    PROVE  GovernanceInv'
  <1> DEFINE was(p) == IF InCanary(command[p]) THEN confirmed[p] ELSE 0
  <1>1. /\ confirmed' = [p \in Coordinators |->
               IF InCanary(command'[p])
               THEN Reached(was(p), command'[p].handoff.audit) ELSE 0]
        /\ \A p \in Coordinators : was(p) \in 0..3
    BY DEF Confirm, GovernanceInv, GovernanceTyped
  <1> HIDE DEF was
  <1>2. ASSUME NEW p \in Coordinators
        PROVE  /\ confirmed'[p] \in 0..3
               /\ InCanary(command'[p]) =>
                    /\ confirmed'[p] = Reached(was(p), command'[p].handoff.audit)
                    /\ confirmed'[p] >= was(p)
    BY <1>1, ReachedIs
  <1>3. GovernanceTyped'
    BY <1>1, <1>2 DEF GovernanceTyped
  <1>4. ASSUME NEW p \in Coordinators, InCanary(command'[p])
        PROVE  /\ command'[p].handoff \in Range(dispositions')
               /\ Found(command'[p]) <= confirmed'[p]
    <2>1. InCanary(command[p]) =>
             /\ command[p].handoff \in Range(dispositions)
             /\ was(p) = confirmed[p] /\ Found(command[p]) <= was(p)
      BY DEF GovernanceInv, Handoffs, was
    <2>2. Found(command[p]) \in 0..3 /\ Found(command'[p]) \in 0..3 /\ was(p) \in 0..3
          /\ confirmed'[p] \in 0..3 /\ confirmed'[p] >= was(p)
      BY <1>1, <1>2, <1>4, FoundIs
    <2>3. CASE command'[p] = command[p]
      BY <1>4, <2>1, <2>2, <2>3
    <2>4. CASE Continues(command'[p], command[p])
      <3>1. command'[p].handoff \in Range(dispositions')
        BY <1>4, <2>4 DEF Continues
      <3>2. CASE Found(command'[p]) = 0 \/ (InCanary(command[p]) /\ Found(command'[p]) <= Found(command[p]))
        BY <2>1, <2>2, <3>1, <3>2
      <3>3. CASE Found(command'[p]) = 1 /\ command'[p].handoff.audit \in audits'
        BY <1>2, <1>4, <2>2, <3>1, <3>3, ReachedIs
      <3>4. CASE /\ InCanary(command[p]) /\ Found(command'[p]) = 2 /\ Found(command[p]) >= 1
                 /\ worktree'.surfaces = command'[p].handoff.audit.of.surfaces
        <4>1. was(p) >= 1
          BY <2>1, <2>2, <3>4
        <4> QED  BY <1>2, <1>4, <2>2, <3>1, <3>4, <4>1, ReachedIs
      <3>5. CASE /\ InCanary(command[p]) /\ Found(command'[p]) = 3 /\ Found(command[p]) >= 2
                 /\ worktree'.head = command'[p].handoff.audit.of.head
        <4>1. was(p) >= 2
          BY <2>1, <2>2, <3>5
        <4> QED  BY <1>2, <1>4, <2>2, <3>1, <3>5, <4>1, ReachedIs
      <3> QED  BY <1>4, <2>4, <3>2, <3>3, <3>4, <3>5 DEF Continues
    <2> QED  BY <2>3, <2>4
  <1>5. Handoffs'
    BY <1>4 DEF Handoffs, InCanary, Found
  <1> QED  BY <1>3, <1>5 DEF GovernanceInv

\* The step of one command, which leaves the worktree as it is.
LEMMA RunsHolds ==
    ASSUME GovernanceInv, Confirm, NEW p \in Coordinators, NEW c \in Commands, Runs(p, c),
           audits' \in SUBSET Audits, dispositions' \in Seq(Sound),
           Range(dispositions) \subseteq Range(dispositions'),
           evaluations' \in Nat, worktree' = worktree, Continues(c, command[p])
    PROVE  GovernanceInv'
  <1>1. command \in [Coordinators -> Commands] /\ worktree' \in Checkouts
    BY DEF GovernanceInv, GovernanceTyped
  <1>2. command' \in [Coordinators -> Commands]
        /\ \A q \in Coordinators : command'[q] = IF q = p THEN c ELSE command[q]
    BY <1>1 DEF Runs
  <1>3. \A q \in Coordinators :
           command'[q] = command[q] \/ Continues(command'[q], command[q])
    BY <1>2
  <1> QED  BY <1>1, <1>2, <1>3, GovernanceHolds

\* The same, where nothing but the command changes.
LEMMA OnlyRunsHolds ==
    ASSUME GovernanceInv, Confirm, NEW p \in Coordinators, NEW c \in Commands, Runs(p, c),
           UNCHANGED <<worktree, audits, dispositions>>, evaluations' \in Nat,
           Continues(c, command[p])
    PROVE  GovernanceInv'
  <1>1. audits' \in SUBSET Audits /\ dispositions' \in Seq(Sound)
        /\ Range(dispositions) \subseteq Range(dispositions')
    BY DEF GovernanceInv, GovernanceTyped
  <1> QED  BY <1>1, RunsHolds

LEMMA RestsHolds ==
    ASSUME GovernanceInv, Confirm, NEW p \in Coordinators, Rests(p),
           audits' \in SUBSET Audits, dispositions' \in Seq(Sound),
           Range(dispositions) \subseteq Range(dispositions'),
           evaluations' \in Nat, worktree' = worktree
    PROVE  GovernanceInv'
  <1>1. Continues(Resting, command[p])
    BY RestingIs DEF Continues
  <1> QED  BY <1>1, RestingIs, RunsHolds DEF Rests

LEMMA LedgersAre ==
    ASSUME GovernanceInv
    PROVE  /\ worktree \in Checkouts /\ worktree.head \in Heads /\ worktree.surfaces \in Heads
           /\ audits \in SUBSET Audits /\ dispositions \in Seq(Sound) /\ evaluations \in Nat
           /\ command \in [Coordinators -> Commands]
           /\ \A d \in Range(dispositions) : d \in Sound
  <1>1. /\ worktree \in Checkouts /\ audits \in SUBSET Audits
        /\ dispositions \in Seq(Sound) /\ evaluations \in Nat
        /\ command \in [Coordinators -> Commands]
    BY DEF GovernanceInv, GovernanceTyped
  <1> QED  BY <1>1 DEF Range, Checkouts

\* The ledgers of a step that leaves them as they are.
LEMMA LedgersStay ==
    ASSUME GovernanceInv, UNCHANGED <<worktree, ledgers, evaluations>>
    PROVE  /\ audits' \in SUBSET Audits /\ dispositions' \in Seq(Sound)
           /\ Range(dispositions) \subseteq Range(dispositions')
           /\ evaluations' \in Nat /\ worktree' = worktree
           /\ UNCHANGED <<worktree, audits, dispositions>>
  BY LedgersAre DEF ledgers

-----------------------------------------------------------------------------
LEMMA PreflightHolds ==
    ASSUME GovernanceInv, Confirm, NEW p \in Coordinators,
           PreflightHead(p) \/ PreflightSurfaces(p) \/ PreflightStatus(p)
    PROVE  GovernanceInv'
  <1>1. CASE PreflightHead(p)
    <2> DEFINE c == [is |-> "starting", head |-> worktree.head]
    <2>1. Runs(p, c) /\ UNCHANGED <<worktree, ledgers, evaluations>>
      BY <1>1 DEF PreflightHead
    <2>2. c \in Commands /\ ~InCanary(c)
      BY LedgersAre DEF Commands, InCanary
    <2> HIDE DEF c
    <2> QED  BY <2>1, <2>2, LedgersStay, OnlyRunsHolds DEF Continues
  <1>2. CASE PreflightSurfaces(p)
    <2> DEFINE w == [head |-> command[p].head, surfaces |-> worktree.surfaces]
               c == [is |-> "preflight", of |-> w]
    <2>1. /\ command[p].is = "starting" /\ Runs(p, c)
          /\ UNCHANGED <<worktree, ledgers, evaluations>>
      BY <1>2 DEF PreflightSurfaces
    <2>2. w \in Checkouts
      BY <2>1, LedgersAre, CommandIs DEF Checkouts
    <2> HIDE DEF w
    <2>3. c \in Commands /\ ~InCanary(c)
      BY <2>2 DEF Commands, InCanary
    <2> HIDE DEF c
    <2> QED  BY <2>1, <2>3, LedgersStay, OnlyRunsHolds DEF Continues
  <1>3. CASE PreflightStatus(p) /\ Rests(p) /\ UNCHANGED evaluations
    <2>1. UNCHANGED <<worktree, ledgers, evaluations>>
      BY <1>3 DEF PreflightStatus
    <2> QED  BY <1>3, <2>1, LedgersStay, RestsHolds
  <1>4. CASE PreflightStatus(p) /\ ~(Rests(p) /\ UNCHANGED evaluations)
    <2> PICK was \in Results, change \in BOOLEAN :
            Runs(p, [is |-> "recording",
                     audit |-> [of |-> command[p].of, result |-> was, change |-> change,
                                ref |-> evaluations']])
      BY <1>4 DEF PreflightStatus
    <2> DEFINE a == [of |-> command[p].of, result |-> was, change |-> change,
                     ref |-> evaluations']
               c == [is |-> "recording", audit |-> a]
    <2>1. /\ command[p].is = "preflight" /\ evaluations' = evaluations + 1
          /\ UNCHANGED <<worktree, audits, dispositions>>
      BY <1>4 DEF PreflightStatus, ledgers
    <2>2. a \in Audits /\ evaluations' \in Nat
      BY <2>1, LedgersAre, CommandIs DEF Audits
    <2>3. Runs(p, c)
      OBVIOUS
    <2> HIDE DEF a
    <2>4. c \in Commands /\ ~InCanary(c)
      BY <2>2 DEF Commands, InCanary
    <2> HIDE DEF c
    <2> QED  BY <2>1, <2>2, <2>3, <2>4, OnlyRunsHolds DEF Continues
  <1> QED  BY <1>1, <1>2, <1>3, <1>4

LEMMA RecordAuditHolds ==
    ASSUME GovernanceInv, Confirm, NEW p \in Coordinators, RecordAudit(p)
    PROVE  GovernanceInv'
  <1>1. /\ audits' = {command[p].audit} /\ Rests(p)
        /\ UNCHANGED <<worktree, dispositions, evaluations>> /\ command[p].is = "recording"
    BY DEF RecordAudit
  <1>2. audits' \in SUBSET Audits
    BY <1>1, CommandIs
  <1>3. dispositions' \in Seq(Sound) /\ Range(dispositions) \subseteq Range(dispositions')
        /\ evaluations' \in Nat
    BY <1>1, LedgersAre
  <1> QED  BY <1>1, <1>2, <1>3, RestsHolds

\* The audit of a disposition is read.
LEMMA BuildHolds ==
    ASSUME GovernanceInv, Confirm, NEW p \in Coordinators, BuildDisposition(p)
    PROVE  GovernanceInv'
  <1> PICK a \in audits : /\ Builds(p, a, NoHandoff)
                          /\ UNCHANGED <<worktree, ledgers, evaluations>>
    BY DEF BuildDisposition
  <1> DEFINE c == [is |-> "building", audit |-> a, handoff |-> NoHandoff]
  <1>1. Runs(p, c)
    BY DEF Builds
  <1>2. c \in Commands /\ ~InCanary(c)
    BY LedgersAre DEF Commands, InCanary, Handed
  <1> HIDE DEF c
  <1> QED  BY <1>1, <1>2, LedgersStay, OnlyRunsHolds DEF Continues

\* Then the surfaces.
LEMMA ReadSurfacesHolds ==
    ASSUME GovernanceInv, Confirm, NEW p \in Coordinators, ReadSurfaces(p)
    PROVE  GovernanceInv'
  <1> DEFINE c == [is |-> "built", audit |-> command[p].audit,
                   handoff |-> command[p].handoff, surfaces |-> worktree.surfaces]
  <1>1. /\ command[p].is = "building" /\ (Runs(p, c) \/ Rests(p))
        /\ UNCHANGED <<worktree, ledgers, evaluations>>
    BY DEF ReadSurfaces
  <1>2. command[p].audit \in Audits /\ command[p].handoff \in Handed
        /\ (InCanary(command[p]) => command[p].handoff \in Range(dispositions))
    BY <1>1, CommandIs
  <1>3. /\ c \in Commands /\ c.is = "built" /\ c.handoff = command[p].handoff
        /\ c.audit = command[p].audit /\ c.surfaces = worktree.surfaces
    BY <1>2, LedgersAre DEF Commands
  <1> HIDE DEF c
  <1>4. InCanary(c) => InCanary(command[p])
    BY <1>1, <1>3 DEF InCanary
  <1>5. Found(c) <= Found(command[p])
        \/ (/\ Found(c) = 2 /\ Found(command[p]) >= 1
            /\ worktree.surfaces = c.handoff.audit.of.surfaces)
    BY <1>1, <1>3 DEF Found
  <1>6. Continues(c, command[p])
    BY <1>1, <1>2, <1>3, <1>4, <1>5 DEF Continues, ledgers
  <1> QED  BY <1>1, <1>3, <1>6, LedgersStay, OnlyRunsHolds, RestsHolds

\* A disposition is of an audit and of a worktree, and a candidate is of one that passed at
\* the worktree it was made for.
LEMMA DispositionIs ==
    ASSUME NEW a \in Audits, NEW w \in Checkouts
    PROVE  /\ Disposition(a, w) \in [audit : Audits, stale : BOOLEAN,
                is : {"REJECTED", "HUMAN_REQUIRED", "NO_CHANGE", "PR_CANDIDATE"}]
           /\ Disposition(a, w).audit = a
           /\ Disposition(a, w).is = "PR_CANDIDATE" => a.of = w
  <1>1. Outcome(a) \in {"REJECTED", "HUMAN_REQUIRED", "CANARY_READY", "NO_CHANGE"}
    BY DEF Outcome
  <1>2. /\ Disposed(a, w) \in {"REJECTED", "HUMAN_REQUIRED", "NO_CHANGE", "PR_CANDIDATE"}
        /\ Disposed(a, w) = "PR_CANDIDATE" => a.of = w
    BY <1>1 DEF Disposed, Route
  <1> QED  BY <1>2 DEF Disposition

LEMMA SeenIs ==
    ASSUME GovernanceInv, NEW p \in Coordinators, command[p].is = "built"
    PROVE  Seen(p) \in Checkouts /\ command[p].audit \in Audits
  BY CommandIs, LedgersAre DEF Seen, Checkouts

LEMMA FinishHolds ==
    ASSUME GovernanceInv, Confirm, NEW p \in Coordinators, FinishDisposition(p)
    PROVE  GovernanceInv'
  <1> DEFINE d == Disposition(command[p].audit, Seen(p))
             c == [is |-> "publishing", disposition |-> d]
  <1>1. /\ command[p].is = "built" /\ ValidDisposition(d) /\ Runs(p, c)
        /\ UNCHANGED <<worktree, ledgers, evaluations>>
    BY DEF FinishDisposition
  <1>2. d \in Sound
    BY <1>1, SeenIs, DispositionIs DEF Sound
  <1> HIDE DEF d
  <1>3. c \in Commands /\ ~InCanary(c)
    BY <1>2 DEF Commands, InCanary
  <1> HIDE DEF c
  <1> QED  BY <1>1, <1>3, LedgersStay, OnlyRunsHolds DEF Continues

LEMMA AppendRange ==
    ASSUME NEW S, NEW s \in Seq(S), NEW d \in S
    PROVE  Append(s, d) \in Seq(S) /\ Range(s) \subseteq Range(Append(s, d))
  <1>1. /\ Append(s, d) \in Seq(S) /\ Len(Append(s, d)) = Len(s) + 1
        /\ \A i \in 1..Len(s) : Append(s, d)[i] = s[i]
    OBVIOUS
  <1>2. DOMAIN s = 1..Len(s) /\ DOMAIN Append(s, d) = 1..(Len(s) + 1) /\ Len(s) \in Nat
    BY <1>1
  <1>3. \A i \in 1..Len(s) : i \in 1..(Len(s) + 1)
    BY <1>2
  <1> QED  BY <1>1, <1>2, <1>3 DEF Range

LEMMA PublishHolds ==
    ASSUME GovernanceInv, Confirm, NEW p \in Coordinators, PublishDisposition(p)
    PROVE  GovernanceInv'
  <1> DEFINE d == command[p].disposition
  <1>1. /\ command[p].is = "publishing" /\ Rests(p)
        /\ dispositions' \in {Append(dispositions, d), dispositions}
        /\ UNCHANGED <<worktree, audits, evaluations>>
    BY DEF PublishDisposition
  <1>2. d \in Sound /\ dispositions \in Seq(Sound)
    BY <1>1, CommandIs, LedgersAre
  <1>3. dispositions' \in Seq(Sound) /\ Range(dispositions) \subseteq Range(dispositions')
    BY <1>1, <1>2, AppendRange
  <1>4. audits' \in SUBSET Audits /\ evaluations' \in Nat
    BY <1>1, LedgersAre
  <1> QED  BY <1>1, <1>3, <1>4, RestsHolds

LEMMA StartCanaryHolds ==
    ASSUME GovernanceInv, Confirm, NEW p \in Coordinators, StartCanary(p)
    PROVE  GovernanceInv'
  <1> PICK i \in DOMAIN dispositions :
        /\ command[p] = Resting
        /\ Runs(p, [is |-> "rebinding", handoff |-> dispositions[i], left |-> dispositions,
                    last |-> dispositions[Len(dispositions)]])
        /\ UNCHANGED <<worktree, ledgers, evaluations>>
    BY DEF StartCanary
  <1> DEFINE c == [is |-> "rebinding", handoff |-> dispositions[i], left |-> dispositions,
                   last |-> dispositions[Len(dispositions)]]
  <1>1. dispositions \in Seq(Sound) /\ dispositions[i] \in Range(dispositions)
    BY LedgersAre DEF Range
  <1>2. dispositions[i] \in Sound /\ dispositions[Len(dispositions)] \in Sound
    BY <1>1
  <1>3. c \in Commands /\ c.is = "rebinding" /\ c.handoff = dispositions[i]
    BY <1>1, <1>2 DEF Commands
  <1>4. Runs(p, c)
    OBVIOUS
  <1> HIDE DEF c
  <1>5. Continues(c, command[p])
    BY <1>1, <1>3, RestingIs DEF Continues, Found, ledgers
  <1> QED  BY <1>3, <1>4, <1>5, LedgersStay, OnlyRunsHolds

\* A command goes on to what it has not looked at, with its handoff.
LEMMA GoesOnHolds ==
    ASSUME GovernanceInv, Confirm, NEW p \in Coordinators, NEW c \in Commands,
           command[p].is = "rebinding", c.is \in {"rebinding", "rebound"},
           c.handoff = command[p].handoff, Runs(p, c) \/ Rests(p),
           UNCHANGED <<worktree, ledgers, evaluations>>
    PROVE  GovernanceInv'
  <1>1. InCanary(command[p]) /\ command[p].handoff \in Range(dispositions)
    BY CommandIs
  <1>2. Continues(c, command[p])
    BY <1>1 DEF Continues, Found, ledgers
  <1> QED  BY <1>2, LedgersStay, OnlyRunsHolds, RestsHolds

LEMMA RebindHolds ==
    ASSUME GovernanceInv, Confirm, NEW p \in Coordinators, RebindNext(p) \/ RebindLast(p)
    PROVE  GovernanceInv'
  <1> DEFINE Kept == [is : {"rebinding"}, handoff : Sound, left : Seq(Sound), last : Sound]
  <1>1. command[p].is = "rebinding" /\ UNCHANGED <<worktree, ledgers, evaluations>>
    BY DEF RebindNext, RebindLast
  <1>2. command[p] \in Kept
    BY <1>1, CommandIs
  <1>3. Kept \subseteq Commands
    BY DEF Commands
  <1>4. CASE RebindNext(p)
    <2> DEFINE c == [command[p] EXCEPT !.left = Tail(command[p].left)]
    <2>1. command[p].left # <<>> /\ (Runs(p, c) \/ Rests(p))
      BY <1>4 DEF RebindNext
    <2>2. Tail(command[p].left) \in Seq(Sound)
      BY <1>2, <2>1
    <2>3. c \in Kept /\ c.is = "rebinding" /\ c.handoff = command[p].handoff
      BY <1>1, <1>2, <2>2
    <2> HIDE DEF c, Kept
    <2> QED  BY <1>1, <1>3, <2>1, <2>3, GoesOnHolds
  <1>5. CASE RebindLast(p)
    <2> DEFINE c == [is |-> "rebound", handoff |-> command[p].handoff]
    <2>1. Runs(p, c) \/ Rests(p)
      BY <1>5 DEF RebindLast
    <2>2. c \in Commands /\ c.is = "rebound" /\ c.handoff = command[p].handoff
      BY <1>2 DEF Commands
    <2> HIDE DEF c
    <2> QED  BY <1>1, <2>1, <2>2, GoesOnHolds
  <1> QED  BY <1>4, <1>5

\* The audit of the handoff's identity is read: it may be another than the handoff's.
LEMMA CheckHandoffHolds ==
    ASSUME GovernanceInv, Confirm, NEW p \in Coordinators, CheckHandoff(p)
    PROVE  GovernanceInv'
  <1> DEFINE d == command[p].handoff
  <1>1. /\ command[p].is = "rebound" /\ UNCHANGED <<worktree, ledgers, evaluations>>
        /\ Rests(p) \/ (d.is = "PR_CANDIDATE" /\ \E a \in audits : Builds(p, a, d))
    BY DEF CheckHandoff
  <1>2. d \in Sound /\ d \in Range(dispositions) /\ InCanary(command[p])
    BY <1>1, CommandIs
  <1>3. CASE Rests(p)
    BY <1>1, <1>3, LedgersStay, RestsHolds
  <1>4. CASE d.is = "PR_CANDIDATE" /\ \E a \in audits : Builds(p, a, d)
    <2> PICK a \in audits : Builds(p, a, d)
      BY <1>4
    <2> DEFINE c == [is |-> "building", audit |-> a, handoff |-> d]
    <2>1. Runs(p, c)
      BY DEF Builds
    <2>2. c \in Commands /\ c.is = "building" /\ c.handoff = d /\ c.audit = a
      BY <1>2, <1>4, LedgersAre DEF Commands, Handed, Proposals
    <2> HIDE DEF c
    <2>3. Found(c) = 0 \/ (Found(c) = 1 /\ c.handoff.audit \in audits)
      BY <2>2 DEF Found
    <2>4. Continues(c, command[p])
      BY <1>1, <1>2, <2>2, <2>3 DEF Continues, ledgers
    <2> QED  BY <1>1, <2>1, <2>2, <2>4, LedgersStay, OnlyRunsHolds
  <1> QED  BY <1>1, <1>3, <1>4

\* What was built is compared with the handoff.
LEMMA CompareHandoffHolds ==
    ASSUME GovernanceInv, Confirm, NEW p \in Coordinators, CompareHandoff(p)
    PROVE  GovernanceInv'
  <1> DEFINE d == command[p].handoff
             c == [is |-> "appending", handoff |-> d]
  <1>1. /\ command[p].is = "built" /\ d # NoHandoff
        /\ UNCHANGED <<worktree, ledgers, evaluations>>
        /\ \/ Rests(p)
           \/ d = Disposition(command[p].audit, Seen(p)) /\ Runs(p, c)
    BY DEF CompareHandoff, StillCurrent
  <1>2. InCanary(command[p])
    BY <1>1 DEF InCanary
  <1>3. d \in Proposals /\ d \in Range(dispositions)
    BY <1>1, <1>2, CommandIs DEF Handed
  <1>4. CASE Rests(p)
    BY <1>1, <1>4, LedgersStay, RestsHolds
  <1>5. CASE d = Disposition(command[p].audit, Seen(p)) /\ Runs(p, c)
    <2>1. d.is = "PR_CANDIDATE"
      BY <1>3, HandedIs
    <2>2. d.audit = command[p].audit /\ d.audit.of = Seen(p)
      BY <1>1, <1>5, <2>1, SeenIs, DispositionIs
    <2>3. /\ d.audit.of.surfaces = command[p].surfaces
          /\ d.audit.of.head = worktree.head
      BY <2>2 DEF Seen
    <2>4. Found(command[p]) = 2
      BY <1>1, <2>2, <2>3 DEF Found
    <2>5. c \in Commands /\ c.is = "appending" /\ c.handoff = d
      BY <1>3 DEF Commands
    <2> HIDE DEF c
    <2>6. Found(c) = 3
      BY <2>5 DEF Found
    <2>7. Continues(c, command[p])
      BY <1>1, <1>2, <1>3, <2>3, <2>4, <2>5, <2>6 DEF Continues, ledgers
    <2> QED  BY <1>1, <1>5, <2>5, <2>7, LedgersStay, OnlyRunsHolds
  <1> QED  BY <1>1, <1>4, <1>5

LEMMA AppendCanaryHolds ==
    ASSUME GovernanceInv, Confirm, NEW p \in Coordinators, AppendCanary(p)
    PROVE  GovernanceInv'
  <1>1. Rests(p) /\ UNCHANGED <<worktree, audits, dispositions, evaluations>>
    BY DEF AppendCanary
  <1>2. evaluations' \in Nat /\ audits' \in SUBSET Audits /\ dispositions' \in Seq(Sound)
        /\ Range(dispositions) \subseteq Range(dispositions')
    BY <1>1, LedgersAre
  <1> QED  BY <1>1, <1>2, RestsHolds

LEMMA WorktreeHolds ==
    ASSUME GovernanceInv, Confirm, MoveWorktree \/ LoseCache
    PROVE  GovernanceInv'
  <1>1. /\ worktree \in Checkouts /\ audits \in SUBSET Audits
        /\ dispositions \in Seq(Sound) /\ evaluations \in Nat
        /\ command \in [Coordinators -> Commands]
    BY LedgersAre
  <1>2. UNCHANGED <<dispositions, command, evaluations>>
    BY DEF MoveWorktree, LoseCache, ledgers
  <1>3. worktree' \in Checkouts
    BY <1>1 DEF MoveWorktree, LoseCache, Checkouts
  <1>4. audits' \in SUBSET Audits
    BY <1>1 DEF MoveWorktree, LoseCache, ledgers
  <1> QED  BY <1>1, <1>2, <1>3, <1>4, GovernanceHolds

-----------------------------------------------------------------------------
LEMMA GovernanceStarts ==
    ASSUME GovernanceInit
    PROVE  GovernanceInv
  <1>1. worktree \in Checkouts /\ evaluations \in Nat /\ <<>> \in Seq(Sound)
    BY GovernanceAssumption DEF GovernanceInit, Checkouts
  <1>2. GovernanceTyped
    BY <1>1, RestingIs DEF GovernanceInit, GovernanceTyped
  <1>3. \A p \in Coordinators : command[p] = Resting
    BY DEF GovernanceInit
  <1>4. Handoffs
    BY <1>3, RestingIs DEF Handoffs
  <1> QED  BY <1>2, <1>4 DEF GovernanceInv

LEMMA GovernanceStep ==
    ASSUME GovernanceInv, [GovernanceNext]_governanceVars
    PROVE  GovernanceInv'
  <1>1. CASE UNCHANGED governanceVars
    BY <1>1 DEF governanceVars, GovernanceInv, GovernanceTyped, Handoffs, InCanary, Found
  <1>2. CASE GovernanceNext
    BY <1>2, PreflightHolds, RecordAuditHolds, BuildHolds, ReadSurfacesHolds, FinishHolds,
       PublishHolds, StartCanaryHolds, RebindHolds, CheckHandoffHolds, CompareHandoffHolds,
       AppendCanaryHolds, WorktreeHolds
       DEF GovernanceNext
  <1> QED  BY <1>1, <1>2

\* Ledgers and commands agree in every reachable state, and what a canary has found to be
\* current was so in the time of its command.
THEOREM GovernanceInductive == GovernanceSpec => []GovernanceInv
  <1>1. GovernanceInit => GovernanceInv
    BY GovernanceStarts
  <1>2. GovernanceInv /\ [GovernanceNext]_governanceVars => GovernanceInv'
    BY GovernanceStep
  <1> QED  BY <1>1, <1>2, PTL DEF GovernanceSpec

\* What RequestsAreEarned says of a step.
EarnedRequest ==
    \A c \in canaries' \ canaries :
        /\ c.handoff \in Range(dispositions)
        /\ c.request => c.handoff.audit.result = "PASS" /\ c.handoff.audit.change
        /\ \E p \in Coordinators :
              /\ command[p].is = "appending" /\ command[p].handoff = c.handoff
              /\ confirmed[p] = 3

\* For every number of coordinators, heads and evaluations: an adoption is requested only
\* for a change whose evaluation passed, and was cached, and then its surfaces were there,
\* and then its head, in the time of the command.
THEOREM EarnedRequests == GovernanceSpec => RequestsAreEarned
  <1>1. GovernanceInv /\ [GovernanceNext]_governanceVars => [EarnedRequest]_governanceVars
    <2> SUFFICES ASSUME GovernanceInv, GovernanceNext, NEW c \in canaries' \ canaries
                 PROVE  /\ c.handoff \in Range(dispositions)
                        /\ c.request => c.handoff.audit.result = "PASS" /\ c.handoff.audit.change
                        /\ \E p \in Coordinators :
                              /\ command[p].is = "appending" /\ command[p].handoff = c.handoff
                              /\ confirmed[p] = 3
      BY DEF EarnedRequest
    <2>1. canaries' # canaries
      OBVIOUS
    <2>2. PICK p \in Coordinators : AppendCanary(p)
      BY <2>1 DEF GovernanceNext, PreflightHead, PreflightSurfaces, PreflightStatus,
         RecordAudit, BuildDisposition, ReadSurfaces, FinishDisposition, PublishDisposition,
         StartCanary, RebindNext, RebindLast, CheckHandoff, CompareHandoff, MoveWorktree,
         LoseCache, ledgers
    <2>3. command[p].is = "appending" /\ c.handoff = command[p].handoff
      BY <2>2 DEF AppendCanary
    <2>4. /\ command[p].handoff \in Proposals /\ command[p].handoff \in Range(dispositions)
          /\ Found(command[p]) <= confirmed[p]
      BY <2>3, CommandIs
    <2>5. confirmed[p] \in 0..3 /\ Found(command[p]) = 3
      BY <2>3 DEF GovernanceInv, GovernanceTyped, Found
    <2> QED  BY <2>3, <2>4, <2>5, CandidateIs
  <1>2. []GovernanceInv /\ [][GovernanceNext]_governanceVars => [][EarnedRequest]_governanceVars
    BY <1>1, PTL
  <1> QED  BY <1>2, GovernanceInductive, PTL DEF GovernanceSpec, RequestsAreEarned, EarnedRequest

================================================================================
