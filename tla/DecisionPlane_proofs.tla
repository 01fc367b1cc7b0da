------------------------ MODULE DecisionPlane_proofs ------------------------
(***************************************************************************)
(* Theorems about what is decided before an effect.  DecisionPlane: for any  *)
(* number of callers, activations, admissions and deaths no admission decides *)
(* more often than it allows, an activation is recorded once, and a          *)
(* reservation rests on the evidence of its moment.  ReadinessActivation: for *)
(* any number of controllers, packets and graph files at most one handoff    *)
(* stands.                                                                   *)
(***************************************************************************)
EXTENDS DecisionPlane, ReadinessActivation, FiniteSetTheorems, TLAPS

Admissions ==
    [request : Requests, expected : SUBSET Observations, evidence : SUBSET Observations]
Records ==
    [id : {r.id : r \in Activations}, class : {r.class : r \in Activations},
     admission : Admissions, state : {"IN_PROGRESS", "TERMINAL"},
     result : {"APPLIED_CANARY", "FALLBACK", "NO_EFFECT", None}]

Typed ==
    /\ evidence \subseteq Observations
    /\ draft \in Admissions \union {None}
    /\ admission \in Admissions \union {None}
    /\ at \in [Callers -> {"idle", "checked", "reserved", "selecting", "decided"}]
    /\ asked \in [Callers -> Activations \union {None}]
    /\ held \in [Callers -> Admissions \union {None}]
    /\ verdict \in [Callers -> {"APPLIED_CANARY", "FALLBACK", "NO_EFFECT", None}]
    /\ effects \subseteq Records
    /\ \A p \in Callers : at[p] = "checked" => asked[p] \in Activations

\* An activation has one record, whatever admission it was reserved under.
RecordedOnce == \A e, f \in effects : e.class = f.class /\ e.id = f.id => e = f

BudgetInv == Typed /\ IsFiniteSet(effects) /\ RecordedOnce /\ BudgetHolds

\* What a finished reservation becomes.
Closed(e, result) == [e EXCEPT !.state = "TERMINAL", !.result = result]

-----------------------------------------------------------------------------
(* The steps that record an effect.                                          *)

LEMMA FinalizeMaps ==
    ASSUME Typed, NEW p \in Callers, Finalize(p)
    PROVE  /\ verdict[p] \in {"APPLIED_CANARY", "FALLBACK", "NO_EFFECT", None}
           /\ Reservation(p) \subseteq effects
           /\ effects' = (effects \ Reservation(p)) \union
                            {Closed(e, verdict[p]) : e \in Reservation(p)}
           /\ \A e \in Reservation(p) :
                 /\ Closed(e, verdict[p]) \in Records
                 /\ Closed(e, verdict[p]).id = e.id
                 /\ Closed(e, verdict[p]).class = e.class
                 /\ Closed(e, verdict[p]).admission = e.admission
  <1>1. verdict[p] \in {"APPLIED_CANARY", "FALLBACK", "NO_EFFECT", None}
    BY DEF Typed
  <1>2. Reservation(p) \subseteq effects
    BY DEF Reservation
  <1>3. effects' = (effects \ Reservation(p)) \union
                      {Closed(e, verdict[p]) : e \in Reservation(p)}
    BY DEF Finalize, Closed
  <1>4. ASSUME NEW e \in Reservation(p)
        PROVE  /\ Closed(e, verdict[p]) \in Records
               /\ Closed(e, verdict[p]).id = e.id
               /\ Closed(e, verdict[p]).class = e.class
               /\ Closed(e, verdict[p]).admission = e.admission
    <2>1. e \in Records
      BY <1>2 DEF Typed
    <2> QED  BY <1>1, <2>1 DEF Records, Closed
  <1> QED  BY <1>1, <1>2, <1>3, <1>4

LEMMA ReserveAdds ==
    ASSUME Typed, NEW p \in Callers, Reserve(p), Reservable(p)
    PROVE  \E n \in Records :
             /\ effects' = effects \union {n}
             /\ n.id = asked[p].id /\ n.class = asked[p].class
             /\ n.admission = admission /\ n.admission = held[p]
             /\ n.state = "IN_PROGRESS"
  <1> DEFINE n == [id |-> asked[p].id, class |-> asked[p].class,
                   admission |-> held[p], state |-> "IN_PROGRESS", result |-> None]
  <1>1. admission # None /\ admission = held[p]
    BY DEF Reservable, Usable, Current
  <1>2. asked[p] \in Activations
    BY DEF Typed, Reserve
  <1>3. held[p] \in Admissions
    BY <1>1 DEF Typed
  <1>4. n \in Records
    BY <1>2, <1>3 DEF Records
  <1>5. effects' = effects \union {n}
    BY DEF Reserve
  <1> QED  BY <1>1, <1>4, <1>5

-----------------------------------------------------------------------------
(* The parts of the invariant, step by step.                                 *)

LEMMA TypedStep == Typed /\ [Next]_vars => Typed'
  <1> SUFFICES ASSUME Typed, [Next]_vars PROVE Typed'
    OBVIOUS
  <1>1. CASE UNCHANGED vars
    BY <1>1 DEF Typed, vars
  <1>2. ASSUME NEW o \in Observations, Observe(o) PROVE Typed'
    BY <1>2 DEF Observe, Typed, memory
  <1>3. ASSUME NEW r \in Requests, NEW E \in {evidence, {}}, BuildAdmission(r, E)
        PROVE  Typed'
    <2>1. draft' \in Admissions
      BY <1>3 DEF BuildAdmission, Admissions, Typed
    <2> QED  BY <1>3, <2>1 DEF BuildAdmission, Typed, memory
  <1>4. CASE PublishAdmission
    BY <1>4 DEF PublishAdmission, Typed, memory
  <1>5. ASSUME NEW id \in MeasurementIds, NEW e \in effects, NEW out \in Outcomes,
               Measure(id, e, out)
        PROVE  Typed'
    BY <1>5 DEF Measure, Typed, memory
  <1>6. ASSUME NEW p \in Callers, NEW r \in Activations, Admit(p, r) PROVE Typed'
    <2>1. asked' = [asked EXCEPT ![p] = r] /\ held' = [held EXCEPT ![p] = admission]
      BY <1>6 DEF Admit
    <2>2. at' = [at EXCEPT ![p] = "checked"]
      BY <1>6 DEF Admit, Go
    <2> QED  BY <1>6, <2>1, <2>2 DEF Admit, ledgers, Typed
  <1>7. ASSUME NEW p \in Callers, Reserve(p) PROVE Typed'
    <2>1. CASE ~Reservable(p)
      BY <1>7, <2>1 DEF Reserve, Forget, Go, Typed
    <2>2. CASE Reservable(p)
      <3>1. effects' \subseteq Records
        BY <1>7, <2>2, ReserveAdds DEF Typed
      <3>2. at' = [at EXCEPT ![p] = "reserved"] /\ UNCHANGED <<memory, verdict>>
        BY <1>7, <2>2 DEF Reserve, Go
      <3> QED  BY <1>7, <3>1, <3>2 DEF Reserve, Typed, memory
    <2> QED  BY <2>1, <2>2
  <1>8. ASSUME NEW p \in Callers, Consult(p) PROVE Typed'
    <2>1. UNCHANGED <<ledgers, memory>>
      BY <1>8 DEF Consult
    <2>2. PICK step \in {"selecting", "decided"} : at' = [at EXCEPT ![p] = step]
      BY <1>8 DEF Consult, Decide, Go
    <2>3. verdict' \in [Callers -> {"APPLIED_CANARY", "FALLBACK", "NO_EFFECT", None}]
      BY <1>8 DEF Consult, Decide, Typed
    <2> QED  BY <2>1, <2>2, <2>3 DEF Typed, ledgers, memory
  <1>9. ASSUME NEW p \in Callers, Select(p) PROVE Typed'
    <2>1. UNCHANGED <<ledgers, memory>> /\ at' = [at EXCEPT ![p] = "decided"]
      BY <1>9 DEF Select, Decide, Go
    <2>2. verdict' \in [Callers -> {"APPLIED_CANARY", "FALLBACK", "NO_EFFECT", None}]
      BY <1>9 DEF Select, Decide, Typed
    <2> QED  BY <2>1, <2>2 DEF Typed, ledgers, memory
  <1>10. ASSUME NEW p \in Callers, Finalize(p) PROVE Typed'
    <2>1. effects' \subseteq Records
      BY <1>10, FinalizeMaps DEF Typed
    <2> QED  BY <1>10, <2>1 DEF Finalize, Forget, Go, Typed
  <1>11. ASSUME NEW p \in Callers, Die(p) PROVE Typed'
    BY <1>11 DEF Die, Forget, Go, Typed, ledgers
  <1> QED  BY <1>1, <1>2, <1>3, <1>4, <1>5, <1>6, <1>7, <1>8, <1>9, <1>10, <1>11
           DEF Next, Operate, Step

\* Only a reservation and a finish change the effects.
LEMMA OtherStepsKeepEffects ==
    ASSUME [Next]_vars
    PROVE  \/ UNCHANGED effects
           \/ \E p \in Callers : Reserve(p) /\ Reservable(p)
           \/ \E p \in Callers : Finalize(p)
  <1>1. CASE UNCHANGED vars
    BY <1>1 DEF vars
  <1>2. CASE Operate
    BY <1>2 DEF Operate, Observe, BuildAdmission, PublishAdmission, Measure
  <1>3. ASSUME NEW p \in Callers, NEW r \in Activations, Admit(p, r)
        PROVE  UNCHANGED effects
    BY <1>3 DEF Admit, ledgers
  <1>4. ASSUME NEW p \in Callers, Reserve(p) PROVE UNCHANGED effects \/ Reservable(p)
    BY <1>4 DEF Reserve
  <1>5. ASSUME NEW p \in Callers, Consult(p) \/ Select(p) \/ Die(p)
        PROVE  UNCHANGED effects
    BY <1>5 DEF Consult, Select, Die, ledgers
  <1> QED  BY <1>1, <1>2, <1>3, <1>4, <1>5 DEF Next, Step

LEMMA RecordedOnceStep ==
    ASSUME Typed, RecordedOnce, [Next]_vars PROVE RecordedOnce'
  <1>1. CASE UNCHANGED effects
    BY <1>1 DEF RecordedOnce
  <1>2. ASSUME NEW p \in Callers, Reserve(p), Reservable(p) PROVE RecordedOnce'
    <2>1. PICK n \in Records :
            effects' = effects \union {n} /\ n.id = asked[p].id /\ n.class = asked[p].class
      BY <1>2, ReserveAdds
    <2>2. \A e \in effects : ~(e.class = n.class /\ e.id = n.id)
      BY <1>2, <2>1 DEF Reservable, Replayed
    <2> QED  BY <2>1, <2>2 DEF RecordedOnce
  <1>3. ASSUME NEW p \in Callers, Finalize(p) PROVE RecordedOnce'
    <2> SUFFICES ASSUME NEW e \in effects', NEW f \in effects',
                        e.class = f.class, e.id = f.id
                 PROVE  e = f
      BY DEF RecordedOnce
    <2>1. PICK d \in effects : /\ d.class = e.class /\ d.id = e.id
                               /\ e = IF d \in Reservation(p)
                                      THEN Closed(d, verdict[p]) ELSE d
      BY <1>3, FinalizeMaps
    <2>2. PICK g \in effects : /\ g.class = f.class /\ g.id = f.id
                               /\ f = IF g \in Reservation(p)
                                      THEN Closed(g, verdict[p]) ELSE g
      BY <1>3, FinalizeMaps
    <2>3. d = g
      BY <2>1, <2>2 DEF RecordedOnce
    <2> QED  BY <2>1, <2>2, <2>3
  <1> QED  BY <1>1, <1>2, <1>3, OtherStepsKeepEffects

LEMMA FiniteStep ==
    ASSUME Typed, IsFiniteSet(effects), [Next]_vars PROVE IsFiniteSet(effects')
  <1>1. ASSUME NEW p \in Callers, Reserve(p), Reservable(p)
        PROVE  IsFiniteSet(effects')
    BY <1>1, ReserveAdds, FS_AddElement
  <1>2. ASSUME NEW p \in Callers, Finalize(p) PROVE IsFiniteSet(effects')
    <2> DEFINE T == {Closed(e, verdict[p]) : e \in Reservation(p)}
               f == [e \in Reservation(p) |-> Closed(e, verdict[p])]
    <2>1. Reservation(p) \subseteq effects /\ effects' = (effects \ Reservation(p)) \union T
      BY <1>2, FinalizeMaps
    <2>2. IsFiniteSet(Reservation(p)) /\ IsFiniteSet(effects \ Reservation(p))
      BY <2>1, FS_Subset
    <2>3. f \in Surjection(Reservation(p), T)
      BY DEF Surjection
    <2>4. IsFiniteSet(T)
      BY <2>2, <2>3, FS_Surjection
    <2> QED  BY <2>1, <2>2, <2>4, FS_Union
  <1> QED  BY <1>1, <1>2, OtherStepsKeepEffects

\* What a reservation may add to and a finish may rename, counted per admission.
LEMMA BudgetStep ==
    ASSUME Typed, IsFiniteSet(effects), BudgetHolds, [Next]_vars
    PROVE  BudgetHolds'
  <1>0. \A a, c : IsFiniteSet(Used(a, c)) /\ Cardinality(Used(a, c)) \in Nat
    <2> SUFFICES ASSUME NEW a, NEW c
                 PROVE  IsFiniteSet(Used(a, c)) /\ Cardinality(Used(a, c)) \in Nat
      OBVIOUS
    <2>1. Used(a, c) \in SUBSET effects
      BY DEF Used
    <2> QED  BY <2>1, FS_Subset, FS_CardinalityType
  <1>1. CASE UNCHANGED effects
    BY <1>1 DEF BudgetHolds, Used
  <1>2. ASSUME NEW p \in Callers, Reserve(p), Reservable(p) PROVE BudgetHolds'
    <2>1. PICK n \in Records :
            effects' = effects \union {n} /\ n.class = asked[p].class
               /\ n.admission = held[p]
      BY <1>2, ReserveAdds
    <2>2. n.admission.request.max \in Nat
      BY DecisionAssumption DEF Records, Admissions
    <2> SUFFICES ASSUME NEW e \in effects'
                 PROVE  Cardinality(Used(e.admission, e.class)') <= e.admission.request.max
      BY DEF BudgetHolds
    <2>3. CASE e.admission = n.admission /\ e.class = n.class
      <3>1. Used(e.admission, e.class)' = Used(n.admission, n.class) \union {n}
        BY <2>1, <2>3 DEF Used
      <3>2. Cardinality(Used(n.admission, n.class)) < n.admission.request.max
        BY <1>2, <2>1 DEF Reservable, BudgetLeft
      <3> DEFINE U == Used(n.admission, n.class)
      <3>3. IsFiniteSet(U) /\ Cardinality(U) \in Nat
        BY <1>0
      <3> HIDE DEF U
      <3>4. Cardinality(U \union {n}) = IF n \in U THEN Cardinality(U) ELSE Cardinality(U) + 1
        BY <3>3, FS_AddElement, ZenonT(30)
      <3>5. Cardinality(U \union {n}) <= Cardinality(U) + 1 /\ Cardinality(U \union {n}) \in Nat
        BY <3>3, <3>4
      <3> QED  BY <2>2, <2>3, <3>1, <3>2, <3>3, <3>5 DEF U
    <2>4. CASE ~(e.admission = n.admission /\ e.class = n.class)
      <3>1. Used(e.admission, e.class)' = Used(e.admission, e.class) /\ e \in effects
        BY <2>1, <2>4 DEF Used
      <3> QED  BY <3>1 DEF BudgetHolds
    <2> QED  BY <2>3, <2>4
  <1>3. ASSUME NEW p \in Callers, Finalize(p) PROVE BudgetHolds'
    <2> DEFINE After(d) == IF d \in Reservation(p) THEN Closed(d, verdict[p]) ELSE d
    <2>1. /\ effects' = {After(d) : d \in effects}
          /\ \A d \in effects : /\ After(d) \in Records
                                /\ After(d).admission = d.admission
                                /\ After(d).class = d.class
      BY <1>3, FinalizeMaps DEF Typed
    <2> HIDE DEF After
    <2> SUFFICES ASSUME NEW e \in effects'
                 PROVE  Cardinality(Used(e.admission, e.class)') <= e.admission.request.max
      BY DEF BudgetHolds
    <2>2. PICK d \in effects : e = After(d)
      BY <2>1
    <2> DEFINE a == d.admission
               c == d.class
               f == [g \in Used(a, c) |-> After(g)]
    <2>3. Used(a, c)' = {After(g) : g \in Used(a, c)}
      BY <2>1 DEF Used
    <2>4. f \in Surjection(Used(a, c), Used(a, c)')
      BY <2>3 DEF Surjection
    <2>5. IsFiniteSet(Used(a, c)') /\ Cardinality(Used(a, c)') <= Cardinality(Used(a, c))
      BY <1>0, <2>4, FS_Surjection
    <2>6. Cardinality(Used(a, c)') \in Nat
      BY <2>5, FS_CardinalityType
    <2>7. Cardinality(Used(a, c)) <= a.request.max
      BY DEF BudgetHolds
    <2>8. a.request.max \in Nat
      BY DecisionAssumption DEF Typed, Records, Admissions
    <2>9. e.admission = a /\ e.class = c
      BY <2>1, <2>2
    <2> QED  BY <1>0, <2>5, <2>6, <2>7, <2>8, <2>9
  <1> QED  BY <1>1, <1>2, <1>3, OtherStepsKeepEffects

-----------------------------------------------------------------------------
LEMMA InitBudget == Init => BudgetInv
  <1> SUFFICES ASSUME Init PROVE BudgetInv
    OBVIOUS
  <1>1. Typed
    BY DEF Init, Typed
  <1>2. IsFiniteSet(effects)
    BY FS_EmptySet DEF Init
  <1> QED  BY <1>1, <1>2 DEF Init, BudgetInv, RecordedOnce, BudgetHolds

LEMMA BudgetInvStep == BudgetInv /\ [Next]_vars => BudgetInv'
  BY TypedStep, FiniteStep, RecordedOnceStep, BudgetStep DEF BudgetInv

\* The invariant that BudgetHolds is a part of is inductive.
THEOREM BudgetInductive == Spec => []BudgetInv
  BY InitBudget, BudgetInvStep, PTL DEF Spec

\* However many callers reserve under an admission and die, it decides no more
\* often than it allows: the budget counts reservations, which are never undone.
THEOREM BudgetIsKept == Spec => []BudgetHolds
  <1>1. BudgetInv => BudgetHolds
    BY DEF BudgetInv
  <1> QED  BY <1>1, BudgetInductive, PTL

\* An activation is recorded once, also when it is tried under a later admission.
THEOREM ActivationsAreOneShot == Spec => []RecordedOnce
  <1>1. BudgetInv => RecordedOnce
    BY DEF BudgetInv
  <1> QED  BY <1>1, BudgetInductive, PTL

\* A reservation is made under the admission that is published at that moment,
\* and on replay evidence that passes at that moment.
THEOREM ReservationsRestOnEvidence == Spec => ReservedOnEvidence
  <1> DEFINE A == \A e \in effects' \ effects : e.state = "IN_PROGRESS" =>
        /\ e.admission = admission /\ e.admission.evidence = evidence
        /\ ReplayPass(e.class, evidence) /\ FalseRouting(e.class, evidence) = {}
  <1>1. Typed /\ [Next]_vars => [A]_vars
    <2> SUFFICES ASSUME Typed, [Next]_vars PROVE A
      OBVIOUS
    <2>1. CASE UNCHANGED effects
      BY <2>1
    <2>2. ASSUME NEW p \in Callers, Reserve(p), Reservable(p) PROVE A
      <3>1. PICK n \in Records :
              /\ effects' = effects \union {n} /\ n.class = asked[p].class
              /\ n.admission = admission
        BY <2>2, ReserveAdds
      <3>2. /\ admission.evidence = evidence
            /\ admission.request.class = asked[p].class
            /\ ReplayPass(admission.request.class, admission.evidence)
            /\ FalseRouting(admission.request.class, admission.evidence) = {}
        BY <2>2 DEF Reservable, Usable, Current, Eligible
      <3> QED  BY <3>1, <3>2
    <2>3. ASSUME NEW p \in Callers, Finalize(p) PROVE A
      <3>1. \A e \in effects' \ effects : \E d \in Reservation(p) : e = Closed(d, verdict[p])
        BY <2>3, FinalizeMaps
      <3>2. \A d \in Reservation(p) : Closed(d, verdict[p]).state = "TERMINAL"
        <4>1. \A d \in Reservation(p) : d \in Records
          BY DEF Reservation, Typed
        <4> QED  BY <4>1 DEF Records, Closed
      <3> QED  BY <3>1, <3>2
    <2> QED  BY <2>1, <2>2, <2>3, OtherStepsKeepEffects
  <1>2. BudgetInv => Typed
    BY DEF BudgetInv
  <1> QED  BY <1>1, <1>2, BudgetInductive, PTL DEF Spec, ReservedOnEvidence

-----------------------------------------------------------------------------
(* The activation of a packet and its handoff, atlas/readiness_dispatch.py.  *)

\* Where a controller may still hold a view of its packet's body.
Viewing == {"viewed", "vacancy", "compare", "reauthorize", "revacancy", "write"}

\* A controller whose own edit has landed and that nobody has overwritten, nor has
\* it overwritten anybody.
Clean(c) == pc[c] \in Written /\ c \notin raced

\* The types the argument needs.
ActivationShape ==
    /\ ActivationTypeOK
    /\ DOMAIN pc = Controllers
    /\ \A c \in Controllers : pc[c] # "idle" => node[c] \in Packets
    /\ handoffs \subseteq [packet : Packets, by : Controllers, raced : BOOLEAN]

\* Who still holds a view holds it of a packet that is queued; a clean controller's
\* packet is active, and only one packet has handoffs that stand, and is active too.
ViewsHold ==
    \A c \in current : pc[c] \in Viewing /\ gh[node[c]] = Queued
EditsStand ==
    \A c \in Controllers : Clean(c) => gh[node[c]] = Active
HandoffsStand ==
    /\ \A h \in handoffs : gh[h.packet].status = "ACTIVE"
    /\ \A h, k \in handoffs : h.packet = k.packet

\* For each packet one clean controller at most is on its way to the handoff or has
\* given it.
OneWay ==
    /\ \A c, d \in Controllers : Clean(c) /\ Clean(d) /\ node[c] = node[d] => c = d
    /\ \A c \in Controllers, h \in handoffs :
          Clean(c) /\ ~h.raced /\ node[c] = h.packet => h.by = c
    /\ \A h, k \in handoffs : ~h.raced /\ ~k.raced => h.by = k.by

ActivationInv == ActivationShape /\ ViewsHold /\ EditsStand /\ HandoffsStand /\ OneWay
-----------------------------------------------------------------------------
\* What a plan that is allowed selects is a node of its graph, and a packet.
LEMMA SelectedIsPacket ==
    ASSUME NEW G \in Files, Allows(Plan(G))
    PROVE  (CHOOSE n \in Plan(G).selected : TRUE) \in Packets
  <1> DEFINE p == Plan(G)
  <1>1. DOMAIN p.readiness = Ids(G)
    BY DEF Plan
  <1> HIDE DEF p
  <1>2. /\ p.selected = {n \in DOMAIN p.readiness : p.readiness[n] = "READY"}
        /\ Cardinality(p.selected) = 1
    BY DEF Allows, Consistent, p
  <1>3. p.selected \subseteq Packets
    BY <1>1, <1>2, ReadinessAssumption
  <1>4. p.selected # {}
    BY <1>2, FS_EmptySet
  <1> QED
    BY <1>3, <1>4 DEF p

\* Nothing of the facts or the handoffs changes.
Looks == gh' = gh /\ handoffs' = handoffs

\* The other controllers are where they were.
OthersAre(c) ==
    \A d \in Controllers : d # c => pc'[d] = pc[d] /\ node'[d] = node[d]

\* A controller that looks at GitHub and goes on.
LEMMA LookHolds ==
    ASSUME ActivationInv, NEW c \in Controllers, NEW t, Looks, pc[c] # "idle",
           pc' = [pc EXCEPT ![c] = t], node' = node, file' = file, raced' = raced,
           current' = current \/ current' = current \union {c},
           c \in current' => t \in Viewing /\ gh[node[c]] = Queued,
           t \in Written => pc[c] \in Written
    PROVE  ActivationInv'
  <1>1. DOMAIN pc = Controllers
    BY DEF ActivationInv, ActivationShape
  <1>2. pc'[c] = t /\ \A d \in Controllers : d # c => pc'[d] = pc[d]
    BY <1>1
  <1>3. ActivationShape'
    BY <1>1, <1>2 DEF ActivationInv, ActivationShape, ActivationTypeOK, Looks
  <1>4. ViewsHold'
    BY <1>2 DEF ActivationInv, ActivationShape, ActivationTypeOK, ViewsHold, Looks
  <1>5. \A d \in Controllers : Clean(d)' => Clean(d)
    BY <1>2 DEF Clean
  <1>6. EditsStand' /\ HandoffsStand'
    BY <1>5 DEF ActivationInv, EditsStand, HandoffsStand, Looks
  <1>7. OneWay'
    BY <1>5 DEF ActivationInv, OneWay, Looks
  <1> QED
    BY <1>3, <1>4, <1>6, <1>7 DEF ActivationInv

\* A call that ends.
LEMMA EndHolds ==
    ASSUME ActivationInv, NEW c \in Controllers, End(c), Looks
    PROVE  ActivationInv'
  <1>1. /\ pc' = [pc EXCEPT ![c] = "idle"] /\ node' = [node EXCEPT ![c] = Nothing]
        /\ file' = [file EXCEPT ![c] = Nothing]
        /\ current' = current \ {c} /\ raced' = raced \ {c}
    BY DEF End, Advance
  <1>2. DOMAIN pc = Controllers /\ node \in [Controllers -> Packets \union {Nothing}]
    BY DEF ActivationInv, ActivationShape, ActivationTypeOK
  <1>3. pc'[c] = "idle" /\ OthersAre(c)
    BY <1>1, <1>2 DEF OthersAre
  <1>4. ActivationShape'
    BY <1>1, <1>2, <1>3 DEF ActivationInv, ActivationShape, ActivationTypeOK, Looks, OthersAre
  <1>5. ViewsHold'
    BY <1>1, <1>3
       DEF ActivationInv, ActivationShape, ActivationTypeOK, ViewsHold, Looks, OthersAre
  <1>6. \A d \in Controllers : Clean(d)' => Clean(d) /\ d # c /\ node'[d] = node[d]
    BY <1>1, <1>3 DEF Clean, Written, OthersAre
  <1>7. EditsStand' /\ HandoffsStand'
    BY <1>6 DEF ActivationInv, EditsStand, HandoffsStand, Looks
  <1>8. OneWay'
    BY <1>6 DEF ActivationInv, OneWay, Looks
  <1> QED
    BY <1>4, <1>5, <1>7, <1>8 DEF ActivationInv

LEMMA BeginHolds ==
    ASSUME ActivationInv, NEW c \in Controllers, NEW G \in Files, Begin(c, G)
    PROVE  ActivationInv'
  <1> DEFINE n == CHOOSE x \in Plan(G).selected : TRUE
  <1>1. /\ pc[c] = "idle" /\ pc' = [pc EXCEPT ![c] = "preauthorize"]
        /\ node' = [node EXCEPT ![c] = n] /\ file' = [file EXCEPT ![c] = G]
        /\ current' = current /\ raced' = raced /\ gh' = gh /\ handoffs' = handoffs
    BY DEF Begin, Advance
  <1>2. n \in Packets
    BY SelectedIsPacket DEF Begin
  <1> HIDE DEF n
  <1>3. DOMAIN pc = Controllers /\ node \in [Controllers -> Packets \union {Nothing}]
    BY DEF ActivationInv, ActivationShape, ActivationTypeOK
  <1>4. pc'[c] = "preauthorize" /\ node'[c] = n /\ OthersAre(c)
    BY <1>1, <1>3 DEF OthersAre
  <1>5. ActivationShape'
    BY <1>1, <1>2, <1>3, <1>4
       DEF ActivationInv, ActivationShape, ActivationTypeOK, OthersAre
  <1>6. c \notin current
    BY <1>1 DEF ActivationInv, ViewsHold, Viewing
  <1>7. ViewsHold'
    BY <1>1, <1>4, <1>6
       DEF ActivationInv, ActivationShape, ActivationTypeOK, ViewsHold, OthersAre
  <1>8. \A d \in Controllers : Clean(d)' => Clean(d) /\ d # c /\ node'[d] = node[d]
    BY <1>1, <1>4 DEF Clean, Written, OthersAre
  <1>9. EditsStand' /\ HandoffsStand'
    BY <1>1, <1>8 DEF ActivationInv, EditsStand, HandoffsStand
  <1>10. OneWay'
    BY <1>1, <1>8 DEF ActivationInv, OneWay
  <1> QED
    BY <1>5, <1>7, <1>9, <1>10 DEF ActivationInv
\* What the invariant is about stays as it is.
LEMMA SameHolds ==
    ASSUME ActivationInv, Looks, pc' = pc, file' = file, node' = node,
           current' = current, raced' = raced
    PROVE  ActivationInv'
  <1>1. \A d \in Controllers : Clean(d)' <=> Clean(d)
    BY DEF Clean
  <1>2. ActivationShape' /\ ViewsHold' /\ HandoffsStand'
    BY DEF ActivationInv, ActivationShape, ActivationTypeOK, ViewsHold, HandoffsStand, Looks
  <1>3. EditsStand' /\ OneWay'
    BY <1>1 DEF ActivationInv, EditsStand, OneWay, Looks
  <1> QED
    BY <1>2, <1>3 DEF ActivationInv

\* A controller that goes on without a new view keeps the one it has.
LEMMA StepHolds ==
    ASSUME ActivationInv, NEW c \in Controllers, NEW t, Looks, pc[c] # "idle",
           pc' = [pc EXCEPT ![c] = t], node' = node, file' = file, raced' = raced,
           current' = current, pc[c] \in Viewing => t \in Viewing,
           t \in Written => pc[c] \in Written
    PROVE  ActivationInv'
  <1>1. c \in current' => t \in Viewing /\ gh[node[c]] = Queued
    BY DEF ActivationInv, ViewsHold
  <1> QED
    BY <1>1, LookHolds

\* A read that goes on or ends the call.
ReadSteps(c) ==
    \/ RecheckQueued(c) \/ CheckPredecessor(c) \/ CheckVacancy(c) \/ Compare(c)
    \/ RecheckPredecessor(c) \/ RecheckVacancy(c) \/ Confirm(c)
    \/ ConfirmPredecessor(c) \/ CheckLanded(c) \/ RereadActive(c)
    \/ RereadPredecessor(c) \/ RereadOccupancy(c) \/ RereadMetadata(c)

LEMMA ReadHolds ==
    ASSUME ActivationInv, NEW c \in Controllers, ReadSteps(c)
    PROVE  ActivationInv'
  <1> DEFINE Goes(s, t) == /\ pc[c] = s /\ pc' = [pc EXCEPT ![c] = t] /\ Looks
                           /\ file' = file /\ node' = node
                           /\ current' = current /\ raced' = raced
             Ends == Looks /\ End(c)
             Before == Viewing \union {"preauthorize", "authorize"}
  <1>1. \/ Ends
        \/ \E s \in {"preauthorize"}, t \in {"authorize"} : Goes(s, t)
        \/ \E s, t \in Viewing : Goes(s, t)
        \/ \E s, t \in Written : Goes(s, t)
    <2>1. CASE RecheckQueued(c)
      BY <2>1 DEF RecheckQueued, Read, Ask, Advance, Looks
    <2>2. CASE CheckPredecessor(c) \/ CheckVacancy(c) \/ Compare(c)
      BY <2>2 DEF CheckPredecessor, CheckVacancy, Compare, Read, Steps, Ask, Advance,
                  Looks, Viewing
    <2>3. CASE RecheckPredecessor(c) \/ RecheckVacancy(c)
      BY <2>3 DEF RecheckPredecessor, RecheckVacancy, Read, Steps, Advance, Looks, Viewing
    <2>4. CASE Confirm(c) \/ ConfirmPredecessor(c)
      BY <2>4 DEF Confirm, ConfirmPredecessor, Read, Steps, Advance, Looks, Written
    <2>5. CASE CheckLanded(c) \/ RereadActive(c)
      BY <2>5 DEF CheckLanded, RereadActive, Read, Steps, Advance, Looks, Written
    <2>6. CASE RereadPredecessor(c) \/ RereadOccupancy(c) \/ RereadMetadata(c)
      BY <2>6 DEF RereadPredecessor, RereadOccupancy, RereadMetadata, Read, Steps, Advance,
                  Looks, Written
    <2> QED
      BY <2>1, <2>2, <2>3, <2>4, <2>5, <2>6 DEF ReadSteps
  <1>2. CASE Ends
    BY <1>2, EndHolds
  <1>3. CASE Goes("preauthorize", "authorize")
    <2>1. pc[c] \notin Viewing /\ "authorize" \notin Written /\ pc[c] # "idle"
      BY <1>3 DEF Viewing, Written
    <2> QED
      BY <1>3, <2>1, StepHolds
  <1>4. ASSUME NEW s \in Viewing, NEW t \in Viewing, Goes(s, t) PROVE ActivationInv'
    <2>1. t \notin Written /\ pc[c] # "idle"
      BY <1>4 DEF Viewing, Written
    <2> QED
      BY <1>4, <2>1, StepHolds
  <1>5. ASSUME NEW s \in Written, NEW t \in Written, Goes(s, t) PROVE ActivationInv'
    <2>1. pc[c] \notin Viewing /\ pc[c] # "idle" /\ pc[c] \in Written
      BY <1>5 DEF Viewing, Written
    <2> QED
      BY <1>5, <2>1, StepHolds
  <1> QED
    BY <1>1, <1>2, <1>3, <1>4, <1>5

LEMMA ReadFactHolds ==
    ASSUME ActivationInv, NEW c \in Controllers, NEW n \in Packets, ReadFact(c, n)
    PROVE  ActivationInv'
  <1>1. CASE End(c)
    BY <1>1, EndHolds DEF ReadFact, Looks
  <1>2. CASE UNCHANGED <<pc, file, node, current, raced>>
    BY <1>2, SameHolds DEF ReadFact, Looks
  <1> QED
    BY <1>1, <1>2 DEF ReadFact

\* The view is taken of a packet that is queued.
LEMMA ViewHolds ==
    ASSUME ActivationInv, NEW c \in Controllers, View(c)
    PROVE  ActivationInv'
  <1>1. CASE End(c)
    BY <1>1, EndHolds DEF View, Read, Looks
  <1>2. CASE ~End(c)
    <2>1. /\ gh[node[c]] = Queued /\ pc[c] = "authorize" /\ Looks
          /\ pc' = [pc EXCEPT ![c] = "viewed"] /\ current' = current \union {c}
          /\ file' = file /\ node' = node /\ raced' = raced
      BY <1>2 DEF View, Read, Advance, Looks
    <2>2. "viewed" \in Viewing /\ "viewed" \notin Written /\ pc[c] # "idle"
      BY <2>1 DEF Viewing, Written
    <2> QED
      BY <2>1, <2>2, LookHolds
  <1> QED
    BY <1>1, <1>2
\* An edit that lands: a controller that held a view of the queued packet is the
\* only one on its way with it, and another one has overwritten an edit.
LEMMA LandHolds ==
    ASSUME ActivationInv, NEW c \in Controllers, pc[c] = "write",
           gh' = [gh EXCEPT ![node[c]] = Active], handoffs' = handoffs,
           DOMAIN pc' = Controllers, node' \in [Controllers -> Packets \union {Nothing}],
           file' \in [Controllers -> Files \union {Nothing}], OthersAre(c),
           raced' \subseteq Controllers, \A d \in Controllers \ {c} : d \in raced' <=> d \in raced,
           current' = {d \in current \ {c} : node[d] # node[c]},
           \/ pc'[c] = "idle"
           \/ /\ pc'[c] = "confirm" /\ node'[c] = node[c]
              /\ c \in current \/ c \in raced'
    PROVE  ActivationInv'
  <1> DEFINE n == node[c]
             now == [gh EXCEPT ![node[c]] = Active]
  <1>1. n \in Packets
    BY DEF ActivationInv, ActivationShape
  <1>2. gh \in [Packets -> {Queued, Active, Complete} \union Edits]
    BY DEF ActivationInv, ActivationShape, ActivationTypeOK
  <1>3. /\ now \in [Packets -> {Queued, Active, Complete} \union Edits]
        /\ now[n] = Active /\ \A m \in Packets : m # n => now[m] = gh[m]
    BY <1>1, <1>2
  <1>4. gh' = now
    OBVIOUS
  <1> HIDE DEF now
  <1>5. ActivationShape'
    BY <1>1, <1>3, <1>4
       DEF ActivationInv, ActivationShape, ActivationTypeOK, OthersAre
  <1>6. ViewsHold'
    BY <1>3, <1>4
       DEF ActivationInv, ActivationShape, ActivationTypeOK, ViewsHold, OthersAre, Viewing
  <1>7. \A d \in Controllers \ {c} : Clean(d)' => Clean(d) /\ node'[d] = node[d]
    BY DEF Clean, OthersAre
  <1>8. Clean(c)' => node'[c] = n /\ gh[n] = Queued
    BY DEF Clean, Written, ActivationInv, ViewsHold
  <1>9. Active.status = "ACTIVE" /\ Queued # Active /\ Queued.status # "ACTIVE"
    BY DEF Active, Queued
  <1>10. \A d \in Controllers : Clean(d)' => node'[d] \in Packets
    BY <1>5 DEF Clean, ActivationShape, Written
  <1>11. EditsStand'
    BY <1>3, <1>4, <1>7, <1>8, <1>10 DEF ActivationInv, EditsStand
  <1>12. HandoffsStand'
    BY <1>3, <1>4, <1>9 DEF ActivationInv, ActivationShape, HandoffsStand
  <1>13. Clean(c)' => /\ \A d \in Controllers : Clean(d) => node[d] # n
                      /\ \A h \in handoffs : h.packet # n
    BY <1>8, <1>9 DEF ActivationInv, EditsStand, HandoffsStand
  <1>14. OneWay'
    <2>1. \A x, d \in Controllers : Clean(x)' /\ Clean(d)' /\ node'[x] = node'[d] => x = d
      BY <1>7, <1>8, <1>13 DEF ActivationInv, OneWay
    <2>2. \A x \in Controllers, h \in handoffs :
             Clean(x)' /\ ~h.raced /\ node'[x] = h.packet => h.by = x
      BY <1>7, <1>8, <1>13 DEF ActivationInv, OneWay
    <2> QED
      BY <2>1, <2>2 DEF ActivationInv, OneWay
  <1> QED
    BY <1>5, <1>6, <1>11, <1>12, <1>14 DEF ActivationInv

LEMMA WriteHolds ==
    ASSUME ActivationInv, NEW c \in Controllers, Write(c)
    PROVE  ActivationInv'
  <1>1. CASE End(c) /\ gh' = gh
    BY <1>1, EndHolds DEF Write, Looks
  <1>2. pc[c] = "write" /\ handoffs' = handoffs /\ DOMAIN pc = Controllers
    BY DEF Write, ActivationInv, ActivationShape
  <1>3. /\ node \in [Controllers -> Packets \union {Nothing}]
        /\ file \in [Controllers -> Files \union {Nothing}] /\ raced \subseteq Controllers
    BY DEF ActivationInv, ActivationShape, ActivationTypeOK
  <1>4. CASE /\ gh' = [gh EXCEPT ![node[c]] = Active]
             /\ Advance(c, "confirm") /\ file' = file /\ node' = node
             /\ raced' = IF c \in current THEN raced ELSE raced \union {c}
             /\ current' = {d \in current : node[d] # node[c]}
    <2>1. pc' = [pc EXCEPT ![c] = "confirm"]
      BY <1>4 DEF Advance
    <2>2. DOMAIN pc' = Controllers /\ pc'[c] = "confirm" /\ OthersAre(c)
      BY <1>2, <1>4, <2>1 DEF OthersAre
    <2>3. current' = {d \in current \ {c} : node[d] # node[c]}
      BY <1>4
    <2>4. /\ raced' \subseteq Controllers
          /\ \A d \in Controllers \ {c} : d \in raced' <=> d \in raced
          /\ c \in current \/ c \in raced'
      BY <1>3, <1>4
    <2>5. gh' = [gh EXCEPT ![node[c]] = Active] /\ node' = node /\ file' = file
      BY <1>4
    <2> QED
      BY <1>2, <1>3, <2>2, <2>3, <2>4, <2>5, LandHolds
  <1>5. CASE /\ gh' = [gh EXCEPT ![node[c]] = Active]
             /\ Advance(c, "idle") /\ file' = [file EXCEPT ![c] = Nothing]
             /\ node' = [node EXCEPT ![c] = Nothing] /\ raced' = raced \ {c}
             /\ current' = {d \in current \ {c} : node[d] # node[c]}
    <2>1. pc' = [pc EXCEPT ![c] = "idle"]
      BY <1>5 DEF Advance
    <2>2. DOMAIN pc' = Controllers /\ pc'[c] = "idle" /\ OthersAre(c)
      BY <1>2, <1>3, <1>5, <2>1 DEF OthersAre
    <2>3. /\ node' \in [Controllers -> Packets \union {Nothing}]
          /\ file' \in [Controllers -> Files \union {Nothing}]
      BY <1>3, <1>5
    <2>4. /\ raced' \subseteq Controllers
          /\ \A d \in Controllers \ {c} : d \in raced' <=> d \in raced
      BY <1>3, <1>5
    <2>5. /\ gh' = [gh EXCEPT ![node[c]] = Active]
          /\ current' = {d \in current \ {c} : node[d] # node[c]}
      BY <1>5
    <2> QED
      BY <1>2, <2>2, <2>3, <2>4, <2>5, LandHolds
  <1> QED
    BY <1>1, <1>4, <1>5 DEF Write

\* The handoff: where the packet is alone, those that stand are of it too, and
\* none of another clean controller.
LEMMA HandOffHolds ==
    ASSUME ActivationInv, NEW c \in Controllers, HandOff(c)
    PROVE  ActivationInv'
  <1>1. CASE ~Alone(c)
    BY <1>1, EndHolds DEF HandOff, Looks
  <1>2. CASE Alone(c)
    <2> DEFINE new == [packet |-> node[c], by |-> c, raced |-> c \in raced]
    <2>1. handoffs' = handoffs \union {new} /\ gh' = gh /\ End(c) /\ pc[c] = "unique"
      BY <1>2 DEF HandOff
    <2>2. node[c] \in Packets
      BY <2>1 DEF ActivationInv, ActivationShape
    <2>3. /\ new \in [packet : Packets, by : Controllers, raced : BOOLEAN]
          /\ new.packet = node[c] /\ new.by = c /\ (~new.raced <=> Clean(c))
      <3>1. (c \in raced) \in BOOLEAN
        OBVIOUS
      <3>2. new \in [packet : Packets, by : Controllers, raced : BOOLEAN]
        BY <2>2, <3>1
      <3>3. new.packet = node[c] /\ new.by = c /\ new.raced = (c \in raced)
        OBVIOUS
      <3>4. Clean(c) <=> c \notin raced
        BY <2>1 DEF Clean, Written
      <3> QED
        BY <3>2, <3>3, <3>4
    <2> HIDE DEF new
    <2>4. /\ pc' = [pc EXCEPT ![c] = "idle"] /\ node' = [node EXCEPT ![c] = Nothing]
          /\ file' = [file EXCEPT ![c] = Nothing]
          /\ current' = current \ {c} /\ raced' = raced \ {c}
      BY <2>1 DEF End, Advance
    <2>5. DOMAIN pc = Controllers /\ node \in [Controllers -> Packets \union {Nothing}]
      BY DEF ActivationInv, ActivationShape, ActivationTypeOK
    <2>6. pc'[c] = "idle" /\ OthersAre(c)
      BY <2>4, <2>5 DEF OthersAre
    <2>7. ActivationShape'
      BY <2>1, <2>3, <2>4, <2>5, <2>6
         DEF ActivationInv, ActivationShape, ActivationTypeOK, OthersAre
    <2>8. ViewsHold'
      BY <2>1, <2>4, <2>6
         DEF ActivationInv, ActivationShape, ActivationTypeOK, ViewsHold, OthersAre
    <2>9. \A d \in Controllers : Clean(d)' => Clean(d) /\ d # c /\ node'[d] = node[d]
      BY <2>4, <2>6 DEF Clean, Written, OthersAre
    <2>10. EditsStand'
      BY <2>1, <2>9 DEF ActivationInv, EditsStand
    <2>11. \A h \in handoffs : h.packet = node[c]
      BY <1>2 DEF Alone, Occupied, ActivationInv, ActivationShape, HandoffsStand
    <2>12. gh[node[c]].status = "ACTIVE"
      BY <1>2, <2>2 DEF Alone, Occupied
    <2>13. HandoffsStand'
      BY <2>1, <2>3, <2>11, <2>12 DEF ActivationInv, HandoffsStand
    <2>14. OneWay'
      <3>1. \A x, d \in Controllers :
               Clean(x)' /\ Clean(d)' /\ node'[x] = node'[d] => x = d
        BY <2>9 DEF ActivationInv, OneWay
      <3>2. \A x \in Controllers, h \in handoffs :
               Clean(x)' /\ ~h.raced /\ node'[x] = h.packet => h.by = x
        BY <2>9 DEF ActivationInv, OneWay
      <3>3. \A x \in Controllers :
               ~(Clean(x)' /\ ~new.raced /\ node'[x] = new.packet)
        BY <2>3, <2>9 DEF ActivationInv, OneWay
      <3>4. \A h \in handoffs : ~h.raced /\ ~new.raced => h.by = new.by
        BY <2>3, <2>11 DEF ActivationInv, OneWay
      <3>5. \A h, k \in handoffs : ~h.raced /\ ~k.raced => h.by = k.by
        BY DEF ActivationInv, OneWay
      <3> QED
        BY <2>1, <3>1, <3>2, <3>3, <3>4, <3>5 DEF OneWay
    <2> QED
      BY <2>7, <2>8, <2>10, <2>13, <2>14 DEF ActivationInv
  <1> QED
    BY <1>1, <1>2
\* The owner's edit of a packet takes its handoffs and views, and races with the
\* controllers that have edited it.
LEMMA EditHolds ==
    ASSUME ActivationInv, NEW n \in Packets, NEW fact \in Edits, Edit(n, fact)
    PROVE  ActivationInv'
  <1> DEFINE now == [gh EXCEPT ![n] = fact]
  <1>1. gh \in [Packets -> {Queued, Active, Complete} \union Edits]
    BY DEF ActivationInv, ActivationShape, ActivationTypeOK
  <1>2. /\ now \in [Packets -> {Queued, Active, Complete} \union Edits]
        /\ \A m \in Packets : m # n => now[m] = gh[m]
    BY <1>1
  <1>3. gh' = now
    BY DEF Edit
  <1> HIDE DEF now
  <1>4. /\ current' = {c \in current : node[c] # n}
        /\ handoffs' = {h \in handoffs : h.packet # n}
        /\ raced' = raced \union {c \in Controllers : node[c] = n /\ pc[c] \in Written}
        /\ pc' = pc /\ node' = node /\ file' = file
    BY DEF Edit
  <1>5. ActivationShape'
    BY <1>2, <1>3, <1>4 DEF ActivationInv, ActivationShape, ActivationTypeOK
  <1>6. ViewsHold'
    BY <1>2, <1>3, <1>4
       DEF ActivationInv, ActivationShape, ActivationTypeOK, ViewsHold, Viewing
  <1>7. \A c \in Controllers : Clean(c)' => Clean(c) /\ node[c] # n /\ node[c] \in Packets
    BY <1>4 DEF Clean, Written, ActivationInv, ActivationShape
  <1>8. EditsStand'
    BY <1>2, <1>3, <1>4, <1>7 DEF ActivationInv, EditsStand
  <1>9. HandoffsStand'
    BY <1>2, <1>3, <1>4 DEF ActivationInv, ActivationShape, HandoffsStand
  <1>10. OneWay'
    <2>1. \A x, d \in Controllers :
             Clean(x)' /\ Clean(d)' /\ node'[x] = node'[d] => x = d
      BY <1>4, <1>7 DEF ActivationInv, OneWay
    <2>2. \A x \in Controllers, h \in handoffs :
             Clean(x)' /\ ~h.raced /\ node'[x] = h.packet => h.by = x
      BY <1>4, <1>7 DEF ActivationInv, OneWay
    <2> QED
      BY <1>4, <2>1, <2>2 DEF ActivationInv, OneWay
  <1> QED
    BY <1>5, <1>6, <1>8, <1>9, <1>10 DEF ActivationInv

LEMMA ActivationStart == ActivationInit => ActivationInv
  <1> SUFFICES ASSUME ActivationInit PROVE ActivationInv
    OBVIOUS
  <1>1. \A c \in Controllers : pc[c] = "idle" /\ ~Clean(c)
    BY DEF ActivationInit, Clean, Written
  <1>2. gh \in [Packets -> {Queued, Active, Complete} \union Edits]
    BY DEF ActivationInit, AtFirst
  <1>3. ActivationShape
    BY <1>1, <1>2 DEF ActivationInit, ActivationShape, ActivationTypeOK
  <1>4. ViewsHold /\ EditsStand /\ HandoffsStand /\ OneWay
    BY <1>1 DEF ActivationInit, ViewsHold, EditsStand, HandoffsStand, OneWay
  <1> QED
    BY <1>3, <1>4 DEF ActivationInv

LEMMA ActivationMoves ==
    ASSUME ActivationInv, [ActivationNext]_activationVars
    PROVE  ActivationInv'
  <1>1. CASE \E S \in Drafts : PlanDraft(S)
    BY <1>1, SameHolds DEF PlanDraft, Looks
  <1>2. ASSUME NEW c \in Controllers, ActivationStep(c) PROVE ActivationInv'
    <2>1. CASE \E G \in Files : Begin(c, G)
      BY <2>1, BeginHolds
    <2>2. CASE \E n \in Packets : ReadFact(c, n)
      BY <2>2, ReadFactHolds
    <2>3. CASE ReadSteps(c)
      BY <2>3, ReadHolds
    <2>4. CASE View(c)
      BY <2>4, ViewHolds
    <2>5. CASE Write(c)
      BY <2>5, WriteHolds
    <2>6. CASE HandOff(c)
      BY <2>6, HandOffHolds
    <2> QED
      BY <1>2, <2>1, <2>2, <2>3, <2>4, <2>5, <2>6 DEF ActivationStep, ReadSteps
  <1>3. ASSUME NEW c \in Controllers, DieActivating(c) PROVE ActivationInv'
    BY <1>3, EndHolds DEF DieActivating, Looks
  <1>4. ASSUME NEW n \in Packets, NEW fact \in Edits, Edit(n, fact) PROVE ActivationInv'
    BY <1>4, EditHolds
  <1>5. CASE UNCHANGED activationVars
    BY <1>5, SameHolds DEF activationVars, Looks
  <1> QED
    BY <1>1, <1>2, <1>3, <1>4, <1>5 DEF ActivationNext

\* The invariant of activate_and_authorize_single_worker_handoff: a view that still
\* is the body is of a queued packet, and for each packet one controller at most is
\* on its way whose edit neither overwrote another nor was overwritten.
THEOREM ActivationInductive == ActivationSpec => []ActivationInv
  <1> QED
    BY ActivationStart, ActivationMoves, PTL DEF ActivationSpec

\* However many controllers activate packets of a repository at once, at most one
\* handoff stands, but for the residual race that the unconditional edit of GitHub
\* leaves.
THEOREM OneStands == ActivationSpec => []OneHandoffStands
  <1>1. ASSUME ActivationInv PROVE OneHandoffStands
    <2>1. SUFFICES ASSUME NEW h \in handoffs, NEW k \in handoffs, h # k
                   PROVE  h.packet = k.packet /\ (h.raced \/ k.raced)
      BY DEF OneHandoffStands
    <2>2. h.packet = k.packet
      BY <1>1 DEF ActivationInv, HandoffsStand
    <2>3. /\ h \in [packet : Packets, by : Controllers, raced : BOOLEAN]
          /\ k \in [packet : Packets, by : Controllers, raced : BOOLEAN]
      BY <1>1 DEF ActivationInv, ActivationShape
    <2>4. /\ h = [packet |-> h.packet, by |-> h.by, raced |-> h.raced]
          /\ k = [packet |-> k.packet, by |-> k.by, raced |-> k.raced]
      BY <2>3
    <2>5. CASE ~h.raced /\ ~k.raced
      <3>1. h.by = k.by
        BY <1>1, <2>5 DEF ActivationInv, OneWay
      <3>2. h.raced = k.raced
        BY <2>3, <2>5
      <3> QED
        BY <2>1, <2>2, <2>4, <3>1, <3>2
    <2> QED
      BY <2>2, <2>5
  <1> QED
    BY <1>1, ActivationInductive, PTL
=============================================================================
