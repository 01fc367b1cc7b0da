--------------------------- MODULE ChatAudit_proofs ---------------------------
(***************************************************************************)
(* Theorems about ChatAudit, for any invocations, heads and queue of units    *)
(* and however many faults and moves of HEAD: nothing stands in the packet    *)
(* that was not earned, and a live claim is left alone by everybody else.     *)
(***************************************************************************)
EXTENDS ChatAudit, WellFoundedInduction, TLAPS

\* The statuses of a packet whose unit is not done with.
Underway == {"IN_SLICE", "AWAITING_EVIDENCE"}

\* The steps of an invocation that may hold the claim.
Working == {"executing", "returned", "handed", "reconciling"}

\* What a packet says of its claim and of the unit at hand.
Sound(p) ==
    /\ Verdict(p)
    /\ p.claim # None => p.status \in Underway /\ p.claim.unit = p.unit
    /\ p.status \in Underway => p.unit \notin Completed(p)
    /\ Executing(p) => p.status = "IN_SLICE"

\* A baseline and what is complete rest on the passes ret and the issues iss.
Earned(p, ret, iss) ==
    /\ p.audited # None => \A u \in Units : <<p.audited, u>> \in ret
    /\ \A u \in Units :
          /\ p.done[u] = "PASS" => <<p.target, u>> \in ret
          /\ p.done[u] = "FINDING" => <<p.target, u>> \in iss

\* What invocation i at step st knows, of packet p and the bound invocations b,
\* from its memory m.
Held(i, p, b, st, m, ret, iss) ==
    /\ st \in Working \union {"rolling"} => p # None
    /\ (p # None /\ Owned(p, i)) =>
          st \in Working /\ m.head = p.target /\ m.unit = p.unit
    /\ (st = "claiming" /\ i \in b) =>
          p # None /\ ~Executing(p) /\ m.head = p.target
    /\ (st = "handed" /\ i \in b) => p # None /\ Owned(p, i)
    /\ st = "handed" => m.result = "FINDING" /\ <<m.head, m.unit>> \in iss
    /\ st = "returned" =>
          m.result \in Results \ {"INVALID"} /\ (m.result = "PASS" => <<m.head, m.unit>> \in ret)
    /\ st \in {"begun", "claiming"} => m.head \in Heads

ChatInv ==
    /\ head \in Heads /\ packet \in Packet \union {None}
    /\ pc \in [Procs -> Phases] /\ mine \in [Procs -> Memory]
    /\ packet # None => Sound(packet) /\ Earned(packet, returned, issues)
    /\ \A i \in Procs : Held(i, packet, bound, pc[i], mine[i], returned, issues)

-----------------------------------------------------------------------------
(* The operators on a packet.                                                 *)

LEMMA QueueHasUnits ==
    /\ Len(Queue) \in Nat \ {0} /\ DOMAIN Queue = 1..Len(Queue)
    /\ 1 \in DOMAIN Queue
  BY ChatAssumption

LEMMA LeastOf ==
    ASSUME NEW S \in SUBSET Nat, S # {} PROVE \E n \in S : \A k \in S : n <= k
  <1>1. IsWellFoundedOn(OpToRel(<, Nat), Nat)
    BY NatLessThanWellFounded
  <1>2. PICK n \in S : \A k \in S : ~(<<k, n>> \in OpToRel(<, Nat))
    BY <1>1, WFMin
  <1>3. \A k \in S : ~(k < n)
    BY <1>2 DEF OpToRel
  <1> QED  BY <1>3

LEMMA NextIsOpen ==
    ASSUME NEW p \in Packet, NextUnit(p) # None
    PROVE  NextUnit(p) \in Units /\ NextUnit(p) \notin Completed(p)
  <1> DEFINE turn(k) == Queue[(((p.start - 1) + k) % Len(Queue)) + 1]
             left == {k \in 0..(Len(Queue) - 1) : turn(k) \notin Completed(p)}
             first == CHOOSE k \in left : \A j \in left : k <= j
  <1>1. left # {} /\ NextUnit(p) = turn(first)
    BY DEF NextUnit
  <1>2. left \in SUBSET Nat
    BY QueueHasUnits
  <1>3. first \in left
    BY <1>1, <1>2, LeastOf
  <1>4. first \in Nat /\ p.start - 1 \in Nat
    BY <1>2, <1>3, QueueHasUnits DEF Packet
  <1>5. (p.start - 1) + first \in Nat
    BY <1>4
  <1>6. (((p.start - 1) + first) % Len(Queue)) + 1 \in DOMAIN Queue
    <2> SUFFICES ASSUME NEW m \in Nat PROVE (m % Len(Queue)) + 1 \in DOMAIN Queue
      BY <1>5, Zenon
    <2> QED  BY QueueHasUnits
  <1>7. turn(first) \in Units
    BY <1>6 DEF Units
  <1> QED  BY <1>1, <1>3, <1>7

LEMMA FreshHolds ==
    ASSUME NEW h \in Heads
    PROVE  /\ Fresh(h) \in Packet /\ Fresh(h).target = h /\ Fresh(h).claim = None
           /\ Fresh(h).audited = None /\ Fresh(h).status = "IDLE"
           /\ Fresh(h).done = [u \in Units |-> "none"]
  BY QueueHasUnits DEF Fresh, Packet, Statuses, Sessions

LEMMA DeltaHolds ==
    ASSUME NEW p \in Packet, NEW h \in Heads
    PROVE  LET q == DeltaRun(p, h)
           IN  /\ q \in Packet /\ q.target = h /\ q.claim = None
               /\ q.audited = p.audited /\ q.status = "IDLE"
               /\ q.done = [u \in Units |-> "none"]
  <1>1. (p.start % Len(Queue)) + 1 \in DOMAIN Queue
    <2>1. p.start \in Nat
      BY QueueHasUnits DEF Packet
    <2> QED  BY <2>1, QueueHasUnits
  <1> QED  BY <1>1 DEF DeltaRun, Packet, Statuses

LEMMA MarkedHolds ==
    ASSUME NEW p \in Packet, NEW s \in {"timed_out", "awaiting_evidence", "failed"}
    PROVE  LET q == Marked(p, s)
           IN  /\ q \in Packet /\ q.target = p.target /\ q.audited = p.audited
               /\ q.status = p.status /\ q.unit = p.unit /\ q.done = p.done
               /\ q.open = p.open /\ q.session = p.session
               /\ p.claim = None => q.claim = None
               /\ p.claim # None =>
                     /\ q.claim # None /\ q.claim.holder = p.claim.holder
                     /\ q.claim.unit = p.claim.unit /\ q.claim.state = s
  <1>1. CASE p.claim = None
    BY <1>1 DEF Marked
  <1>2. CASE p.claim # None
    <2> DEFINE c == [[p.claim EXCEPT !.state = s] EXCEPT !.live = FALSE]
    <2>1. p.claim \in Claim
      BY <1>2 DEF Packet
    <2>2. c \in Claim /\ c.holder = p.claim.holder /\ c.unit = p.claim.unit /\ c.state = s
      BY <2>1 DEF Claim
    <2>3. Marked(p, s) = [p EXCEPT !.claim = c]
      BY <1>2, <2>1 DEF Marked, Packet
    <2>4. c # None
      BY <2>2, NoneAssumption
    <2> HIDE DEF c
    <2> QED  BY <1>2, <2>2, <2>3, <2>4 DEF Packet
  <1> QED  BY <1>1, <1>2

LEMMA OrphanedHolds ==
    ASSUME NEW p \in Packet, NEW i \in Procs
    PROVE  LET q == Orphaned(p, i)
           IN  /\ q \in Packet /\ q # None /\ q.target = p.target /\ q.audited = p.audited
               /\ q.status = p.status /\ q.unit = p.unit /\ q.done = p.done
               /\ q.open = p.open /\ q.session = p.session
               /\ p.claim = None => q.claim = None
               /\ p.claim # None =>
                     /\ q.claim # None /\ q.claim.unit = p.claim.unit
                     /\ q.claim.state = p.claim.state /\ q.claim.live = p.claim.live
               /\ ~Owned(q, i)
               /\ \A j \in Procs \ {i} : Owned(q, j) <=> Owned(p, j)
  <1>1. CASE ~Owned(p, i)
    BY <1>1, NoneAssumption DEF Orphaned
  <1>2. CASE Owned(p, i)
    <2> DEFINE c == [p.claim EXCEPT !.holder = None]
    <2>1. p.claim \in Claim /\ p.claim # None /\ p.claim.holder = i
      BY <1>2 DEF Packet, Owned
    <2>2. /\ c \in Claim /\ c.holder = None /\ c.unit = p.claim.unit
          /\ c.state = p.claim.state /\ c.live = p.claim.live
      BY <2>1 DEF Claim
    <2>3. Orphaned(p, i) = [p EXCEPT !.claim = c]
      BY <1>2, <2>1, NoneAssumption DEF Orphaned, Packet
    <2>4. c # None
      BY <2>2, NoneAssumption
    <2> HIDE DEF c
    <2>5. Orphaned(p, i) \in Packet /\ Orphaned(p, i).claim = c
      BY <2>2, <2>3 DEF Packet
    <2>6. \A j \in Procs : ~Owned(Orphaned(p, i), j)
      BY <2>2, <2>5, ChatAssumption DEF Owned
    <2>7. \A j \in Procs \ {i} : ~Owned(p, j)
      BY <2>1 DEF Owned
    <2>8. Orphaned(p, i) # None
      BY <2>5, NoneAssumption
    <2> QED  BY <2>1, <2>2, <2>3, <2>4, <2>5, <2>6, <2>7, <2>8 DEF Packet
  <1> QED  BY <1>1, <1>2

LEMMA ClaimedHolds ==
    ASSUME NEW p \in Packet, NEW i \in Procs, NEW u \in Units
    PROVE  LET q == Claimed(p, i, u)
           IN  /\ q \in Packet /\ q.target = p.target /\ q.audited = p.audited
               /\ q.status = "IN_SLICE" /\ q.unit = u /\ q.done = p.done
               /\ q.claim # None /\ q.claim.unit = u /\ q.claim.holder = i
  <1> DEFINE c == [holder |-> i, unit |-> u, live |-> TRUE, state |-> "executing"]
  <1>1. c \in Claim /\ c.unit = u /\ c.holder = i
    BY DEF Claim
  <1>2. Claimed(p, i, u) = [p EXCEPT !.status = "IN_SLICE", !.unit = u, !.claim = c]
    BY DEF Claimed
  <1>3. c # None
    BY <1>1, NoneAssumption
  <1> HIDE DEF c
  <1> QED  BY <1>1, <1>2, <1>3 DEF Packet, Statuses

-----------------------------------------------------------------------------
(* What a save asks of a packet, and what it does to the invocations.         *)

\* Two packets that differ in their session, holder and lease at most.
Alike(p, q) ==
    /\ q.target = p.target /\ q.audited = p.audited /\ q.status = p.status
    /\ q.unit = p.unit /\ q.done = p.done /\ q.open = p.open
    /\ (q.claim = None) <=> (p.claim = None)
    /\ p.claim # None => q.claim.unit = p.claim.unit
    /\ Executing(q) => Executing(p)

\* Packet q, saved by i over p, leaves the others their claims and, for the same
\* target, what is complete.
Succeeds(p, q, i) ==
    /\ \A j \in Procs \ {i} :
          /\ Owned(q, j) =>
                p # None /\ Owned(p, j) /\ q.target = p.target /\ q.unit = p.unit
          /\ (p # None /\ GenuinelyLive(p) /\ p.claim.holder = j) =>
                q.claim # None /\ q.claim.holder = j
    /\ (p # None /\ q.target = p.target) =>
          \A u \in Completed(p) : q.done[u] = p.done[u]

\* The step of ClaimsAreRespected.
Respected ==
    packet # None =>
      /\ \A i \in Procs :
            (GenuinelyLive(packet) /\ packet.claim.holder = i /\ pc'[i] = pc[i]) =>
                packet'.claim # None /\ packet'.claim.holder = i
      /\ packet'.target = packet.target =>
            \A u \in Completed(packet) : packet'.done[u] = packet.done[u]

LEMMA AlikeHolds ==
    ASSUME NEW p, NEW q, Alike(p, q), NEW ret, NEW iss
    PROVE  /\ Verdict(q) <=> Verdict(p)
           /\ Sound(p) => Sound(q)
           /\ Earned(p, ret, iss) => Earned(q, ret, iss)
  <1>1. Completed(q) = Completed(p) /\ Found(q) = Found(p)
    BY DEF Alike, Completed, Found
  <1>2. Verdict(q) <=> Verdict(p)
    BY <1>1 DEF Alike, Verdict
  <1>3. Sound(p) => Sound(q)
    BY <1>1, <1>2 DEF Alike, Sound
  <1>4. Earned(p, ret, iss) => Earned(q, ret, iss)
    BY DEF Alike, Earned
  <1> QED  BY <1>2, <1>3, <1>4

LEMMA HeldKept ==
    ASSUME NEW j, NEW p, NEW q, NEW b, NEW c, NEW st, NEW m,
           NEW ret, NEW ret2, NEW iss, NEW iss2, ret \subseteq ret2, iss \subseteq iss2,
           Held(j, p, b, st, m, ret, iss),
           (q # None /\ Owned(q, j)) =>
               p # None /\ Owned(p, j) /\ q.target = p.target /\ q.unit = p.unit,
           (j \in c) => (j \in b), p # None => q # None,
           (j \in c /\ p # None) =>
               /\ q.target = p.target /\ (Executing(q) => Executing(p))
               /\ Owned(p, j) => Owned(q, j)
    PROVE  Held(j, q, c, st, m, ret2, iss2)
  BY DEF Held

LEMMA WriteHolds ==
    ASSUME ChatInv, NEW i \in Procs, NEW q \in Packet, packet' = q, bound' \subseteq {i},
           UNCHANGED <<head, returned, issues>>,
           Sound(q), Earned(q, returned, issues), Succeeds(packet, q, i),
           NEW st \in Phases, NEW m \in Memory, Go(i, st, m), st # pc[i],
           Held(i, q, bound', st, m, returned, issues)
    PROVE  ChatInv' /\ Respected
  <1>1. /\ pc' \in [Procs -> Phases] /\ mine' \in [Procs -> Memory]
        /\ pc'[i] = st /\ mine'[i] = m
        /\ \A j \in Procs \ {i} : pc'[j] = pc[j] /\ mine'[j] = mine[j]
    BY DEF ChatInv, Go
  <1>2. ASSUME NEW j \in Procs
        PROVE  Held(j, q, bound', pc'[j], mine'[j], returned, issues)
    <2>1. CASE j = i
      BY <1>1, <2>1
    <2>2. CASE j # i
      <3>1. Held(j, packet, bound, pc[j], mine[j], returned, issues)
        BY DEF ChatInv
      <3>2. Owned(q, j) =>
              packet # None /\ Owned(packet, j) /\ q.target = packet.target
                /\ q.unit = packet.unit
        BY <2>2 DEF Succeeds
      <3>3. j \notin bound' /\ q # None
        BY <2>2, NoneAssumption
      <3>4. Held(j, q, bound', pc[j], mine[j], returned, issues)
        BY <3>1, <3>2, <3>3, HeldKept
      <3> QED  BY <1>1, <2>2, <3>4
    <2> QED  BY <2>1, <2>2
  <1>3. ChatInv'
    BY <1>1, <1>2, NoneAssumption DEF ChatInv
  <1>4. Respected
    BY <1>1 DEF Respected, Succeeds
  <1> QED  BY <1>3, <1>4

LEMMA SaveEndHolds ==
    ASSUME ChatInv, NEW i \in Procs, NEW p \in Packet, SaveAndEnd(i, p),
           UNCHANGED <<head, returned, issues>>,
           Verdict(p) => Sound(p), Earned(p, returned, issues), Succeeds(packet, p, i),
           pc[i] # "idle"
    PROVE  ChatInv' /\ Respected
  <1> DEFINE q == Orphaned(p, i)
  <1>1. /\ q \in Packet /\ Alike(p, q) /\ ~Owned(q, i)
        /\ \A j \in Procs \ {i} : Owned(q, j) <=> Owned(p, j)
    BY OrphanedHolds DEF Alike, Executing
  <1>2. q.target = p.target /\ q.unit = p.unit /\ q.done = p.done
    BY <1>1 DEF Alike
  <1>3. Write(q, {}) /\ Go(i, "idle", Forgotten)
    BY DEF SaveAndEnd
  <1> HIDE DEF q
  <1>4. Verdict(q) /\ packet' = q /\ bound' = {}
    BY <1>3 DEF Write
  <1>5. Sound(q) /\ Earned(q, returned, issues)
    BY <1>1, <1>4, AlikeHolds
  <1>6. Succeeds(packet, q, i)
    <2>1. ASSUME NEW j \in Procs \ {i}
          PROVE  /\ Owned(q, j) => packet # None /\ Owned(packet, j)
                       /\ q.target = packet.target /\ q.unit = packet.unit
                 /\ (packet # None /\ GenuinelyLive(packet) /\ packet.claim.holder = j) =>
                       q.claim # None /\ q.claim.holder = j
      BY <1>1, <1>2 DEF Succeeds, Owned
    <2> QED  BY <1>2, <2>1 DEF Succeeds
  <1>7. Held(i, q, bound', "idle", Forgotten, returned, issues)
    BY <1>1 DEF Held, Working
  <1>8. Forgotten \in Memory /\ "idle" \in Phases
    BY DEF Forgotten, Memory, Phases
  <1> QED  BY <1>1, <1>3, <1>4, <1>5, <1>6, <1>7, <1>8, WriteHolds

LEMMA SamePacket == packet' = packet => Respected
  BY DEF Respected, GenuinelyLive, Executing

LEMMA EndHolds ==
    ASSUME ChatInv, NEW i \in Procs, End(i), UNCHANGED <<head, returned, issues>>,
           pc[i] # "idle"
    PROVE  ChatInv' /\ Respected
  <1> DEFINE q == Orphaned(packet, i)
  <1>1. /\ packet' = q /\ bound' = bound \ {i}
        /\ pc' = [pc EXCEPT ![i] = "idle"] /\ mine' = [mine EXCEPT ![i] = Forgotten]
    BY DEF End, Go
  <1>2. Forgotten \in Memory /\ "idle" \in Phases
    BY DEF Forgotten, Memory, Phases
  <1>3. /\ pc' \in [Procs -> Phases] /\ mine' \in [Procs -> Memory]
        /\ pc'[i] = "idle" /\ mine'[i] = Forgotten
        /\ \A j \in Procs \ {i} : pc'[j] = pc[j] /\ mine'[j] = mine[j]
    BY <1>1, <1>2 DEF ChatInv
  <1>4. CASE packet = None
    <2>1. q = None
      BY <1>4 DEF Orphaned
    <2> HIDE DEF q
    <2>2. ASSUME NEW j \in Procs
          PROVE  Held(j, None, bound', pc'[j], mine'[j], returned, issues)
      <3>1. Held(j, None, bound, pc[j], mine[j], returned, issues)
        BY <1>4 DEF ChatInv
      <3>2. CASE j = i
        BY <1>3, <3>2 DEF Held, Working
      <3>3. CASE j # i
        BY <1>1, <1>3, <3>1, <3>3 DEF Held
      <3> QED  BY <3>2, <3>3
    <2> QED  BY <1>1, <1>3, <1>4, <2>1, <2>2 DEF ChatInv, Respected
  <1>5. CASE packet # None
    <2>1. packet \in Packet /\ Sound(packet) /\ Earned(packet, returned, issues)
      BY <1>5 DEF ChatInv
    <2>2. /\ q \in Packet /\ q # None /\ Alike(packet, q) /\ ~Owned(q, i)
          /\ \A j \in Procs \ {i} : Owned(q, j) <=> Owned(packet, j)
      BY <2>1, OrphanedHolds DEF Alike, Executing
    <2> HIDE DEF q
    <2>3. Sound(q) /\ Earned(q, returned, issues)
      BY <2>1, <2>2, AlikeHolds
    <2>4. ASSUME NEW j \in Procs
          PROVE  Held(j, q, bound', pc'[j], mine'[j], returned, issues)
      <3>1. Held(j, packet, bound, pc[j], mine[j], returned, issues)
        BY DEF ChatInv
      <3>2. CASE j = i
        BY <1>3, <2>2, <3>2 DEF Held, Working
      <3>3. CASE j # i
        <4>1. q.target = packet.target /\ q.unit = packet.unit
                /\ (Executing(q) => Executing(packet))
          BY <2>2 DEF Alike
        <4>2. Owned(q, j) <=> Owned(packet, j)
          BY <2>2, <3>3
        <4>3. j \in bound' => j \in bound
          BY <1>1
        <4>4. Held(j, q, bound', pc[j], mine[j], returned, issues)
          BY <1>5, <2>2, <3>1, <4>1, <4>2, <4>3, HeldKept
        <4> QED  BY <1>3, <3>3, <4>4
      <3> QED  BY <3>2, <3>3
    <2>5. ChatInv'
      BY <1>1, <1>3, <2>2, <2>3, <2>4 DEF ChatInv
    <2>6. Respected
      <3>1. ASSUME NEW j \in Procs, GenuinelyLive(packet), packet.claim.holder = j,
                   pc'[j] = pc[j]
            PROVE  q.claim # None /\ q.claim.holder = j
        <4>1. j # i
          BY <1>3, <3>1
        <4>2. Owned(packet, j)
          BY <3>1 DEF GenuinelyLive, Executing, Owned
        <4> QED  BY <2>2, <4>1, <4>2 DEF Owned
      <3>2. q.done = packet.done
        BY <2>2 DEF Alike
      <3> QED  BY <1>1, <3>1, <3>2 DEF Respected
    <2> QED  BY <2>5, <2>6
  <1> QED  BY <1>4, <1>5

LEMMA NoWriteHolds ==
    ASSUME ChatInv, NEW i \in Procs, UNCHANGED <<head, packet>>,
           returned \subseteq returned', issues \subseteq issues',
           \A j \in Procs \ {i} : j \in bound' => j \in bound,
           NEW st \in Phases, NEW m \in Memory, Go(i, st, m),
           Held(i, packet, bound', st, m, returned', issues')
    PROVE  ChatInv' /\ Respected
  <1>1. /\ pc' \in [Procs -> Phases] /\ mine' \in [Procs -> Memory]
        /\ pc'[i] = st /\ mine'[i] = m
        /\ \A j \in Procs \ {i} : pc'[j] = pc[j] /\ mine'[j] = mine[j]
    BY DEF ChatInv, Go
  <1>2. ASSUME NEW j \in Procs
        PROVE  Held(j, packet, bound', pc'[j], mine'[j], returned', issues')
    <2>1. CASE j = i
      BY <1>1, <2>1
    <2>2. CASE j # i
      <3>1. Held(j, packet, bound, pc[j], mine[j], returned, issues)
        BY DEF ChatInv
      <3>2. j \in bound' => j \in bound
        BY <2>2
      <3>3. Held(j, packet, bound', pc[j], mine[j], returned', issues')
        BY <3>1, <3>2, HeldKept
      <3> QED  BY <1>1, <2>2, <3>3
    <2> QED  BY <2>1, <2>2
  <1>3. packet # None => Earned(packet, returned', issues')
    BY DEF ChatInv, Earned
  <1>4. ChatInv'
    BY <1>1, <1>2, <1>3 DEF ChatInv
  <1> QED  BY <1>4, SamePacket

\* What the invariant says of one invocation.
LEMMA OfOne ==
    ASSUME ChatInv, NEW i \in Procs
    PROVE  /\ Held(i, packet, bound, pc[i], mine[i], returned, issues)
           /\ pc[i] \in Phases /\ mine[i] \in Memory
           /\ mine[i].head \in Heads \union {None} /\ mine[i].unit \in Units \union {None}
           /\ mine[i].result \in Results \union {None}
  BY DEF ChatInv, Memory

LEMMA OfPacket ==
    ASSUME ChatInv, packet # None
    PROVE  packet \in Packet /\ Sound(packet) /\ Earned(packet, returned, issues)
  BY DEF ChatInv

\* A claim that is nobody's, or that only i can hold, leaves the others alone.
LEMMA SucceedsAlone ==
    ASSUME NEW p, NEW q, NEW i, p # None => ~GenuinelyLive(p),
           \A j \in Procs \ {i} : ~Owned(q, j),
           (p # None /\ q.target = p.target) => q.done = p.done
    PROVE  Succeeds(p, q, i)
  BY DEF Succeeds

-----------------------------------------------------------------------------
(* run_slice up to the claim.                                                 *)

LEMMA BeginHolds ==
    ASSUME ChatInv, NEW i \in Procs, Begin(i) PROVE ChatInv' /\ Respected
  <1> DEFINE m == [Forgotten EXCEPT !.head = head]
  <1>1. m \in Memory /\ m.head \in Heads /\ "begun" \in Phases
    BY DEF Forgotten, Memory, ChatInv, Phases
  <1>2. /\ Go(i, "begun", m) /\ pc[i] = "idle"
        /\ UNCHANGED <<head, packet, bound, returned, issues>>
    BY DEF Begin, NoWrite, Outside
  <1> HIDE DEF m
  <1>3. Held(i, packet, bound', "begun", m, returned', issues')
    BY <1>1, <1>2, OfOne DEF Held, Working
  <1> QED  BY <1>1, <1>2, <1>3, NoWriteHolds

LEMMA FreshSound ==
    ASSUME NEW h \in Heads, NEW ret, NEW iss
    PROVE  Verdict(Fresh(h)) => Sound(Fresh(h)) /\ Earned(Fresh(h), ret, iss)
  <1> DEFINE q == Fresh(h)
  <1>1. /\ q.claim = None /\ q.audited = None /\ q.status = "IDLE"
        /\ \A u \in Units : q.done[u] = "none"
    BY FreshHolds
  <1> HIDE DEF q
  <1>2. Earned(q, ret, iss)
    BY <1>1 DEF Earned
  <1>3. Verdict(q) => Sound(q)
    BY <1>1 DEF Sound, Underway, Executing
  <1> QED  BY <1>2, <1>3 DEF q

LEMMA InitializeHolds ==
    ASSUME ChatInv, NEW i \in Procs, Initialize(i) PROVE ChatInv' /\ Respected
  <1> DEFINE q == Fresh(mine[i].head)
  <1>1. pc[i] = "begun" /\ packet = None /\ Write(q, {i}) /\ Go(i, "claiming", mine[i])
          /\ UNCHANGED <<head, returned, issues>>
    BY DEF Initialize, Outside
  <1>2. mine[i].head \in Heads
    BY <1>1, OfOne DEF Held
  <1>3. q \in Packet /\ q.target = mine[i].head /\ q.claim = None
    BY <1>2, FreshHolds
  <1>4. Verdict(q) => Sound(q) /\ Earned(q, returned, issues)
    BY <1>2, FreshSound
  <1> HIDE DEF q
  <1>5. Verdict(q) /\ packet' = q /\ bound' = {i}
    BY <1>1 DEF Write
  <1>6. Succeeds(packet, q, i)
    BY <1>1, <1>3, SucceedsAlone DEF Owned
  <1>7. Held(i, q, bound', "claiming", mine[i], returned, issues)
    BY <1>2, <1>3, NoneAssumption DEF Held, Owned, Executing
  <1>8. "claiming" \in Phases /\ mine[i] \in Memory
    BY OfOne DEF Phases
  <1> QED  BY <1>1, <1>3, <1>4, <1>5, <1>6, <1>7, <1>8, WriteHolds

LEMMA RotateHolds ==
    ASSUME ChatInv, NEW i \in Procs, Rotate(i) PROVE ChatInv' /\ Respected
  <1> DEFINE q == DeltaRun(packet, mine[i].head)
  <1>1. MayRotate(i) /\ Write(q, {i}) /\ Go(i, "claiming", mine[i])
          /\ UNCHANGED <<head, returned, issues>>
    BY DEF Rotate, Outside
  <1>2. pc[i] = "begun" /\ packet # None /\ packet.target # mine[i].head
          /\ ~(packet.status = "IN_SLICE" /\ GenuinelyLive(packet))
    BY <1>1 DEF MayRotate, Drifted
  <1>3. mine[i].head \in Heads /\ packet \in Packet /\ Sound(packet)
          /\ Earned(packet, returned, issues)
    BY <1>2, OfOne, OfPacket DEF Held
  <1>4. /\ q \in Packet /\ q.target = mine[i].head /\ q.claim = None
        /\ q.audited = packet.audited /\ q.status = "IDLE"
        /\ \A u \in Units : q.done[u] = "none"
    BY <1>3, DeltaHolds
  <1> HIDE DEF q
  <1>5. Verdict(q) /\ packet' = q /\ bound' = {i}
    BY <1>1 DEF Write
  <1>6. ~GenuinelyLive(packet)
    BY <1>2, <1>3 DEF Sound, GenuinelyLive
  <1>7. Succeeds(packet, q, i)
    BY <1>2, <1>4, <1>6, SucceedsAlone DEF Owned
  <1>8. Held(i, q, bound', "claiming", mine[i], returned, issues)
    BY <1>3, <1>4, NoneAssumption DEF Held, Owned, Executing
  <1>9. Sound(q) /\ Earned(q, returned, issues)
    BY <1>3, <1>4, <1>5 DEF Sound, Earned, Underway, Executing
  <1>10. "claiming" \in Phases /\ mine[i] \in Memory
    BY OfOne DEF Phases
  <1>11. "claiming" # pc[i]
    BY <1>2
  <1> QED  BY <1>1, <1>4, <1>5, <1>7, <1>8, <1>9, <1>10, <1>11, WriteHolds

LEMMA RotationRefusedHolds ==
    ASSUME ChatInv, NEW i \in Procs, RotationRefused(i) PROVE ChatInv' /\ Respected
  <1>1. pc[i] = "begun" /\ Go(i, "unsaved", Forgotten)
          /\ UNCHANGED <<head, packet, bound, returned, issues>>
    BY DEF RotationRefused, MayRotate, Drifted, NoWrite, Outside
  <1>2. Forgotten \in Memory /\ "unsaved" \in Phases
    BY DEF Forgotten, Memory, Phases
  <1>3. Held(i, packet, bound', "unsaved", Forgotten, returned', issues')
    BY <1>1, OfOne DEF Held, Working
  <1> QED  BY <1>1, <1>2, <1>3, NoWriteHolds

LEMMA CheapNoChangeHolds ==
    ASSUME ChatInv, NEW i \in Procs, CheapNoChange(i) PROVE ChatInv' /\ Respected
  <1>1. PICK good \in BOOLEAN : SaveAndEnd(i, Coordinated(packet, good))
    BY DEF CheapNoChange
  <1>2. pc[i] = "begun" /\ packet # None /\ packet.audited = packet.target
          /\ UNCHANGED <<head, returned, issues>>
    BY DEF CheapNoChange, AtTarget, Current, Outside
  <1>3. packet \in Packet /\ Sound(packet) /\ Earned(packet, returned, issues)
    BY <1>2, OfPacket
  <1>4. packet.claim = None
    BY <1>2, <1>3 DEF Sound, Verdict
  <1> DEFINE q == Coordinated(packet, good)
  <1>5. /\ q \in Packet /\ q.target = packet.target /\ q.audited = packet.audited
        /\ q.done = packet.done /\ q.claim = None /\ q.status \in {"PASSED", "FINDINGS"}
    BY <1>3 DEF Coordinated, Packet, Statuses, Sessions
  <1> HIDE DEF q
  <1>6. Verdict(q) => Sound(q)
    BY <1>5 DEF Sound, Underway, Executing
  <1>7. Earned(q, returned, issues)
    BY <1>3, <1>5 DEF Earned
  <1>8. Succeeds(packet, q, i)
    BY <1>4, <1>5, SucceedsAlone DEF Owned, GenuinelyLive, Executing
  <1> QED  BY <1>1, <1>2, <1>5, <1>6, <1>7, <1>8, SaveEndHolds DEF q

LEMMA ReclaimHolds ==
    ASSUME ChatInv, NEW i \in Procs, Reclaim(i) PROVE ChatInv' /\ Respected
  <1> DEFINE q == Marked(packet, "timed_out")
  <1>1. /\ pc[i] = "begun" /\ packet # None /\ packet.target = mine[i].head
        /\ Reclaimable(packet) /\ Write(q, {i}) /\ Go(i, "claiming", mine[i])
        /\ Resumable(packet) /\ UNCHANGED <<head, returned, issues>>
    BY DEF Reclaim, AtTarget, Outside
  <1>2. packet \in Packet /\ Sound(packet) /\ Earned(packet, returned, issues)
    BY <1>1, OfPacket
  <1>3. packet.claim # None
    BY <1>1, <1>2 DEF Resumable, Sound, Verdict
  <1>4. ~GenuinelyLive(packet)
    BY <1>1 DEF Reclaimable, GenuinelyLive, Executing
  <1>5. /\ q \in Packet /\ q.target = packet.target /\ q.audited = packet.audited
        /\ q.status = packet.status /\ q.unit = packet.unit /\ q.done = packet.done
        /\ q.open = packet.open /\ q.claim # None /\ q.claim.holder = packet.claim.holder
        /\ q.claim.unit = packet.claim.unit /\ q.claim.state = "timed_out"
    BY <1>2, <1>3, MarkedHolds
  <1> HIDE DEF q
  <1>6. Alike(packet, q) /\ ~Executing(q)
    BY <1>3, <1>5 DEF Alike, Executing
  <1>7. Sound(q) /\ Earned(q, returned, issues)
    BY <1>2, <1>6, AlikeHolds
  <1>8. packet' = q /\ bound' = {i}
    BY <1>1 DEF Write
  <1>9. Succeeds(packet, q, i)
    BY <1>1, <1>3, <1>4, <1>5 DEF Succeeds, Owned
  <1>10. ~Owned(packet, i) /\ mine[i].head \in Heads
    BY <1>1, OfOne DEF Held, Working
  <1>11. ~Owned(q, i)
    BY <1>3, <1>5, <1>10 DEF Owned
  <1>12. Held(i, q, bound', "claiming", mine[i], returned, issues)
    BY <1>1, <1>5, <1>6, <1>10, <1>11, NoneAssumption DEF Held
  <1>13. "claiming" \in Phases /\ mine[i] \in Memory /\ "claiming" # pc[i]
    BY <1>1, OfOne DEF Phases
  <1> QED  BY <1>1, <1>5, <1>7, <1>8, <1>9, <1>12, <1>13, WriteHolds

\* The unit that is claimed is not complete.
LEMMA ClaimsHolds ==
    ASSUME ChatInv, NEW i \in Procs, Claims(i), packet # None, ~GenuinelyLive(packet),
           packet.target = mine[i].head, pc[i] # "executing"
    PROVE  ChatInv' /\ Respected
  <1> DEFINE u == Wanted(packet)
             q == Claimed(packet, i, u)
             m == [mine[i] EXCEPT !.unit = u]
  <1>1. /\ u # None /\ Write(q, {}) /\ Go(i, "executing", m)
        /\ UNCHANGED <<head, returned, issues>>
    BY DEF Claims, Outside
  <1>2. packet \in Packet /\ Sound(packet) /\ Earned(packet, returned, issues)
    BY OfPacket
  <1>3. u \in Units /\ u \notin Completed(packet)
    <2>1. CASE Resumable(packet)
      <3>1. u = packet.unit /\ packet.status \in Underway
        BY <2>1 DEF Wanted, Resumable, Underway
      <3> QED  BY <1>1, <1>2, <3>1 DEF Sound, Packet
    <2>2. CASE ~Resumable(packet)
      BY <1>1, <1>2, <2>2, NextIsOpen DEF Wanted
    <2> QED  BY <2>1, <2>2
  <1>4. /\ q \in Packet /\ q.target = packet.target /\ q.audited = packet.audited
        /\ q.status = "IN_SLICE" /\ q.unit = u /\ q.done = packet.done
        /\ q.claim # None /\ q.claim.unit = u /\ q.claim.holder = i
    BY <1>2, <1>3, ClaimedHolds
  <1>5. m \in Memory /\ m.head = mine[i].head /\ m.unit = u
    BY <1>3, OfOne DEF Memory
  <1> HIDE DEF q, u, m
  <1>6. Verdict(q) /\ packet' = q /\ bound' = {}
    BY <1>1 DEF Write
  <1>7. Sound(q) /\ Earned(q, returned, issues)
    BY <1>2, <1>3, <1>4, <1>6 DEF Sound, Earned, Underway, Completed
  <1>8. Succeeds(packet, q, i)
    BY <1>4, SucceedsAlone DEF Owned
  <1>9. Held(i, q, bound', "executing", m, returned, issues)
    BY <1>4, <1>5, NoneAssumption DEF Held, Working
  <1>10. "executing" \in Phases
    BY DEF Phases
  <1> QED  BY <1>1, <1>4, <1>5, <1>6, <1>7, <1>8, <1>9, <1>10, WriteHolds

LEMMA ClaimSavedHolds ==
    ASSUME ChatInv, NEW i \in Procs, ClaimSaved(i) PROVE ChatInv' /\ Respected
  <1>1. pc[i] = "claiming" /\ i \in bound /\ Claims(i)
    BY DEF ClaimSaved
  <1>2. packet # None /\ ~GenuinelyLive(packet) /\ packet.target = mine[i].head
    BY <1>1, OfOne DEF Held, GenuinelyLive
  <1> QED  BY <1>1, <1>2, ClaimsHolds

LEMMA ClaimLoadedHolds ==
    ASSUME ChatInv, NEW i \in Procs, ClaimLoaded(i) PROVE ChatInv' /\ Respected
  <1>1. /\ pc[i] = "begun" /\ packet # None /\ packet.target = mine[i].head /\ Claims(i)
        /\ ~(Resumable(packet) /\ Executing(packet))
    BY DEF ClaimLoaded, AtTarget
  <1>2. ~GenuinelyLive(packet)
    BY <1>1, OfPacket DEF Sound, Verdict, Resumable, GenuinelyLive
  <1> QED  BY <1>1, <1>2, ClaimsHolds

LEMMA FinalizeHolds ==
    ASSUME ChatInv, NEW i \in Procs, Finalize(i) PROVE ChatInv' /\ Respected
  <1> DEFINE q == Finalized(packet)
  <1>1. /\ pc[i] = "begun" /\ packet # None /\ ~Resumable(packet) /\ SaveAndEnd(i, q)
        /\ UNCHANGED <<head, returned, issues>>
    BY DEF Finalize, AtTarget, Outside
  <1>2. packet \in Packet /\ Sound(packet) /\ Earned(packet, returned, issues)
    BY <1>1, OfPacket
  <1>3. /\ q.target = packet.target /\ q.done = packet.done /\ q.claim = None
        /\ q.open = Found(packet) /\ q.unit = None
        /\ IF Found(packet) # {}
           THEN q.status = "FINDINGS" /\ q.audited = packet.audited
           ELSE q.status = "PASSED" /\ q.audited = packet.target
        /\ q.session = packet.session /\ q.start = packet.start
        /\ q = [target |-> q.target, audited |-> q.audited, status |-> q.status,
                unit |-> q.unit, start |-> q.start, done |-> q.done, open |-> q.open,
                claim |-> q.claim, session |-> q.session]
    <2>1. CASE Found(packet) = {}
      <3>1. q = [packet EXCEPT !.open = {}, !.unit = None, !.claim = None,
                               !.status = "PASSED", !.audited = packet.target]
        BY <2>1 DEF Finalized
      <3> HIDE DEF q
      <3> QED  BY <1>2, <2>1, <3>1 DEF Packet
    <2>2. CASE Found(packet) # {}
      <3>1. q = [packet EXCEPT !.open = Found(packet), !.unit = None, !.claim = None,
                               !.status = "FINDINGS", !.audited = packet.audited]
        BY <2>2 DEF Finalized
      <3> HIDE DEF q
      <3> QED  BY <1>2, <2>2, <3>1 DEF Packet
    <2> QED  BY <2>1, <2>2
  <1> HIDE DEF q
  <1>4. q \in Packet
    <2>1. Found(packet) \in SUBSET Units /\ {"FINDINGS", "PASSED"} \subseteq Statuses
      BY DEF Found, Statuses
    <2> QED  BY <1>2, <1>3, <2>1 DEF Packet
  <1>5. ~GenuinelyLive(packet)
    BY <1>1, <1>2 DEF Sound, Verdict, Resumable, GenuinelyLive
  <1>6. Completed(q) = Completed(packet) /\ Found(q) = Found(packet)
    BY <1>3 DEF Completed, Found
  <1>7. Verdict(Orphaned(q, i))
    BY <1>1 DEF SaveAndEnd, Write
  <1>8. Orphaned(q, i) = q
    BY <1>3 DEF Orphaned, Owned
  <1>9. Sound(q)
    BY <1>3, <1>7, <1>8 DEF Sound, Underway, Executing
  <1>10. Earned(q, returned, issues)
    <2>1. CASE Found(packet) # {}
      BY <1>2, <1>3, <2>1 DEF Earned
    <2>2. CASE Found(packet) = {}
      <3>1. q.status = "PASSED" /\ q.audited = packet.target /\ Completed(packet) = Units
        BY <1>3, <1>6, <1>7, <1>8, <2>2 DEF Verdict
      <3>2. \A u \in Units : packet.done[u] \in {"PASS", "FINDING", "none"}
        BY <1>2 DEF Packet, Outcomes
      <3>3. \A u \in Units : packet.done[u] = "PASS"
        BY <2>2, <3>1, <3>2 DEF Completed, Found
      <3> QED  BY <1>2, <1>3, <3>1, <3>3 DEF Earned
    <2> QED  BY <2>1, <2>2
  <1>11. Succeeds(packet, q, i)
    BY <1>3, <1>5, SucceedsAlone DEF Owned
  <1> QED  BY <1>1, <1>4, <1>9, <1>10, <1>11, SaveEndHolds

LEMMA RefusedHolds ==
    ASSUME ChatInv, NEW i \in Procs, Refused(i) PROVE ChatInv' /\ Respected
  <1>1. End(i) /\ pc[i] # "idle" /\ UNCHANGED <<head, returned, issues>>
    BY DEF Refused, Drifted, AtTarget, Outside
  <1> QED  BY <1>1, EndHolds

-----------------------------------------------------------------------------
(* The executor and its result.                                               *)

LEMMA ExecuteHolds ==
    ASSUME ChatInv, NEW i \in Procs, Execute(i) PROVE ChatInv' /\ Respected
  <1>1. PICK r \in Results :
          /\ Go(i, IF r = "INVALID" THEN "reconciling" ELSE "returned",
                [mine[i] EXCEPT !.result = r])
          /\ returned' = IF r = "PASS"
                         THEN returned \union {<<mine[i].head, mine[i].unit>>}
                         ELSE returned
    BY DEF Execute
  <1> DEFINE st == IF r = "INVALID" THEN "reconciling" ELSE "returned"
             m == [mine[i] EXCEPT !.result = r]
  <1>2. pc[i] = "executing" /\ UNCHANGED <<head, packet, bound, issues>>
    BY DEF Execute, NoWrite
  <1>3. /\ m \in Memory /\ m.head = mine[i].head /\ m.unit = mine[i].unit /\ m.result = r
        /\ st \in {"reconciling", "returned"} /\ st \in Phases
        /\ st = "returned" => r # "INVALID"
    BY OfOne DEF Memory, Phases
  <1>4. Go(i, st, m)
    BY <1>1
  <1> HIDE DEF st, m
  <1>5. returned \subseteq returned' /\ (r = "PASS" => <<m.head, m.unit>> \in returned')
    BY <1>1, <1>3
  <1>6. Held(i, packet, bound', st, m, returned', issues')
    BY <1>2, <1>3, <1>5, OfOne DEF Held, Working
  <1> QED  BY <1>2, <1>3, <1>4, <1>5, <1>6, NoWriteHolds

LEMMA DiscardHolds ==
    ASSUME ChatInv, NEW i \in Procs, Discard(i) PROVE ChatInv' /\ Respected
  <1>1. End(i) /\ pc[i] # "idle" /\ UNCHANGED <<head, returned, issues>>
    BY DEF Discard, Outside
  <1> QED  BY <1>1, EndHolds

LEMMA HandOffHolds ==
    ASSUME ChatInv, NEW i \in Procs, HandOff(i) PROVE ChatInv' /\ Respected
  <1>1. /\ pc[i] = "returned" /\ mine[i].result = "FINDING" /\ Owned(packet, i)
        /\ issues' = issues \union {<<packet.target, mine[i].unit>>}
        /\ Go(i, "handed", mine[i]) /\ bound' = bound \union {i}
        /\ UNCHANGED <<head, packet, returned>>
    BY DEF HandOff, NeedsHandoff, Holds
  <1>2. "handed" \in Phases /\ mine[i] \in Memory
    BY OfOne DEF Phases
  <1>3. packet # None /\ mine[i].head = packet.target /\ mine[i].unit = packet.unit
    BY <1>1, OfOne DEF Held, Working
  <1>4. Held(i, packet, bound', "handed", mine[i], returned', issues')
    BY <1>1, <1>3 DEF Held, Working
  <1> QED  BY <1>1, <1>2, <1>4, NoWriteHolds

LEMMA HandOffFailsHolds ==
    ASSUME ChatInv, NEW i \in Procs, HandOffFails(i) PROVE ChatInv' /\ Respected
  <1>1. /\ pc[i] = "returned" /\ Go(i, "reconciling", mine[i])
        /\ UNCHANGED <<head, packet, bound, returned>>
    BY DEF HandOffFails, NeedsHandoff, NoWrite
  <1>2. issues \subseteq issues'
    BY DEF HandOffFails
  <1>3. "reconciling" \in Phases /\ mine[i] \in Memory
    BY OfOne DEF Phases
  <1>4. Held(i, packet, bound', "reconciling", mine[i], returned', issues')
    BY <1>1, OfOne DEF Held, Working
  <1> QED  BY <1>1, <1>2, <1>3, <1>4, NoWriteHolds

\* A result is applied by the holder of the claim, for the unit of the packet.
LEMMA ReadyIs ==
    ASSUME ChatInv, NEW i \in Procs, Ready(i)
    PROVE  /\ pc[i] \in {"returned", "handed"} /\ packet # None /\ Owned(packet, i)
           /\ packet \in Packet /\ Sound(packet) /\ Earned(packet, returned, issues)
           /\ mine[i].head = packet.target /\ mine[i].unit = packet.unit
           /\ packet.unit \notin Completed(packet) /\ packet.claim.unit = packet.unit
           /\ mine[i].result \in Results \ {"INVALID"}
           /\ mine[i].result = "PASS" => <<packet.target, packet.unit>> \in returned
           /\ mine[i].result = "FINDING" => <<packet.target, packet.unit>> \in issues
  <1>1. pc[i] \in {"returned", "handed"} /\ packet # None /\ Owned(packet, i)
    BY OfOne DEF Ready, Holds, Held, Working
  <1>2. packet \in Packet /\ Sound(packet) /\ Earned(packet, returned, issues)
    BY <1>1, OfPacket
  <1>3. mine[i].head = packet.target /\ mine[i].unit = packet.unit
    BY <1>1, OfOne DEF Held
  <1>4. packet.unit \notin Completed(packet) /\ packet.claim.unit = packet.unit
    BY <1>1, <1>2 DEF Sound, Owned
  <1>5. CASE pc[i] = "returned"
    <2>1. ~NeedsHandoff(i)
      BY <1>5 DEF Ready
    <2>2. mine[i].result # "FINDING"
      BY <1>5, <2>1 DEF NeedsHandoff
    <2> QED  BY <1>1, <1>2, <1>3, <1>4, <1>5, <2>2, OfOne DEF Held
  <1>6. CASE pc[i] = "handed"
    <2>1. mine[i].result = "FINDING" /\ <<mine[i].head, mine[i].unit>> \in issues
      BY <1>6, OfOne DEF Held
    <2> QED  BY <1>1, <1>2, <1>3, <1>4, <2>1 DEF Results, Outcomes
  <1> QED  BY <1>1, <1>5, <1>6

\* What is complete in p, with unit u completed by outcome r.
LEMMA CompletesHolds ==
    ASSUME NEW p \in Packet, NEW u \in Units, NEW r \in Outcomes
    PROVE  LET w == [p.done EXCEPT ![u] = r]
           IN  /\ w \in [Units -> Outcomes \union {"none"}] /\ w[u] = r
               /\ \A v \in Units \ {u} : w[v] = p.done[v]
  BY DEF Packet

LEMMA ResultHolds ==
    ASSUME ChatInv, NEW i \in Procs, Ready(i)
    PROVE  LET q == Result(i)
           IN  /\ q \in Packet /\ (Verdict(q) => Sound(q)) /\ Earned(q, returned, issues)
               /\ Succeeds(packet, q, i) /\ q.target = packet.target
               /\ q.claim # None => q.unit = packet.unit
  <1> DEFINE q == Result(i)  r == mine[i].result  u == packet.unit
  <1>1. q = Applied(packet, u, r)
    BY ReadyIs DEF Result
  <1>2. /\ packet \in Packet /\ Owned(packet, i) /\ packet.claim # None
        /\ packet.claim.holder = i
    BY ReadyIs DEF Owned
  <1>3. \A j \in Procs \ {i} : packet.claim.holder # j
    BY <1>2
  <1>4. u \in Units
    BY <1>2, ReadyIs DEF Packet, Claim
  <1> HIDE DEF q
  <1>5. CASE r = "TIMEOUT"
    <2> DEFINE k == Marked(packet, "timed_out")
    <2>1. q = [k EXCEPT !.status = "IN_SLICE", !.session = "TIMEOUT"]
      BY <1>1, <1>5 DEF Applied
    <2>2. /\ k \in Packet /\ k.target = packet.target /\ k.audited = packet.audited
          /\ k.unit = packet.unit /\ k.done = packet.done /\ k.open = packet.open
          /\ k.claim # None /\ k.claim.holder = packet.claim.holder
          /\ k.claim.unit = packet.claim.unit /\ k.claim.state = "timed_out"
      BY <1>2, MarkedHolds
    <2> HIDE DEF k
    <2>3. /\ q \in Packet /\ q.status = "IN_SLICE" /\ q.target = packet.target
          /\ q.audited = packet.audited /\ q.unit = packet.unit /\ q.done = packet.done
          /\ q.claim = k.claim
      BY <2>1, <2>2 DEF Packet, Statuses, Sessions
    <2>4. Verdict(q) => Sound(q)
      BY <2>2, <2>3, ReadyIs DEF Sound, Underway, Completed, Executing
    <2>5. Earned(q, returned, issues)
      BY <2>3, ReadyIs DEF Earned
    <2>6. Succeeds(packet, q, i)
      BY <1>2, <1>3, <2>2, <2>3 DEF Succeeds, Owned
    <2> QED  BY <2>3, <2>4, <2>5, <2>6 DEF q
  <1>6. CASE r = "AWAITING"
    <2> DEFINE k == Marked(packet, "awaiting_evidence")
    <2>1. q = [k EXCEPT !.status = "AWAITING_EVIDENCE"]
      BY <1>1, <1>6 DEF Applied
    <2>2. /\ k \in Packet /\ k.target = packet.target /\ k.audited = packet.audited
          /\ k.unit = packet.unit /\ k.done = packet.done /\ k.open = packet.open
          /\ k.claim # None /\ k.claim.holder = packet.claim.holder
          /\ k.claim.unit = packet.claim.unit /\ k.claim.state = "awaiting_evidence"
      BY <1>2, MarkedHolds
    <2> HIDE DEF k
    <2>3. /\ q \in Packet /\ q.status = "AWAITING_EVIDENCE" /\ q.target = packet.target
          /\ q.audited = packet.audited /\ q.unit = packet.unit /\ q.done = packet.done
          /\ q.claim = k.claim
      BY <2>1, <2>2 DEF Packet, Statuses
    <2>4. Verdict(q) => Sound(q)
      BY <2>2, <2>3, ReadyIs DEF Sound, Underway, Completed, Executing
    <2>5. Earned(q, returned, issues)
      BY <2>3, ReadyIs DEF Earned
    <2>6. Succeeds(packet, q, i)
      BY <1>2, <1>3, <2>2, <2>3 DEF Succeeds, Owned
    <2> QED  BY <2>3, <2>4, <2>5, <2>6 DEF q
  <1>7. CASE r = "INCOMPLETE"
    <2>1. q = [packet EXCEPT !.status = "FAILED_CLOSED", !.claim = None]
      BY <1>1, <1>7 DEF Applied
    <2>2. /\ q \in Packet /\ q.status = "FAILED_CLOSED" /\ q.target = packet.target
          /\ q.audited = packet.audited /\ q.done = packet.done /\ q.claim = None
      BY <1>2, <2>1 DEF Packet, Statuses
    <2>3. Verdict(q) => Sound(q)
      BY <2>2 DEF Sound, Underway, Executing
    <2>4. Earned(q, returned, issues)
      BY <2>2, ReadyIs DEF Earned
    <2>5. Succeeds(packet, q, i)
      BY <1>2, <1>3, <2>2 DEF Succeeds, Owned
    <2> QED  BY <2>2, <2>3, <2>4, <2>5 DEF q
  <1>8. CASE r \in Outcomes
    <2> DEFINE w == [packet.done EXCEPT ![u] = r]
               o == IF r = "FINDING" THEN packet.open \union {u} ELSE packet.open
               s == IF packet.session = "TIMEOUT" THEN "ACTIVE" ELSE packet.session
    <2>1. q = [packet EXCEPT !.done = w, !.status = "SLICE_COMPLETE", !.unit = None,
                             !.claim = None, !.open = o, !.session = s]
      BY <1>1, <1>2, <1>8 DEF Applied, Outcomes, Packet
    <2>2. /\ w \in [Units -> Outcomes \union {"none"}] /\ w[u] = r
          /\ \A v \in Units \ {u} : w[v] = packet.done[v]
      BY <1>2, <1>4, <1>8, CompletesHolds, Zenon
    <2>3. o \in SUBSET Units /\ s \in Sessions
      BY <1>2, <1>4 DEF Packet, Sessions
    <2> HIDE DEF w, o, s
    <2>4. /\ q \in Packet /\ q.status = "SLICE_COMPLETE" /\ q.target = packet.target
          /\ q.audited = packet.audited /\ q.done = w /\ q.claim = None
      BY <1>2, <2>1, <2>2, <2>3 DEF Packet, Statuses
    <2>5. Verdict(q) => Sound(q)
      BY <2>4 DEF Sound, Underway, Executing
    <2>6. Earned(q, returned, issues)
      BY <2>2, <2>4, ReadyIs DEF Earned
    <2>7. \A v \in Completed(packet) : q.done[v] = packet.done[v]
      BY <2>2, <2>4, ReadyIs DEF Completed
    <2>8. Succeeds(packet, q, i)
      BY <1>2, <1>3, <2>4, <2>7 DEF Succeeds, Owned
    <2> QED  BY <2>4, <2>5, <2>6, <2>8 DEF q
  <1> QED  BY <1>5, <1>6, <1>7, <1>8, ReadyIs DEF Results, q

LEMMA CommitHolds ==
    ASSUME ChatInv, NEW i \in Procs, Commit(i) PROVE ChatInv' /\ Respected
  <1>1. Ready(i) /\ SaveAndEnd(i, Result(i)) /\ UNCHANGED <<head, returned, issues>>
    BY DEF Commit, Outside
  <1>2. pc[i] # "idle"
    BY <1>1, ReadyIs
  <1> QED  BY <1>1, <1>2, ResultHolds, SaveEndHolds

LEMMA CommitUnknownHolds ==
    ASSUME ChatInv, NEW i \in Procs, CommitUnknown(i) PROVE ChatInv' /\ Respected
  <1> DEFINE q == Result(i)
  <1>1. /\ Ready(i) /\ Go(i, "reconciling", mine[i]) /\ UNCHANGED <<head, returned, issues>>
        /\ Write(q, {}) \/ (packet' = packet /\ bound' = bound \ {i})
    BY DEF CommitUnknown, Outside
  <1>2. "reconciling" \in Phases /\ mine[i] \in Memory
    BY OfOne DEF Phases
  <1>3. /\ pc[i] # "reconciling" /\ packet # None
        /\ mine[i].head = packet.target /\ mine[i].unit = packet.unit
    BY <1>1, ReadyIs
  <1>4. CASE Write(q, {})
    <2>1. /\ q \in Packet /\ (Verdict(q) => Sound(q)) /\ Earned(q, returned, issues)
          /\ Succeeds(packet, q, i) /\ q.target = packet.target
          /\ q.claim # None => q.unit = packet.unit
      BY <1>1, ResultHolds
    <2> HIDE DEF q
    <2>2. Verdict(q) /\ packet' = q /\ bound' = {}
      BY <1>4 DEF Write
    <2>3. Held(i, q, bound', "reconciling", mine[i], returned, issues)
      BY <1>3, <2>1, NoneAssumption DEF Held, Working, Owned
    <2> QED  BY <1>1, <1>2, <1>3, <2>1, <2>2, <2>3, WriteHolds
  <1>5. CASE packet' = packet /\ bound' = bound \ {i}
    <2>1. Held(i, packet, bound', "reconciling", mine[i], returned', issues')
      BY <1>3 DEF Held, Working
    <2> QED  BY <1>1, <1>2, <1>5, <2>1, NoWriteHolds
  <1> QED  BY <1>1, <1>4, <1>5

LEMMA ReconcileHolds ==
    ASSUME ChatInv, NEW i \in Procs, Reconcile(i) PROVE ChatInv' /\ Respected
  <1> DEFINE u == mine[i].unit  k == Marked(packet, "failed")  q == Failed(packet, u)
  <1>1. pc[i] = "reconciling" /\ UNCHANGED <<head, returned, issues>>
    BY DEF Reconcile, Outside
  <1>2. CASE Owned(packet, i) /\ SaveAndEnd(i, q)
    <2>1. packet # None /\ mine[i].head = packet.target /\ u = packet.unit
      BY <1>1, <1>2, OfOne DEF Held, Working
    <2>2. packet \in Packet /\ Sound(packet) /\ Earned(packet, returned, issues)
      BY <2>1, OfPacket
    <2>3. /\ packet.claim # None /\ packet.claim.holder = i
          /\ u \notin Completed(packet) /\ packet.claim.unit = u
      BY <1>2, <2>1, <2>2 DEF Owned, Sound
    <2>4. /\ k \in Packet /\ k.target = packet.target /\ k.audited = packet.audited
          /\ k.done = packet.done /\ k.claim # None /\ k.claim.holder = i
          /\ k.claim.unit = u /\ k.claim.state = "failed"
      BY <2>2, <2>3, MarkedHolds
    <2>5. q = [k EXCEPT !.status = "IN_SLICE", !.unit = u, !.session = "STALLED"]
      BY DEF Failed
    <2>6. u \in Units \union {None}
      BY OfOne
    <2> HIDE DEF k, q, u
    <2>7. /\ q \in Packet /\ q.status = "IN_SLICE" /\ q.target = packet.target /\ q.unit = u
          /\ q.audited = packet.audited /\ q.done = packet.done /\ q.claim = k.claim
      BY <2>4, <2>5, <2>6 DEF Packet, Statuses, Sessions
    <2>8. Verdict(q) => Sound(q)
      BY <2>3, <2>4, <2>7 DEF Sound, Underway, Completed, Executing
    <2>9. Earned(q, returned, issues)
      BY <2>2, <2>7 DEF Earned
    <2>10. Succeeds(packet, q, i)
      BY <2>3, <2>4, <2>7 DEF Succeeds, Owned
    <2> QED  BY <1>1, <1>2, <2>7, <2>8, <2>9, <2>10, SaveEndHolds
  <1>3. CASE End(i)
    BY <1>1, <1>3, EndHolds
  <1> QED  BY <1>2, <1>3 DEF Reconcile

-----------------------------------------------------------------------------
(* The session and the environment.                                           *)

LEMMA QuietHolds ==
    ASSUME ChatInv, packet # None, NEW q \in Packet, packet' = q, Alike(packet, q),
           packet.claim # None => q.claim.holder = packet.claim.holder,
           bound' \subseteq bound, UNCHANGED <<head, pc, mine, returned, issues>>
    PROVE  ChatInv' /\ Respected
  <1>1. Sound(q) /\ Earned(q, returned, issues) /\ q # None
    BY OfPacket, AlikeHolds, NoneAssumption
  <1>2. \A j \in Procs : Owned(q, j) <=> Owned(packet, j)
    BY DEF Alike, Owned
  <1>3. ASSUME NEW j \in Procs
        PROVE  Held(j, q, bound', pc[j], mine[j], returned, issues)
    <2>1. Held(j, packet, bound, pc[j], mine[j], returned, issues)
      BY DEF ChatInv
    <2>2. /\ q.target = packet.target /\ q.unit = packet.unit
          /\ Executing(q) => Executing(packet)
          /\ Owned(q, j) <=> Owned(packet, j)
      BY <1>2 DEF Alike
    <2>3. j \in bound' => j \in bound
      OBVIOUS
    <2> QED  BY <1>1, <2>1, <2>2, <2>3, HeldKept
  <1>4. ChatInv'
    BY <1>1, <1>3 DEF ChatInv
  <1>5. Respected
    BY DEF Respected, Alike, GenuinelyLive, Executing
  <1> QED  BY <1>4, <1>5

LEMMA MarkSessionHolds ==
    ASSUME ChatInv, NEW s \in {"TIMEOUT", "ROLLOVER_REQUIRED"}, MarkSession(s)
    PROVE  ChatInv' /\ Respected
  <1> DEFINE p == IF s = "TIMEOUT" THEN Marked(packet, "timed_out") ELSE packet
             q == [p EXCEPT !.session = s]
  <1>1. packet # None /\ packet' = q /\ bound' = {}
          /\ UNCHANGED <<head, pc, mine, returned, issues>>
    BY DEF MarkSession, Write, Outside
  <1>2. packet \in Packet
    BY <1>1, OfPacket
  <1>3. /\ p \in Packet /\ Alike(packet, p)
        /\ packet.claim # None => p.claim.holder = packet.claim.holder
    <2>1. CASE s = "TIMEOUT"
      <3>1. p = Marked(packet, "timed_out")
        BY <2>1
      <3> HIDE DEF p
      <3> QED  BY <1>2, <3>1, MarkedHolds DEF Alike, Executing
    <2>2. CASE s # "TIMEOUT"
      BY <1>2, <2>2 DEF Alike
    <2> QED  BY <2>1, <2>2
  <1> HIDE DEF p
  <1>4. /\ q \in Packet /\ q.target = p.target /\ q.audited = p.audited
        /\ q.status = p.status /\ q.unit = p.unit /\ q.done = p.done
        /\ q.open = p.open /\ q.claim = p.claim
    BY <1>3 DEF Packet, Sessions
  <1> HIDE DEF q
  <1>5. Alike(packet, q) /\ (packet.claim # None => q.claim.holder = packet.claim.holder)
    BY <1>3, <1>4 DEF Alike, Executing
  <1> QED  BY <1>1, <1>4, <1>5, QuietHolds

LEMMA StartRolloverHolds ==
    ASSUME ChatInv, NEW i \in Procs, StartRollover(i) PROVE ChatInv' /\ Respected
  <1> DEFINE m == [Forgotten EXCEPT !.head = head]
  <1>1. /\ pc[i] = "idle" /\ packet # None /\ bound' = {} /\ Go(i, "rolling", m)
        /\ UNCHANGED <<head, packet, returned, issues>>
    BY DEF StartRollover, Outside
  <1>2. m \in Memory /\ "rolling" \in Phases
    BY DEF Forgotten, Memory, ChatInv, Phases
  <1> HIDE DEF m
  <1>3. Held(i, packet, bound', "rolling", m, returned', issues')
    BY <1>1, OfOne DEF Held, Working
  <1> QED  BY <1>1, <1>2, <1>3, NoWriteHolds

LEMMA FinishRolloverHolds ==
    ASSUME ChatInv, NEW i \in Procs, FinishRollover(i) PROVE ChatInv' /\ Respected
  <1> DEFINE q == [packet EXCEPT !.session = "RESUMED"]
  <1>1. pc[i] = "rolling" /\ UNCHANGED <<head, returned, issues>>
    BY DEF FinishRollover, Outside
  <1>2. CASE SaveAndEnd(i, q)
    <2>1. packet # None
      BY <1>1, OfOne DEF Held
    <2>2. packet \in Packet /\ Sound(packet) /\ Earned(packet, returned, issues)
      BY <2>1, OfPacket
    <2>3. /\ q \in Packet /\ q.target = packet.target /\ q.audited = packet.audited
          /\ q.status = packet.status /\ q.unit = packet.unit /\ q.done = packet.done
          /\ q.open = packet.open /\ q.claim = packet.claim
      BY <2>2 DEF Packet, Sessions
    <2> HIDE DEF q
    <2>4. Sound(q) /\ Earned(q, returned, issues)
      BY <2>2, <2>3, AlikeHolds DEF Alike, Executing
    <2>5. Succeeds(packet, q, i)
      BY <2>1, <2>3 DEF Succeeds, Owned, GenuinelyLive, Executing
    <2> QED  BY <1>1, <1>2, <2>3, <2>4, <2>5, SaveEndHolds
  <1>3. CASE End(i)
    BY <1>1, <1>3, EndHolds
  <1> QED  BY <1>2, <1>3 DEF FinishRollover

LEMMA ExpireHolds ==
    ASSUME ChatInv, Expire PROVE ChatInv' /\ Respected
  <1> DEFINE c == [packet.claim EXCEPT !.live = FALSE]
             q == [packet EXCEPT !.claim = c]
  <1>1. /\ packet # None /\ GenuinelyLive(packet)
        /\ packet' = [packet EXCEPT !.claim.live = FALSE]
        /\ UNCHANGED <<head, bound, pc, mine, returned, issues>>
    BY DEF Expire, Outside
  <1>2. packet \in Packet /\ packet.claim # None /\ packet.claim \in Claim
    BY <1>1, OfPacket DEF GenuinelyLive, Executing, Packet
  <1>3. /\ c \in Claim /\ c.holder = packet.claim.holder /\ c.unit = packet.claim.unit
        /\ c.state = packet.claim.state
    BY <1>2 DEF Claim
  <1>4. packet' = q
    BY <1>1, <1>2 DEF Packet
  <1>5. c # None
    BY <1>3, NoneAssumption
  <1> HIDE DEF c
  <1>6. /\ q \in Packet /\ q.target = packet.target /\ q.audited = packet.audited
        /\ q.status = packet.status /\ q.unit = packet.unit /\ q.done = packet.done
        /\ q.open = packet.open /\ q.claim = c
    BY <1>2, <1>3 DEF Packet
  <1> HIDE DEF q
  <1>7. Alike(packet, q) /\ q.claim.holder = packet.claim.holder
    BY <1>2, <1>3, <1>5, <1>6 DEF Alike, Executing
  <1> QED  BY <1>1, <1>4, <1>6, <1>7, QuietHolds

LEMMA DieHolds ==
    ASSUME ChatInv, NEW i \in Procs, Die(i) PROVE ChatInv' /\ Respected
  <1>1. pc[i] # "idle" /\ End(i) /\ UNCHANGED <<head, returned, issues>>
    BY DEF Die, Outside
  <1> QED  BY <1>1, EndHolds

LEMMA MoveHeadHolds ==
    ASSUME ChatInv, NEW h \in Heads, MoveHead(h) PROVE ChatInv' /\ Respected
  <1>1. head' = h /\ UNCHANGED <<packet, bound, pc, mine, returned, issues>>
    BY DEF MoveHead, NoWrite
  <1> QED  BY <1>1, SamePacket DEF ChatInv

-----------------------------------------------------------------------------
(* The theorems.                                                              *)

LEMMA PassedHolds ==
    ASSUME NEW h \in Heads, NEW ret, ret = {h} \X Units, NEW iss
    PROVE  Passed(h) \in Packet /\ Sound(Passed(h)) /\ Earned(Passed(h), ret, iss)
             /\ Passed(h).claim = None
  <1> DEFINE q == Passed(h)
  <1>1. /\ q \in Packet /\ q.audited = h /\ q.target = h /\ q.status = "PASSED"
        /\ q.claim = None /\ q.unit = None /\ q.open = {}
        /\ \A u \in Units : q.done[u] = "PASS"
    BY FreshHolds, QueueHasUnits DEF Passed, Fresh, Packet, Statuses, Sessions, Outcomes
  <1> HIDE DEF q
  <1>2. Completed(q) = Units /\ Found(q) = {}
    BY <1>1 DEF Completed, Found
  <1>3. Sound(q)
    BY <1>1, <1>2 DEF Sound, Verdict, Underway, Executing
  <1>4. Earned(q, ret, iss)
    BY <1>1 DEF Earned
  <1> QED  BY <1>1, <1>3, <1>4 DEF q

LEMMA InitHolds == Init => ChatInv
  <1> SUFFICES ASSUME Init PROVE ChatInv
    OBVIOUS
  <1>1. /\ head \in Heads /\ bound = {} /\ pc = [i \in Procs |-> "idle"]
        /\ mine = [i \in Procs |-> Forgotten]
    BY DEF Init
  <1>2. pc \in [Procs -> Phases] /\ mine \in [Procs -> Memory]
    BY <1>1 DEF Phases, Forgotten, Memory
  <1>3. CASE packet = None
    BY <1>1, <1>2, <1>3 DEF ChatInv, Held, Working
  <1>4. CASE packet # None
    <2>1. PICK h \in Heads : packet = Passed(h) /\ returned = {h} \X Units
      BY <1>4 DEF Init
    <2>2. /\ packet \in Packet /\ Sound(packet) /\ Earned(packet, returned, issues)
          /\ packet.claim = None
      BY <2>1, PassedHolds
    <2> QED  BY <1>1, <1>2, <1>4, <2>2 DEF ChatInv, Held, Working, Owned
  <1> QED  BY <1>3, <1>4

LEMMA StepHolds == ChatInv /\ [Next]_vars => ChatInv' /\ (Respected \/ UNCHANGED vars)
  <1> SUFFICES ASSUME ChatInv, [Next]_vars PROVE ChatInv' /\ (Respected \/ UNCHANGED vars)
    OBVIOUS
  <1>1. CASE UNCHANGED vars
    BY <1>1 DEF vars, ChatInv
  <1>2. ASSUME NEW i \in Procs, Continue(i) PROVE ChatInv' /\ Respected
    BY <1>2, InitializeHolds, RotateHolds, RotationRefusedHolds, CheapNoChangeHolds,
       ReclaimHolds, ClaimSavedHolds, ClaimLoadedHolds, FinalizeHolds, RefusedHolds,
       ExecuteHolds, DiscardHolds, HandOffHolds, HandOffFailsHolds, CommitHolds,
       CommitUnknownHolds, ReconcileHolds, FinishRolloverHolds
    DEF Continue
  <1>3. ASSUME NEW i \in Procs, Begin(i) \/ StartRollover(i) \/ Die(i)
        PROVE  ChatInv' /\ Respected
    BY <1>3, BeginHolds, StartRolloverHolds, DieHolds
  <1> QED  BY <1>1, <1>2, <1>3, MarkSessionHolds, ExpireHolds, MoveHeadHolds DEF Next

\* Whatever the invocations, the faults and the moves of HEAD: a holder knows the
\* target and the unit of its claim, an invocation that has saved the packet and not
\* lost it finds no execution under way, and what is complete is earned.
THEOREM ChatInductive == Spec => []ChatInv
  <1>1. ChatInv /\ [Next]_vars => ChatInv'
    BY StepHolds
  <1> QED  BY <1>1, InitHolds, PTL DEF Spec

\* No verdict without an executor's pass of every unit at that commit, and no finding
\* without its issue, in any number of invocations, faults and moves of HEAD.
THEOREM EarnedPacket == Spec => []PacketIsEarned
  <1>1. ChatInv => PacketIsEarned
    <2> SUFFICES ASSUME ChatInv, packet # None
                 PROVE  VerdictIsEarned /\ FindingHasIssue
      BY DEF PacketIsEarned, VerdictIsEarned, FindingHasIssue
    <2>1. Sound(packet) /\ Earned(packet, returned, issues)
      BY OfPacket
    <2>2. VerdictIsEarned
      BY <2>1 DEF VerdictIsEarned, Sound, Verdict, Earned
    <2>3. FindingHasIssue
      BY <2>1 DEF FindingHasIssue, Found, Earned
    <2> QED  BY <2>2, <2>3
  <1> QED  BY <1>1, ChatInductive, PTL

\* A live claim leaves the packet by a step of its holder only, and what is complete
\* stays as it is while the target does.
THEOREM RespectedClaims == Spec => ClaimsAreRespected
  <1>1. ChatInv /\ [Next]_vars => [Respected]_vars
    BY StepHolds
  <1>2. []ChatInv /\ [][Next]_vars => [][Respected]_vars
    BY <1>1, PTL
  <1> QED  BY <1>2, ChatInductive, PTL DEF Spec, ClaimsAreRespected, Respected

==============================================================================
