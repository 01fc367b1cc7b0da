--------------------------- MODULE PassCycle_proofs ---------------------------
(***************************************************************************)
(* Theorems about PassCycle, for one controller process at a time, which     *)
(* may die and be run again at any point, and an owner who edits packets at  *)
(* any point: what is stored about a handover is true, the handover is one   *)
(* of PacketHandover, and packets are made ACTIVE alone.                     *)
(***************************************************************************)
EXTENDS PassCycle, TLAPS

\* One process works at a time: a second one is started after the first has ended.
Solo == \A p, q \in Procs : p = q

-----------------------------------------------------------------------------
(* The packets                                                               *)

\* A packet that is queued has not taken part in a cycle.  One that was completed by a
\* transition names it and the successor; one that was activated by it names the
\* predecessor.
SoundPacket(i, r) ==
    /\ r.queued => r.transition = None
    /\ r.transition = None => r.prev = None /\ r.next = None
    /\ r.next # None => r.status = "COMPLETE" /\ r.next # i
    /\ r.transition # None =>
          IF r.status = "COMPLETE" THEN r.transition.issue = i
          ELSE r.prev # None /\ r.transition.issue = r.prev /\ r.prev # i

\* The predecessor of a packet was completed for it, by the same transition.
FollowsIn(g, i, j) ==
    /\ g[j].status = "COMPLETE" /\ g[j].next = i
    /\ g[i].status # "COMPLETE" => g[j].transition = g[i].transition

SoundPackets(g) ==
    /\ g \in [Issues -> Packets]
    /\ \A i \in Issues : SoundPacket(i, g[i])
    /\ \A i, j \in Issues : g[i].prev = j => FollowsIn(g, i, j)

-----------------------------------------------------------------------------
(* A process                                                                 *)

\* The predecessor i was completed by t for the successor s.
Done(g, t, s) ==
    LET r == g[t.issue] IN r.status = "COMPLETE" /\ r.transition = t /\ r.next = s

\* The successor has not been activated by any cycle, nor completed.
Waiting(g, s) == g[s].prev = None /\ g[s].status # "COMPLETE"

Chosen == {"conflicts", "ambiguous", "succ", "pred", "check", "edit"}

\* It holds the body it will edit.
Loaded(q, f) ==
    \/ q \in {"check", "edit", "timed"}
    \/ f = "completed" /\ q \in {"conflicts", "ambiguous"}

\* What the process p, at q, knows of the packets: t is its transition, s its
\* successor, f its phase, b the body it will edit.
Knows(g, q, t, s, f, b) ==
    /\ t \in Transitions /\ s \in Issues \union {None}
    /\ q = "view" => f = "fresh"
    /\ q \in {"resume", "unique", "sole"} => f = "resumed"
    /\ q \in {"unique", "sole"} => g[s].prev = t.issue
    /\ q \in {"queue", "pred"} => f = "fresh"
    /\ q = "succ" => f # "completed"
    /\ q = "again" => f = "completed"
    /\ f = "fresh" /\ q \in {"queue"} \union Chosen => g[t.issue].status # "COMPLETE"
    /\ \/ q \in Chosen \union {"again"}
       \/ f = "fresh" /\ q \in {"timed", "confirm"}
       => s \in Issues \ {t.issue} /\ SameLoop(s, t.issue) /\ Waiting(g, s)
    /\ f # "fresh" => s \in Issues \ {t.issue} /\ Done(g, t, s)
    /\ f = "fresh" /\ q = "confirm" => Done(g, t, s)
    /\ Loaded(q, f) => b \in Packets
    /\ f = "fresh" /\ q \in {"check", "edit"} => b.prev = g[t.issue].prev
    /\ Loaded(q, f) /\ f # "fresh" => b.next = None

\* The result a process has returned.
Answer(g, t, s, a) ==
    /\ a \in {"advanced", "already_activated"} =>
          s \in Issues /\ Done(g, t, s) /\ g[s].prev = t.issue
    /\ a = "no_successor" => g[t.issue].transition # t

KnowsOf(p) == Knows(gh, pc[p], trans[p], succ[p], phase[p], base[p])

Typed ==
    /\ pc \in [Procs -> PCs] /\ trans \in [Procs -> Transitions \union {None}]
    /\ succ \in [Procs -> Issues \union {None}]
    /\ phase \in [Procs -> {"fresh", "resumed", "completed"}]
    /\ base \in [Procs -> Packets \union {None}]
    /\ result \in [Procs -> Kinds \union {None}]
    /\ edits \in Nat

Sure(p) ==
    /\ pc[p] # "idle" => KnowsOf(p) /\ result[p] = None
    /\ result[p] # None =>
          /\ trans[p] \in Transitions /\ succ[p] \in Issues \union {None}
          /\ Answer(gh, trans[p], succ[p], result[p])

HandInv == SoundPackets(gh) /\ Typed /\ \A p \in Procs : Sure(p)

\* No packet of its workstream, then none of its branch, is ACTIVE.
AloneInv ==
    \A p \in Procs :
        phase[p] # "fresh" =>
            /\ pc[p] \in {"ambiguous", "succ", "check", "edit"} =>
                  ActiveInWorkstream(Pred(p)) = {}
            /\ pc[p] \in {"succ", "check", "edit"} => ActiveOnBranch(Pred(p)) = {}

-----------------------------------------------------------------------------
(* The owner                                                                 *)

\* What an edit by the owner leaves of a packet r.
Kept(r, n) ==
    /\ n \in Packets
    /\ n.prev = r.prev /\ n.next = r.next /\ n.transition = r.transition
    /\ n.status = "COMPLETE" <=> r.status = "COMPLETE"
    /\ n.queued => n.transition = None

LEMMA Transition ==
    ASSUME NEW t \in Transitions  PROVE t.issue \in Issues /\ t # None
  BY PassCycleAssumption

LEMMA KeptSound ==
    ASSUME NEW g, NEW h \in [Issues -> Packets], SoundPackets(g),
           \A i \in Issues : Kept(g[i], h[i])
    PROVE  SoundPackets(h)
  <1>1. \A i \in Issues : SoundPacket(i, h[i])
    BY DEF SoundPackets, SoundPacket, Kept
  <1>2. \A i, j \in Issues : h[i].prev = j => FollowsIn(h, i, j)
    BY DEF SoundPackets, FollowsIn, Kept
  <1> QED  BY <1>1, <1>2 DEF SoundPackets

LEMMA KeptKnows ==
    ASSUME NEW g, NEW h, \A i \in Issues : Kept(g[i], h[i]),
           NEW q, NEW t, NEW s, NEW f, NEW b, Knows(g, q, t, s, f, b)
    PROVE  Knows(h, q, t, s, f, b)
  <1>1. t \in Transitions /\ t.issue \in Issues
    BY Transition DEF Knows
  <1>2. Kept(g[t.issue], h[t.issue])
    BY <1>1
  <1>3. s \in Issues => (Waiting(h, s) <=> Waiting(g, s)) /\ (Done(h, t, s) <=> Done(g, t, s))
    BY <1>2 DEF Waiting, Done, Kept
  <1> QED
    <2> HIDE DEF Waiting, Done
    <2>1. /\ h[t.issue].status = "COMPLETE" <=> g[t.issue].status = "COMPLETE"
          /\ h[t.issue].prev = g[t.issue].prev
          /\ s \in Issues => h[s].prev = g[s].prev
      BY <1>2 DEF Kept
    <2>2. f = "fresh" /\ q = "confirm" => Done(h, t, s)
      BY <1>2 DEF Knows, Done, Kept
    <2> QED  BY <1>1, <1>3, <2>1, <2>2 DEF Knows

LEMMA KeptAnswer ==
    ASSUME NEW g, NEW h, \A i \in Issues : Kept(g[i], h[i]),
           NEW t \in Transitions, NEW s \in Issues \union {None}, NEW a,
           SoundPackets(g), Answer(g, t, s, a)
    PROVE  Answer(h, t, s, a)
  <1>1. t.issue \in Issues /\ Kept(g[t.issue], h[t.issue])
    BY Transition
  <1>2. Done(g, t, s) => Done(h, t, s)
    BY <1>1 DEF Done, Kept
  <1>3. s \in Issues => h[s].prev = g[s].prev
    BY DEF Kept
  <1> QED  BY <1>1, <1>2, <1>3 DEF Answer, Kept

LEMMA OwnerKeeps ==
    ASSUME HandInv, NEW i \in Issues, OwnerEdit(i)
    PROVE  gh' \in [Issues -> Packets] /\ \A j \in Issues : Kept(gh[j], gh'[j])
  <1> DEFINE r == gh[i]
             n == edits + 1
  <1>1. /\ gh \in [Issues -> Packets] /\ r \in Packets /\ n \in 0..MaxEdits
        /\ \A j \in Issues : gh[j].queued => gh[j].transition = None
    <2>1. MaxEdits \in Nat
      BY PassCycleAssumption
    <2>2. edits < MaxEdits /\ edits \in Nat
      BY DEF OwnerEdit, HandInv, Typed
    <2>3. SoundPackets(gh)
      BY DEF HandInv
    <2> QED  BY <2>1, <2>2, <2>3 DEF SoundPackets, SoundPacket
  <1>2. \A j \in Issues : Kept(gh[j], gh[j])
    BY <1>1 DEF Kept
  <1>3. ASSUME NEW x \in Packets, gh' = [gh EXCEPT ![i] = [x EXCEPT !.text = n]],
               Kept(r, x)
        PROVE  gh' \in [Issues -> Packets] /\ \A j \in Issues : Kept(gh[j], gh'[j])
    <2>1. [x EXCEPT !.text = n] \in Packets /\ Kept(r, [x EXCEPT !.text = n])
      BY <1>1, <1>3 DEF Kept, Packets
    <2> QED  BY <1>1, <1>2, <1>3, <2>1
  <1>4. CASE r.status = "PAUSED" /\ ~r.queued /\ r.transition = None
             /\ \E j \in Issues \ {i} :
                   gh' = [gh EXCEPT ![i] = [[r EXCEPT !.queued = TRUE, !.after = j]
                                              EXCEPT !.text = n]]
    <2>1. PICK j \in Issues :
             gh' = [gh EXCEPT ![i] = [[r EXCEPT !.queued = TRUE, !.after = j]
                                        EXCEPT !.text = n]]
      BY <1>4
    <2>2. [r EXCEPT !.queued = TRUE, !.after = j] \in Packets
          /\ Kept(r, [r EXCEPT !.queued = TRUE, !.after = j])
      BY <1>1, <1>4 DEF Kept, Packets
    <2> QED  BY <2>1, <2>2, <1>3
  <1>5. CASE r.queued /\ gh' = [gh EXCEPT ![i] = [[r EXCEPT !.queued = FALSE]
                                                    EXCEPT !.text = n]]
    <2>1. [r EXCEPT !.queued = FALSE] \in Packets /\ Kept(r, [r EXCEPT !.queued = FALSE])
      BY <1>1 DEF Kept, Packets
    <2> QED  BY <1>5, <2>1, <1>3
  <1>6. CASE r.status = "ACTIVE"
             /\ gh' = [gh EXCEPT ![i] = [[r EXCEPT !.status = "PAUSED"]
                                           EXCEPT !.text = n]]
    <2>1. [r EXCEPT !.status = "PAUSED"] \in Packets
          /\ Kept(r, [r EXCEPT !.status = "PAUSED"])
      BY <1>1, <1>6 DEF Kept, Packets
    <2> QED  BY <1>6, <2>1, <1>3
  <1>7. CASE r.status = "PAUSED"
             /\ gh' = [gh EXCEPT ![i] = [[r EXCEPT !.status = "ACTIVE", !.queued = FALSE]
                                           EXCEPT !.text = n]]
    <2>1. [r EXCEPT !.status = "ACTIVE", !.queued = FALSE] \in Packets
          /\ Kept(r, [r EXCEPT !.status = "ACTIVE", !.queued = FALSE])
      BY <1>1, <1>7 DEF Kept, Packets
    <2> QED  BY <1>7, <2>1, <1>3
  <1>8. CASE gh' = [gh EXCEPT ![i] = [r EXCEPT !.text = n]]
    BY <1>1, <1>2, <1>3, <1>8
  <1>9. CASE gh' = [gh EXCEPT ![i].open = FALSE]
    <2>1. [r EXCEPT !.open = FALSE] \in Packets /\ Kept(r, [r EXCEPT !.open = FALSE])
      BY <1>1 DEF Kept, Packets
    <2> QED  BY <1>1, <1>2, <1>9, <2>1
  <1> QED  BY <1>4, <1>5, <1>6, <1>7, <1>8, <1>9 DEF OwnerEdit

LEMMA OwnerSure == ASSUME HandInv, NEW i \in Issues, OwnerEdit(i)  PROVE HandInv'
  <1>1. gh' \in [Issues -> Packets] /\ \A j \in Issues : Kept(gh[j], gh'[j])
    BY OwnerKeeps
  <1>2. SoundPackets(gh)'
    BY <1>1, KeptSound DEF HandInv
  <1>3. UNCHANGED <<pc, trans, succ, phase, base, result>> /\ edits' \in Nat
    <2>1. UNCHANGED <<pc, trans, succ, phase, base, seen, result, answered, crashes>>
          /\ edits' = edits + 1
      BY Zenon DEF OwnerEdit
    <2> QED  BY <2>1 DEF HandInv, Typed
  <1>4. ASSUME NEW p \in Procs  PROVE Sure(p)'
    <2>1. Sure(p)
      BY DEF HandInv
    <2>2. KnowsOf(p) => KnowsOf(p)'
      BY <1>1, <1>3, KeptKnows DEF KnowsOf
    <2>3. result[p] # None => Answer(gh, trans[p], succ[p], result[p])'
      BY <1>1, <1>3, <2>1, KeptAnswer DEF Sure, HandInv
    <2> QED  BY <1>3, <2>1, <2>2, <2>3 DEF Sure
  <1> QED  BY <1>2, <1>3, <1>4 DEF HandInv, Typed

-----------------------------------------------------------------------------
(* The process                                                               *)

\* With one process, the invariant is about the one that moves.
LEMMA OneMoves ==
    ASSUME Solo, NEW p \in Procs, SoundPackets(gh)', Typed', Sure(p)'
    PROVE  HandInv'
  <1>1. \A q \in Procs : q = p
    BY DEF Solo
  <1> QED  BY <1>1 DEF HandInv

LEMMA Working ==
    ASSUME HandInv, NEW p \in Procs, pc[p] # "idle"
    PROVE  /\ KnowsOf(p) /\ result[p] = None
           /\ trans[p] \in Transitions /\ Pred(p) = trans[p].issue /\ Pred(p) \in Issues
           /\ gh \in [Issues -> Packets] /\ gh[Pred(p)] \in Packets
           /\ \A i \in Issues : SoundPacket(i, gh[i])
           /\ SoundPackets(gh) /\ Typed
  BY Transition DEF HandInv, Sure, KnowsOf, Knows, Pred, SoundPackets

LEMMA TypedStep ==
    ASSUME HandInv, NEW p \in Procs,
           Work(p) \/ Crash(p) \/ \E t \in Transitions : Start(p, t)
    PROVE  Typed'
  <1> USE DEF Typed, Reads, bound, StepTo, Goto, Return, PCs, Kinds
  <1>0. Typed
    BY DEF HandInv
  <1>1. ASSUME NEW t \in Transitions, Start(p, t)  PROVE Typed'
    BY <1>0, <1>1 DEF Start
  <1>2. CASE Crash(p)
    BY <1>0, <1>2 DEF Crash
  <1>3. CASE View(p)
    <2>1. gh[Pred(p)].next \in Issues \union {None}
      BY <1>3, Working DEF View, Packets
    <2> QED  BY <1>0, <1>3, <2>1 DEF View
  <1>4. CASE ListQueue(p)
    BY <1>0, <1>4, PassCycleAssumption DEF ListQueue
  <1>5. CASE Resume(p) \/ Unique(p) \/ Sole(p) \/ HumanRequired(p)
    BY <1>0, <1>5 DEF Resume, Unique, Sole, HumanRequired
  <1>6. CASE Conflicts(p) \/ Ambiguous(p) \/ Recheck(p) \/ TimedOut(p)
    BY <1>0, <1>6 DEF Conflicts, Ambiguous, Recheck, TimedOut
  <1>7. CASE ViewSuccessor(p) \/ ViewAgain(p)
    <2>1. succ[p] \in Issues
      BY <1>7, Working DEF ViewSuccessor, ViewAgain, KnowsOf, Knows, Chosen, Loaded
    <2>2. gh[succ[p]] \in Packets
      BY <1>7, <2>1, Working DEF ViewSuccessor, ViewAgain
    <2> QED  BY <1>0, <1>7, <2>2 DEF ViewSuccessor, ViewAgain
  <1>8. CASE ViewPredecessor(p)
    <2>1. gh[Pred(p)] \in Packets
      BY <1>8, Working DEF ViewPredecessor
    <2> QED  BY <1>0, <1>8, <2>1 DEF ViewPredecessor
  <1>9. CASE Edit(p)
    BY <1>0, <1>9 DEF Edit
  <1>10. CASE Confirm(p)
    BY <1>0, <1>10 DEF Confirm
  <1> QED  BY <1>1, <1>2, <1>3, <1>4, <1>5, <1>6, <1>7, <1>8, <1>9, <1>10 DEF Work

LEMMA GoesOn ==
    ASSUME HandInv, Solo, NEW p \in Procs, Work(p), pc[p] # "idle",
           SoundPackets(gh)', UNCHANGED <<trans, result>>, KnowsOf(p)'
    PROVE  HandInv'
  <1>1. Sure(p)'
    BY Working DEF Sure
  <1> QED  BY <1>1, TypedStep, OneMoves

LEMMA Returns ==
    ASSUME HandInv, Solo, NEW p \in Procs, Work(p), pc[p] # "idle", NEW kind \in Kinds,
           SoundPackets(gh)', Return(p, kind), UNCHANGED trans,
           Answer(gh', trans[p], succ'[p], kind)
    PROVE  HandInv'
  <1>1. Typed'
    BY TypedStep
  <1>2. result'[p] = kind /\ pc'[p] = "idle" /\ trans'[p] = trans[p]
    BY DEF Return, HandInv, Typed
  <1>3. Sure(p)'
    BY <1>1, <1>2, Working DEF Sure, Typed
  <1> QED  BY <1>1, <1>3, OneMoves

LEMMA StartSure ==
    ASSUME HandInv, Solo, NEW p \in Procs, NEW t \in Transitions, Start(p, t)
    PROVE  HandInv'
  <1>1. Typed' /\ UNCHANGED gh
    BY TypedStep DEF Start
  <1>2. /\ pc'[p] = "view" /\ trans'[p] = t /\ succ'[p] = None /\ phase'[p] = "fresh"
        /\ base'[p] = None /\ result'[p] = None
    BY DEF Start, Goto, HandInv, Typed
  <1>3. Knows(gh, "view", t, None, "fresh", None)
    BY DEF Knows, Chosen, Loaded
  <1>4. Sure(p)'
    BY <1>1, <1>2, <1>3 DEF Sure, KnowsOf
  <1> QED  BY <1>1, <1>4, OneMoves DEF HandInv

LEMMA CrashSure == ASSUME HandInv, Solo, NEW p \in Procs, Crash(p)  PROVE HandInv'
  <1>1. Typed' /\ UNCHANGED gh /\ pc'[p] = "idle" /\ result'[p] = None
    BY TypedStep DEF Crash, HandInv, Typed
  <1> QED  BY <1>1, OneMoves DEF Sure, HandInv

LEMMA HumanSure == ASSUME HandInv, Solo, NEW p \in Procs, HumanRequired(p)  PROVE HandInv'
  <1>1. Work(p) /\ UNCHANGED <<gh, trans>> /\ Return(p, "human_required")
    BY DEF Work, HumanRequired
  <1>2. Answer(gh, trans[p], succ[p], "human_required")
    BY DEF Answer
  <1> QED  BY <1>1, <1>2, Returns DEF HumanRequired, HandInv, Kinds

LEMMA ViewSure == ASSUME HandInv, Solo, NEW p \in Procs, View(p)  PROVE HandInv'
  <1> DEFINE r == gh[Pred(p)]
  <1>1. Work(p) /\ UNCHANGED <<gh, trans, result>> /\ pc[p] = "view" /\ UNCHANGED base
    BY DEF Work, View, Reads, StepTo
  <1>2. /\ KnowsOf(p) /\ Pred(p) = trans[p].issue /\ Pred(p) \in Issues
        /\ SoundPacket(Pred(p), r) /\ Typed /\ SoundPackets(gh)' /\ r \in Packets
    BY <1>1, Working
  <1>3. CASE r.status = "ACTIVE" /\ StepTo(p, "view", "queue") /\ UNCHANGED <<succ, phase>>
    <2>1. Knows(gh, "queue", trans[p], succ[p], phase[p], base[p])
      BY <1>1, <1>2, <1>3 DEF KnowsOf, Knows, Chosen, Loaded
    <2>2. KnowsOf(p)'
      BY <1>1, <1>2, <1>3, <2>1 DEF KnowsOf, StepTo, Goto, Typed
    <2> QED  BY <1>1, <1>2, <2>2, GoesOn
  <1>4. CASE /\ r.status = "COMPLETE" /\ r.transition = trans[p] /\ r.next # None
             /\ succ' = [succ EXCEPT ![p] = r.next]
             /\ phase' = [phase EXCEPT ![p] = "resumed"]
             /\ StepTo(p, "view", "resume")
    <2>1. r.next \in Issues \ {Pred(p)}
      BY <1>2, <1>4 DEF SoundPacket, Packets
    <2>2. Knows(gh, "resume", trans[p], r.next, "resumed", base[p])
      BY <1>1, <1>2, <1>4, <2>1 DEF KnowsOf, Knows, Chosen, Loaded, Done
    <2>3. KnowsOf(p)'
      BY <1>1, <1>2, <1>4, <2>2 DEF KnowsOf, StepTo, Goto, Typed
    <2> QED  BY <1>1, <1>2, <2>3, GoesOn
  <1> QED  BY <1>3, <1>4 DEF View

LEMMA ListSure == ASSUME HandInv, Solo, NEW p \in Procs, ListQueue(p)  PROVE HandInv'
  <1>1. Work(p) /\ UNCHANGED <<gh, trans, phase, base>> /\ pc[p] = "queue"
    BY DEF Work, ListQueue, Reads
  <1>2. /\ KnowsOf(p) /\ Pred(p) = trans[p].issue /\ Pred(p) \in Issues
        /\ SoundPacket(Pred(p), gh[Pred(p)]) /\ Typed /\ SoundPackets(gh)
        /\ trans[p] \in Transitions
    BY <1>1, Working
  <1>3. phase[p] = "fresh" /\ gh[Pred(p)].status # "COMPLETE"
    BY <1>1, <1>2 DEF KnowsOf, Knows
  <1>4. CASE Return(p, "no_successor") /\ UNCHANGED succ
    <2>1. gh[Pred(p)].transition # trans[p]
      BY <1>2, <1>3, Transition DEF SoundPacket
    <2>2. Answer(gh', trans[p], succ'[p], "no_successor")
      BY <1>1, <1>2, <2>1 DEF Answer
    <2> QED  BY <1>1, <1>2, <1>4, <2>2, Returns DEF Kinds
  <1>5. ASSUME NEW i \in Trusted, QueuedFor(Pred(p)) = {i}, Eligible(i, Pred(p)),
               succ' = [succ EXCEPT ![p] = i], StepTo(p, "queue", "conflicts")
        PROVE  HandInv'
    <2>1. i \in Issues \ {Pred(p)} /\ SameLoop(i, Pred(p)) /\ gh[i].queued
          /\ gh[i].status = "PAUSED"
      BY <1>5 DEF QueuedFor, Eligible
    <2>2. Waiting(gh, i)
      BY <1>1, <2>1, Working DEF SoundPacket, Waiting
    <2>3. Knows(gh, "conflicts", trans[p], i, phase[p], base[p])
      BY <1>2, <1>3, <2>1, <2>2 DEF Knows, Chosen, Loaded
    <2>4. KnowsOf(p)' /\ UNCHANGED result
      BY <1>1, <1>2, <1>5, <2>3 DEF KnowsOf, StepTo, Goto, Typed
    <2> QED  BY <1>1, <1>2, <2>4, GoesOn
  <1> QED  BY <1>4, <1>5 DEF ListQueue

\* A step that only moves the process on.
LEMMA Walks ==
    ASSUME HandInv, Solo, NEW p \in Procs, Work(p), NEW q \in PCs \ {"idle"}, NEW n,
           StepTo(p, q, n), UNCHANGED <<gh, trans, succ, phase, base>>,
           Knows(gh, n, trans[p], succ[p], phase[p], base[p])
    PROVE  HandInv'
  <1>1. KnowsOf(p)' /\ pc[p] # "idle" /\ UNCHANGED result
    BY DEF KnowsOf, StepTo, Goto, HandInv, Typed
  <1> QED  BY <1>1, GoesOn DEF HandInv

\* The successor that is this transition's ACTIVE packet already names its predecessor.
LEMMA AlreadyThere ==
    ASSUME HandInv, NEW p \in Procs, pc[p] # "idle", succ[p] \in Issues,
           gh[succ[p]].status = "ACTIVE", gh[succ[p]].transition = trans[p]
    PROVE  gh[succ[p]].prev = Pred(p)
  <1>1. SoundPacket(succ[p], gh[succ[p]]) /\ trans[p] # None /\ Pred(p) = trans[p].issue
    BY Working, Transition
  <1> QED  BY <1>1 DEF SoundPacket

LEMMA ResumeSure == ASSUME HandInv, Solo, NEW p \in Procs, Resume(p)  PROVE HandInv'
  <1>1. Work(p) /\ UNCHANGED <<gh, trans, succ, phase, base>> /\ pc[p] = "resume"
    BY DEF Work, Resume, Reads
  <1>2. KnowsOf(p) /\ Pred(p) = trans[p].issue /\ phase[p] = "resumed" /\ succ[p] \in Issues
        /\ SoundPacket(succ[p], gh[succ[p]])
    BY <1>1, Working DEF KnowsOf, Knows
  <1>3. CASE gh[succ[p]].status = "ACTIVE" /\ gh[succ[p]].transition = trans[p]
             /\ StepTo(p, "resume", "unique")
    <2>0. gh[succ[p]].prev = Pred(p)
      BY <1>1, <1>2, <1>3, AlreadyThere
    <2>1. Knows(gh, "unique", trans[p], succ[p], phase[p], base[p])
      BY <1>1, <1>2, <2>0 DEF KnowsOf, Knows, Chosen, Loaded
    <2> QED  BY <1>1, <1>3, <2>1, Walks DEF PCs
  <1>4. CASE Eligible(succ[p], Pred(p)) /\ StepTo(p, "resume", "conflicts")
    <2>1. Waiting(gh, succ[p]) /\ SameLoop(succ[p], Pred(p))
      BY <1>2, <1>4 DEF SoundPacket, Waiting, Eligible
    <2>2. Knows(gh, "conflicts", trans[p], succ[p], phase[p], base[p])
      BY <1>1, <1>2, <2>1 DEF KnowsOf, Knows, Chosen, Loaded
    <2> QED  BY <1>1, <1>4, <2>2, Walks DEF PCs
  <1> QED  BY <1>3, <1>4 DEF Resume

LEMMA LoopSure ==
    ASSUME HandInv, Solo, NEW p \in Procs,
           Unique(p) \/ Conflicts(p) \/ Ambiguous(p) \/ Recheck(p)
    PROVE  HandInv'
  <1>1. Work(p) /\ UNCHANGED <<gh, trans, succ, phase, base>>
    BY DEF Work, Unique, Conflicts, Ambiguous, Recheck, Reads
  <1>2. pc[p] # "idle" => KnowsOf(p)
    BY Working
  <1>3. CASE Unique(p)
    <2>1. Knows(gh, "sole", trans[p], succ[p], phase[p], base[p])
      BY <1>2, <1>3 DEF Unique, KnowsOf, Knows, Chosen, Loaded
    <2> QED  BY <1>1, <1>3, <2>1, Walks DEF PCs, Unique
  <1>4. CASE Conflicts(p)
    <2>1. Knows(gh, "ambiguous", trans[p], succ[p], phase[p], base[p])
      BY <1>2, <1>4 DEF Conflicts, KnowsOf, Knows, Chosen, Loaded
    <2> QED  BY <1>1, <1>4, <2>1, Walks DEF PCs, Conflicts
  <1>5. CASE Ambiguous(p) /\ phase[p] = "completed"
    <2>1. Knows(gh, "check", trans[p], succ[p], phase[p], base[p])
      BY <1>2, <1>5 DEF Ambiguous, KnowsOf, Knows, Chosen, Loaded
    <2> QED  BY <1>1, <1>5, <2>1, Walks DEF PCs, Ambiguous
  <1>6. CASE Ambiguous(p) /\ phase[p] # "completed"
    <2>1. Knows(gh, "succ", trans[p], succ[p], phase[p], base[p])
      BY <1>2, <1>6 DEF Ambiguous, KnowsOf, Knows, Chosen, Loaded
    <2> QED  BY <1>1, <1>6, <2>1, Walks DEF PCs, Ambiguous
  <1>7. CASE Recheck(p)
    <2>1. Knows(gh, "edit", trans[p], succ[p], phase[p], base[p])
      BY <1>2, <1>7 DEF Recheck, KnowsOf, Knows, Chosen, Loaded
    <2> QED  BY <1>1, <1>7, <2>1, Walks DEF PCs, Recheck
  <1> QED  BY <1>3, <1>4, <1>5, <1>6, <1>7

LEMMA SoleSure == ASSUME HandInv, Solo, NEW p \in Procs, Sole(p)  PROVE HandInv'
  <1>1. Work(p) /\ UNCHANGED <<gh, trans, succ>> /\ pc[p] = "sole"
        /\ Return(p, "already_activated")
    BY DEF Work, Sole, Reads
  <1>2. KnowsOf(p) /\ Pred(p) = trans[p].issue
    BY <1>1, Working
  <1>3. succ[p] \in Issues /\ Done(gh, trans[p], succ[p]) /\ gh[succ[p]].prev = Pred(p)
    BY <1>1, <1>2 DEF KnowsOf, Knows
  <1>4. Answer(gh', trans[p], succ'[p], "already_activated")
    BY <1>1, <1>2, <1>3 DEF Answer
  <1> QED  BY <1>1, <1>4, Returns DEF Kinds, HandInv

LEMMA ViewsSure ==
    ASSUME HandInv, Solo, NEW p \in Procs,
           ViewSuccessor(p) \/ ViewPredecessor(p) \/ ViewAgain(p)
    PROVE  HandInv'
  <1>1. /\ Work(p) /\ UNCHANGED <<gh, trans, succ, phase, result>> /\ pc[p] # "idle"
        /\ base' = [base EXCEPT ![p] = base'[p]] /\ Typed
    BY DEF Work, ViewSuccessor, ViewPredecessor, ViewAgain, Reads, StepTo, Goto, HandInv, Typed
  <1>2. KnowsOf(p) /\ Pred(p) = trans[p].issue /\ gh \in [Issues -> Packets]
        /\ (\A i \in Issues : SoundPacket(i, gh[i])) /\ Pred(p) \in Issues
    BY <1>1, Working
  <1>3. ASSUME succ[p] \in Issues, Waiting(gh, succ[p])
        PROVE  gh[succ[p]].next = None /\ gh[succ[p]] \in Packets
    BY <1>2, <1>3 DEF SoundPacket, Waiting
  <1>4. CASE ViewSuccessor(p) /\ phase[p] = "fresh"
    <2>1. Knows(gh, "pred", trans[p], succ[p], phase[p], base'[p])
      BY <1>2, <1>4 DEF ViewSuccessor, KnowsOf, Knows, Chosen, Loaded
    <2>2. KnowsOf(p)'
      BY <1>1, <1>4, <2>1 DEF ViewSuccessor, KnowsOf, StepTo, Goto, Typed
    <2> QED  BY <1>1, <2>2, GoesOn DEF HandInv
  <1>5. CASE ViewSuccessor(p) /\ phase[p] # "fresh"
    <2>1. base'[p] = gh[succ[p]] /\ succ[p] \in Issues /\ Waiting(gh, succ[p])
      BY <1>1, <1>2, <1>5 DEF ViewSuccessor, KnowsOf, Knows, Chosen, Typed
    <2>2. Knows(gh, "check", trans[p], succ[p], phase[p], base'[p])
      BY <1>2, <1>3, <1>5, <2>1 DEF ViewSuccessor, KnowsOf, Knows, Chosen, Loaded
    <2>3. KnowsOf(p)'
      BY <1>1, <1>5, <2>2 DEF ViewSuccessor, KnowsOf, StepTo, Goto, Typed
    <2> QED  BY <1>1, <2>3, GoesOn DEF HandInv
  <1>6. CASE ViewPredecessor(p)
    <2>1. base'[p] = gh[Pred(p)] /\ gh[Pred(p)] \in Packets
      BY <1>1, <1>2, <1>6 DEF ViewPredecessor, Typed
    <2>2. Knows(gh, "check", trans[p], succ[p], phase[p], base'[p])
      BY <1>2, <1>6, <2>1 DEF ViewPredecessor, KnowsOf, Knows, Chosen, Loaded
    <2>3. KnowsOf(p)'
      BY <1>1, <1>6, <2>2 DEF ViewPredecessor, KnowsOf, StepTo, Goto, Typed
    <2> QED  BY <1>1, <2>3, GoesOn DEF HandInv
  <1>7. CASE ViewAgain(p)
    <2>1. base'[p] = gh[succ[p]] /\ succ[p] \in Issues /\ Waiting(gh, succ[p])
      BY <1>1, <1>2, <1>7 DEF ViewAgain, KnowsOf, Knows, Chosen, Typed
    <2>2. Knows(gh, "conflicts", trans[p], succ[p], phase[p], base'[p])
      BY <1>2, <1>3, <1>7, <2>1 DEF ViewAgain, KnowsOf, Knows, Chosen, Loaded
    <2>3. KnowsOf(p)'
      BY <1>1, <1>7, <2>2 DEF ViewAgain, KnowsOf, StepTo, Goto, Typed
    <2> QED  BY <1>1, <2>3, GoesOn DEF HandInv
  <1> QED  BY <1>4, <1>5, <1>6, <1>7

LEMMA TimedOutSure == ASSUME HandInv, Solo, NEW p \in Procs, TimedOut(p)  PROVE HandInv'
  <1>1. Work(p) /\ UNCHANGED <<gh, trans, succ, phase, base>> /\ pc[p] = "timed"
        /\ StepTo(p, "timed", "confirm")
    BY DEF Work, TimedOut, Reads
  <1>2. KnowsOf(p) /\ Pred(p) = trans[p].issue /\ gh[Pred(p)] \in Packets /\ Typed
    BY <1>1, Working
  <1>3. phase[p] = "fresh" => Done(gh, trans[p], succ[p])
    <2> SUFFICES ASSUME phase[p] = "fresh"  PROVE Done(gh, trans[p], succ[p])
      OBVIOUS
    <2>1. SameBody(gh[Pred(p)], CompleteBody(base[p], trans[p], succ[p]))
      BY DEF TimedOut, EditedIssue, NewBody
    <2>2. base[p] \in Packets
      BY <1>1, <1>2 DEF KnowsOf, Knows, Loaded
    <2> QED  BY <1>2, <2>1, <2>2 DEF SameBody, CompleteBody, Packets, Done
  <1>4. Knows(gh, "confirm", trans[p], succ[p], phase[p], base[p])
    BY <1>1, <1>2, <1>3 DEF KnowsOf, Knows, Chosen, Loaded
  <1> QED  BY <1>1, <1>4, Walks DEF PCs

LEMMA ConfirmSure == ASSUME HandInv, Solo, NEW p \in Procs, Confirm(p)  PROVE HandInv'
  <1>1. Work(p) /\ UNCHANGED <<gh, trans, succ, base>> /\ pc[p] = "confirm"
        /\ gh[EditedIssue(p)].transition = trans[p]
    BY DEF Work, Confirm, Reads
  <1>2. KnowsOf(p) /\ Pred(p) = trans[p].issue /\ Typed
    BY <1>1, Working
  <1>3. CASE /\ phase[p] = "fresh" /\ phase' = [phase EXCEPT ![p] = "completed"]
             /\ StepTo(p, "confirm", "again")
    <2>1. Knows(gh, "again", trans[p], succ[p], "completed", base[p])
      BY <1>1, <1>2, <1>3 DEF KnowsOf, Knows, Chosen, Loaded
    <2>2. KnowsOf(p)' /\ UNCHANGED result
      BY <1>1, <1>2, <1>3, <2>1 DEF KnowsOf, StepTo, Goto, Typed
    <2> QED  BY <1>1, <2>2, GoesOn DEF HandInv
  <1>4. CASE phase[p] # "fresh" /\ gh[succ[p]].status = "ACTIVE" /\ Return(p, "advanced")
    <2>1. succ[p] \in Issues /\ Done(gh, trans[p], succ[p])
      BY <1>2, <1>4 DEF KnowsOf, Knows
    <2>2. gh[succ[p]].prev = Pred(p)
      BY <1>1, <1>4, <2>1, AlreadyThere DEF EditedIssue
    <2>3. Answer(gh', trans[p], succ'[p], "advanced")
      BY <1>1, <1>2, <2>1, <2>2 DEF Answer
    <2> QED  BY <1>1, <1>4, <2>3, Returns DEF Kinds, HandInv
  <1> QED  BY <1>3, <1>4 DEF Confirm

-----------------------------------------------------------------------------
(* The edits                                                                 *)

\* The predecessor's edit lands, and the successor's.
Completed(g, t, s, b, o) ==
    [g EXCEPT ![t.issue] = [CompleteBody(b, t, s) EXCEPT !.open = o]]
Activated(g, t, s, b, o) == [g EXCEPT ![s] = [ActiveBody(b, t) EXCEPT !.open = o]]

LEMMA Completes ==
    ASSUME NEW g, SoundPackets(g), NEW t \in Transitions,
           NEW s \in Issues \ {t.issue}, NEW b \in Packets,
           g[t.issue].status # "COMPLETE", b.prev = g[t.issue].prev, Waiting(g, s),
           NEW o \in BOOLEAN, NEW h, h = Completed(g, t, s, b, o)
    PROVE  SoundPackets(h) /\ Done(h, t, s) /\ Waiting(h, s)
  <1> DEFINE i == t.issue
             n == [CompleteBody(b, t, s) EXCEPT !.open = o]
  <1>1. i \in Issues /\ t # None /\ g \in [Issues -> Packets]
    BY Transition DEF SoundPackets
  <1>2. /\ n \in Packets /\ n.status = "COMPLETE" /\ n.transition = t /\ n.next = s
        /\ ~n.queued /\ n.prev = g[i].prev
    BY <1>1 DEF CompleteBody, Packets
  <1> HIDE DEF n
  <1>3. h \in [Issues -> Packets] /\ h[i] = n /\ \A j \in Issues \ {i} : h[j] = g[j]
    BY <1>1, <1>2 DEF n, Completed, Activated
  <1>4. SoundPacket(i, n)
    BY <1>1, <1>2 DEF SoundPacket
  <1>5. \A j \in Issues : SoundPacket(j, h[j])
    BY <1>3, <1>4 DEF SoundPackets
  <1>6. \A j \in Issues : h[j].prev = g[j].prev /\ g[j].prev # i
    <2>1. \A j \in Issues : g[j].prev = i => FollowsIn(g, j, i)
      BY <1>1 DEF SoundPackets
    <2> QED  BY <1>2, <1>3, <2>1 DEF FollowsIn
  <1>7. ASSUME NEW k \in Issues, NEW j \in Issues, h[k].prev = j  PROVE FollowsIn(h, k, j)
    <2>1. FollowsIn(g, k, j) /\ h[j] = g[j]
      BY <1>3, <1>6, <1>7 DEF SoundPackets
    <2> QED  BY <1>2, <1>3, <2>1 DEF FollowsIn
  <1> QED  BY <1>1, <1>2, <1>3, <1>5, <1>7 DEF SoundPackets, Done, Waiting

LEMMA Activates ==
    ASSUME NEW g, SoundPackets(g), NEW t \in Transitions,
           NEW s \in Issues \ {t.issue}, NEW b \in Packets,
           Done(g, t, s), b.next = None, Waiting(g, s),
           NEW o \in BOOLEAN, NEW h, h = Activated(g, t, s, b, o)
    PROVE  SoundPackets(h) /\ Done(h, t, s)
  <1> DEFINE i == t.issue
             n == [ActiveBody(b, t) EXCEPT !.open = o]
  <1>1. i \in Issues /\ t # None /\ g \in [Issues -> Packets] /\ i # None
    BY Transition, PassCycleAssumption DEF SoundPackets
  <1>2. /\ n \in Packets /\ n.status = "ACTIVE" /\ n.transition = t /\ n.next = None
        /\ ~n.queued /\ n.prev = i
    BY <1>1 DEF ActiveBody, Packets
  <1> HIDE DEF n
  <1>3. h \in [Issues -> Packets] /\ h[s] = n /\ \A j \in Issues \ {s} : h[j] = g[j]
    BY <1>1, <1>2 DEF n, Completed, Activated
  <1>4. SoundPacket(s, n)
    BY <1>1, <1>2 DEF SoundPacket
  <1>5. \A j \in Issues : SoundPacket(j, h[j])
    BY <1>3, <1>4 DEF SoundPackets
  <1>6. \A j \in Issues \ {s} : h[j].prev = g[j].prev /\ g[j].prev # s
    BY <1>3, <1>1 DEF SoundPackets, FollowsIn, Waiting
  <1>7. ASSUME NEW k \in Issues \ {s}, NEW j \in Issues, h[k].prev = j  PROVE FollowsIn(h, k, j)
    <2>1. FollowsIn(g, k, j) /\ h[j] = g[j] /\ h[k] = g[k]
      BY <1>3, <1>6, <1>7 DEF SoundPackets
    <2> QED  BY <2>1 DEF FollowsIn
  <1>8. FollowsIn(h, s, i)
    BY <1>1, <1>2, <1>3 DEF FollowsIn, Done
  <1>9. \A k, j \in Issues : h[k].prev = j => FollowsIn(h, k, j)
    BY <1>2, <1>3, <1>7, <1>8
  <1> QED  BY <1>1, <1>2, <1>3, <1>5, <1>9 DEF SoundPackets, Done

\* What the packets are after the edit of p has landed.
Landed(p) ==
    [gh EXCEPT ![EditedIssue(p)] =
        [NewBody(p) EXCEPT !.open = gh[EditedIssue(p)].open]]

LEMMA Editing ==
    ASSUME HandInv, NEW p \in Procs, pc[p] = "edit"
    PROVE  /\ SoundPackets(gh) /\ trans[p] \in Transitions /\ Pred(p) = trans[p].issue
           /\ succ[p] \in Issues \ {trans[p].issue} /\ SameLoop(succ[p], trans[p].issue)
           /\ base[p] \in Packets /\ Waiting(gh, succ[p])
           /\ gh[Pred(p)].open \in BOOLEAN /\ gh[succ[p]].open \in BOOLEAN
           /\ phase[p] = "fresh" =>
                 gh[Pred(p)].status # "COMPLETE" /\ base[p].prev = gh[Pred(p)].prev
           /\ phase[p] # "fresh" => Done(gh, trans[p], succ[p]) /\ base[p].next = None
  <1>1. KnowsOf(p) /\ Pred(p) = trans[p].issue /\ SoundPackets(gh) /\ Pred(p) \in Issues
        /\ gh \in [Issues -> Packets]
    BY Working
  <1>2. /\ trans[p] \in Transitions /\ succ[p] \in Issues \ {trans[p].issue}
        /\ SameLoop(succ[p], trans[p].issue) /\ base[p] \in Packets /\ Waiting(gh, succ[p])
        /\ phase[p] = "fresh" =>
              gh[Pred(p)].status # "COMPLETE" /\ base[p].prev = gh[Pred(p)].prev
        /\ phase[p] # "fresh" => Done(gh, trans[p], succ[p]) /\ base[p].next = None
    BY <1>1 DEF KnowsOf, Knows, Chosen, Loaded
  <1>3. gh[Pred(p)].open \in BOOLEAN /\ gh[succ[p]].open \in BOOLEAN
    BY <1>1, <1>2 DEF Packets
  <1> QED  BY <1>1, <1>2, <1>3

LEMMA Lands ==
    ASSUME HandInv, NEW p \in Procs, pc[p] = "edit", NEW h, h = Landed(p)
    PROVE  /\ SoundPackets(h)
           /\ Knows(h, "timed", trans[p], succ[p], phase[p], base[p])
           /\ Knows(h, "confirm", trans[p], succ[p], phase[p], base[p])
  <1>1. PICK t, s, b : t = trans[p] /\ s = succ[p] /\ b = base[p]
    OBVIOUS
  <1>2. /\ SoundPackets(gh) /\ t \in Transitions /\ Pred(p) = t.issue
        /\ s \in Issues \ {t.issue} /\ SameLoop(s, t.issue)
        /\ b \in Packets /\ Waiting(gh, s)
        /\ gh[t.issue].open \in BOOLEAN /\ gh[s].open \in BOOLEAN
        /\ phase[p] = "fresh" =>
              gh[t.issue].status # "COMPLETE" /\ b.prev = gh[t.issue].prev
        /\ phase[p] # "fresh" => Done(gh, t, s) /\ b.next = None
    BY <1>1, Editing
  <1>3. CASE phase[p] = "fresh"
    <2>0. PICK o \in BOOLEAN : o = gh[t.issue].open
      BY <1>2
    <2>1. h = Completed(gh, t, s, b, o)
      BY <1>1, <1>2, <1>3, <2>0 DEF Landed, EditedIssue, NewBody, Completed
    <2>2. SoundPackets(h) /\ Done(h, t, s) /\ Waiting(h, s)
      <3>1. gh[t.issue].status # "COMPLETE" /\ b.prev = gh[t.issue].prev
        BY <1>2, <1>3
      <3> QED  BY <1>2, <2>1, <3>1, Completes
    <2> QED  BY <1>1, <1>2, <1>3, <2>2 DEF Knows, Chosen, Loaded
  <1>4. CASE phase[p] # "fresh"
    <2>0. PICK o \in BOOLEAN : o = gh[s].open
      BY <1>2
    <2>1. h = Activated(gh, t, s, b, o)
      BY <1>1, <1>4, <2>0 DEF Landed, EditedIssue, NewBody, Activated
    <2>2. SoundPackets(h) /\ Done(h, t, s)
      BY <1>2, <1>4, <2>1, Activates
    <2> QED  BY <1>1, <1>2, <1>4, <2>2 DEF Knows, Chosen, Loaded
  <1> QED  BY <1>3, <1>4

LEMMA EditSure == ASSUME HandInv, Solo, NEW p \in Procs, Edit(p)  PROVE HandInv'
  <1>1. Work(p) /\ pc[p] = "edit" /\ UNCHANGED <<trans, succ, phase, base>>
        /\ gh' \in {gh, Landed(p)}
    BY DEF Work, Edit, Landed
  <1>2. /\ SoundPackets(gh)'
        /\ Knows(gh', "timed", trans[p], succ[p], phase[p], base[p])
    <2>1. Knows(gh, "timed", trans[p], succ[p], phase[p], base[p])
      BY <1>1, Editing DEF Knows, Chosen, Loaded
    <2> QED  BY <1>1, <2>1, Lands, Editing
  <1>3. CASE gh' = Landed(p) /\ StepTo(p, "edit", "confirm")
    <2>1. Knows(gh', "confirm", trans[p], succ[p], phase[p], base[p])
      BY <1>1, <1>3, Lands
    <2>2. KnowsOf(p)' /\ UNCHANGED result
      BY <1>1, <1>3, <2>1 DEF KnowsOf, StepTo, Goto, HandInv, Typed
    <2> QED  BY <1>1, <1>2, <2>2, GoesOn
  <1>4. CASE Return(p, "human_required")
    <2>1. Answer(gh', trans[p], succ'[p], "human_required")
      BY DEF Answer
    <2> QED  BY <1>1, <1>2, <1>4, <2>1, Returns DEF Kinds
  <1>5. CASE StepTo(p, "edit", "timed")
    <2>1. KnowsOf(p)' /\ UNCHANGED result
      BY <1>1, <1>2, <1>5 DEF KnowsOf, StepTo, Goto, HandInv, Typed
    <2> QED  BY <1>1, <1>2, <2>1, GoesOn
  <1> QED  BY <1>3, <1>4, <1>5 DEF Edit, Landed

-----------------------------------------------------------------------------
(* What is stored about a handover is true                                   *)

LEMMA InitSure == Init => HandInv
  <1> SUFFICES ASSUME Init  PROVE HandInv
    OBVIOUS
  <1>1. /\ gh \in [Issues -> Packets]
        /\ \A i \in Issues : gh[i].transition = None /\ gh[i].next = None /\ gh[i].prev = None
    BY PassCycleAssumption DEF Init
  <1>2. SoundPackets(gh)
    BY <1>1, PassCycleAssumption DEF SoundPackets, SoundPacket, FollowsIn
  <1>3. Typed /\ \A p \in Procs : Sure(p)
    BY DEF Init, Typed, Sure, PCs
  <1> QED  BY <1>2, <1>3 DEF HandInv

LEMMA NextSure == Solo /\ HandInv /\ [Next]_vars => HandInv'
  <1> SUFFICES ASSUME Solo, HandInv, [Next]_vars  PROVE HandInv'
    OBVIOUS
  <1>1. ASSUME NEW p \in Procs, Work(p)  PROVE HandInv'
    BY <1>1, ViewSure, ListSure, ResumeSure, SoleSure, LoopSure, ViewsSure, EditSure,
       TimedOutSure, ConfirmSure, HumanSure DEF Work
  <1>2. CASE UNCHANGED vars
    BY <1>2 DEF vars, bound, HandInv, Typed, Sure, KnowsOf
  <1> QED  BY <1>1, <1>2, StartSure, CrashSure, OwnerSure DEF Next

\* With one process at a time, which may die at any call and be run again, and an owner
\* who may edit any packet between two calls, every process knows of the packets what it
\* acts on, and every stored result is what they show.
THEOREM HandInductive == Solo => (Spec => []HandInv)
  <1> SUFFICES ASSUME Solo  PROVE Spec => []HandInv
    OBVIOUS
  <1>1. HandInv /\ [Next]_vars => HandInv'
    BY NextSure
  <1> QED  BY <1>1, InitSure, PTL DEF Spec

LEMMA TrueHandover == HandInv => HandoverIsTrue
  <1> SUFFICES ASSUME HandInv  PROVE HandoverIsTrue
    OBVIOUS
  <1>1. SuccessorFollowsPredecessor
    BY DEF HandInv, SoundPackets, Packets, SuccessorFollowsPredecessor, FollowsIn
  <1>2. AnswerIsTrue
    <2> SUFFICES ASSUME NEW p \in Procs, result[p] # None
                 PROVE  /\ result[p] \in {"advanced", "already_activated"} =>
                              /\ gh[Pred(p)].transition = trans[p]
                              /\ gh[Pred(p)].next = succ[p]
                              /\ gh[succ[p]].prev = Pred(p)
                        /\ result[p] = "no_successor" => gh[Pred(p)].transition # trans[p]
      BY PassCycleAssumption DEF AnswerIsTrue, Kinds
    <2> QED  BY DEF HandInv, Sure, Answer, Done, Pred
  <1> QED  BY <1>1, <1>2 DEF HandoverIsTrue

\* A packet that a cycle activated has a predecessor completed for it by the same cycle,
\* and the result the controller stores tells what GitHub holds.
THEOREM HandoverTrue == Solo => (Spec => []HandoverIsTrue)
  BY HandInductive, TrueHandover, PTL

-----------------------------------------------------------------------------
(* A cycle activates its packet alone                                        *)

\* An owner who activates nothing adds no ACTIVE packet.
LEMMA OwnerAddsNone ==
    ASSUME HandInv, "activate" \notin OwnerEdits, NEW i \in Issues, OwnerEdit(i)
    PROVE  /\ ActivePackets' \subseteq ActivePackets
           /\ edits' # edits /\ UNCHANGED <<pc, trans, succ, phase>>
  <1> DEFINE r == gh[i]
             n == edits + 1
  <1>1. gh \in [Issues -> Packets] /\ r \in Packets /\ edits \in Nat
    BY DEF HandInv, SoundPackets, Typed
  <1>0. edits' = edits + 1 /\ UNCHANGED <<pc, trans, succ, phase>>
    BY Zenon DEF OwnerEdit
  <1> SUFFICES ActivePackets' \subseteq ActivePackets
    BY <1>1, <1>0
  <1>2. ASSUME NEW x \in Packets, gh' = [gh EXCEPT ![i] = [x EXCEPT !.text = n]],
               x.open = r.open, x.status = "ACTIVE" => r.status = "ACTIVE"
        PROVE  ActivePackets' \subseteq ActivePackets
    <2>1. \A j \in Issues : gh'[j].open /\ gh'[j].status = "ACTIVE" =>
                               gh[j].open /\ gh[j].status = "ACTIVE"
      BY <1>1, <1>2 DEF Packets
    <2> QED  BY <2>1, PassCycleAssumption DEF ActivePackets
  <1>3. CASE \E j \in Issues \ {i} :
                gh' = [gh EXCEPT ![i] = [[r EXCEPT !.queued = TRUE, !.after = j]
                                           EXCEPT !.text = n]]
    <2>1. PICK j \in Issues :
             gh' = [gh EXCEPT ![i] = [[r EXCEPT !.queued = TRUE, !.after = j]
                                        EXCEPT !.text = n]]
      BY <1>3
    <2>2. /\ [r EXCEPT !.queued = TRUE, !.after = j] \in Packets
          /\ [r EXCEPT !.queued = TRUE, !.after = j].open = r.open
          /\ [r EXCEPT !.queued = TRUE, !.after = j].status = r.status
      BY <1>1 DEF Packets
    <2> QED  BY <2>1, <2>2, <1>2
  <1>4. CASE gh' = [gh EXCEPT ![i] = [[r EXCEPT !.queued = FALSE] EXCEPT !.text = n]]
    <2>1. /\ [r EXCEPT !.queued = FALSE] \in Packets
          /\ [r EXCEPT !.queued = FALSE].open = r.open
          /\ [r EXCEPT !.queued = FALSE].status = r.status
      BY <1>1 DEF Packets
    <2> QED  BY <1>4, <2>1, <1>2
  <1>5. CASE gh' = [gh EXCEPT ![i] = [[r EXCEPT !.status = "PAUSED"] EXCEPT !.text = n]]
    <2>1. /\ [r EXCEPT !.status = "PAUSED"] \in Packets
          /\ [r EXCEPT !.status = "PAUSED"].open = r.open
          /\ [r EXCEPT !.status = "PAUSED"].status = "PAUSED"
      BY <1>1 DEF Packets
    <2> QED  BY <1>5, <2>1, <1>2
  <1>6. CASE gh' = [gh EXCEPT ![i] = [r EXCEPT !.text = n]]
    BY <1>1, <1>2, <1>6
  <1>7. CASE gh' = [gh EXCEPT ![i].open = FALSE]
    <2>1. \A j \in Issues : gh'[j].open /\ gh'[j].status = "ACTIVE" =>
                               gh[j].open /\ gh[j].status = "ACTIVE"
      BY <1>1, <1>7 DEF Packets
    <2> QED  BY <2>1, PassCycleAssumption DEF ActivePackets
  <1> QED  BY <1>3, <1>4, <1>5, <1>6, <1>7 DEF OwnerEdit

\* The predecessor is COMPLETE once it is not fresh.
LEMMA PredIsComplete ==
    ASSUME HandInv, NEW p \in Procs, pc[p] # "idle", phase[p] # "fresh"
    PROVE  Pred(p) \notin ActivePackets
  BY Working DEF KnowsOf, Knows, Done, ActivePackets

LEMMA NextAlone ==
    Solo /\ "activate" \notin OwnerEdits /\ HandInv /\ AloneInv /\ [Next]_vars => AloneInv'
  <1> SUFFICES ASSUME Solo, "activate" \notin OwnerEdits, HandInv, AloneInv, [Next]_vars
               PROVE  AloneInv'
    OBVIOUS
  <1> USE DEF ActiveInWorkstream, ActiveOnBranch, Pred
  <1>1. CASE UNCHANGED vars
    BY <1>1 DEF vars, bound, AloneInv, ActivePackets
  <1>2. ASSUME NEW i \in Issues, OwnerEdit(i)  PROVE AloneInv'
    BY <1>2, OwnerAddsNone DEF AloneInv
  <1>3. ASSUME NEW p \in Procs,
               phase'[p] # "fresh" =>
                  /\ pc'[p] \in {"ambiguous", "succ", "check", "edit"} =>
                        ActiveInWorkstream(Pred(p))' = {}
                  /\ pc'[p] \in {"succ", "check", "edit"} => ActiveOnBranch(Pred(p))' = {}
        PROVE  AloneInv'
    <2>1. \A q \in Procs : q = p
      BY DEF Solo
    <2> QED  BY <1>3, <2>1 DEF AloneInv
  <1>4. ASSUME NEW p \in Procs, \E t \in Transitions : Start(p, t)  PROVE AloneInv'
    <2>1. phase'[p] = "fresh"
      BY <1>4 DEF Start, HandInv, Typed
    <2> QED  BY <1>3, <2>1
  <1>5. ASSUME NEW p \in Procs, Crash(p)  PROVE AloneInv'
    <2>1. pc'[p] = "idle"
      BY <1>5 DEF Crash, HandInv, Typed
    <2> QED  BY <1>3, <2>1
  <1>6. ASSUME NEW p \in Procs, Work(p)  PROVE AloneInv'
    <2> USE DEF StepTo, Goto, Return, Reads, bound
    <2>0. Typed
      BY DEF HandInv
    <2>1. CASE Conflicts(p)
      <3>1. /\ pc'[p] = "ambiguous" /\ UNCHANGED <<gh, trans, phase>> /\ pc[p] # "idle"
            /\ phase[p] # "fresh" => ActiveInWorkstream(Pred(p)) = {}
        BY <2>0, <2>1 DEF Conflicts, Typed
      <3> QED  BY <3>1, <1>3 DEF ActivePackets
    <2>2. CASE Ambiguous(p)
      <3>1. /\ UNCHANGED <<gh, trans, phase>> /\ pc[p] = "ambiguous"
            /\ ActiveOnBranch(Pred(p)) \subseteq {Pred(p)}
        BY <2>2 DEF Ambiguous
      <3>2. phase[p] # "fresh" => ActiveOnBranch(Pred(p)) = {}
        BY <3>1, PredIsComplete
      <3> QED  BY <3>1, <3>2, <1>3 DEF ActivePackets, AloneInv
    <2>3. CASE ViewSuccessor(p) \/ Recheck(p)
      <3>1. /\ UNCHANGED <<gh, trans, phase>> /\ pc[p] \in {"succ", "check"}
        BY <2>3 DEF ViewSuccessor, Recheck
      <3> QED  BY <3>1, <1>3 DEF ActivePackets, AloneInv
    <2>4. CASE ViewPredecessor(p)
      <3>1. UNCHANGED phase /\ phase[p] = "fresh"
        BY <2>4, Working DEF ViewPredecessor, KnowsOf, Knows
      <3> QED  BY <3>1, <1>3
    <2>5. CASE View(p) \/ ListQueue(p) \/ Resume(p) \/ Unique(p) \/ Sole(p) \/ HumanRequired(p)
      <3>1. pc'[p] \in {"queue", "resume", "conflicts", "unique", "sole", "idle"}
        BY <2>0, <2>5 DEF View, ListQueue, Resume, Unique, Sole, HumanRequired, Typed
      <3> QED  BY <3>1, <1>3
    <2>6. CASE Edit(p) \/ TimedOut(p) \/ Confirm(p) \/ ViewAgain(p)
      <3>1. pc'[p] \in {"confirm", "idle", "timed", "again", "conflicts"}
        BY <2>0, <2>6 DEF Edit, TimedOut, Confirm, ViewAgain, Typed
      <3> QED  BY <3>1, <1>3
    <2> QED  BY <1>6, <2>1, <2>2, <2>3, <2>4, <2>5, <2>6 DEF Work
  <1> QED  BY <1>1, <1>2, <1>4, <1>5, <1>6 DEF Next

\* The step of ActivatesAlone.
NoOther(i) ==
    \A j \in Trusted \ {i} :
        (gh'[j].open /\ gh'[j].status = "ACTIVE") =>
            /\ WorkstreamOf[j] # WorkstreamOf[i]
            /\ BranchOf[j] # BranchOf[i]
AloneStep ==
    \A i \in Issues :
        (gh[i].status # "ACTIVE" /\ gh'[i].status = "ACTIVE" /\ edits' = edits) => NoOther(i)

\* Only the successor's edit makes a packet ACTIVE, and leaves the others alone.
LEMMA EditAlone ==
    ASSUME HandInv, AloneInv, NEW p \in Procs, pc[p] = "edit", gh' = Landed(p)
    PROVE  AloneStep
  <1> SUFFICES ASSUME NEW i \in Issues, gh[i].status # "ACTIVE", gh'[i].status = "ACTIVE",
                      NEW j \in Trusted \ {i}, gh'[j].open, gh'[j].status = "ACTIVE"
               PROVE  WorkstreamOf[j] # WorkstreamOf[i] /\ BranchOf[j] # BranchOf[i]
    BY DEF AloneStep, NoOther
  <1>1. /\ gh \in [Issues -> Packets] /\ base[p] \in Packets /\ trans[p] \in Transitions
        /\ Pred(p) \in Issues /\ succ[p] \in Issues /\ SameLoop(succ[p], Pred(p))
    BY Editing, Transition DEF SoundPackets
  <1>2. phase[p] # "fresh"
    <2> SUFFICES ASSUME phase[p] = "fresh"  PROVE FALSE
      OBVIOUS
    <2>1. gh'[Pred(p)].status = "COMPLETE" /\ \A k \in Issues \ {Pred(p)} : gh'[k] = gh[k]
      BY <1>1 DEF Landed, EditedIssue, NewBody, CompleteBody, Packets
    <2> QED  BY <2>1
  <1>3. i = succ[p] /\ j \in Issues /\ gh'[j] = gh[j]
    BY <1>1, <1>2, PassCycleAssumption DEF Landed, EditedIssue
  <1>4. j \in ActivePackets
    BY <1>3 DEF ActivePackets
  <1>5. ActiveInWorkstream(Pred(p)) = {} /\ ActiveOnBranch(Pred(p)) = {}
    BY <1>2 DEF AloneInv
  <1> QED  BY <1>1, <1>3, <1>4, <1>5 DEF ActiveInWorkstream, ActiveOnBranch, SameLoop

LEMMA StepsAlone ==
    ASSUME "activate" \notin OwnerEdits, HandInv, AloneInv, [Next]_vars
    PROVE  AloneStep \/ UNCHANGED vars
  <1>1. ASSUME UNCHANGED gh  PROVE AloneStep
    BY <1>1 DEF AloneStep
  <1>2. ASSUME NEW p \in Procs, Edit(p)  PROVE AloneStep
    <2>1. pc[p] = "edit" /\ (UNCHANGED gh \/ gh' = Landed(p))
      BY <1>2 DEF Edit, Landed
    <2> QED  BY <1>1, <2>1, EditAlone
  <1>3. ASSUME NEW i \in Issues, OwnerEdit(i)  PROVE AloneStep
    BY <1>3, OwnerAddsNone DEF AloneStep
  <1>4. ASSUME NEW p \in Procs, (\E t \in Transitions : Start(p, t)) \/ Crash(p)
        PROVE  AloneStep
    BY <1>1, <1>4 DEF Start, Crash
  <1>5. ASSUME NEW p \in Procs, Work(p)  PROVE AloneStep
    <2>1. Edit(p) \/ UNCHANGED gh
      BY <1>5 DEF Work, View, ListQueue, Resume, Unique, Sole, Conflicts, Ambiguous,
         ViewSuccessor, ViewPredecessor, Recheck, TimedOut, Confirm, ViewAgain,
         HumanRequired, Reads
    <2> QED  BY <1>1, <1>2, <2>1
  <1> QED  BY <1>3, <1>4, <1>5 DEF Next

LEMMA InitAlone == Init => AloneInv
  BY DEF Init, AloneInv

\* When one process works at a time and the owner activates nothing by hand, a cycle that
\* makes a packet ACTIVE leaves no other trusted ACTIVE packet in its workstream or on its
\* branch.
THEOREM ActivatesAlways ==
    Solo /\ "activate" \notin OwnerEdits => (Spec => ActivatesAlone)
  <1> SUFFICES ASSUME Solo, "activate" \notin OwnerEdits  PROVE Spec => ActivatesAlone
    OBVIOUS
  <1>1. HandInv /\ AloneInv /\ [Next]_vars => AloneInv'
    BY NextAlone
  <1>2. HandInv /\ AloneInv /\ [Next]_vars => [AloneStep]_vars
    BY StepsAlone
  <1>3. Spec => []HandInv
    BY HandInductive
  <1>4. Spec => [][AloneStep]_vars
    BY <1>1, <1>2, <1>3, InitAlone, PTL DEF Spec
  <1> QED  BY <1>4 DEF ActivatesAlone, AloneStep, NoOther

-----------------------------------------------------------------------------
(* The handover is the promised one                                          *)

HandedIn(g, i) ==
    IF g[i].next = None THEN None
    ELSE [by |-> g[i].transition, to |-> g[i].next,
          stage |-> IF g[g[i].next].prev = i THEN "followed" ELSE "completed"]

LEMMA HandedIs == Handed = [i \in Issues |-> HandedIn(gh, i)]
  BY DEF Handed, HandedIn

LEMMA HandedNext == Handed' = [i \in Issues |-> HandedIn(gh', i)]
  BY DEF Handed, HandedIn

\* Nothing is handed over by a step that keeps who completed whom for whom.
LEMMA HandoverStays ==
    ASSUME \A i \in Issues :
               /\ gh'[i].next = gh[i].next /\ gh'[i].transition = gh[i].transition
               /\ gh'[i].prev = gh[i].prev,
           gh \in [Issues -> Packets]
    PROVE  UNCHANGED Handed
  <1>1. \A i \in Issues : HandedIn(gh', i) = HandedIn(gh, i)
    BY DEF HandedIn, Packets
  <1> QED  BY <1>1, HandedIs, HandedNext

LEMMA HandoverBegins == Init => Handover!Init
  BY PassCycleAssumption DEF Init, Handover!Init, Handed

\* The predecessor's edit hands it over, the successor's edit follows.
LEMMA CompletedHands ==
    ASSUME NEW g, SoundPackets(g), NEW t \in Transitions,
           NEW s \in Issues \ {t.issue}, NEW b \in Packets,
           g[t.issue].status # "COMPLETE", b.prev = g[t.issue].prev, Waiting(g, s),
           NEW o \in BOOLEAN, NEW h, h = Completed(g, t, s, b, o)
    PROVE  /\ HandedIn(g, t.issue) = None
           /\ HandedIn(h, t.issue) = [by |-> t, to |-> s, stage |-> "completed"]
           /\ \A j \in Issues \ {t.issue} : HandedIn(h, j) = HandedIn(g, j)
  <1> DEFINE i == t.issue
             n == [CompleteBody(b, t, s) EXCEPT !.open = o]
  <1>1. i \in Issues /\ i # None /\ g \in [Issues -> Packets] /\ s # None
    BY Transition, PassCycleAssumption DEF SoundPackets
  <1>2. n.transition = t /\ n.next = s /\ n.prev = g[i].prev
    BY <1>1 DEF CompleteBody, Packets
  <1> HIDE DEF n
  <1>3. h \in [Issues -> Packets] /\ h[i] = n /\ \A j \in Issues \ {i} : h[j] = g[j]
    BY <1>1, Completes DEF n, Completed, SoundPackets
  <1>4. g[i].next = None
    BY <1>1 DEF SoundPackets, SoundPacket
  <1>5. \A j \in Issues : h[j].prev = g[j].prev
    BY <1>2, <1>3
  <1>6. h[s].prev = None
    BY <1>5 DEF Waiting
  <1>7. ASSUME NEW j \in Issues \ {i}  PROVE HandedIn(h, j) = HandedIn(g, j)
    <2>1. g[j].next \in Issues \union {None}
      BY <1>1 DEF Packets
    <2> QED  BY <1>3, <1>5, <2>1 DEF HandedIn
  <1>8. h[i].next = s /\ h[i].transition = t /\ h[h[i].next].prev = None
    BY <1>2, <1>3, <1>6
  <1>9. HandedIn(h, i) = [by |-> t, to |-> s, stage |-> "completed"]
    BY <1>1, <1>8 DEF HandedIn
  <1>10. HandedIn(g, i) = None
    BY <1>4 DEF HandedIn
  <1> QED  BY <1>7, <1>9, <1>10

LEMMA ActivatedFollows ==
    ASSUME NEW g, SoundPackets(g), NEW t \in Transitions,
           NEW s \in Issues \ {t.issue}, NEW b \in Packets,
           Done(g, t, s), b.next = None, Waiting(g, s),
           NEW o \in BOOLEAN, NEW h, h = Activated(g, t, s, b, o)
    PROVE  /\ HandedIn(g, t.issue) = [by |-> t, to |-> s, stage |-> "completed"]
           /\ HandedIn(h, t.issue) = [by |-> t, to |-> s, stage |-> "followed"]
           /\ \A j \in Issues \ {t.issue} :
                 /\ HandedIn(h, j) = HandedIn(g, j)
                 /\ HandedIn(g, j) # None /\ HandedIn(g, j).stage = "followed" =>
                       HandedIn(g, j).to # s
  <1> DEFINE i == t.issue
             n == [ActiveBody(b, t) EXCEPT !.open = o]
  <1>1. i \in Issues /\ i # None /\ g \in [Issues -> Packets] /\ s # None
    BY Transition, PassCycleAssumption DEF SoundPackets
  <1>2. n.next = None /\ n.prev = i
    BY <1>1 DEF ActiveBody, Packets
  <1> HIDE DEF n
  <1>3. h[s] = n /\ \A j \in Issues \ {s} : h[j] = g[j]
    BY <1>1 DEF n, Activated
  <1>4. g[s].next = None /\ g[s].prev = None
    BY <1>1 DEF SoundPackets, SoundPacket, Waiting
  <1>5. g[i].next = s /\ g[i].transition = t
    BY DEF Done
  <1>6. ASSUME NEW j \in Issues \ {i}
        PROVE  /\ HandedIn(h, j) = HandedIn(g, j)
               /\ HandedIn(g, j) # None /\ HandedIn(g, j).stage = "followed" =>
                     HandedIn(g, j).to # s
    <2>1. g[j].next \in Issues \union {None} /\ j # None
      BY <1>1, PassCycleAssumption DEF Packets
    <2>2. CASE j = s
      BY <1>2, <1>3, <1>4, <2>2 DEF HandedIn
    <2>3. CASE j # s /\ g[j].next = s
      BY <1>1, <1>2, <1>3, <1>4, <2>1, <2>3 DEF HandedIn
    <2>4. CASE j # s /\ g[j].next # s
      BY <1>3, <2>1, <2>4 DEF HandedIn
    <2> QED  BY <2>2, <2>3, <2>4
  <1> QED  BY <1>1, <1>2, <1>3, <1>4, <1>5, <1>6 DEF HandedIn

LEMMA EditHands ==
    ASSUME HandInv, NEW p \in Procs, pc[p] = "edit", gh' = Landed(p)
    PROVE  Handover!Next
  <1>1. PICK t, s, b, h : t = trans[p] /\ s = succ[p] /\ b = base[p] /\ h = gh'
    OBVIOUS
  <1>2. /\ SoundPackets(gh) /\ t \in Transitions /\ Pred(p) = t.issue
        /\ s \in Issues \ {t.issue} /\ b \in Packets /\ Waiting(gh, s)
        /\ gh[t.issue].open \in BOOLEAN /\ gh[s].open \in BOOLEAN
        /\ phase[p] = "fresh" =>
              gh[t.issue].status # "COMPLETE" /\ b.prev = gh[t.issue].prev
        /\ phase[p] # "fresh" => Done(gh, t, s) /\ b.next = None
    BY <1>1, Editing
  <1>3. t.issue \in Issues
    BY <1>2, Transition
  <1>4. \A i \in Issues : Handed[i] = HandedIn(gh, i)
    BY HandedIs
  <1>5. Handed' = [i \in Issues |-> HandedIn(h, i)]
    BY <1>1, HandedNext
  <1>6. CASE phase[p] = "fresh"
    <2>0. PICK o \in BOOLEAN : o = gh[t.issue].open
      BY <1>2
    <2>1. h = Completed(gh, t, s, b, o)
      BY <1>1, <1>2, <1>6, <2>0 DEF Landed, EditedIssue, NewBody, Completed
    <2>2. gh[t.issue].status # "COMPLETE" /\ b.prev = gh[t.issue].prev
      BY <1>2, <1>6
    <2>3. /\ HandedIn(gh, t.issue) = None
          /\ HandedIn(h, t.issue) = [by |-> t, to |-> s, stage |-> "completed"]
          /\ \A j \in Issues \ {t.issue} : HandedIn(h, j) = HandedIn(gh, j)
      BY <1>2, <2>1, <2>2, CompletedHands
    <2>4. Handed' = [Handed EXCEPT ![t.issue] =
                        [by |-> t, to |-> s, stage |-> "completed"]]
      BY <1>3, <1>5, <2>3, HandedIs
    <2>5. Handover!Complete(t.issue)
      BY <1>2, <1>3, <1>4, <2>3, <2>4 DEF Handover!Complete
    <2> QED  BY <1>3, <2>5 DEF Handover!Next
  <1>7. CASE phase[p] # "fresh"
    <2>0. PICK o \in BOOLEAN : o = gh[s].open
      BY <1>2
    <2>1. h = Activated(gh, t, s, b, o)
      BY <1>1, <1>7, <2>0 DEF Landed, EditedIssue, NewBody, Activated
    <2>2. Done(gh, t, s) /\ b.next = None
      BY <1>2, <1>7
    <2>3. /\ HandedIn(gh, t.issue) = [by |-> t, to |-> s, stage |-> "completed"]
          /\ HandedIn(h, t.issue) = [by |-> t, to |-> s, stage |-> "followed"]
          /\ \A j \in Issues \ {t.issue} :
                /\ HandedIn(h, j) = HandedIn(gh, j)
                /\ HandedIn(gh, j) # None /\ HandedIn(gh, j).stage = "followed" =>
                      HandedIn(gh, j).to # s
      BY <1>2, <2>1, <2>2, ActivatedFollows
    <2>4. Handed' = [Handed EXCEPT ![t.issue].stage = "followed"]
      BY <1>3, <1>5, <2>3, HandedIs
    <2>5. HandedIn(gh, t.issue) # None
      BY <1>2, <2>3, PassCycleAssumption
    <2>6. Handover!Follow(t.issue)
      BY <1>3, <1>4, <2>3, <2>4, <2>5 DEF Handover!Follow
    <2> QED  BY <1>3, <2>6 DEF Handover!Next
  <1> QED  BY <1>6, <1>7

LEMMA HandoverSteps == HandInv /\ [Next]_vars => [Handover!Next]_Handed
  <1> SUFFICES ASSUME HandInv, [Next]_vars  PROVE Handover!Next \/ UNCHANGED Handed
    OBVIOUS
  <1>0. gh \in [Issues -> Packets]
    BY DEF HandInv, SoundPackets
  <1>1. ASSUME UNCHANGED gh  PROVE UNCHANGED Handed
    BY <1>0, <1>1, HandoverStays
  <1>2. ASSUME NEW p \in Procs, Edit(p)  PROVE Handover!Next \/ UNCHANGED Handed
    <2>1. pc[p] = "edit" /\ (UNCHANGED gh \/ gh' = Landed(p))
      BY <1>2 DEF Edit, Landed
    <2> QED  BY <1>1, <2>1, EditHands
  <1>3. ASSUME NEW i \in Issues, OwnerEdit(i)  PROVE UNCHANGED Handed
    BY <1>0, <1>3, OwnerKeeps, HandoverStays DEF Kept
  <1>4. ASSUME NEW p \in Procs, (\E t \in Transitions : Start(p, t)) \/ Crash(p)
        PROVE  UNCHANGED Handed
    BY <1>1, <1>4 DEF Start, Crash
  <1>5. ASSUME NEW p \in Procs, Work(p)  PROVE Handover!Next \/ UNCHANGED Handed
    <2>1. Edit(p) \/ UNCHANGED gh
      BY <1>5 DEF Work, View, ListQueue, Resume, Unique, Sole, Conflicts, Ambiguous,
         ViewSuccessor, ViewPredecessor, Recheck, TimedOut, Confirm, ViewAgain,
         HumanRequired, Reads
    <2> QED  BY <1>1, <1>2, <2>1
  <1>6. CASE UNCHANGED vars
    BY <1>1, <1>6 DEF vars
  <1> QED  BY <1>3, <1>4, <1>5, <1>6 DEF Next

\* Every behaviour of one process at a time, which may die at any call, and of the owner
\* is one of PacketHandover: a packet is handed over at most once, by one transition, to
\* one successor, first completed, then followed by a packet that follows nobody else.
THEOREM ImplementsPacketHandover == Solo => (Spec => ImplementsHandover)
  <1> SUFFICES ASSUME Solo  PROVE Spec => ImplementsHandover
    OBVIOUS
  <1>1. Spec => []HandInv
    BY HandInductive
  <1>2. Spec => Handover!Init /\ [][Handover!Next]_Handed
    BY <1>1, HandoverSteps, HandoverBegins, PTL DEF Spec
  <1> QED  BY <1>2 DEF ImplementsHandover, Handover!Spec
===============================================================================
