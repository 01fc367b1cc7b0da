------------------------- MODULE ExactHeadAudit_proofs -------------------------
(***************************************************************************)
(* Theorems about ExactHeadAudit: for any number of hosts, deaths, expired    *)
(* leases and lost answers, a HEAD is sent to the paid auditor at most once,  *)
(* what the ledgers and the budgets say is true, and a budget adds up.        *)
(***************************************************************************)
EXTENDS ExactHeadAudit, Integers, FiniteSetTheorems, WellFoundedInduction, TLAPS

-----------------------------------------------------------------------------
(* What a pass and the documents are made of.                                 *)

IsPass(r) ==
    r = [at |-> r.at, key |-> r.key, month |-> r.month, ledger |-> r.ledger,
         budget |-> r.budget, tried |-> r.tried, asked |-> r.asked,
         result |-> r.result, body |-> r.body]
IsBudget(b) ==
    b = [spent |-> b.spent, slots |-> b.slots] /\ b.slots \in [Keys -> Slots \union {None}]
\* A claim with a verdict has a cost.
PricedClaims == {c \in Claims : c.verdict # None => c.cost \in Nat}
Docs == [Keys -> [claim : PricedClaims \union {None},
                  note : Notes \union {None}]]

\* The steps at which a pass has loaded the ledger, has taken the HEAD on, has found
\* no claim, has a claim to store.
Bare == {"reserve?", "reserve", "claim"}
Deciding == {"claim", "call", "record", "settle?", "settle", "finish"}
Paying == {"budget?"} \union Bare \union Deciding
Knowing == Paying \union {"packet?", "recheck", "edit", "remember"}

TypedPass(r) ==
    /\ IsPass(r) /\ r.at \in Steps
    /\ r.at # "idle" => r.key \in Keys
    /\ r.asked # "no" => r.at \in BudgetPuts \union LedgerPuts
    /\ r.at \in Knowing => r.ledger \in Docs
    /\ r.at \in Paying => r.month \in Months
    /\ r.at \in BudgetPuts => IsBudget(r.budget)
    /\ r.at \in Deciding => r.result \in PricedClaims
    /\ r.at \in {"record", "settle?", "settle", "finish"} => r.result.verdict # None
    /\ r.at \in {"recheck", "edit"} => r.body \in Packets

\* A host that reserves and claims has found no claim, and the claim it will store is
\* its own, or one it has found.
Honest(h, r) ==
    /\ TypedPass(r)
    /\ r.at \in Bare => r.ledger[r.key].claim = None
    /\ r.at \in Deciding =>
          \/ r.result.by = h
          \/ /\ r.ledger[r.key].claim # None
             /\ r.result.by = r.ledger[r.key].claim.by

\* No call was made for the HEAD, and none is about to be.
Untouched(k) ==
    calls[k] = 0 /\ \A h \in Hosts : pass[h].at = "call" => pass[h].key # k

\* One host at most is about to call, and only for a HEAD that was not called for.
OneCaller ==
    \A h \in Hosts : pass[h].at = "call" =>
        /\ calls[pass[h].key] = 0
        /\ \A g \in Hosts : pass[g].at = "call" /\ pass[g].key = pass[h].key => g = h

\* A HEAD without a claim is untouched.
ClaimedFirst == \A k \in Keys : EntryOf(k).claim = None => Untouched(k)

\* A host that found no claim, and by now has the claim of the HEAD, does not know yet
\* that its PUT has landed: the HEAD is untouched.
OwnClaimIsNew ==
    \A h \in Hosts :
        LET k == pass[h].key IN
        /\ pass[h].at \in Knowing
        /\ pass[h].ledger[k].claim = None
        /\ EntryOf(k).claim # None /\ EntryOf(k).claim.by = h
        => Untouched(k)

Shaped ==
    /\ pass = [h \in Hosts |-> pass[h]] /\ \A h \in Hosts : Honest(h, pass[h])
    /\ packet \in [Issues -> Packets] /\ ledger \in [Issues -> Docs]
    /\ budget = [m \in Months |-> budget[m]] /\ \A m \in Months : IsBudget(budget[m])
    /\ month \in Months /\ calls \in [Keys -> Nat]

PaidInv == Shaped /\ OnePaidCall /\ OneCaller /\ ClaimedFirst /\ OwnClaimIsNew

-----------------------------------------------------------------------------
(* A step of one pass that stores no claim and makes no call.                 *)

LEMMA Moves ==
    ASSUME PaidInv, NEW h \in Hosts, NEW r, pass' = [pass EXCEPT ![h] = r],
           Honest(h, r), r.at # "call",
           packet' \in [Issues -> Packets], month' \in Months, calls' = calls,
           ledger' \in [Issues -> Docs],
           budget' = [m \in Months |-> budget'[m]], \A m \in Months : IsBudget(budget'[m]),
           \A k \in Keys : EntryOf(k)'.claim = EntryOf(k).claim,
           r.at \in Knowing =>
              \/ /\ pass[h].at \in Knowing /\ r.key = pass[h].key
                 /\ r.ledger[r.key].claim = pass[h].ledger[r.key].claim
              \/ r.ledger[r.key].claim = EntryOf(r.key).claim
    PROVE  PaidInv'
  <1>1. /\ pass' = [g \in Hosts |-> pass'[g]] /\ pass'[h] = r
        /\ \A g \in Hosts : g # h => pass'[g] = pass[g]
    BY DEF PaidInv, Shaped
  <1>2. Shaped'
    BY <1>1 DEF PaidInv, Shaped, Honest, TypedPass, IsPass, IsBudget
  <1>3. \A k \in Keys : Untouched(k) => Untouched(k)'
    BY <1>1 DEF Untouched
  <1>4. OneCaller' /\ OnePaidCall'
    BY <1>1 DEF PaidInv, OneCaller, OnePaidCall
  <1>5. ClaimedFirst'
    BY <1>3 DEF PaidInv, ClaimedFirst
  <1>6. OwnClaimIsNew'
    <2> SUFFICES ASSUME NEW g \in Hosts, NEW k, k = pass'[g].key,
                        pass'[g].at \in Knowing, pass'[g].ledger[k].claim = None,
                        EntryOf(k)'.claim # None, EntryOf(k)'.claim.by = g
                 PROVE  Untouched(k)'
      BY DEF OwnClaimIsNew
    <2>1. k \in Keys
      BY <1>2 DEF Shaped, Honest, TypedPass, Knowing, Paying, Bare, Deciding
    <2>2. EntryOf(k).claim # None /\ EntryOf(k).claim.by = g
      BY <2>1
    <2>3. pass[g].at \in Knowing /\ pass[g].key = k /\ pass[g].ledger[k].claim = None
      BY <1>1, <2>2
    <2>4. Untouched(k)
      BY <2>2, <2>3 DEF PaidInv, OwnClaimIsNew
    <2> QED  BY <1>3, <2>1, <2>4
  <1> QED  BY <1>2, <1>4, <1>5, <1>6 DEF PaidInv

\* Most of these steps change the pass alone.
LEMMA PassMoves ==
    ASSUME PaidInv, NEW h \in Hosts, NEW r, pass' = [pass EXCEPT ![h] = r],
           Honest(h, r), r.at # "call",
           UNCHANGED <<packet, ledger, budget, calls>>, month' \in Months,
           r.at \in Knowing =>
              \/ /\ pass[h].at \in Knowing /\ r.key = pass[h].key
                 /\ r.ledger[r.key].claim = pass[h].ledger[r.key].claim
              \/ r.ledger[r.key].claim = EntryOf(r.key).claim
    PROVE  PaidInv'
  <1>1. \A k \in Keys : EntryOf(k)'.claim = EntryOf(k).claim
    BY DEF EntryOf
  <1>2. /\ packet' \in [Issues -> Packets] /\ ledger' \in [Issues -> Docs]
        /\ budget' = [m \in Months |-> budget'[m]] /\ \A m \in Months : IsBudget(budget'[m])
    BY DEF PaidInv, Shaped
  <1>3. calls' = calls
    OBVIOUS
  <1> QED  BY <1>1, <1>2, <1>3, Moves

LEMMA Returns ==
    ASSUME PaidInv, NEW h \in Hosts, Return(h),
           UNCHANGED <<packet, ledger, budget, calls>>, month' \in Months
    PROVE  PaidInv'
  <1>1. Honest(h, Idle) /\ Idle.at \notin Knowing /\ Idle.at # "call"
    BY DEF Honest, TypedPass, IsPass, Idle, Steps, Bare, Deciding, Paying, Knowing,
           BudgetPuts
  <1> QED  BY <1>1, PassMoves DEF Return

\* What holds of the pass of a host.
LEMMA PassFacts ==
    ASSUME PaidInv, NEW h \in Hosts
    PROVE  /\ Honest(h, pass[h]) /\ IsPass(pass[h]) /\ pass = [g \in Hosts |-> pass[g]]
           /\ month \in Months
           /\ pass[h].at # "idle" =>
                 Key(h) \in Keys /\ Issue(h) \in Issues /\ EntryOf(Key(h)) = ledger[Issue(h)][Key(h)]
           /\ ledger \in [Issues -> Docs]
  BY DEF PaidInv, Shaped, Honest, TypedPass, Key, Issue, Issues, EntryOf

\* A step to a point where nothing more has to be known than before.
LEMMA GoesTo ==
    ASSUME PaidInv, NEW h \in Hosts, NEW s \in Steps, Goto(h, s),
           UNCHANGED <<packet, ledger, budget, calls>>, month' = month,
           pass[h].at # "idle", pass[h].asked = "no",
           \/ s \notin Knowing
           \/ pass[h].at \in Knowing /\ s \in {"recheck", "remember"} /\ pass[h].body \in Packets
           \/ pass[h].at \in Knowing /\ s = "edit" /\ pass[h].body \in Packets
           \/ pass[h].at \in Knowing /\ s = "remember"
           \/ /\ pass[h].at = "budget?" /\ s = "reserve?"
              /\ pass[h].ledger[pass[h].key].claim = None
    PROVE  PaidInv'
  <1> DEFINE r == [pass[h] EXCEPT !.at = s]
  <1>1. pass' = [pass EXCEPT ![h] = r]
    BY DEF Goto
  <1>2. /\ IsPass(r) /\ r.at = s /\ r.key = pass[h].key /\ r.ledger = pass[h].ledger
        /\ r.month = pass[h].month /\ r.asked = "no" /\ r.body = pass[h].body
    <2>1. IsPass(pass[h])
      BY PassFacts
    <2> QED  BY <2>1 DEF IsPass
  <1>3. TypedPass(pass[h])
    BY PassFacts DEF Honest
  <1> HIDE DEF r
  <1>4. TypedPass(r)
    BY <1>2, <1>3 DEF TypedPass, Knowing, Paying, Bare, Deciding, BudgetPuts, LedgerPuts
  <1>5. Honest(h, r) /\ r.at # "call"
    BY <1>2, <1>4 DEF Honest, Bare, Deciding, Knowing, Paying
  <1>6. month' \in Months
    BY PassFacts
  <1>7. r.at \in Knowing =>
           /\ pass[h].at \in Knowing /\ r.key = pass[h].key
           /\ r.ledger[r.key].claim = pass[h].ledger[r.key].claim
    BY <1>2 DEF Knowing, Paying, Bare
  <1> QED  BY <1>1, <1>5, <1>6, <1>7, PassMoves

\* The world changes, and no pass.
LEMMA Rests ==
    ASSUME PaidInv, UNCHANGED <<pass, ledger, budget, calls>>,
           packet' \in [Issues -> Packets], month' \in Months
    PROVE  PaidInv'
  <1>1. Shaped'
    BY DEF PaidInv, Shaped, Honest, TypedPass, IsPass, IsBudget
  <1>2. \A k \in Keys : EntryOf(k)' = EntryOf(k) /\ (Untouched(k)' <=> Untouched(k))
    BY DEF EntryOf, Untouched
  <1>3. OnePaidCall' /\ OneCaller'
    BY DEF PaidInv, OnePaidCall, OneCaller
  <1>4. ClaimedFirst'
    BY <1>2 DEF PaidInv, ClaimedFirst
  <1>5. OwnClaimIsNew'
    <2> SUFFICES ASSUME NEW g \in Hosts, NEW k, k = pass'[g].key,
                        pass'[g].at \in Knowing, pass'[g].ledger[k].claim = None,
                        EntryOf(k)'.claim # None, EntryOf(k)'.claim.by = g
                 PROVE  Untouched(k)'
      BY DEF OwnClaimIsNew
    <2>1. k \in Keys
      BY <1>1 DEF Shaped, Honest, TypedPass, Knowing, Paying, Bare, Deciding
    <2>2. Untouched(k)
      BY <1>2, <2>1 DEF PaidInv, OwnClaimIsNew
    <2> QED  BY <1>2, <2>1, <2>2
  <1> QED  BY <1>1, <1>3, <1>4, <1>5 DEF PaidInv

LEMMA WorldMoves ==
    ASSUME PaidInv,
           \/ NextMonth
           \/ \E i \in Issues : Commit(i) \/ \E j \in Issues : Switch(i, j)
    PROVE  PaidInv'
  <1>1. packet \in [Issues -> Packets] /\ month \in Months
    BY DEF PaidInv, Shaped
  <1>2. CASE NextMonth
    <2>1. month' \in Months
      BY <1>1, <1>2, AuditAssumption DEF NextMonth, Months
    <2> QED  BY <1>1, <1>2, <2>1, Rests DEF NextMonth, canonical, history
  <1>3. ASSUME NEW i \in Issues, Commit(i)  PROVE PaidInv'
    <2>1. packet' \in [Issues -> Packets]
      <3>1. PICK k \in Keys, left \in {packet[i].handoff, None} :
               packet' = [packet EXCEPT ![i].head = k, ![i].handoff = left]
        BY <1>3 DEF Commit
      <3>2. [packet[i] EXCEPT !.head = k, !.handoff = left] \in Packets
        BY <1>1 DEF Packets
      <3> QED  BY <1>1, <3>1, <3>2
    <2> QED  BY <1>1, <1>3, <2>1, Rests DEF Commit, history
  <1>4. ASSUME NEW i \in Issues, NEW j \in Issues, Switch(i, j)  PROVE PaidInv'
    <2>1. packet' \in [Issues -> Packets]
      <3>1. /\ i # j
            /\ packet' = [packet EXCEPT ![i].active = FALSE, ![j].active = TRUE]
        BY <1>4 DEF Switch
      <3>2. \A p \in Packets : [p EXCEPT !.active = FALSE] \in Packets
                               /\ [p EXCEPT !.active = TRUE] \in Packets
        BY DEF Packets
      <3> QED  BY <1>1, <3>1, <3>2
    <2> QED  BY <1>1, <1>4, <2>1, Rests DEF Switch, history
  <1> QED  BY <1>2, <1>3, <1>4

-----------------------------------------------------------------------------
(* The steps of a pass but for its PUTs.                                      *)

\* Steps that only go on, or end the pass.
LEMMA Walks ==
    ASSUME PaidInv, NEW h \in Hosts,
           \/ LookForClaim(h) \/ CollectEvidence(h) \/ Duplicate(h) \/ Recheck(h) \/ Fail(h)
    PROVE  PaidInv'
  <1>1. UNCHANGED <<packet, ledger, budget, calls>> /\ month' = month /\ month \in Months
    BY PassFacts DEF LookForClaim, CollectEvidence, Duplicate, Recheck, Fail, canonical,
       history, world
  <1>2. TypedPass(pass[h])
    BY PassFacts DEF Honest
  <1>3. CASE Return(h)
    BY <1>1, <1>3, Returns
  <1>4. CASE LookForClaim(h)
    <2>1. pass[h].at = "claim?" /\ pass[h].asked = "no"
          /\ \E s \in {"evidence", "prior?", "ledger?"} : Goto(h, s)
      BY <1>2, <1>4 DEF LookForClaim, TypedPass, BudgetPuts, LedgerPuts
    <2> QED  BY <1>1, <2>1, GoesTo DEF Steps, Knowing, Paying, Bare, Deciding
  <1>5. CASE CollectEvidence(h) /\ ~Return(h)
    <2>1. pass[h].at = "evidence" /\ pass[h].asked = "no" /\ Goto(h, "ledger?")
      BY <1>2, <1>5 DEF CollectEvidence, TypedPass, BudgetPuts, LedgerPuts
    <2> QED  BY <1>1, <2>1, GoesTo DEF Steps, Knowing, Paying, Bare, Deciding
  <1>6. CASE Recheck(h) /\ ~Return(h)
    <2>1. /\ pass[h].at = "recheck" /\ pass[h].asked = "no" /\ Goto(h, "edit")
          /\ pass[h].body \in Packets
      BY <1>2, <1>6 DEF Recheck, TypedPass, BudgetPuts, LedgerPuts
    <2> QED  BY <1>1, <2>1, GoesTo DEF Steps, Knowing
  <1> QED  BY <1>3, <1>4, <1>5, <1>6 DEF Duplicate, Fail

LEMMA Starts ==
    ASSUME PaidInv, NEW h \in Hosts, StartPass(h)
    PROVE  PaidInv'
  <1>1. PICK i \in Issues :
           pass' = [pass EXCEPT ![h] = [Idle EXCEPT !.at = "claim?", !.key = packet[i].head]]
    BY DEF StartPass
  <1> DEFINE r == [Idle EXCEPT !.at = "claim?", !.key = packet[i].head]
  <1>2. /\ IsPass(r) /\ r.at = "claim?" /\ r.key = packet[i].head /\ r.asked = "no"
    <2>1. IsPass(Idle) /\ Idle.asked = "no"
      BY DEF IsPass, Idle
    <2>2. PICK m : m = [Idle EXCEPT !.at = "claim?"]
      OBVIOUS
    <2>3. IsPass(m) /\ m.at = "claim?" /\ m.asked = "no"
      BY <2>1, <2>2 DEF IsPass
    <2>4. r = [m EXCEPT !.key = packet[i].head]
      BY <2>2
    <2> HIDE DEF r
    <2> QED  BY <2>3, <2>4 DEF IsPass
  <1>3. packet[i].head \in Keys
    BY DEF PaidInv, Shaped, Packets
  <1>4. pass' = [pass EXCEPT ![h] = r]
    BY <1>1
  <1> HIDE DEF r
  <1>5. Honest(h, r) /\ r.at \notin Knowing /\ r.at # "call"
    BY <1>2, <1>3 DEF Honest, TypedPass, Steps, Knowing, Paying, Bare, Deciding, BudgetPuts
  <1>6. UNCHANGED <<packet, ledger, budget, calls>> /\ month' \in Months
    BY PassFacts DEF StartPass, canonical, history, world
  <1> QED  BY <1>4, <1>5, <1>6, PassMoves

\* The ledger is loaded: what it says of the HEAD is what is known.
LEMMA Loads ==
    ASSUME PaidInv, NEW h \in Hosts, TakeOn(h) \/ LoadPrior(h)
    PROVE  PaidInv'
  <1>1. UNCHANGED <<packet, ledger, budget, calls>> /\ month' = month /\ month \in Months
    BY PassFacts DEF TakeOn, LoadPrior, canonical, history, world
  <1>2. TypedPass(pass[h]) /\ IsPass(pass[h]) /\ ledger \in [Issues -> Docs]
    BY PassFacts DEF Honest
  <1>3. CASE Return(h)
    BY <1>1, <1>3, Returns
  <1>4. CASE TakeOn(h) \/ (LoadPrior(h) /\ ~Return(h))
    <2>1. PICK r : /\ pass' = [pass EXCEPT ![h] = r]
                   /\ \/ r = [pass[h] EXCEPT !.at = "budget?", !.ledger = ledger[Issue(h)],
                                             !.month = month]
                      \/ r = [pass[h] EXCEPT !.at = "packet?", !.ledger = ledger[Issue(h)]]
      <3>1. CASE TakeOn(h)
        BY <3>1 DEF TakeOn
      <3>2. CASE LoadPrior(h) /\ ~Return(h)
        BY <3>2 DEF LoadPrior
      <3> QED  BY <1>4, <3>1, <3>2
    <2>2. pass[h].at # "idle" /\ pass[h].asked = "no"
      BY <1>2, <1>4 DEF TakeOn, LoadPrior, TypedPass, BudgetPuts, LedgerPuts
    <2>3. /\ IsPass(r) /\ r.at \in {"budget?", "packet?"} /\ r.key = pass[h].key
          /\ r.ledger = ledger[Issue(h)] /\ r.asked = "no"
          /\ r.at = "budget?" => r.month = month
      BY <1>2, <2>1, <2>2 DEF IsPass
    <2>4. Key(h) \in Keys /\ ledger[Issue(h)] \in Docs
          /\ ledger[Issue(h)][Key(h)] = EntryOf(Key(h))
      BY <1>2, <2>2, PassFacts
    <2>5. Honest(h, r) /\ r.at # "call"
      BY <1>1, <2>3, <2>4 DEF Honest, TypedPass, Steps, Paying, Bare, Deciding, Key,
         BudgetPuts
    <2>6. r.ledger[r.key].claim = EntryOf(r.key).claim
      BY <2>3, <2>4 DEF Key
    <2> QED  BY <1>1, <2>1, <2>5, <2>6, PassMoves
  <1> QED  BY <1>3, <1>4 DEF TakeOn, LoadPrior

\* A claim that is closed without a call has a verdict, and keeps its author.
LEMMA ClosedClaims ==
    ASSUME NEW h \in Hosts, NEW c \in PricedClaims \union {None}, pass[h].month \in Months
    PROVE  /\ \A s \in Slots : LET w == WithoutCall(h, c, s) IN
                 /\ w \in PricedClaims /\ w.verdict # None
                 /\ w.by = h \/ (c # None /\ w.by = c.by)
           /\ c # None => LET w == Interrupted(c) IN
                 w \in PricedClaims /\ w.verdict # None /\ w.by = c.by
  <1>1. None \notin Verdicts /\ None \notin PricedClaims
    BY ClaimAssumption DEF PricedClaims
  <1>2. ASSUME NEW s \in Slots
        PROVE  LET w == WithoutCall(h, c, s) IN
                 /\ w \in PricedClaims /\ w.verdict # None
                 /\ w.by = h \/ (c # None /\ w.by = c.by)
    <2>1. s.usd \in Nat
      BY DEF Slots
    <2>2. CASE c = None
      BY <1>1, <2>1, <2>2 DEF WithoutCall, PricedClaims, Claims, Closed, Verdicts
    <2>3. CASE c # None
      <3>1. c.verdict \in Verdicts \union {None} /\ c.by \in Hosts
            /\ c.verdict # None => c.cost \in Nat
        BY <2>3 DEF PricedClaims, Claims
      <3> QED  BY <1>1, <2>1, <2>3, <3>1 DEF WithoutCall, PricedClaims, Claims, Closed,
                  Verdicts
    <2> QED  BY <2>2, <2>3
  <1>3. ASSUME c # None
        PROVE  LET w == Interrupted(c) IN
                 w \in PricedClaims /\ w.verdict # None /\ w.by = c.by
    BY <1>1, <1>3 DEF Interrupted, PricedClaims, Claims, Closed, Verdicts
  <1> QED  BY <1>2, <1>3

LEMMA ReservationIsLookedFor ==
    ASSUME PaidInv, NEW h \in Hosts, LookForReservation(h)
    PROVE  PaidInv'
  <1> DEFINE c == pass[h].ledger[Key(h)].claim
             s == budget[pass[h].month].slots[Key(h)]
  <1>1. UNCHANGED <<packet, ledger, budget, calls>> /\ month' = month /\ month \in Months
    BY PassFacts DEF LookForReservation, canonical, history, world
  <1>2. /\ TypedPass(pass[h]) /\ IsPass(pass[h]) /\ pass[h].at = "budget?"
        /\ pass[h].asked = "no" /\ Key(h) \in Keys /\ pass[h].key = Key(h)
        /\ pass[h].month \in Months /\ pass[h].ledger \in Docs
    BY PassFacts DEF LookForReservation, Honest, TypedPass, BudgetPuts, LedgerPuts, Knowing,
       Paying, Key
  <1>3. c \in PricedClaims \union {None} /\ s \in Slots \union {None}
    BY <1>2 DEF Docs, PaidInv, Shaped, IsBudget
  <1>4. ASSUME NEW w, NEW at \in {"settle?", "finish"}, w \in PricedClaims, w.verdict # None,
               w.by = h \/ (c # None /\ w.by = c.by),
               pass' = [pass EXCEPT ![h].at = at, ![h].result = w]
        PROVE  PaidInv'
    <2>1. PICK r : /\ pass' = [pass EXCEPT ![h] = r]
                   /\ r = [pass[h] EXCEPT !.at = at, !.result = w]
      BY <1>4
    <2>2. /\ IsPass(r) /\ r.at = at /\ r.result = w /\ r.key = Key(h) /\ r.asked = "no"
          /\ r.month = pass[h].month /\ r.ledger = pass[h].ledger
      BY <1>2, <2>1 DEF IsPass
    <2>3. Honest(h, r) /\ r.at # "call"
      BY <1>2, <1>4, <2>2 DEF Honest, TypedPass, Steps, Bare, BudgetPuts
    <2>4. pass[h].at \in Knowing
      BY <1>2 DEF Knowing, Paying
    <2> QED  BY <1>1, <1>2, <2>1, <2>2, <2>3, <2>4, PassMoves
  <1>5. CASE s # None
    <2>1. pass' = [pass EXCEPT ![h].at = "settle?", ![h].result = WithoutCall(h, c, s)]
      BY <1>5 DEF LookForReservation
    <2>2. /\ WithoutCall(h, c, s) \in PricedClaims
          /\ WithoutCall(h, c, s).verdict # None
          /\ \/ WithoutCall(h, c, s).by = h
             \/ c # None /\ WithoutCall(h, c, s).by = c.by
      <3> HIDE DEF c, s
      <3> QED  BY <1>2, <1>3, <1>5, ClosedClaims
    <2> HIDE DEF c, s
    <2> QED  BY <1>4, <2>1, <2>2
  <1>6. CASE s = None /\ c # None
    <2>1. pass' = [pass EXCEPT ![h].at = "finish", ![h].result = Interrupted(c)]
      BY <1>6 DEF LookForReservation
    <2> QED  BY <1>2, <1>3, <1>4, <1>6, <2>1, ClosedClaims
  <1>7. CASE s = None /\ c = None
    <2>1. Goto(h, "reserve?")
      BY <1>7 DEF LookForReservation, Goto
    <2>2. pass[h].at = "budget?" /\ pass[h].ledger[pass[h].key].claim = None
      BY <1>2, <1>7
    <2>3. pass[h].at # "idle" /\ pass[h].asked = "no" /\ "reserve?" \in Steps
      BY <1>2, <2>2 DEF Steps
    <2> HIDE DEF c, s
    <2> QED  BY <1>1, <2>1, <2>2, <2>3, GoesTo
  <1> QED  BY <1>5, <1>6, <1>7

LEMMA BudgetIsLoaded ==
    ASSUME PaidInv, NEW h \in Hosts, LoadToReserve(h) \/ LoadToSettle(h)
    PROVE  PaidInv'
  <1>1. UNCHANGED <<packet, ledger, budget, calls>> /\ month' = month /\ month \in Months
    BY PassFacts DEF LoadToReserve, LoadToSettle, canonical, history, world
  <1>2. /\ Honest(h, pass[h]) /\ TypedPass(pass[h]) /\ IsPass(pass[h])
        /\ pass[h].at \in {"reserve?", "settle?"} /\ pass[h].at \in Knowing
        /\ pass[h].asked = "no" /\ pass[h].key \in Keys
        /\ pass[h].month \in Months /\ pass[h].ledger \in Docs
    BY PassFacts DEF LoadToReserve, LoadToSettle, Honest, TypedPass, BudgetPuts, LedgerPuts,
       Knowing, Paying, Bare, Deciding
  <1>3. IsBudget(budget[pass[h].month])
    BY <1>2 DEF PaidInv, Shaped
  <1>4. CASE Return(h)
    BY <1>1, <1>4, Returns
  <1>5. CASE LoadToReserve(h) /\ ~Return(h)
    <2>1. PICK r : /\ pass' = [pass EXCEPT ![h] = r] /\ pass[h].at = "reserve?"
                   /\ r = [pass[h] EXCEPT !.at = "reserve", !.budget = budget[pass[h].month]]
      BY <1>5 DEF LoadToReserve
    <2>2. /\ IsPass(r) /\ r.at = "reserve" /\ r.budget = budget[pass[h].month]
          /\ r.key = pass[h].key /\ r.asked = "no" /\ r.month = pass[h].month
          /\ r.ledger = pass[h].ledger
      BY <1>2, <2>1 DEF IsPass
    <2>3. Honest(h, r) /\ r.at # "call"
      BY <1>2, <1>3, <2>1, <2>2 DEF Honest, TypedPass, Steps, Bare, Deciding
    <2> QED  BY <1>1, <1>2, <2>1, <2>2, <2>3, PassMoves
  <1>6. CASE LoadToSettle(h)
    <2>0. pass[h].at = "settle?" /\ pass[h].result \in PricedClaims
          /\ pass[h].result.verdict # None
      BY <1>2, <1>6 DEF LoadToSettle, TypedPass, Deciding
    <2> DEFINE w == [pass[h].result EXCEPT !.way = SettledWay(@)]
    <2>1. w \in PricedClaims /\ w.verdict # None /\ w.by = pass[h].result.by
      BY <2>0 DEF PricedClaims, Claims, SettledWay, Open, Closed
    <2>2. PICK r : /\ pass' = [pass EXCEPT ![h] = r]
                   /\ \/ r = [pass[h] EXCEPT !.at = "finish", !.tried = FALSE, !.result = w]
                      \/ r = [pass[h] EXCEPT !.at = "settle",
                                             !.budget = budget[pass[h].month]]
      <3>1. CASE budget[pass[h].month].slots[Key(h)].settled
        <4> DEFINE r == [pass[h] EXCEPT !.at = "finish", !.tried = FALSE, !.result = w]
        <4>1. pass' = [pass EXCEPT ![h].at = "finish", ![h].tried = FALSE,
                                   ![h].result.way = SettledWay(@)]
          BY <1>6, <3>1 DEF LoadToSettle
        <4>2. pass' = [pass EXCEPT ![h] = r]
          BY <1>2, <4>1 DEF IsPass
        <4> QED  BY <4>2
      <3>2. CASE ~budget[pass[h].month].slots[Key(h)].settled
        BY <1>6, <3>2 DEF LoadToSettle
      <3> QED  BY <3>1, <3>2
    <2> HIDE DEF w
    <2>3. /\ IsPass(r) /\ r.key = pass[h].key /\ r.asked = "no" /\ r.month = pass[h].month
          /\ r.ledger = pass[h].ledger
          /\ \/ r.at = "finish" /\ r.result = w
             \/ /\ r.at = "settle" /\ r.result = pass[h].result
                /\ r.budget = budget[pass[h].month]
      BY <1>2, <2>2 DEF IsPass
    <2>4. Honest(h, r) /\ r.at # "call"
      BY <1>2, <1>3, <2>0, <2>1, <2>3
         DEF Honest, TypedPass, Steps, Bare, Deciding, BudgetPuts
    <2> QED  BY <1>1, <1>2, <2>2, <2>3, <2>4, PassMoves
  <1> QED  BY <1>4, <1>5, <1>6

LEMMA PacketIsLoaded ==
    ASSUME PaidInv, NEW h \in Hosts, LoadPacket(h)
    PROVE  PaidInv'
  <1>1. UNCHANGED <<packet, ledger, budget, calls>> /\ month' = month /\ month \in Months
    BY PassFacts DEF LoadPacket, canonical, history, world
  <1>2. /\ TypedPass(pass[h]) /\ IsPass(pass[h]) /\ pass[h].at = "packet?"
        /\ pass[h].asked = "no" /\ pass[h].key \in Keys /\ pass[h].ledger \in Docs
        /\ packet[Issue(h)] \in Packets
    BY PassFacts
       DEF LoadPacket, Honest, TypedPass, BudgetPuts, LedgerPuts, Knowing, PaidInv, Shaped
  <1>3. CASE Return(h)
    BY <1>1, <1>3, Returns
  <1>4. CASE Goto(h, "remember")
    BY <1>1, <1>2, <1>4, GoesTo DEF Steps, Knowing
  <1>5. CASE pass' = [pass EXCEPT ![h].at = "recheck", ![h].body = packet[Issue(h)]]
    <2>1. PICK r : /\ pass' = [pass EXCEPT ![h] = r]
                   /\ r = [pass[h] EXCEPT !.at = "recheck", !.body = packet[Issue(h)]]
      BY <1>5
    <2>2. /\ IsPass(r) /\ r.at = "recheck" /\ r.body = packet[Issue(h)]
          /\ r.key = pass[h].key /\ r.asked = "no" /\ r.ledger = pass[h].ledger
      BY <1>2, <2>1 DEF IsPass
    <2>3. Honest(h, r) /\ r.at # "call"
      BY <1>2, <2>2 DEF Honest, TypedPass, Steps, Paying, Bare, Deciding, BudgetPuts
    <2>4. pass[h].at \in Knowing
      BY <1>2 DEF Knowing
    <2> QED  BY <1>1, <1>2, <2>1, <2>2, <2>3, <2>4, PassMoves
  <1> QED  BY <1>3, <1>4, <1>5 DEF LoadPacket

LEMMA PacketIsEdited ==
    ASSUME PaidInv, NEW h \in Hosts, EditPacket(h)
    PROVE  PaidInv'
  <1>1. UNCHANGED <<ledger, budget, calls>> /\ month' = month /\ month \in Months
    BY PassFacts DEF EditPacket, world
  <1>2. /\ TypedPass(pass[h]) /\ IsPass(pass[h]) /\ pass[h].at = "edit"
        /\ pass[h].asked = "no" /\ pass[h].key \in Keys /\ pass[h].ledger \in Docs
        /\ pass[h].body \in Packets /\ pass[h].at \in Knowing
    BY PassFacts DEF EditPacket, Honest, TypedPass, BudgetPuts, LedgerPuts, Knowing
  <1>3. PICK r : /\ pass' = [pass EXCEPT ![h] = r]
                 /\ r = [pass[h] EXCEPT !.at = "remember"]
    BY DEF EditPacket, Goto
  <1>4. /\ IsPass(r) /\ r.at = "remember" /\ r.key = pass[h].key /\ r.asked = "no"
        /\ r.ledger = pass[h].ledger
    BY <1>2, <1>3 DEF IsPass
  <1>5. Honest(h, r) /\ r.at # "call"
    BY <1>2, <1>4 DEF Honest, TypedPass, Steps, Paying, Bare, Deciding, BudgetPuts
  <1>6. packet' \in [Issues -> Packets]
    <2>1. [pass[h].body EXCEPT !.handoff = Key(h)] \in Packets
      BY <1>2 DEF Packets, Key
    <2> QED  BY <2>1 DEF EditPacket, PaidInv, Shaped
  <1>7. /\ ledger' \in [Issues -> Docs] /\ budget' = [m \in Months |-> budget'[m]]
        /\ \A m \in Months : IsBudget(budget'[m])
        /\ \A k \in Keys : EntryOf(k)'.claim = EntryOf(k).claim
    BY <1>1 DEF PaidInv, Shaped, EntryOf
  <1> QED  BY <1>1, <1>2, <1>3, <1>4, <1>5, <1>6, <1>7, Moves

\* The one paid call of a HEAD: it has a claim, and no host that found none.
LEMMA Calls ==
    ASSUME PaidInv, NEW h \in Hosts, Call(h)
    PROVE  PaidInv'
  <1>1. UNCHANGED <<packet, ledger, budget>> /\ month' = month /\ month \in Months
    BY PassFacts DEF Call, canonical, world
  <1>2. /\ TypedPass(pass[h]) /\ IsPass(pass[h]) /\ pass[h].at = "call"
        /\ pass[h].asked = "no" /\ Key(h) \in Keys /\ pass[h].key = Key(h)
        /\ pass[h].ledger \in Docs /\ pass[h].month \in Months
        /\ pass[h].result \in PricedClaims /\ pass[h].at \in Knowing /\ Honest(h, pass[h])
    BY PassFacts
       DEF Call, Honest, TypedPass, BudgetPuts, LedgerPuts, Knowing, Paying, Deciding, Key
  <1>3. CASE RequireIdentity
    BY <1>1, <1>3, Returns DEF Call
  <1>4. CASE ~RequireIdentity
    <2>1. PICK v \in Answers, usd \in Costs :
             /\ calls' = [calls EXCEPT ![Key(h)] = @ + 1]
             /\ pass' = [pass EXCEPT ![h].at = "record",
                   ![h].result = [@ EXCEPT !.way = "recorded", !.verdict = v, !.cost = usd]]
      BY <1>4 DEF Call
    <2> DEFINE w == [pass[h].result EXCEPT !.way = "recorded", !.verdict = v, !.cost = usd]
    <2>2. w \in PricedClaims /\ w.verdict # None /\ w.by = pass[h].result.by
      <3>1. v \in Verdicts /\ v # None /\ usd \in Nat
        BY AuditAssumption, ClaimAssumption
      <3> QED  BY <1>2, <3>1 DEF PricedClaims, Claims, Open
    <2>3. PICK r : /\ pass' = [pass EXCEPT ![h] = r]
                   /\ r = [pass[h] EXCEPT !.at = "record", !.result = w]
      <3> DEFINE r == [pass[h] EXCEPT !.at = "record", !.result = w]
      <3>1. pass' = [pass EXCEPT ![h] = r]
        BY <1>2, <2>1 DEF IsPass
      <3> QED  BY <3>1
    <2> HIDE DEF w
    <2>4. /\ IsPass(r) /\ r.at = "record" /\ r.result = w /\ r.key = Key(h)
          /\ r.asked = "no" /\ r.month = pass[h].month /\ r.ledger = pass[h].ledger
      BY <1>2, <2>3 DEF IsPass
    <2>5. Honest(h, r)
      BY <1>2, <2>2, <2>4 DEF Honest, TypedPass, Steps, Bare, Deciding, BudgetPuts
    <2>6. /\ pass' = [g \in Hosts |-> pass'[g]] /\ pass'[h] = r
          /\ \A g \in Hosts : g # h => pass'[g] = pass[g]
      BY <2>3, PassFacts
    <2>7. /\ calls \in [Keys -> Nat] /\ calls[Key(h)] = 0
          /\ \A g \in Hosts : pass[g].at = "call" /\ pass[g].key = Key(h) => g = h
      BY <1>2 DEF PaidInv, Shaped, OneCaller
    <2>8. /\ calls' \in [Keys -> Nat] /\ calls'[Key(h)] = 1
          /\ \A k \in Keys : k # Key(h) => calls'[k] = calls[k]
      BY <1>2, <2>1, <2>7
    <2>9. Shaped'
      BY <1>1, <2>5, <2>6, <2>8 DEF PaidInv, Shaped, Honest, TypedPass, IsPass, IsBudget
    <2>10. OnePaidCall'
      BY <2>8 DEF PaidInv, OnePaidCall
    <2>11. OneCaller'
      <3> SUFFICES ASSUME NEW g \in Hosts, pass'[g].at = "call"
                   PROVE  /\ calls'[pass'[g].key] = 0
                          /\ \A f \in Hosts :
                                pass'[f].at = "call" /\ pass'[f].key = pass'[g].key => f = g
        BY DEF OneCaller
      <3>1. g # h /\ pass'[g] = pass[g]
        BY <2>4, <2>6
      <3>2. pass[g].key \in Keys /\ pass[g].key # Key(h)
        BY <2>7, <3>1, PassFacts DEF Key
      <3>3. calls'[pass[g].key] = 0
        BY <2>8, <3>1, <3>2 DEF PaidInv, OneCaller
      <3>4. \A f \in Hosts : pass'[f].at = "call" => pass'[f] = pass[f]
        BY <2>4, <2>6
      <3> QED  BY <3>1, <3>3, <3>4 DEF PaidInv, OneCaller
    <2>12. \A k \in Keys : Untouched(k) => Untouched(k)'
      BY <1>2, <2>4, <2>6, <2>8 DEF Untouched
    <2>13. \A k \in Keys : EntryOf(k)' = EntryOf(k)
      BY <1>1 DEF EntryOf
    <2>14. ClaimedFirst'
      BY <2>12, <2>13 DEF PaidInv, ClaimedFirst
    <2>15. OwnClaimIsNew'
      <3> SUFFICES ASSUME NEW g \in Hosts, NEW k, k = pass'[g].key,
                          pass'[g].at \in Knowing, pass'[g].ledger[k].claim = None,
                          EntryOf(k)'.claim # None, EntryOf(k)'.claim.by = g
                   PROVE  Untouched(k)'
        BY DEF OwnClaimIsNew
      <3>1. k \in Keys
        BY <2>9 DEF Shaped, Honest, TypedPass, Knowing, Paying, Bare, Deciding
      <3>2. EntryOf(k).claim # None /\ EntryOf(k).claim.by = g
        BY <2>13, <3>1
      <3>3. pass[g].at \in Knowing /\ pass[g].key = k /\ pass[g].ledger[k].claim = None
        BY <1>2, <2>4, <2>6
      <3>4. Untouched(k)
        BY <3>2, <3>3 DEF PaidInv, OwnClaimIsNew
      <3> QED  BY <2>12, <3>1, <3>4
    <2> QED  BY <2>9, <2>10, <2>11, <2>14, <2>15 DEF PaidInv
  <1> QED  BY <1>3, <1>4

-----------------------------------------------------------------------------
(* The PUTs of a pass.                                                        *)

\* What holds of a pass that has a document to store.
LEMMA PutFacts ==
    ASSUME PaidInv, NEW h \in Hosts, pass[h].at \in BudgetPuts \union LedgerPuts
    PROVE  /\ Honest(h, pass[h]) /\ TypedPass(pass[h]) /\ IsPass(pass[h])
           /\ pass[h].at \in Knowing /\ pass[h].key = Key(h) /\ Key(h) \in Keys
           /\ Issue(h) \in Issues /\ pass[h].ledger \in Docs
           /\ EntryOf(Key(h)) = ledger[Issue(h)][Key(h)]
           /\ pass[h].at # "remember" =>
                 /\ pass[h].month \in Months
                 /\ pass[h].at # "reserve" => pass[h].result \in PricedClaims
           /\ pass[h].at = "claim" =>
                 pass[h].ledger[Key(h)].claim = None /\ pass[h].result.by = h
           /\ pass[h].at = "reserve" => pass[h].ledger[Key(h)].claim = None
           /\ month \in Months
  <1>1. /\ Honest(h, pass[h]) /\ IsPass(pass[h]) /\ Key(h) \in Keys /\ Issue(h) \in Issues
        /\ EntryOf(Key(h)) = ledger[Issue(h)][Key(h)] /\ month \in Months
    BY PassFacts DEF BudgetPuts, LedgerPuts
  <1>2. TypedPass(pass[h])
    BY <1>1 DEF Honest
  <1>3. pass[h].at \in Knowing /\ pass[h].ledger \in Docs /\ pass[h].key = Key(h)
    BY <1>2 DEF TypedPass, Knowing, Paying, Bare, Deciding, BudgetPuts, LedgerPuts, Key
  <1>4. pass[h].at # "remember" =>
           /\ pass[h].month \in Months
           /\ pass[h].at # "reserve" => pass[h].result \in PricedClaims
    BY <1>2 DEF TypedPass, Paying, Bare, Deciding, BudgetPuts, LedgerPuts
  <1>5. /\ pass[h].at \in {"claim", "reserve"} => pass[h].ledger[Key(h)].claim = None
        /\ pass[h].at = "claim" => pass[h].result.by = h
    BY <1>1, <1>3 DEF Honest, Bare, Deciding
  <1> QED  BY <1>1, <1>2, <1>3, <1>4, <1>5

\* What a ledger becomes.
LEMMA LedgerWanted ==
    ASSUME PaidInv, NEW h \in Hosts, pass[h].at \in LedgerPuts
    PROVE  /\ Wanted(h) \in Docs
           /\ \A k \in Keys \ {Key(h)} : Wanted(h)[k] = pass[h].ledger[k]
           /\ Wanted(h)[Key(h)].claim =
                IF pass[h].at = "remember" THEN pass[h].ledger[Key(h)].claim
                ELSE pass[h].result
  <1>1. /\ Key(h) \in Keys /\ pass[h].ledger \in Docs
        /\ pass[h].at # "remember" => pass[h].result \in PricedClaims
    BY PutFacts DEF LedgerPuts
  <1>2. CASE pass[h].at = "remember"
    <2>1. PICK n \in {"rework_handoff", "human_required"} :
             Wanted(h) = [pass[h].ledger EXCEPT ![Key(h)].note = n]
      BY <1>2 DEF Wanted
    <2> QED  BY <1>1, <1>2, <2>1 DEF Docs, Notes
  <1>3. CASE pass[h].at # "remember"
    <2>1. Wanted(h) = [pass[h].ledger EXCEPT ![Key(h)].claim = pass[h].result]
      BY <1>3 DEF Wanted, LedgerPuts
    <2> QED  BY <1>1, <1>3, <2>1 DEF Docs
  <1> QED  BY <1>2, <1>3

\* What a budget becomes.
LEMMA BudgetWanted ==
    ASSUME PaidInv, NEW h \in Hosts, pass[h].at \in BudgetPuts
    PROVE  IsBudget(Wanted(h))
  <1>1. /\ Key(h) \in Keys /\ TypedPass(pass[h]) /\ IsBudget(pass[h].budget)
        /\ pass[h].budget.slots \in [Keys -> Slots \union {None}]
    BY PutFacts DEF TypedPass, IsBudget
  <1>2. CASE pass[h].at = "reserve"
    <2>1. Reserved \in Slots
      BY AuditAssumption DEF Reserved, Slots
    <2>2. [pass[h].budget.slots EXCEPT ![Key(h)] = Reserved] \in [Keys -> Slots \union {None}]
      BY <1>1, <2>1
    <2> QED  BY <1>2, <2>2 DEF Wanted, IsBudget
  <1>3. CASE pass[h].at = "settle"
    <2>1. pass[h].result.cost \in Nat
      BY <1>1, <1>3 DEF TypedPass, PricedClaims, Deciding
    <2>2. [usd |-> pass[h].result.cost, settled |-> TRUE] \in Slots
      BY <2>1 DEF Slots
    <2>3. [pass[h].budget.slots EXCEPT ![Key(h)] =
             [usd |-> pass[h].result.cost, settled |-> TRUE]] \in [Keys -> Slots \union {None}]
      BY <1>1, <2>2
    <2> QED  BY <1>3, <2>3 DEF Wanted, IsBudget
  <1> QED  BY <1>2, <1>3 DEF BudgetPuts

\* What the documents are when one is replaced.
LEMMA Stores ==
    ASSUME PaidInv, NEW h \in Hosts, pass[h].at \in BudgetPuts \union LedgerPuts,
           NEW c, c = Key(h),
           Current(h) = Loaded(h), Store(h)
    PROVE  /\ ledger' \in [Issues -> Docs]
           /\ budget' = [m \in Months |-> budget'[m]] /\ \A m \in Months : IsBudget(budget'[m])
           /\ \A k \in Keys \ {c} : EntryOf(k)'.claim = EntryOf(k).claim
           /\ pass[h].at \in BudgetPuts \union {"remember"} =>
                 EntryOf(c)'.claim = EntryOf(c).claim
           /\ pass[h].at \in {"claim", "record", "finish"} =>
                 /\ EntryOf(c)'.claim = pass[h].result
                 /\ pass[h].ledger[c].claim = EntryOf(c).claim
  <1>1. /\ c \in Keys /\ Issue(h) \in Issues /\ ledger \in [Issues -> Docs]
        /\ Issue(h) = IssueOf[c]
        /\ budget = [m \in Months |-> budget[m]] /\ \A m \in Months : IsBudget(budget[m])
    BY PutFacts DEF PaidInv, Shaped, Issue, Key
  <1>2. CASE pass[h].at \in BudgetPuts
    <2>1. ledger' = ledger /\ budget' = [budget EXCEPT ![pass[h].month] = Wanted(h)]
      BY <1>2 DEF Store
    <2>2. IsBudget(Wanted(h))
      BY <1>2, BudgetWanted
    <2>3. budget' = [m \in Months |-> budget'[m]] /\ \A m \in Months : IsBudget(budget'[m])
      BY <1>1, <2>1, <2>2
    <2>4. \A k \in Keys : EntryOf(k)' = EntryOf(k)
      BY <2>1 DEF EntryOf
    <2> QED  BY <1>1, <1>2, <2>1, <2>3, <2>4 DEF BudgetPuts
  <1>3. CASE pass[h].at \in LedgerPuts
    <2>0. pass[h].at \notin BudgetPuts
      BY <1>3 DEF BudgetPuts, LedgerPuts
    <2>1. budget' = budget /\ ledger' = [ledger EXCEPT ![Issue(h)] = Wanted(h)]
      BY <2>0 DEF Store
    <2>2. ledger[Issue(h)] = pass[h].ledger
      BY <2>0 DEF Current, Loaded
    <2>3. /\ Wanted(h) \in Docs
          /\ \A k \in Keys \ {c} : Wanted(h)[k] = pass[h].ledger[k]
          /\ Wanted(h)[c].claim =
               IF pass[h].at = "remember" THEN pass[h].ledger[c].claim
               ELSE pass[h].result
      BY <1>3, LedgerWanted
    <2>4. ledger' \in [Issues -> Docs]
      BY <1>1, <2>1, <2>3
    <2>5. /\ \A k \in Keys \ {c} : EntryOf(k)' = EntryOf(k)
          /\ EntryOf(c) = pass[h].ledger[c]
          /\ ledger'[IssueOf[c]][c] = Wanted(h)[c]
      <3>1. \A k \in Keys : IssueOf[k] \in Issues
        BY DEF Issues
      <3> QED  BY <1>1, <2>1, <2>2, <2>3, <3>1 DEF EntryOf
    <2>6. \A k \in Keys : ledger'[IssueOf[k]][k] = EntryOf(k)'
      BY DEF EntryOf
    <2>7. EntryOf(c)'.claim = Wanted(h)[c].claim
      BY <1>1, <2>5, <2>6
    <2> QED  BY <1>1, <1>3, <2>0, <2>1, <2>3, <2>4, <2>5, <2>7 DEF LedgerPuts
  <1> QED  BY <1>2, <1>3

\* The host h, which goes on to r, has the claim of its HEAD k stored, or learns that
\* it is, or may call at last; the claims of other HEADs stay.
Carries(h, r, k) ==
    IF k # pass[h].key THEN EntryOf(k)'.claim = EntryOf(k).claim
    ELSE /\ EntryOf(k)'.claim # None
         /\ \/ EntryOf(k)'.claim.by = h
            \/ /\ EntryOf(k).claim # None /\ r.at # "call"
               /\ EntryOf(k)'.claim.by = EntryOf(k).claim.by
         /\ r.at = "call" => r.key = k /\ Untouched(k)
         /\ r.at \in Knowing =>
               /\ r.key = k
               /\ (r.ledger[k].claim # None) \/ (r.at # "call" /\ EntryOf(k).claim = None)

LEMMA Writes ==
    ASSUME PaidInv, NEW h \in Hosts, NEW r, pass' = [pass EXCEPT ![h] = r], Honest(h, r),
           packet' = packet, month' \in Months, calls' = calls,
           ledger' \in [Issues -> Docs],
           budget' = [m \in Months |-> budget'[m]], \A m \in Months : IsBudget(budget'[m]),
           pass[h].key \in Keys,
           \A k \in Keys : Carries(h, r, k)
    PROVE  PaidInv'
  <1>c. PICK c \in Keys : c = pass[h].key
    OBVIOUS
  <1>0. PICK w :
          /\ w # None /\ EntryOf(c)'.claim = w
          /\ \A k \in Keys \ {c} : EntryOf(k)'.claim = EntryOf(k).claim
          /\ w.by = h \/ (EntryOf(c).claim # None /\ w.by = EntryOf(c).claim.by)
          /\ r.at = "call" => r.key = c /\ Untouched(c) /\ w.by = h
          /\ r.at \in Knowing =>
                r.key = c /\ (r.ledger[c].claim # None \/ (r.at # "call" /\ EntryOf(c).claim = None))
    <2>1. PICK w : w = EntryOf(c)'.claim
      OBVIOUS
    <2> QED  BY <1>c, <2>1 DEF Carries
  <1>1. /\ pass' = [g \in Hosts |-> pass'[g]] /\ pass'[h] = r
        /\ \A g \in Hosts : g # h => pass'[g] = pass[g]
    BY DEF PaidInv, Shaped
  <1>2. Shaped'
    BY <1>1 DEF PaidInv, Shaped, Honest, TypedPass, IsPass, IsBudget
  <1>3. OnePaidCall'
    BY DEF PaidInv, OnePaidCall
  <1>4. \A k \in Keys : k # c \/ r.at # "call" => (Untouched(k) => Untouched(k)')
    BY <1>0, <1>1 DEF Untouched
  <1>5. OneCaller'
    <2>1. ASSUME NEW g \in Hosts, pass'[g].at = "call", g # h
          PROVE  /\ calls'[pass'[g].key] = 0
                 /\ \A f \in Hosts :
                       pass'[f].at = "call" /\ pass'[f].key = pass'[g].key => f = g
      <3>1. pass[g].at = "call" /\ pass'[g] = pass[g]
        BY <1>1, <2>1
      <3>2. r.at = "call" => pass[g].key # r.key
        BY <1>0, <3>1 DEF Untouched
      <3> QED  BY <1>1, <3>1, <3>2 DEF PaidInv, OneCaller
    <2>2. ASSUME r.at = "call"
          PROVE  /\ calls'[r.key] = 0
                 /\ \A f \in Hosts : pass'[f].at = "call" /\ pass'[f].key = r.key => f = h
      BY <1>0, <1>1, <2>2 DEF Untouched
    <2> QED  BY <1>1, <2>1, <2>2 DEF OneCaller
  <1>6. ClaimedFirst'
    <2> SUFFICES ASSUME NEW k \in Keys, EntryOf(k)'.claim = None  PROVE Untouched(k)'
      BY DEF ClaimedFirst
    <2>1. k # c /\ EntryOf(k).claim = None
      BY <1>0
    <2> QED  BY <1>4, <2>1 DEF PaidInv, ClaimedFirst
  <1>7. OwnClaimIsNew'
    <2> SUFFICES ASSUME NEW g \in Hosts, NEW k, k = pass'[g].key,
                        pass'[g].at \in Knowing, pass'[g].ledger[k].claim = None,
                        EntryOf(k)'.claim # None, EntryOf(k)'.claim.by = g
                 PROVE  Untouched(k)'
      BY DEF OwnClaimIsNew
    <2>1. k \in Keys
      BY <1>2 DEF Shaped, Honest, TypedPass, Knowing, Paying, Bare, Deciding
    <2>2. CASE g = h
      <3>1. k = c /\ r.at # "call" /\ EntryOf(c).claim = None
        BY <1>0, <1>1, <2>2
      <3> QED  BY <1>4, <3>1 DEF PaidInv, ClaimedFirst
    <2>3. CASE g # h
      <3>1. pass'[g] = pass[g]
        BY <1>1, <2>3
      <3>2. EntryOf(k).claim # None /\ EntryOf(k).claim.by = g
        BY <1>0, <2>1, <2>3
      <3>3. Untouched(k)
        BY <3>1, <3>2 DEF PaidInv, OwnClaimIsNew
      <3>4. ~(k = c /\ r.at = "call")
        BY <1>0, <2>3, <3>2
      <3> QED  BY <1>4, <2>1, <3>3, <3>4
    <2> QED  BY <2>2, <2>3
  <1> QED  BY <1>2, <1>3, <1>5, <1>6, <1>7 DEF PaidInv

\* Where a pass goes whose document is stored.
LEMMA GoesOn ==
    ASSUME PaidInv, NEW h \in Hosts, pass[h].at \in BudgetPuts \union LedgerPuts, Stored(h)
    PROVE  \E r :
             /\ pass' = [pass EXCEPT ![h] = r] /\ Honest(h, r)
             /\ pass[h].at \in {"finish", "remember"} => r = Idle
             /\ pass[h].at \in {"reserve", "settle"} =>
                   /\ r.at \in {"claim", "finish"} /\ r.key = Key(h)
                   /\ r.ledger = pass[h].ledger
             /\ pass[h].at \in {"claim", "record"} =>
                   /\ r.at = (IF pass[h].at = "claim" THEN "call" ELSE "settle?")
                   /\ r.key = Key(h) /\ r.ledger[Key(h)].claim = pass[h].result
  <1>1. /\ Honest(h, pass[h]) /\ TypedPass(pass[h]) /\ IsPass(pass[h])
        /\ pass[h].key = Key(h) /\ Key(h) \in Keys /\ pass[h].ledger \in Docs
    BY PutFacts
  <1>2. CASE pass[h].at \in {"finish", "remember"}
    <2>1. pass' = [pass EXCEPT ![h] = Idle]
      BY <1>2 DEF Stored
    <2>2. Honest(h, Idle)
      BY DEF Honest, TypedPass, IsPass, Idle, Steps, Bare, Deciding, Paying, Knowing,
             BudgetPuts
    <2> QED  BY <1>2, <2>1, <2>2
  <1>3. CASE pass[h].at \in {"claim", "record"}
    <2> DEFINE s == IF pass[h].at = "claim" THEN "call" ELSE "settle?"
    <2>1. PICK r : /\ pass' = [pass EXCEPT ![h] = r]
                   /\ r = [pass[h] EXCEPT !.at = s, !.asked = "no", !.tried = FALSE,
                                          !.budget = None, !.ledger = Wanted(h)]
      <3> DEFINE m == [pass[h] EXCEPT !.at = s, !.asked = "no", !.tried = FALSE,
                                      !.budget = None]
                 r == [m EXCEPT !.ledger = Wanted(h)]
      <3>1. pass' = [pass EXCEPT ![h] = r]
        BY <1>3 DEF Stored
      <3>2. r = [pass[h] EXCEPT !.at = s, !.asked = "no", !.tried = FALSE,
                                !.budget = None, !.ledger = Wanted(h)]
        BY <1>1 DEF IsPass
      <3> QED  BY <3>1, <3>2
    <2> HIDE DEF s
    <2>2. /\ IsPass(r) /\ r.at = s /\ r.asked = "no" /\ r.ledger = Wanted(h)
          /\ r.key = pass[h].key /\ r.month = pass[h].month /\ r.result = pass[h].result
      BY <1>1, <2>1 DEF IsPass
    <2>3. Wanted(h) \in Docs /\ Wanted(h)[Key(h)].claim = pass[h].result
      BY <1>3, LedgerWanted DEF LedgerPuts
    <2>4. /\ pass[h].result \in PricedClaims /\ pass[h].month \in Months
          /\ pass[h].result # None
      BY <1>1, <1>3, ClaimAssumption DEF TypedPass, Deciding, Paying, PricedClaims
    <2>5. TypedPass(r)
      BY <1>1, <1>3, <2>2, <2>3, <2>4
         DEF TypedPass, Steps, Deciding, Paying, BudgetPuts, s
    <2>6. Honest(h, r)
      BY <1>1, <1>3, <2>2, <2>3, <2>4, <2>5 DEF Honest, Bare, s
    <2> QED  BY <1>1, <1>3, <2>1, <2>2, <2>3, <2>6 DEF s
  <1>4. CASE pass[h].at = "reserve"
    <2>1. PICK r : /\ pass' = [pass EXCEPT ![h] = r]
                   /\ r = [pass[h] EXCEPT !.at = "claim", !.asked = "no", !.tried = FALSE,
                                          !.budget = None, !.result = NewClaim(h)]
      <3> DEFINE m == [pass[h] EXCEPT !.at = "claim", !.asked = "no", !.tried = FALSE,
                                      !.budget = None]
                 r == [m EXCEPT !.result = NewClaim(h)]
      <3>1. pass' = [pass EXCEPT ![h] = r]
        BY <1>4 DEF Stored
      <3>2. r = [pass[h] EXCEPT !.at = "claim", !.asked = "no", !.tried = FALSE,
                                !.budget = None, !.result = NewClaim(h)]
        BY <1>1 DEF IsPass
      <3> QED  BY <3>1, <3>2
    <2>2. /\ IsPass(r) /\ r.at = "claim" /\ r.asked = "no" /\ r.ledger = pass[h].ledger
          /\ r.key = pass[h].key /\ r.month = pass[h].month /\ r.result = NewClaim(h)
      BY <1>1, <2>1 DEF IsPass
    <2>3. pass[h].month \in Months
      BY <1>1, <1>4 DEF TypedPass, Paying, Bare
    <2>4. NewClaim(h) \in PricedClaims /\ NewClaim(h).by = h
      BY <2>3 DEF NewClaim, PricedClaims, Claims, Open
    <2>5. Honest(h, r)
      BY <1>1, <1>4, <2>2, <2>3, <2>4 DEF Honest, TypedPass, Steps, Bare, Deciding, Paying,
         BudgetPuts
    <2> QED  BY <1>1, <1>4, <2>1, <2>2, <2>5
  <1>5. CASE pass[h].at = "settle"
    <2> DEFINE w == [pass[h].result EXCEPT !.way = SettledWay(@)]
    <2>1. /\ pass[h].result \in PricedClaims /\ pass[h].result.verdict # None
          /\ pass[h].month \in Months
      BY <1>1, <1>5 DEF TypedPass, Deciding, Paying
    <2>2. w \in PricedClaims /\ w.verdict # None /\ w.by = pass[h].result.by
      BY <2>1 DEF PricedClaims, Claims, SettledWay, Open, Closed
    <2>3. PICK r : /\ pass' = [pass EXCEPT ![h] = r]
                   /\ r = [pass[h] EXCEPT !.at = "finish", !.asked = "no", !.tried = FALSE,
                                          !.budget = None, !.result = w]
      <3> DEFINE m == [pass[h] EXCEPT !.at = "finish", !.asked = "no", !.tried = FALSE,
                                      !.budget = None]
                 r == [m EXCEPT !.result.way = SettledWay(@)]
      <3>1. pass' = [pass EXCEPT ![h] = r]
        BY <1>5 DEF Stored
      <3>2. r = [pass[h] EXCEPT !.at = "finish", !.asked = "no", !.tried = FALSE,
                                !.budget = None, !.result = w]
        BY <1>1 DEF IsPass
      <3> QED  BY <3>1, <3>2
    <2> HIDE DEF w
    <2>4. /\ IsPass(r) /\ r.at = "finish" /\ r.asked = "no" /\ r.ledger = pass[h].ledger
          /\ r.key = pass[h].key /\ r.month = pass[h].month /\ r.result = w
      BY <1>1, <2>3 DEF IsPass
    <2>5. Honest(h, r)
      BY <1>1, <1>5, <2>1, <2>2, <2>4 DEF Honest, TypedPass, Steps, Bare, Deciding, BudgetPuts
    <2> QED  BY <1>1, <1>5, <2>3, <2>4, <2>5
  <1> QED  BY <1>2, <1>3, <1>4, <1>5 DEF BudgetPuts, LedgerPuts

LEMMA Lands ==
    ASSUME PaidInv, NEW h \in Hosts, PutLands(h)
    PROVE  PaidInv'
  <1>0. /\ pass[h].at \in BudgetPuts \union LedgerPuts
        /\ Current(h) = Loaded(h) /\ Store(h) /\ Stored(h)
        /\ packet' = packet /\ calls' = calls /\ month' = month
    BY DEF PutLands, Asking, history, world
  <1>1. PICK c : c = Key(h)
    OBVIOUS
  <1>2. /\ c \in Keys /\ pass[h].key = c /\ pass[h].at \in Knowing /\ Honest(h, pass[h])
        /\ TypedPass(pass[h])
        /\ pass[h].at = "claim" => pass[h].ledger[c].claim = None /\ pass[h].result.by = h
    BY <1>0, <1>1, PutFacts
  <1>3. /\ packet' \in [Issues -> Packets] /\ month' \in Months
        /\ ledger' \in [Issues -> Docs]
        /\ budget' = [m \in Months |-> budget'[m]] /\ \A m \in Months : IsBudget(budget'[m])
        /\ \A k \in Keys \ {c} : EntryOf(k)'.claim = EntryOf(k).claim
        /\ pass[h].at \in BudgetPuts \union {"remember"} =>
              EntryOf(c)'.claim = EntryOf(c).claim
        /\ pass[h].at \in {"claim", "record", "finish"} =>
              /\ EntryOf(c)'.claim = pass[h].result
              /\ pass[h].ledger[c].claim = EntryOf(c).claim
    <2>1. packet' \in [Issues -> Packets] /\ month' \in Months
      BY <1>0 DEF PaidInv, Shaped
    <2> QED  BY <1>0, <1>1, <2>1, Stores
  <1>4. PICK r :
          /\ pass' = [pass EXCEPT ![h] = r] /\ Honest(h, r)
          /\ pass[h].at \in {"finish", "remember"} => r = Idle
          /\ pass[h].at \in {"reserve", "settle"} =>
                r.at \in {"claim", "finish"} /\ r.key = c /\ r.ledger = pass[h].ledger
          /\ pass[h].at \in {"claim", "record"} =>
                /\ r.at = (IF pass[h].at = "claim" THEN "call" ELSE "settle?")
                /\ r.key = c /\ r.ledger[c].claim = pass[h].result
    BY <1>0, <1>1, GoesOn
  <1>5. Idle.at = "idle" /\ "idle" \notin Knowing
    BY DEF Idle, Knowing, Paying, Bare, Deciding
  <1>6. CASE pass[h].at \in BudgetPuts \union {"remember"}
    <2>1. \A k \in Keys : EntryOf(k)'.claim = EntryOf(k).claim
      BY <1>3, <1>6
    <2>2. r.at # "call" /\ (r.at \in Knowing =>
             r.key = c /\ r.ledger[r.key].claim = pass[h].ledger[r.key].claim)
      BY <1>4, <1>5, <1>6 DEF BudgetPuts
    <2> QED  BY <1>0, <1>2, <1>3, <1>4, <2>1, <2>2, Moves
  <1>7. CASE pass[h].at \in {"claim", "record", "finish"}
    <2>0. PICK w : w = pass[h].result
      OBVIOUS
    <2>1. w # None /\ EntryOf(c)'.claim = w
      BY <2>0, <1>2, <1>3, <1>7, ClaimAssumption DEF TypedPass, Deciding, PricedClaims
    <2>2. w.by = h \/ (EntryOf(c).claim # None /\ w.by = EntryOf(c).claim.by)
      BY <2>0, <1>2, <1>3, <1>7 DEF Honest, Deciding
    <2>3. r.at = "call" => r.key = c /\ Untouched(c) /\ w.by = h
      <3>1. r.at = "call" => pass[h].at = "claim"
        BY <1>4, <1>5, <1>7
      <3>2. pass[h].at = "claim" => EntryOf(c).claim = None
        BY <1>2, <1>3
      <3>3. EntryOf(c).claim = None => Untouched(c)
        BY <1>2 DEF PaidInv, ClaimedFirst
      <3> QED  BY <2>0, <1>2, <1>4, <3>1, <3>2, <3>3
    <2>4. r.at \in Knowing =>
             r.key = c /\ (r.ledger[c].claim # None \/ (r.at # "call" /\ EntryOf(c).claim = None))
      BY <2>0, <1>4, <1>5, <1>7, <2>1
    <2>5. \A k \in Keys : Carries(h, r, k)
      BY <1>2, <1>3, <2>1, <2>2, <2>3, <2>4 DEF Carries
    <2> QED  BY <1>0, <1>2, <1>3, <1>4, <2>5, Writes
  <1> QED  BY <1>0, <1>6, <1>7 DEF LedgerPuts

\* A PUT that is refused, or of which nothing is heard: the host stays where it is.
LEMMA Waits ==
    ASSUME PaidInv, NEW h \in Hosts, PutRefused(h) \/ PutUnanswered(h)
    PROVE  PaidInv'
  <1>0. /\ pass[h].at \in BudgetPuts \union LedgerPuts
        /\ packet' = packet /\ calls' = calls /\ month' = month
        /\ \/ UNCHANGED <<ledger, budget>>
           \/ Current(h) = Loaded(h) /\ Store(h)
    BY DEF PutRefused, PutUnanswered, Asking, canonical, history, world
  <1>1. PICK c : c = Key(h)
    OBVIOUS
  <1>2. /\ c \in Keys /\ pass[h].key = c /\ pass[h].at \in Knowing /\ Honest(h, pass[h])
        /\ TypedPass(pass[h]) /\ IsPass(pass[h])
        /\ packet' \in [Issues -> Packets] /\ month' \in Months
    BY <1>0, <1>1, PutFacts DEF PaidInv, Shaped
  <1>3. PICK r : /\ pass' = [pass EXCEPT ![h] = r]
                 /\ \E q \in {"refused", "unanswered"} : r = [pass[h] EXCEPT !.asked = q]
    <2>1. PICK q \in {"refused", "unanswered"} : pass' = [pass EXCEPT ![h].asked = q]
      BY DEF PutRefused, PutUnanswered
    <2> QED  BY <2>1
  <1>4. /\ IsPass(r) /\ r.at = pass[h].at /\ r.key = c /\ r.month = pass[h].month
        /\ r.ledger = pass[h].ledger /\ r.budget = pass[h].budget
        /\ r.result = pass[h].result /\ r.body = pass[h].body
    BY <1>2, <1>3 DEF IsPass
  <1>5. Honest(h, r) /\ r.at # "call"
    <2>1. TypedPass(r)
      BY <1>0, <1>2, <1>4 DEF TypedPass
    <2> QED  BY <1>0, <1>2, <1>4, <2>1 DEF Honest, BudgetPuts, LedgerPuts
  <1>6. CASE UNCHANGED <<ledger, budget>>
    BY <1>0, <1>2, <1>3, <1>4, <1>5, <1>6, PassMoves
  <1>7. CASE Current(h) = Loaded(h) /\ Store(h)
    <2>1. /\ ledger' \in [Issues -> Docs]
          /\ budget' = [m \in Months |-> budget'[m]]
          /\ \A m \in Months : IsBudget(budget'[m])
          /\ \A k \in Keys \ {c} : EntryOf(k)'.claim = EntryOf(k).claim
          /\ pass[h].at \in BudgetPuts \union {"remember"} =>
                EntryOf(c)'.claim = EntryOf(c).claim
          /\ pass[h].at \in {"claim", "record", "finish"} =>
                /\ EntryOf(c)'.claim = pass[h].result
                /\ pass[h].ledger[c].claim = EntryOf(c).claim
      BY <1>0, <1>1, <1>7, Stores
    <2>2. CASE pass[h].at \in BudgetPuts \union {"remember"}
      <3>1. \A k \in Keys : EntryOf(k)'.claim = EntryOf(k).claim
        BY <2>1, <2>2
      <3> QED  BY <1>0, <1>2, <1>3, <1>4, <1>5, <2>1, <3>1, Moves
    <2>3. CASE pass[h].at \in {"claim", "record", "finish"}
      <3>0. PICK w : w = pass[h].result
        OBVIOUS
      <3>1. w # None /\ EntryOf(c)'.claim = w
        BY <3>0, <1>2, <2>1, <2>3, ClaimAssumption DEF TypedPass, Deciding, PricedClaims
      <3>2. w.by = h \/ (EntryOf(c).claim # None /\ w.by = EntryOf(c).claim.by)
        BY <3>0, <1>2, <2>1, <2>3 DEF Honest, Deciding
      <3>3. r.key = c /\ (r.ledger[c].claim # None \/ (r.at # "call" /\ EntryOf(c).claim = None))
        BY <1>4, <1>5, <2>1, <2>3
      <3>4. \A k \in Keys : Carries(h, r, k)
        BY <1>2, <1>5, <2>1, <3>1, <3>2, <3>3 DEF Carries
      <3> QED  BY <1>0, <1>2, <1>3, <1>5, <2>1, <3>4, Writes
    <2> QED  BY <1>0, <2>2, <2>3 DEF LedgerPuts
  <1> QED  BY <1>0, <1>6, <1>7

\* A host looks for what its PUT should have written.
LEMMA Observes ==
    ASSUME PaidInv, NEW h \in Hosts, Observe(h)
    PROVE  PaidInv'
  <1>0. /\ pass[h].at \in BudgetPuts \union LedgerPuts
        /\ UNCHANGED <<packet, ledger, budget, calls>> /\ month' = month /\ month \in Months
    BY PassFacts DEF Observe, canonical, history, world, Honest, TypedPass
  <1>1. PICK c : c = Key(h)
    OBVIOUS
  <1>2. /\ c \in Keys /\ pass[h].key = c /\ pass[h].at \in Knowing /\ Honest(h, pass[h])
        /\ TypedPass(pass[h]) /\ IsPass(pass[h])
        /\ EntryOf(c) = ledger[Issue(h)][c] /\ pass[h].ledger \in Docs
        /\ pass[h].at = "claim" => pass[h].ledger[c].claim = None /\ pass[h].result.by = h
    BY <1>0, <1>1, PutFacts
  <1>3. CASE Return(h)
    BY <1>0, <1>3, Returns
  <1>4. CASE Lost(h) /\ ~Return(h)
    <2>1. PICK r : /\ pass' = [pass EXCEPT ![h] = r] /\ pass[h].at \in BudgetPuts
                   /\ r = [pass[h] EXCEPT !.tried = TRUE, !.asked = "no", !.budget = None,
                             !.at = IF pass[h].at = "reserve" THEN "reserve?" ELSE "settle?"]
      <3> DEFINE r == [pass[h] EXCEPT !.tried = TRUE, !.asked = "no", !.budget = None,
                         !.at = IF pass[h].at = "reserve" THEN "reserve?" ELSE "settle?"]
      <3>1. pass[h].at \in BudgetPuts /\ pass' = [pass EXCEPT ![h] = r]
        BY <1>2, <1>4 DEF Lost, IsPass
      <3> QED  BY <3>1
    <2>2. /\ IsPass(r) /\ r.at = (IF pass[h].at = "reserve" THEN "reserve?" ELSE "settle?")
          /\ r.asked = "no" /\ r.key = c /\ r.month = pass[h].month
          /\ r.ledger = pass[h].ledger /\ r.result = pass[h].result
      BY <1>2, <2>1 DEF IsPass
    <2>3. Honest(h, r) /\ r.at # "call"
      BY <1>2, <2>1, <2>2
         DEF Honest, TypedPass, Steps, Bare, Deciding, Paying, Knowing, BudgetPuts
    <2> QED  BY <1>0, <1>2, <2>1, <2>2, <2>3, PassMoves
  <1>5. CASE Current(h) = Wanted(h) /\ Stored(h)
    <2>1. PICK r :
            /\ pass' = [pass EXCEPT ![h] = r] /\ Honest(h, r)
            /\ pass[h].at \in {"finish", "remember"} => r = Idle
            /\ pass[h].at \in {"reserve", "settle"} =>
                  r.at \in {"claim", "finish"} /\ r.key = c /\ r.ledger = pass[h].ledger
            /\ pass[h].at \in {"claim", "record"} =>
                  /\ r.at = (IF pass[h].at = "claim" THEN "call" ELSE "settle?")
                  /\ r.key = c /\ r.ledger[c].claim = pass[h].result
      BY <1>0, <1>1, <1>5, GoesOn
    <2>2. CASE pass[h].at \in {"finish", "remember"}
      BY <1>0, <2>1, <2>2, Returns DEF Return
    <2>3. CASE pass[h].at \in {"reserve", "settle"}
      BY <1>0, <1>2, <2>1, <2>3, PassMoves
    <2>4. CASE pass[h].at \in {"claim", "record"}
      <3>1. ledger[Issue(h)] = Wanted(h)
        BY <1>5, <2>4 DEF Current, BudgetPuts
      <3>2. EntryOf(c).claim = pass[h].result
        BY <1>0, <1>1, <1>2, <2>4, <3>1, LedgerWanted DEF LedgerPuts
      <3>3. CASE pass[h].at = "record"
        BY <1>0, <1>2, <2>1, <3>2, <3>3, PassMoves
      <3>4. CASE pass[h].at = "claim"
        <4>0. PICK w : w = pass[h].result
          OBVIOUS
        <4>1. w # None /\ w.by = h /\ EntryOf(c).claim = w
          BY <4>0, <1>2, <3>2, <3>4, ClaimAssumption DEF TypedPass, Deciding, PricedClaims
        <4>2. Untouched(c)
          BY <1>2, <3>4, <4>1 DEF PaidInv, OwnClaimIsNew
        <4>3. /\ \A k \in Keys : EntryOf(k)'.claim = EntryOf(k).claim
              /\ ledger' \in [Issues -> Docs]
              /\ budget' = [m \in Months |-> budget'[m]]
              /\ \A m \in Months : IsBudget(budget'[m])
          BY <1>0 DEF EntryOf, PaidInv, Shaped
        <4>4. r.at = "call" /\ r.key = c /\ r.ledger[c].claim # None
          BY <4>0, <2>1, <3>4, <4>1
        <4>5. EntryOf(c)'.claim = w
          BY <1>2, <4>1, <4>3
        <4>6. \A k \in Keys : Carries(h, r, k)
          BY <1>2, <4>1, <4>2, <4>3, <4>4, <4>5 DEF Carries
        <4> QED  BY <1>0, <1>2, <2>1, <4>3, <4>6, Writes
      <3> QED  BY <2>4, <3>3, <3>4
    <2> QED  BY <1>0, <2>2, <2>3, <2>4 DEF BudgetPuts, LedgerPuts
  <1> QED  BY <1>3, <1>4, <1>5 DEF Observe

-----------------------------------------------------------------------------
(* The invariant.                                                             *)

LEMMA InitPaid == Init => PaidInv
  <1> SUFFICES ASSUME Init  PROVE PaidInv
    OBVIOUS
  <1>1. \A k \in Keys : EntryOf(k).claim = None /\ calls[k] = 0
    BY DEF Init, EntryOf, NoEntry, Issues
  <1>2. \A h \in Hosts : pass[h] = Idle
    BY DEF Init
  <1>3. /\ Idle.at = "idle" /\ Idle.asked = "no" /\ IsPass(Idle) /\ "idle" \notin Knowing
    BY DEF Idle, IsPass, Knowing, Paying, Bare, Deciding
  <1>4. \A h \in Hosts : Honest(h, Idle)
    BY DEF Honest, TypedPass, IsPass, Idle, Steps, Bare, Deciding, Paying, Knowing, BudgetPuts
  <1>5. Shaped
    <2>1. pass = [h \in Hosts |-> pass[h]] /\ calls \in [Keys -> Nat]
      BY DEF Init
    <2>2. packet \in [Issues -> Packets] /\ month \in Months
      BY AuditAssumption DEF Init, Months
    <2>3. ledger \in [Issues -> Docs]
      BY DEF Init, Docs, NoEntry
    <2>4. budget = [m \in Months |-> budget[m]] /\ \A m \in Months : IsBudget(budget[m])
      <3>1. [k \in Keys |-> None] \in [Keys -> Slots \union {None}]
        OBVIOUS
      <3>2. \A m \in Months : budget[m] = [spent |-> 0, slots |-> [k \in Keys |-> None]]
        BY DEF Init
      <3>3. budget = [m \in Months |-> budget[m]]
        BY DEF Init
      <3> QED  BY <3>1, <3>2, <3>3 DEF IsBudget
    <2> QED  BY <1>2, <1>4, <2>1, <2>2, <2>3, <2>4 DEF Shaped
  <1>6. OnePaidCall
    BY <1>1 DEF OnePaidCall
  <1>7. OneCaller
    BY <1>2, <1>3 DEF OneCaller
  <1>8. ClaimedFirst
    BY <1>1, <1>2, <1>3 DEF ClaimedFirst, Untouched
  <1>9. OwnClaimIsNew
    BY <1>2, <1>3 DEF OwnClaimIsNew
  <1> QED  BY <1>5, <1>6, <1>7, <1>8, <1>9 DEF PaidInv

LEMMA NextPaid == PaidInv /\ [Next]_vars => PaidInv'
  <1> SUFFICES ASSUME PaidInv, [Next]_vars  PROVE PaidInv'
    OBVIOUS
  <1>1. ASSUME NEW h \in Hosts, Step(h)  PROVE PaidInv'
    BY <1>1, Starts, Walks, Loads, ReservationIsLookedFor, BudgetIsLoaded, Calls,
       PacketIsLoaded, PacketIsEdited, Lands, Waits, Observes DEF Step
  <1>2. ASSUME NEW h \in Hosts, PutUnanswered(h) \/ Fail(h)  PROVE PaidInv'
    BY <1>2, Waits, Walks
  <1>3. CASE NextMonth \/ \E i \in Issues : Commit(i) \/ \E j \in Issues : Switch(i, j)
    BY <1>3, WorldMoves
  <1>4. CASE UNCHANGED vars
    <2>1. UNCHANGED <<pass, ledger, budget, calls, packet, month>>
      BY <1>4 DEF vars
    <2> QED  BY <2>1, Rests DEF PaidInv, Shaped
  <1> QED  BY <1>1, <1>2, <1>3, <1>4 DEF Next

\* PaidInv holds always: OnePaidCall, with what makes it inductive.  A paid call needs
\* a stored claim, a claim is stored only where none was, and a host that takes over a
\* claim, or finds a reservation, closes the claim and never calls.
THEOREM PaidOnceInductive == Spec => []PaidInv
  BY InitPaid, NextPaid, PTL DEF Spec

\* However many hosts race for a HEAD, lose their claim's lease or die, it is sent to
\* the paid auditor at most once (atlas/audit_claim.py, run_exact_head_audit).
THEOREM PaidOnce == Spec => []OnePaidCall
  <1>1. PaidInv => OnePaidCall
    BY DEF PaidInv
  <1> QED  BY <1>1, PaidOnceInductive, PTL

-----------------------------------------------------------------------------
(* What SumFunction adds up, by induction over the sets it has added up.       *)

\* A set of numbers with 0 and the successor of each has them all.
LEMMA Counting ==
    ASSUME NEW T \in SUBSET Nat, 0 \in T, \A n \in T : n + 1 \in T
    PROVE  T = Nat
  <1> DEFINE R == OpToRel(<, Nat)
             Rest == Nat \ T
  <1>1. SUFFICES ASSUME Rest # {} PROVE FALSE
    OBVIOUS
  <1>2. IsWellFoundedOn(R, Nat)
    BY NatLessThanWellFounded
  <1>3. PICK n \in Rest : \A k \in Rest : ~(<<k, n>> \in R)
    BY <1>1, <1>2, WFMin
  <1>4. n # 0 /\ n \in Nat
    OBVIOUS
  <1>5. n - 1 \in Nat /\ n - 1 < n
    BY <1>4
  <1>6. n - 1 \in T
    BY <1>3, <1>4, <1>5 DEF OpToRel
  <1>7. (n - 1) + 1 \in T
    BY <1>6
  <1> QED
    BY <1>4, <1>7

\* What the fold of SumFunctionOnSet adds up: the table g has the sum over each set.
Chosen(s) == CHOOSE x \in s : TRUE
AddedUp(g, f, S) ==
    g = [s \in SUBSET S |-> IF s = {} THEN 0 ELSE f[Chosen(s)] + g[s \ {Chosen(s)}]]

LEMMA SumIsTable ==
    ASSUME NEW S, NEW f
    PROVE  SumFunctionOnSet(f, S) = (CHOOSE g : AddedUp(g, f, S))[S]
  BY DEF SumFunctionOnSet, FoldFunctionOnSet, MapThenFoldSet, AddedUp, Chosen

AddedUpTo(g, f, S, n) ==
    \A s \in SUBSET S : Cardinality(s) <= n =>
       g[s] = IF s = {} THEN 0 ELSE f[Chosen(s)] + g[s \ {Chosen(s)}]

LEMMA Smaller ==
    ASSUME NEW S, IsFiniteSet(S), NEW s \in SUBSET S, NEW x \in s
    PROVE  /\ s \ {x} \in SUBSET S /\ Cardinality(s) \in Nat
           /\ Cardinality(s \ {x}) = Cardinality(s) - 1 /\ Cardinality(s) # 0
  <1>1. IsFiniteSet(s)
    BY FS_Subset
  <1>2. Cardinality(s) \in Nat /\ Cardinality(s \ {x}) = Cardinality(s) - 1
    BY <1>1, FS_CardinalityType, FS_RemoveElement
  <1>3. Cardinality(s) # 0
    BY <1>1, FS_EmptySet
  <1> QED
    BY <1>2, <1>3

LEMMA TableExists ==
    ASSUME NEW S, IsFiniteSet(S), NEW f \in [S -> Int]
    PROVE  \E g \in [SUBSET S -> Int] : AddedUp(g, f, S)
  <1> DEFINE T == {n \in Nat : \E g \in [SUBSET S -> Int] : AddedUpTo(g, f, S, n)}
  <1>1. \A s \in SUBSET S : s # {} => Chosen(s) \in s
    BY DEF Chosen
  <1>2. \A s \in SUBSET S : Cardinality(s) \in Nat /\ (Cardinality(s) = 0 <=> s = {})
    BY FS_Subset, FS_CardinalityType, FS_EmptySet
  <1>3. 0 \in T
    <2> DEFINE g == [s \in SUBSET S |-> 0]
    <2>1. g \in [SUBSET S -> Int]
      OBVIOUS
    <2>2. AddedUpTo(g, f, S, 0)
      BY <1>2 DEF AddedUpTo
    <2> QED
      BY <2>1, <2>2
  <1>4. ASSUME NEW n \in T PROVE n + 1 \in T
    <2>1. PICK g \in [SUBSET S -> Int] : AddedUpTo(g, f, S, n)
      BY <1>4
    <2> DEFINE more == [s \in SUBSET S |-> IF Cardinality(s) = n + 1
                                           THEN f[Chosen(s)] + g[s \ {Chosen(s)}] ELSE g[s]]
    <2>2. \A s \in SUBSET S : s # {} =>
             /\ Chosen(s) \in S /\ s \ {Chosen(s)} \in SUBSET S
             /\ Cardinality(s \ {Chosen(s)}) = Cardinality(s) - 1
      BY <1>1, Smaller
    <2>3. n \in Nat /\ n + 1 # 0
      OBVIOUS
    <2>4. \A s \in SUBSET S : more[s] \in Int
      BY <1>2, <2>2, <2>3
    <2>5. more \in [SUBSET S -> Int]
      BY <2>4
    <2>6. ASSUME NEW s \in SUBSET S, Cardinality(s) <= n + 1
          PROVE  more[s] = IF s = {} THEN 0 ELSE f[Chosen(s)] + more[s \ {Chosen(s)}]
      <3>1. CASE Cardinality(s) = n + 1
        <4>1. s # {}
          BY <1>2, <2>3, <3>1
        <4>2. more[s \ {Chosen(s)}] = g[s \ {Chosen(s)}]
          BY <2>2, <2>3, <3>1, <4>1
        <4> QED
          BY <3>1, <4>1, <4>2
      <3>2. CASE Cardinality(s) # n + 1
        <4>1. Cardinality(s) <= n
          BY <1>2, <2>3, <2>6, <3>2
        <4>2. more[s] = g[s]
          BY <3>2
        <4>3. s # {} => more[s \ {Chosen(s)}] = g[s \ {Chosen(s)}]
          BY <1>2, <2>2, <2>3, <4>1
        <4>4. g[s] = IF s = {} THEN 0 ELSE f[Chosen(s)] + g[s \ {Chosen(s)}]
          BY <2>1, <4>1 DEF AddedUpTo
        <4> QED
          BY <4>2, <4>3, <4>4
      <3> QED
        BY <3>1, <3>2
    <2>7. AddedUpTo(more, f, S, n + 1)
      BY <2>6 DEF AddedUpTo
    <2> HIDE DEF more
    <2>8. \E h \in [SUBSET S -> Int] : AddedUpTo(h, f, S, n + 1)
      BY <2>5, <2>7
    <2> QED
      BY <2>3, <2>8
  <1> HIDE DEF T
  <1>5. T = Nat
    <2>1. T \in SUBSET Nat
      BY DEF T
    <2> QED
      BY <1>3, <1>4, <2>1, Counting
  <1>6. PICK g \in [SUBSET S -> Int] : AddedUpTo(g, f, S, Cardinality(S))
    BY <1>2, <1>5 DEF T
  <1>7. \A s \in SUBSET S : Cardinality(s) <= Cardinality(S)
    BY FS_Subset
  <1>8. \A s \in SUBSET S :
           g[s] = IF s = {} THEN 0 ELSE f[Chosen(s)] + g[s \ {Chosen(s)}]
    BY <1>6, <1>7 DEF AddedUpTo
  <1>9. AddedUp(g, f, S)
    BY <1>8 DEF AddedUp
  <1> QED
    BY <1>9

\* And all of its sums are numbers.
LEMMA TableIsWhole ==
    ASSUME NEW S, IsFiniteSet(S), NEW f \in [S -> Int], NEW g, AddedUp(g, f, S)
    PROVE  g \in [SUBSET S -> Int]
  <1> DEFINE T == {n \in Nat : \A s \in SUBSET S : Cardinality(s) = n => g[s] \in Int}
  <1>1. \A s \in SUBSET S : s # {} => /\ Chosen(s) \in s
                                      /\ g[s] = f[Chosen(s)] + g[s \ {Chosen(s)}]
    BY DEF AddedUp, Chosen
  <1>2. \A s \in SUBSET S : Cardinality(s) \in Nat /\ (Cardinality(s) = 0 <=> s = {})
    BY FS_Subset, FS_CardinalityType, FS_EmptySet
  <1>3. g[{}] = 0
    BY DEF AddedUp
  <1>4. 0 \in T
    BY <1>2, <1>3
  <1>5. ASSUME NEW n \in T PROVE n + 1 \in T
    <2>1. ASSUME NEW s \in SUBSET S, Cardinality(s) = n + 1
          PROVE  g[s] \in Int
      <3>1. n \in Nat /\ s # {}
        BY <1>2, <2>1
      <3>2. PICK y \in s : g[s] = f[y] + g[s \ {y}]
        BY <1>1, <3>1
      <3>3. Cardinality(s \ {y}) = n /\ s \ {y} \in SUBSET S
        BY <2>1, <3>1, Smaller
      <3>4. g[s \ {y}] \in Int /\ f[y] \in Int
        BY <3>3
      <3> QED
        BY <3>2, <3>4
    <2> QED
      BY <2>1
  <1> HIDE DEF T
  <1>6. T = Nat
    <2>1. T \in SUBSET Nat
      BY DEF T
    <2> QED
      BY <1>4, <1>5, <2>1, Counting
  <1>7. \A s \in SUBSET S : g[s] \in Int
    BY <1>2, <1>6 DEF T
  <1>8. DOMAIN g = SUBSET S /\ g = [s \in SUBSET S |-> g[s]]
    BY DEF AddedUp
  <1> QED
    BY <1>7, <1>8

\* A table adds up whatever element is taken first.
AnyOrder(g, f, S) == \A s \in SUBSET S : \A x \in s : g[s] = f[x] + g[s \ {x}]

LEMMA AnyFirst ==
    ASSUME NEW S, IsFiniteSet(S), NEW f \in [S -> Int], NEW g \in [SUBSET S -> Int],
           AddedUp(g, f, S)
    PROVE  AnyOrder(g, f, S)
  <1> DEFINE Good(s) == \A x \in s : g[s] = f[x] + g[s \ {x}]
             T == {n \in Nat : \A s \in SUBSET S : Cardinality(s) = n => Good(s)}
  <1>1. \A s \in SUBSET S : s # {} => /\ Chosen(s) \in s
                                      /\ g[s] = f[Chosen(s)] + g[s \ {Chosen(s)}]
    BY DEF AddedUp, Chosen
  <1>2. \A s \in SUBSET S : Cardinality(s) \in Nat /\ (Cardinality(s) = 0 <=> s = {})
    BY FS_Subset, FS_CardinalityType, FS_EmptySet
  <1>3. 0 \in T
    BY <1>2
  <1>4. ASSUME NEW n \in T PROVE n + 1 \in T
    <2>1. ASSUME NEW s \in SUBSET S, Cardinality(s) = n + 1, NEW x \in s
          PROVE  g[s] = f[x] + g[s \ {x}]
      <3> DEFINE y == Chosen(s)
      <3>1. y \in s /\ g[s] = f[y] + g[s \ {y}]
        BY <1>1
      <3>2. CASE x = y
        BY <3>1, <3>2
      <3>3. CASE x # y
        <4> HIDE DEF y
        <4>1. /\ s \ {x} \in SUBSET S /\ s \ {y} \in SUBSET S
              /\ Cardinality(s \ {x}) = n /\ Cardinality(s \ {y}) = n
          <5>1. n \in Nat
            OBVIOUS
          <5>2. Cardinality(s \ {x}) = Cardinality(s) - 1
            BY Smaller
          <5>3. Cardinality(s \ {y}) = Cardinality(s) - 1
            BY <3>1, Smaller
          <5> QED
            BY <2>1, <5>1, <5>2, <5>3
        <4>2. Good(s \ {x}) /\ Good(s \ {y})
          BY <4>1
        <4>3. x \in s \ {y} /\ y \in s \ {x}
          BY <3>1, <3>3
        <4>4. PICK rest \in SUBSET S : rest = (s \ {x}) \ {y} /\ rest = (s \ {y}) \ {x}
          OBVIOUS
        <4>5. g[s \ {y}] = f[x] + g[rest]
          BY <4>2, <4>3, <4>4
        <4>6. g[s \ {x}] = f[y] + g[rest]
          BY <4>2, <4>3, <4>4
        <4>7. g[rest] \in Int /\ f[x] \in Int /\ f[y] \in Int
          BY <3>1
        <4>8. g[s] = f[y] + (f[x] + g[rest])
          BY <3>1, <4>5
        <4>9. f[x] + g[s \ {x}] = f[x] + (f[y] + g[rest])
          BY <4>6
        <4> QED
          BY <4>7, <4>8, <4>9
      <3> QED
        BY <3>2, <3>3
    <2> QED
      BY <2>1
  <1> HIDE DEF T
  <1>5. T = Nat
    <2>1. T \in SUBSET Nat
      BY DEF T
    <2> QED
      BY <1>3, <1>4, <2>1, Counting
  <1> QED
    BY <1>2, <1>5 DEF T, AnyOrder

\* Tables of values that differ at x only are the same on the sets without x.
AlikeWithout(x, g, h, S) == \A s \in SUBSET S : x \notin s => h[s] = g[s]

LEMMA SameWithout ==
    ASSUME NEW S, IsFiniteSet(S), NEW f \in [S -> Int], NEW e \in [S -> Int], NEW x,
           \A y \in S : y # x => e[y] = f[y],
           NEW g \in [SUBSET S -> Int], AddedUp(g, f, S),
           NEW h \in [SUBSET S -> Int], AddedUp(h, e, S)
    PROVE  AlikeWithout(x, g, h, S)
  <1> DEFINE T == {n \in Nat : \A s \in SUBSET S :
                                  Cardinality(s) = n /\ x \notin s => h[s] = g[s]}
  <1>1. \A s \in SUBSET S : s # {} => /\ Chosen(s) \in s
                                      /\ g[s] = f[Chosen(s)] + g[s \ {Chosen(s)}]
                                      /\ h[s] = e[Chosen(s)] + h[s \ {Chosen(s)}]
    BY DEF AddedUp, Chosen
  <1>2. \A s \in SUBSET S : Cardinality(s) \in Nat /\ (Cardinality(s) = 0 <=> s = {})
    BY FS_Subset, FS_CardinalityType, FS_EmptySet
  <1>3. g[{}] = 0 /\ h[{}] = 0
    BY DEF AddedUp
  <1>4. 0 \in T
    BY <1>2, <1>3
  <1>5. ASSUME NEW n \in T PROVE n + 1 \in T
    <2>1. ASSUME NEW s \in SUBSET S, Cardinality(s) = n + 1, x \notin s
          PROVE  h[s] = g[s]
      <3>1. n \in Nat /\ s # {}
        BY <1>2, <2>1
      <3>2. PICK y \in s : g[s] = f[y] + g[s \ {y}] /\ h[s] = e[y] + h[s \ {y}]
        BY <1>1, <3>1
      <3>3. Cardinality(s \ {y}) = n /\ s \ {y} \in SUBSET S /\ x \notin s \ {y}
        BY <2>1, <3>1, Smaller
      <3>4. h[s \ {y}] = g[s \ {y}]
        BY <3>3
      <3> QED
        BY <2>1, <3>2, <3>4
    <2> QED
      BY <2>1
  <1> HIDE DEF T
  <1>6. T = Nat
    <2>1. T \in SUBSET Nat
      BY DEF T
    <2> QED
      BY <1>4, <1>5, <2>1, Counting
  <1> QED
    BY <1>2, <1>6 DEF T, AlikeWithout

\* The sum after one value has changed.
LEMMA SumChanges ==
    ASSUME NEW S, IsFiniteSet(S), NEW f \in [S -> Int], NEW e \in [S -> Int],
           NEW x \in S, \A y \in S : y # x => e[y] = f[y]
    PROVE  SumFunction(e) = SumFunction(f) - f[x] + e[x] /\ SumFunction(f) \in Int
  <1> DEFINE g == CHOOSE t : AddedUp(t, f, S)
             h == CHOOSE t : AddedUp(t, e, S)
  <1>1. AddedUp(g, f, S) /\ AddedUp(h, e, S)
    BY TableExists
  <1>2. g \in [SUBSET S -> Int] /\ h \in [SUBSET S -> Int]
    BY <1>1, TableIsWhole
  <1>3. SumFunction(f) = g[S] /\ SumFunction(e) = h[S]
    BY SumIsTable DEF SumFunction
  <1> HIDE DEF g, h
  <1>4. AnyOrder(g, f, S) /\ AnyOrder(h, e, S) /\ AlikeWithout(x, g, h, S)
    BY <1>1, <1>2, AnyFirst, SameWithout
  <1>5. /\ g[S] = f[x] + g[S \ {x}] /\ h[S] = e[x] + h[S \ {x}]
        /\ h[S \ {x}] = g[S \ {x}]
    BY <1>4 DEF AnyOrder, AlikeWithout
  <1>6. g[S \ {x}] \in Int /\ g[S] \in Int /\ f[x] \in Int /\ e[x] \in Int
    BY <1>2
  <1> QED
    BY <1>3, <1>5, <1>6

\* The sum of nothing but zeros.
LEMMA SumOfZeros ==
    ASSUME NEW S, IsFiniteSet(S), NEW f \in [S -> Int], \A x \in S : f[x] = 0
    PROVE  SumFunction(f) = 0
  <1> DEFINE g == CHOOSE t : AddedUp(t, f, S)
             T == {n \in Nat : \A s \in SUBSET S : Cardinality(s) = n => g[s] = 0}
  <1>1. AddedUp(g, f, S)
    BY TableExists
  <1>2. SumFunction(f) = g[S]
    BY SumIsTable DEF SumFunction
  <1> HIDE DEF g
  <1>3. \A s \in SUBSET S : s # {} => /\ Chosen(s) \in s
                                      /\ g[s] = f[Chosen(s)] + g[s \ {Chosen(s)}]
    BY <1>1 DEF AddedUp, Chosen
  <1>4. \A s \in SUBSET S : Cardinality(s) \in Nat /\ (Cardinality(s) = 0 <=> s = {})
    BY FS_Subset, FS_CardinalityType, FS_EmptySet
  <1>5. g[{}] = 0
    BY <1>1 DEF AddedUp
  <1>6. 0 \in T
    BY <1>4, <1>5
  <1>7. ASSUME NEW n \in T PROVE n + 1 \in T
    <2>1. ASSUME NEW s \in SUBSET S, Cardinality(s) = n + 1
          PROVE  g[s] = 0
      <3>1. n \in Nat /\ s # {}
        BY <1>4, <2>1
      <3>2. PICK y \in s : g[s] = f[y] + g[s \ {y}]
        BY <1>3, <3>1
      <3>3. Cardinality(s \ {y}) = n /\ s \ {y} \in SUBSET S
        BY <2>1, <3>1, Smaller
      <3>4. g[s \ {y}] = 0 /\ f[y] = 0
        BY <3>3
      <3> QED
        BY <3>2, <3>4
    <2> QED
      BY <2>1
  <1> HIDE DEF T
  <1>8. T = Nat
    <2>1. T \in SUBSET Nat
      BY DEF T
    <2> QED
      BY <1>6, <1>7, <2>1, Counting
  <1>9. S \in SUBSET S
    OBVIOUS
  <1> QED
    BY <1>2, <1>4, <1>8, <1>9 DEF T

-----------------------------------------------------------------------------
(* What the ledgers say.  The operators take the documents as parameters, for *)
(* the document before a step and the one after it.                           *)

\* The claim of k in the ledgers L.
ClaimIn(L, k) == L[IssueOf[k]][k].claim

\* The price of a reservation: the ceiling, or what the call cost.
Priced(A, k, usd) == usd = Ceiling \/ (A[k] # None /\ usd = A[k].cost)

\* A claim says what the call answered, or asks for a human.
Told(A, k, c) ==
    /\ c.way = "claimed" => c.verdict = None
    /\ c.way # "claimed" =>
          \/ c.verdict = "HUMAN_REQUIRED"
          \/ A[k] # None /\ c.verdict = A[k].verdict
    /\ c.way = "recorded" => A[k] # None /\ c.cost = A[k].cost

\* What is spent is what the reservations add up to.
AddsUp(b) == b.spent = SumFunction(Amounts(b))

\* A document that changes one reservation, and what is spent by as much, still does.
LEMMA StillAddsUp ==
    ASSUME NEW b, NEW W, NEW k \in Keys, AddsUp(b),
           b.slots \in [Keys -> Slots \union {None}],
           W.slots \in [Keys -> Slots \union {None}],
           \A j \in Keys : j # k => W.slots[j] = b.slots[j],
           W.spent = b.spent - Amounts(b)[k] + Amounts(W)[k]
    PROVE  AddsUp(W)
  <1>1. ASSUME NEW d, d.slots \in [Keys -> Slots \union {None}]
        PROVE  Amounts(d) \in [Keys -> Int]
    BY <1>1 DEF Amounts, Slots
  <1>2. Amounts(b) \in [Keys -> Int] /\ Amounts(W) \in [Keys -> Int]
    BY <1>1
  <1>3. \A j \in Keys : j # k => Amounts(W)[j] = Amounts(b)[j]
    BY DEF Amounts
  <1>4. IsFiniteSet(Keys)
    BY AuditAssumption
  <1>5. PICK f, e : f = Amounts(b) /\ e = Amounts(W)
    OBVIOUS
  <1>6. f \in [Keys -> Int] /\ e \in [Keys -> Int] /\ \A j \in Keys : j # k => e[j] = f[j]
    BY <1>2, <1>3, <1>5
  <1>7. SumFunction(e) = SumFunction(f) - f[k] + e[k]
    BY <1>4, <1>6, SumChanges
  <1> QED
    BY <1>5, <1>7 DEF AddsUp

GoodBudget(A, b) ==
    /\ AddsUp(b)
    /\ b.spent \in Int /\ b.spent <= MonthlyHard
    /\ \A k \in Keys : b.slots[k] # None =>
          /\ Priced(A, k, b.slots[k].usd)
          /\ ~b.slots[k].settled => b.slots[k].usd = Ceiling

Disposing == {"packet?", "recheck", "edit", "remember"}
Reserving == {"claim", "call", "record", "settle?", "settle"}

\* What a pass has loaded, and what it is about to write, are true of the ledgers L,
\* the budgets B, the answers A and the handoffs H.
Knows(r, L, B, A, H) ==
    LET k == r.key
        c == r.ledger[k].claim
    IN
    /\ r.at = "prior?" => IsClosed(ClaimIn(L, k))
    /\ r.at \in Paying => ~IsClosed(c) /\ (c # None => Told(A, k, c))
    /\ r.at \in Deciding => Told(A, k, r.result)
    /\ r.at \in {"claim", "call"} => r.result.way = "claimed"
    /\ r.at = "record" => r.result.way = "recorded"
    /\ r.at \in {"settle?", "settle"} =>
          r.result.way # "claimed" /\ Priced(A, k, r.result.cost)
    /\ r.at = "finish" => r.result.way \in Closed
    /\ r.at \in Reserving => B[r.month].slots[k] # None
    /\ r.at \in BudgetPuts => GoodBudget(A, r.budget)
    /\ r.at = "reserve" =>
          r.budget.slots[k] = None /\ r.budget.spent + Ceiling <= MonthlyHard
    /\ r.at = "settle" => r.budget.slots[k] # None /\ ~r.budget.slots[k].settled
    /\ r.at \in Disposing => IsClosed(c) /\ ClaimIn(L, k) = c
    /\ r.at \in {"recheck", "edit"} => c.verdict = "REWORK"
    /\ r.at = "remember" =>
          \/ c.verdict = "HUMAN_REQUIRED"
          \/ c.verdict = "REWORK" /\ k \in H

AnswersShaped ==
    /\ answer \in [Keys -> Replies \union {None}]
    /\ \A k \in Keys : answer[k] # None => answer[k].cost <= Ceiling
    /\ \A k \in Keys : calls[k] = 0 => answer[k] = None

ClaimsAreTold(L, A) ==
    \A k \in Keys : ClaimIn(L, k) # None => Told(A, k, ClaimIn(L, k))

BudgetsAreGood(B, A) ==
    /\ \A m \in Months : GoodBudget(A, B[m])
    /\ \A k \in Keys : A[k] # None => B[A[k].month].slots[k] # None

Books ==
    /\ AnswersShaped /\ ClaimsAreTold(ledger, answer) /\ BudgetsAreGood(budget, answer)
    /\ DispositionsAreTrue

AuditInv ==
    PaidInv /\ Books /\ \A h \in Hosts : Knows(pass[h], ledger, budget, answer, handed)

\* What no step takes back: an answer, a handoff, a closed claim, a reservation.
Onward(L, B, A, H, M, C, R, J) ==
    /\ \A k \in Keys : A[k] # None => R[k] = A[k]
    /\ H \subseteq J
    /\ \A k \in Keys : IsClosed(ClaimIn(L, k)) => ClaimIn(M, k) = ClaimIn(L, k)
    /\ \A m \in Months : \A k \in Keys : B[m].slots[k] # None => C[m].slots[k] # None

\* What a pass knows stays true.
LEMMA Persists ==
    ASSUME NEW L, NEW B, NEW A, NEW H, NEW M, NEW C, NEW R, NEW J,
           Onward(L, B, A, H, M, C, R, J), NEW r, TypedPass(r), Knows(r, L, B, A, H)
    PROVE  Knows(r, M, C, R, J)
  <1>1. PICK k : k = r.key
    OBVIOUS
  <1>2. PICK c : c = r.ledger[k].claim
    OBVIOUS
  <1>3. r.at # "idle" => k \in Keys
    BY <1>1 DEF TypedPass
  <1>4. ASSUME k \in Keys
        PROVE  /\ \A d : Told(A, k, d) => Told(R, k, d)
               /\ \A usd : Priced(A, k, usd) => Priced(R, k, usd)
               /\ IsClosed(ClaimIn(L, k)) => ClaimIn(M, k) = ClaimIn(L, k)
               /\ k \in H => k \in J
    BY <1>4 DEF Onward, Told, Priced
  <1>5. ASSUME NEW b, GoodBudget(A, b)  PROVE GoodBudget(R, b)
    BY <1>5 DEF GoodBudget, Onward, Priced
  <1>6. r.at = "prior?" => IsClosed(ClaimIn(M, k))
    BY <1>1, <1>3, <1>4 DEF Knows
  <1>7. /\ r.at \in Paying => ~IsClosed(c) /\ (c # None => Told(R, k, c))
        /\ r.at \in Deciding => Told(R, k, r.result)
    BY <1>1, <1>2, <1>3, <1>4 DEF Knows, Paying, Deciding, Bare
  <1>8. r.at \in {"settle?", "settle"} =>
          r.result.way # "claimed" /\ Priced(R, k, r.result.cost)
    BY <1>1, <1>3, <1>4 DEF Knows
  <1>9. r.at \in Reserving => C[r.month].slots[k] # None
    <2>1. r.at \in Reserving => r.month \in Months /\ k \in Keys
      BY <1>3 DEF TypedPass, Reserving, Paying, Deciding
    <2> QED  BY <1>1, <2>1 DEF Knows, Onward
  <1>10. r.at \in BudgetPuts => GoodBudget(R, r.budget)
    BY <1>5 DEF Knows
  <1>11. r.at \in Disposing => IsClosed(c) /\ ClaimIn(M, k) = c
    BY <1>1, <1>2, <1>3, <1>4 DEF Knows, Disposing
  <1>12. r.at = "remember" => c.verdict = "HUMAN_REQUIRED" \/ (c.verdict = "REWORK" /\ k \in J)
    BY <1>1, <1>2, <1>3, <1>4 DEF Knows
  <1>13. /\ r.at \in {"claim", "call"} => r.result.way = "claimed"
         /\ r.at = "record" => r.result.way = "recorded"
         /\ r.at = "finish" => r.result.way \in Closed
         /\ r.at = "reserve" =>
               r.budget.slots[k] = None /\ r.budget.spent + Ceiling <= MonthlyHard
         /\ r.at = "settle" => r.budget.slots[k] # None /\ ~r.budget.slots[k].settled
         /\ r.at \in {"recheck", "edit"} => c.verdict = "REWORK"
    BY <1>1, <1>2 DEF Knows
  <1> QED  BY <1>1, <1>2, <1>6, <1>7, <1>8, <1>9, <1>10, <1>11, <1>12, <1>13 DEF Knows

\* One pass goes on, and the world with it.
LEMMA Advances ==
    ASSUME AuditInv, PaidInv', Books', NEW h \in Hosts, NEW r, pass' = [pass EXCEPT ![h] = r],
           Onward(ledger, budget, answer, handed, ledger', budget', answer', handed'),
           Knows(r, ledger', budget', answer', handed')
    PROVE  AuditInv'
  <1>1. \A g \in Hosts : g # h => pass'[g] = pass[g]
    BY DEF AuditInv, PaidInv, Shaped
  <1>2. pass'[h] = r
    BY DEF AuditInv, PaidInv, Shaped
  <1>3. ASSUME NEW g \in Hosts  PROVE Knows(pass'[g], ledger', budget', answer', handed')
    <2>1. CASE g = h
      BY <1>2, <2>1
    <2>2. CASE g # h
      <3>1. PICK q : q = pass[g]
        OBVIOUS
      <3>2. TypedPass(q) /\ Knows(q, ledger, budget, answer, handed)
        BY <3>1 DEF AuditInv, PaidInv, Shaped, Honest
      <3>3. Knows(q, ledger', budget', answer', handed')
        BY <3>2, Persists
      <3> QED  BY <1>1, <2>2, <3>1, <3>3
    <2> QED  BY <2>1, <2>2
  <1> QED  BY <1>3 DEF AuditInv

\* The documents stay as they are.
LEMMA Stays ==
    ASSUME AuditInv, UNCHANGED <<ledger, budget, answer, handed, calls, packet>>
    PROVE  /\ Books'
           /\ Onward(ledger, budget, answer, handed, ledger', budget', answer', handed')
  BY DEF AuditInv, Books, AnswersShaped, DispositionsAreTrue, EntryOf, Onward

LEMMA Proceeds ==
    ASSUME AuditInv, PaidInv', UNCHANGED <<ledger, budget, answer, handed, calls, packet>>,
           NEW h \in Hosts, NEW r, pass' = [pass EXCEPT ![h] = r],
           Knows(r, ledger, budget, answer, handed)
    PROVE  AuditInv'
  BY Stays, Advances

\* A pass that has ended knows nothing.
LEMMA IdleKnows ==
    ASSUME NEW L, NEW B, NEW A, NEW H
    PROVE  Knows(Idle, L, B, A, H)
  BY DEF Knows, Idle, Paying, Deciding, Bare, Reserving, BudgetPuts, Disposing

LEMMA Gives ==
    ASSUME AuditInv, PaidInv', UNCHANGED <<ledger, budget, answer, handed, calls, packet>>,
           NEW h \in Hosts, Return(h)
    PROVE  AuditInv'
  BY IdleKnows, Proceeds DEF Return
-----------------------------------------------------------------------------
(* The steps of a pass but for its PUTs.                                      *)

\* What holds of a pass that is under way.
LEMMA Under ==
    ASSUME AuditInv, NEW h \in Hosts, NEW k, k = Key(h), pass[h].at # "idle"
    PROVE  /\ TypedPass(pass[h]) /\ IsPass(pass[h]) /\ pass[h].key = k /\ k \in Keys
           /\ Issue(h) = IssueOf[k] /\ ClaimIn(ledger, k) = EntryOf(k).claim
           /\ EntryOf(k) = ledger[Issue(h)][k]
           /\ Knows(pass[h], ledger, budget, answer, handed)
           /\ pass = [g \in Hosts |-> pass[g]] /\ PaidInv /\ Books /\ month \in Months
  <1>1. PaidInv
    BY DEF AuditInv
  <1>2. /\ TypedPass(pass[h]) /\ IsPass(pass[h]) /\ Key(h) \in Keys /\ month \in Months
        /\ pass = [g \in Hosts |-> pass[g]] /\ EntryOf(Key(h)) = ledger[Issue(h)][Key(h)]
    BY <1>1, PassFacts DEF Honest
  <1> QED  BY <1>1, <1>2 DEF AuditInv, Key, Issue, ClaimIn, EntryOf

LEMMA StartsKnowing ==
    ASSUME AuditInv, PaidInv', NEW h \in Hosts, StartPass(h)
    PROVE  AuditInv'
  <1>1. PICK i \in Issues :
           pass' = [pass EXCEPT ![h] = [Idle EXCEPT !.at = "claim?", !.key = packet[i].head]]
    BY DEF StartPass
  <1>2. PICK r : r = [Idle EXCEPT !.at = "claim?", !.key = packet[i].head]
    OBVIOUS
  <1>3. r.at = "claim?"
    BY <1>2 DEF Idle
  <1>4. Knows(r, ledger, budget, answer, handed)
    BY <1>3 DEF Knows, Paying, Deciding, Bare, Reserving, BudgetPuts, Disposing
  <1>5. UNCHANGED <<ledger, budget, answer, handed, calls, packet>>
    BY DEF StartPass, canonical, history
  <1> QED  BY <1>1, <1>2, <1>4, <1>5, Proceeds

LEMMA WalksKnowing ==
    ASSUME AuditInv, PaidInv', NEW h \in Hosts,
           \/ LookForClaim(h) \/ CollectEvidence(h) \/ Duplicate(h) \/ Recheck(h) \/ Fail(h)
    PROVE  AuditInv'
  <1>1. UNCHANGED <<ledger, budget, answer, handed, calls, packet>> /\ pass[h].at # "idle"
    BY DEF LookForClaim, CollectEvidence, Duplicate, Recheck, Fail, canonical, history
  <1>2. CASE Return(h)
    BY <1>1, <1>2, Gives
  <1>3. CASE ~Return(h)
    <2>1. PICK k : k = Key(h)
      OBVIOUS
    <2>2. /\ IsPass(pass[h]) /\ pass[h].key = k /\ k \in Keys
          /\ ClaimIn(ledger, k) = EntryOf(k).claim
          /\ Knows(pass[h], ledger, budget, answer, handed)
      BY <1>1, <2>1, Under
    <2>3. PICK s : /\ Goto(h, s)
                   /\ \/ s \in {"evidence", "ledger?"}
                      \/ s = "prior?" /\ IsClosed(EntryOf(k).claim)
                      \/ s = "edit" /\ pass[h].at = "recheck"
      BY <1>3, <2>1 DEF LookForClaim, CollectEvidence, Duplicate, Recheck, Fail
    <2>4. PICK r : r = [pass[h] EXCEPT !.at = s] /\ pass' = [pass EXCEPT ![h] = r]
      BY <2>3 DEF Goto
    <2>5. r.at = s /\ r.key = k /\ r.ledger = pass[h].ledger
      BY <2>2, <2>4 DEF IsPass
    <2>6. Knows(r, ledger, budget, answer, handed)
      BY <2>2, <2>3, <2>5
         DEF Knows, Paying, Deciding, Bare, Reserving, BudgetPuts, Disposing
    <2> QED  BY <1>1, <2>4, <2>6, Proceeds
  <1> QED  BY <1>2, <1>3

LEMMA LoadsKnowing ==
    ASSUME AuditInv, PaidInv', NEW h \in Hosts, TakeOn(h) \/ LoadPrior(h)
    PROVE  AuditInv'
  <1>1. UNCHANGED <<ledger, budget, answer, handed, calls, packet>> /\ pass[h].at # "idle"
    BY DEF TakeOn, LoadPrior, canonical, history
  <1>2. CASE Return(h)
    BY <1>1, <1>2, Gives
  <1>3. CASE ~Return(h)
    <2>1. PICK k : k = Key(h)
      OBVIOUS
    <2>2. /\ IsPass(pass[h]) /\ pass[h].key = k /\ k \in Keys
          /\ ClaimIn(ledger, k) = EntryOf(k).claim /\ EntryOf(k) = ledger[Issue(h)][k]
          /\ Knows(pass[h], ledger, budget, answer, handed) /\ Books
      BY <1>1, <2>1, Under
    <2>3. CASE TakeOn(h)
      <3>1. PICK r : /\ pass' = [pass EXCEPT ![h] = r]
                     /\ r = [pass[h] EXCEPT !.at = "budget?", !.ledger = ledger[Issue(h)],
                                            !.month = month]
        BY <2>3 DEF TakeOn
      <3>2. r.at = "budget?" /\ r.key = k /\ r.ledger[k] = EntryOf(k)
        BY <2>2, <3>1 DEF IsPass
      <3>3. ~IsClosed(EntryOf(k).claim)
        BY <2>1, <2>2, <2>3 DEF TakeOn
      <3>4. EntryOf(k).claim # None => Told(answer, k, EntryOf(k).claim)
        BY <2>2 DEF Books, ClaimsAreTold
      <3>5. Knows(r, ledger, budget, answer, handed)
        BY <3>2, <3>3, <3>4
           DEF Knows, Paying, Deciding, Bare, Reserving, BudgetPuts, Disposing
      <3> QED  BY <1>1, <3>1, <3>5, Proceeds
    <2>4. CASE LoadPrior(h)
      <3>1. PICK r : /\ pass' = [pass EXCEPT ![h] = r]
                     /\ r = [pass[h] EXCEPT !.at = "packet?", !.ledger = ledger[Issue(h)]]
        BY <1>3, <2>4 DEF LoadPrior
      <3>2. r.at = "packet?" /\ r.key = k /\ r.ledger[k] = EntryOf(k)
        BY <2>2, <3>1 DEF IsPass
      <3>3. IsClosed(EntryOf(k).claim)
        BY <2>2, <2>4 DEF LoadPrior, Knows
      <3>4. Knows(r, ledger, budget, answer, handed)
        BY <2>2, <3>2, <3>3
           DEF Knows, Paying, Deciding, Bare, Reserving, BudgetPuts, Disposing
      <3> QED  BY <1>1, <3>1, <3>4, Proceeds
    <2> QED  BY <2>3, <2>4
  <1> QED  BY <1>2, <1>3

\* A claim that is closed without a call says what the call answered, or asks for a
\* human, and its cost is the price of a reservation.
LEMMA ClosedTold ==
    ASSUME NEW h \in Hosts, NEW c \in PricedClaims \union {None}, NEW k \in Keys, NEW A,
           ~IsClosed(c), c # None => Told(A, k, c)
    PROVE  /\ \A s \in Slots : Priced(A, k, s.usd) =>
                 LET w == WithoutCall(h, c, s) IN
                 Told(A, k, w) /\ w.way \in Closed /\ Priced(A, k, w.cost)
           /\ c # None =>
                 Told(A, k, Interrupted(c)) /\ Interrupted(c).way \in Closed
  <1>1. ASSUME c # None
        PROVE  /\ c.way \in Open
               /\ c.verdict # None => /\ c.way = "recorded" /\ A[k] # None
                                      /\ c.cost = A[k].cost
                                      /\ \/ c.verdict = "HUMAN_REQUIRED"
                                         \/ c.verdict = A[k].verdict
    BY <1>1 DEF PricedClaims, Claims, IsClosed, Told, Open
  <1>2. ASSUME NEW s \in Slots, Priced(A, k, s.usd)
        PROVE  LET w == WithoutCall(h, c, s) IN
               Told(A, k, w) /\ w.way \in Closed /\ Priced(A, k, w.cost)
    BY <1>1, <1>2 DEF WithoutCall, Told, Priced, Closed
  <1>3. ASSUME c # None
        PROVE  Told(A, k, Interrupted(c)) /\ Interrupted(c).way \in Closed
    <2>1. c \in Claims
      BY <1>3 DEF PricedClaims
    <2>2. Interrupted(c).way = "interrupted" /\ Interrupted(c).verdict = "HUMAN_REQUIRED"
      BY <2>1 DEF Interrupted, Claims
    <2> QED  BY <2>2 DEF Told, Closed
  <1> QED  BY <1>2, <1>3

LEMMA ReservationKnown ==
    ASSUME AuditInv, PaidInv', NEW h \in Hosts, LookForReservation(h)
    PROVE  AuditInv'
  <1>1. UNCHANGED <<ledger, budget, answer, handed, calls, packet>>
        /\ pass[h].at = "budget?"
    BY DEF LookForReservation, canonical, history
  <1>2. PICK k : k = Key(h)
    OBVIOUS
  <1>3. /\ TypedPass(pass[h]) /\ IsPass(pass[h]) /\ pass[h].key = k /\ k \in Keys
        /\ Knows(pass[h], ledger, budget, answer, handed) /\ Books /\ PaidInv
    BY <1>1, <1>2, Under
  <1>4. pass[h].month \in Months /\ pass[h].ledger \in Docs
    BY <1>1, <1>3 DEF TypedPass, Knowing, Paying
  <1>5. PICK c, s : c = pass[h].ledger[k].claim /\ s = budget[pass[h].month].slots[k]
    OBVIOUS
  <1>6. /\ c \in PricedClaims \union {None} /\ s \in Slots \union {None}
        /\ ~IsClosed(c) /\ (c # None => Told(answer, k, c))
        /\ s # None => Priced(answer, k, s.usd)
    <2>1. c \in PricedClaims \union {None} /\ s \in Slots \union {None}
      BY <1>3, <1>4, <1>5 DEF Docs, PaidInv, Shaped, IsBudget
    <2>2. ~IsClosed(c) /\ (c # None => Told(answer, k, c))
      BY <1>1, <1>3, <1>5 DEF Knows, Paying
    <2>3. s # None => Priced(answer, k, s.usd)
      BY <1>3, <1>4, <1>5 DEF Books, BudgetsAreGood, GoodBudget
    <2> QED  BY <2>1, <2>2, <2>3
  <1>7. CASE s # None
    <2>1. PICK w : w = WithoutCall(h, c, s)
      OBVIOUS
    <2>2. Told(answer, k, w) /\ w.way \in Closed /\ Priced(answer, k, w.cost)
      BY <1>3, <1>6, <1>7, <2>1, ClosedTold
    <2>3. PICK r : /\ pass' = [pass EXCEPT ![h] = r]
                   /\ r = [pass[h] EXCEPT !.at = "settle?", !.result = w]
      BY <1>2, <1>5, <1>7, <2>1 DEF LookForReservation
    <2>4. r.at = "settle?" /\ r.key = k /\ r.result = w /\ r.ledger = pass[h].ledger
          /\ r.month = pass[h].month
      BY <1>3, <2>3 DEF IsPass
    <2>5. w.way # "claimed"
      BY <2>2 DEF Closed
    <2>6. Knows(r, ledger, budget, answer, handed)
      BY <1>5, <1>6, <1>7, <2>2, <2>4, <2>5 DEF Knows, BudgetPuts, Disposing
    <2> QED  BY <1>1, <2>3, <2>6, Proceeds
  <1>8. CASE s = None /\ c # None
    <2>1. PICK w : w = Interrupted(c)
      OBVIOUS
    <2>2. Told(answer, k, w) /\ w.way \in Closed
      BY <1>3, <1>6, <1>8, <2>1, ClosedTold
    <2>3. PICK r : /\ pass' = [pass EXCEPT ![h] = r]
                   /\ r = [pass[h] EXCEPT !.at = "finish", !.result = w]
      BY <1>2, <1>5, <1>8, <2>1 DEF LookForReservation
    <2>4. r.at = "finish" /\ r.key = k /\ r.result = w /\ r.ledger = pass[h].ledger
      BY <1>3, <2>3 DEF IsPass
    <2>5. Knows(r, ledger, budget, answer, handed)
      BY <1>5, <1>6, <2>2, <2>4 DEF Knows, Reserving, BudgetPuts, Disposing
    <2> QED  BY <1>1, <2>3, <2>5, Proceeds
  <1>9. CASE s = None /\ c = None
    <2>1. PICK r : /\ pass' = [pass EXCEPT ![h] = r]
                   /\ r = [pass[h] EXCEPT !.at = "reserve?"]
      BY <1>2, <1>5, <1>9 DEF LookForReservation
    <2>2. r.at = "reserve?" /\ r.key = k /\ r.ledger = pass[h].ledger
      BY <1>3, <2>1 DEF IsPass
    <2>3. Knows(r, ledger, budget, answer, handed)
      BY <1>5, <1>6, <2>2 DEF Knows, Deciding, Reserving, BudgetPuts, Disposing
    <2> QED  BY <1>1, <2>1, <2>3, Proceeds
  <1> QED  BY <1>7, <1>8, <1>9

\* A claim whose usage is known is closed as it is.
LEMMA Settles ==
    ASSUME NEW c \in PricedClaims, NEW w, w = [c EXCEPT !.way = SettledWay(@)],
           NEW A, NEW k, Told(A, k, c), c.way # "claimed"
    PROVE  Told(A, k, w) /\ w.way \in Closed
  <1>1. w.way = SettledWay(c.way) /\ w.verdict = c.verdict /\ w.cost = c.cost
    BY DEF PricedClaims, Claims
  <1>2. c.way \in Open \union Closed
    BY DEF PricedClaims, Claims
  <1> QED  BY <1>1, <1>2 DEF Told, SettledWay, Open, Closed

LEMMA BudgetKnown ==
    ASSUME AuditInv, PaidInv', NEW h \in Hosts, LoadToReserve(h) \/ LoadToSettle(h)
    PROVE  AuditInv'
  <1>1. UNCHANGED <<ledger, budget, answer, handed, calls, packet>>
        /\ pass[h].at \in {"reserve?", "settle?"}
    BY DEF LoadToReserve, LoadToSettle, canonical, history
  <1>2. CASE Return(h)
    BY <1>1, <1>2, Gives
  <1>3. CASE ~Return(h)
    <2>1. PICK k : k = Key(h)
      OBVIOUS
    <2>2. /\ TypedPass(pass[h]) /\ IsPass(pass[h]) /\ pass[h].key = k /\ k \in Keys
          /\ Knows(pass[h], ledger, budget, answer, handed) /\ Books
      BY <1>1, <2>1, Under
    <2>3. pass[h].month \in Months
          /\ (pass[h].at = "settle?" => pass[h].result \in PricedClaims)
      BY <1>1, <2>2 DEF TypedPass, Paying, Bare, Deciding
    <2>4. PICK b : b = budget[pass[h].month] /\ GoodBudget(answer, b)
      BY <2>2, <2>3 DEF Books, BudgetsAreGood
    <2>5. PICK c : c = pass[h].ledger[k].claim
      OBVIOUS
    <2>6. ~IsClosed(c) /\ (c # None => Told(answer, k, c))
      BY <1>1, <2>2, <2>5 DEF Knows, Paying, Bare, Deciding
    <2>7. CASE LoadToReserve(h)
      <3>1. PICK r : /\ pass' = [pass EXCEPT ![h] = r]
                     /\ r = [pass[h] EXCEPT !.at = "reserve", !.budget = b]
        BY <1>3, <2>4, <2>7 DEF LoadToReserve
      <3>2. r.at = "reserve" /\ r.key = k /\ r.budget = b /\ r.ledger = pass[h].ledger
        BY <2>2, <3>1 DEF IsPass
      <3>3. b.slots[k] = None /\ b.spent + Ceiling <= MonthlyHard
        <4>1. b.slots[k] = None /\ ~(b.spent + Ceiling > MonthlyHard)
          BY <1>3, <2>1, <2>4, <2>7 DEF LoadToReserve
        <4>2. b.spent \in Int /\ Ceiling \in Int /\ MonthlyHard \in Int
          BY <2>4, AuditAssumption DEF GoodBudget
        <4> QED  BY <4>1, <4>2
      <3>4. Knows(r, ledger, budget, answer, handed)
        BY <2>4, <2>5, <2>6, <3>2, <3>3 DEF Knows, Deciding, Reserving, Disposing
      <3> QED  BY <1>1, <3>1, <3>4, Proceeds
    <2>8. CASE LoadToSettle(h)
      <3>0. /\ pass[h].at = "settle?" /\ pass[h].result \in PricedClaims
            /\ Told(answer, k, pass[h].result) /\ pass[h].result.way # "claimed"
            /\ Priced(answer, k, pass[h].result.cost) /\ b.slots[k] # None
        BY <2>2, <2>3, <2>4, <2>8 DEF LoadToSettle, Knows, Deciding, Reserving
      <3>1. CASE b.slots[k].settled
        <4>1. PICK w : w = [pass[h].result EXCEPT !.way = SettledWay(@)]
          OBVIOUS
        <4>2. PICK r : /\ pass' = [pass EXCEPT ![h] = r]
                       /\ r = [pass[h] EXCEPT !.at = "finish", !.tried = FALSE, !.result = w]
          <5> DEFINE r == [pass[h] EXCEPT !.at = "finish", !.tried = FALSE, !.result = w]
          <5>1. pass' = [pass EXCEPT ![h].at = "finish", ![h].tried = FALSE,
                                     ![h].result.way = SettledWay(@)]
            BY <2>1, <2>4, <2>8, <3>1 DEF LoadToSettle
          <5>2. pass' = [pass EXCEPT ![h] = r]
            BY <2>2, <4>1, <5>1 DEF IsPass
          <5> QED  BY <5>2
        <4>3. r.at = "finish" /\ r.key = k /\ r.result = w /\ r.ledger = pass[h].ledger
          BY <2>2, <4>2 DEF IsPass
        <4>4. Told(answer, k, w) /\ w.way \in Closed
          BY <3>0, <4>1, Settles
        <4>5. Knows(r, ledger, budget, answer, handed)
          BY <2>5, <2>6, <4>3, <4>4 DEF Knows, Reserving, BudgetPuts, Disposing
        <4> QED  BY <1>1, <4>2, <4>5, Proceeds
      <3>2. CASE ~b.slots[k].settled
        <4>1. PICK r : /\ pass' = [pass EXCEPT ![h] = r]
                       /\ r = [pass[h] EXCEPT !.at = "settle", !.budget = b]
          BY <2>1, <2>4, <2>8, <3>2 DEF LoadToSettle
        <4>2. /\ r.at = "settle" /\ r.key = k /\ r.budget = b /\ r.ledger = pass[h].ledger
              /\ r.result = pass[h].result /\ r.month = pass[h].month
          BY <2>2, <4>1 DEF IsPass
        <4>3. Knows(r, ledger, budget, answer, handed)
          BY <2>4, <2>5, <2>6, <3>0, <3>2, <4>2 DEF Knows, Disposing
        <4> QED  BY <1>1, <4>1, <4>3, Proceeds
      <3> QED  BY <3>1, <3>2
    <2> QED  BY <2>7, <2>8
  <1> QED  BY <1>2, <1>3
\* The one paid call: it is reserved, and it is the first.
LEMMA CallTold ==
    ASSUME AuditInv, PaidInv', NEW h \in Hosts, Call(h)
    PROVE  AuditInv'
  <1>1. UNCHANGED <<ledger, budget, handed, packet>> /\ pass[h].at = "call"
    BY DEF Call, canonical
  <1>2. PICK k : k = Key(h)
    OBVIOUS
  <1>3. /\ TypedPass(pass[h]) /\ IsPass(pass[h]) /\ pass[h].key = k /\ k \in Keys
        /\ Knows(pass[h], ledger, budget, answer, handed) /\ Books /\ PaidInv
    BY <1>1, <1>2, Under
  <1>4. CASE RequireIdentity
    BY <1>1, <1>4, Gives DEF Call
  <1>5. CASE ~RequireIdentity
    <2>1. PICK v \in Answers, usd \in Costs :
             /\ calls' = [calls EXCEPT ![k] = @ + 1]
             /\ answer' = [answer EXCEPT ![k] =
                   [verdict |-> v, cost |-> usd, month |-> pass[h].month]]
             /\ pass' = [pass EXCEPT ![h].at = "record",
                   ![h].result = [@ EXCEPT !.way = "recorded", !.verdict = v, !.cost = usd]]
      BY <1>2, <1>5 DEF Call
    <2>2. /\ pass[h].month \in Months /\ pass[h].result \in PricedClaims
          /\ budget[pass[h].month].slots[k] # None
      BY <1>1, <1>3 DEF TypedPass, Paying, Deciding, Knows, Reserving
    <2>3. PICK a : a = [verdict |-> v, cost |-> usd, month |-> pass[h].month]
      OBVIOUS
    <2>4. a \in Replies /\ a # None /\ a.cost <= Ceiling
      <3>1. v \in Verdicts /\ usd \in 0..Ceiling /\ Ceiling \in Nat
        BY AuditAssumption
      <3>2. a \in Replies
        BY <2>2, <2>3, <3>1 DEF Replies
      <3> QED  BY <2>3, <3>1, <3>2, ClaimAssumption
    <2>5. answer[k] = None /\ answer \in [Keys -> Replies \union {None}]
      <3>1. calls[k] = 0
        BY <1>1, <1>3 DEF PaidInv, OneCaller
      <3> QED  BY <1>3, <3>1 DEF Books, AnswersShaped
    <2>6. answer'[k] = a /\ \A j \in Keys : j # k => answer'[j] = answer[j]
      BY <1>3, <2>1, <2>3, <2>5
    <2>7. Onward(ledger, budget, answer, handed, ledger', budget', answer', handed')
      BY <1>1, <2>5, <2>6 DEF Onward
    <2>8. Books'
      <3>1. AnswersShaped'
        <4>1. answer' \in [Keys -> Replies \union {None}]
          BY <1>3, <2>1, <2>3, <2>4, <2>5
        <4>2. calls'[k] = calls[k] + 1 /\ calls[k] \in Nat
              /\ \A j \in Keys : j # k => calls'[j] = calls[j]
          BY <1>3, <2>1 DEF PaidInv, Shaped
        <4>3. calls'[k] # 0
          BY <4>2
        <4> QED  BY <1>3, <2>4, <2>6, <4>1, <4>2, <4>3 DEF Books, AnswersShaped
      <3>2. ClaimsAreTold(ledger', answer')
        BY <1>1, <1>3, <2>5, <2>6 DEF Books, ClaimsAreTold, Told
      <3>3. BudgetsAreGood(budget', answer')
        <4>1. \A j \in Keys : answer'[j] # None => budget[answer'[j].month].slots[j] # None
          BY <1>3, <2>2, <2>3, <2>6 DEF Books, BudgetsAreGood
        <4>2. \A m \in Months : GoodBudget(answer', budget[m])
          BY <1>3, <2>5, <2>6 DEF Books, BudgetsAreGood, GoodBudget, Priced
        <4> QED  BY <1>1, <4>1, <4>2 DEF BudgetsAreGood
      <3>4. DispositionsAreTrue'
        BY <1>1, <1>3 DEF Books, DispositionsAreTrue, EntryOf
      <3> QED  BY <3>1, <3>2, <3>3, <3>4 DEF Books
    <2>9. PICK w : w = [pass[h].result EXCEPT !.way = "recorded", !.verdict = v, !.cost = usd]
      OBVIOUS
    <2>10. PICK r : /\ pass' = [pass EXCEPT ![h] = r]
                    /\ r = [pass[h] EXCEPT !.at = "record", !.result = w]
      <3> DEFINE r == [pass[h] EXCEPT !.at = "record", !.result = w]
      <3>1. pass' = [pass EXCEPT ![h] = r]
        BY <1>3, <2>1, <2>9 DEF IsPass
      <3> QED  BY <3>1
    <2>11. /\ r.at = "record" /\ r.key = k /\ r.result = w /\ r.ledger = pass[h].ledger
           /\ r.month = pass[h].month
      BY <1>3, <2>10 DEF IsPass
    <2>12. w.way = "recorded" /\ w.verdict = a.verdict /\ w.cost = a.cost
      BY <2>2, <2>3, <2>9 DEF PricedClaims, Claims
    <2>13. Told(answer', k, w)
      BY <2>4, <2>6, <2>12 DEF Told
    <2>14. PICK c : c = pass[h].ledger[k].claim
      OBVIOUS
    <2>15. ~IsClosed(c) /\ (c # None => Told(answer', k, c))
      BY <1>1, <1>3, <2>5, <2>14 DEF Knows, Paying, Deciding, Told
    <2>16. Knows(r, ledger', budget', answer', handed')
      BY <1>1, <2>2, <2>11, <2>12, <2>13, <2>14, <2>15
         DEF Knows, BudgetPuts, Disposing
    <2> QED  BY <2>7, <2>8, <2>10, <2>16, Advances
  <1> QED  BY <1>4, <1>5

LEMMA PacketKnown ==
    ASSUME AuditInv, PaidInv', NEW h \in Hosts, LoadPacket(h)
    PROVE  AuditInv'
  <1>1. UNCHANGED <<ledger, budget, answer, handed, calls, packet>>
        /\ pass[h].at = "packet?"
    BY DEF LoadPacket, canonical, history
  <1>2. CASE Return(h)
    BY <1>1, <1>2, Gives
  <1>3. CASE ~Return(h)
    <2>1. PICK k : k = Key(h)
      OBVIOUS
    <2>2. /\ IsPass(pass[h]) /\ pass[h].key = k /\ k \in Keys
          /\ Knows(pass[h], ledger, budget, answer, handed) /\ Books /\ PaidInv
      BY <1>1, <2>1, Under
    <2>3. PICK c : c = pass[h].ledger[k].claim
      OBVIOUS
    <2>4. IsClosed(c) /\ ClaimIn(ledger, k) = c
      BY <1>1, <2>2, <2>3 DEF Knows, Disposing
    <2>5. c.verdict \in Verdicts
      <3>1. Told(answer, k, c) /\ c.way # "claimed"
        BY <2>2, <2>4 DEF Books, ClaimsAreTold, IsClosed, Closed
      <3>2. answer[k] # None => answer[k].verdict \in Verdicts
        BY <2>2 DEF Books, AnswersShaped, Replies
      <3> QED  BY <3>1, <3>2 DEF Told, Verdicts
    <2>6. Verdict(h) = c.verdict
      BY <2>1, <2>3 DEF Verdict
    <2>7. PICK r : /\ pass' = [pass EXCEPT ![h] = r]
                   /\ \/ /\ r = [pass[h] EXCEPT !.at = "recheck", !.body = packet[Issue(h)]]
                         /\ c.verdict = "REWORK"
                      \/ /\ r = [pass[h] EXCEPT !.at = "remember"]
                         /\ c.verdict = "HUMAN_REQUIRED"
      <3>1. CASE Verdict(h) = "REWORK"
        BY <1>3, <2>6, <3>1 DEF LoadPacket
      <3>2. CASE Verdict(h) # "REWORK"
        <4>1. Goto(h, "remember") /\ Verdict(h) # "PASS"
          BY <1>3, <3>2 DEF LoadPacket
        <4>2. c.verdict = "HUMAN_REQUIRED"
          BY <2>5, <2>6, <3>2, <4>1 DEF Verdicts
        <4> QED  BY <4>1, <4>2 DEF Goto
      <3> QED  BY <3>1, <3>2
    <2>8. /\ r.key = k /\ r.ledger = pass[h].ledger
          /\ \/ r.at = "recheck" /\ c.verdict = "REWORK"
             \/ r.at = "remember" /\ c.verdict = "HUMAN_REQUIRED"
      BY <2>2, <2>7 DEF IsPass
    <2>9. Knows(r, ledger, budget, answer, handed)
      BY <2>3, <2>4, <2>8
         DEF Knows, Paying, Deciding, Bare, Reserving, BudgetPuts
    <2> QED  BY <1>1, <2>7, <2>9, Proceeds
  <1> QED  BY <1>2, <1>3

\* The packet is handed back, for a HEAD that is closed with REWORK.
LEMMA EditKnown ==
    ASSUME AuditInv, PaidInv', NEW h \in Hosts, EditPacket(h)
    PROVE  AuditInv'
  <1>1. UNCHANGED <<ledger, budget, answer, calls>> /\ pass[h].at = "edit"
    BY DEF EditPacket
  <1>2. PICK k : k = Key(h)
    OBVIOUS
  <1>3. /\ TypedPass(pass[h]) /\ IsPass(pass[h]) /\ pass[h].key = k /\ k \in Keys
        /\ Knows(pass[h], ledger, budget, answer, handed) /\ Books /\ PaidInv
        /\ packet \in [Issues -> Packets]
    BY <1>1, <1>2, Under DEF PaidInv, Shaped
  <1>4. handed' = handed \union {k}
    BY <1>2 DEF EditPacket
  <1>5. Onward(ledger, budget, answer, handed, ledger', budget', answer', handed')
    BY <1>1, <1>4 DEF Onward
  <1>6. Books'
    <2>1. DispositionsAreTrue'
      <3>1. \A i \in Issues :
               packet'[i].handoff \in handed' \union {None, InitialPackets[i].handoff}
        <4>1. pass[h].body \in Packets
          BY <1>1, <1>3 DEF TypedPass
        <4>2. PICK b : b = [pass[h].body EXCEPT !.handoff = k]
          OBVIOUS
        <4>3. b.handoff = k
          BY <4>1, <4>2 DEF Packets
        <4>4. packet' = [packet EXCEPT ![Issue(h)] = b]
          BY <1>2, <4>2 DEF EditPacket
        <4>5. \A i \in Issues :
                 packet[i].handoff \in handed \union {None, InitialPackets[i].handoff}
          BY <1>3 DEF Books, DispositionsAreTrue
        <4> QED  BY <1>3, <1>4, <4>3, <4>4, <4>5
      <3> QED  BY <1>1, <1>3, <1>4, <3>1 DEF Books, DispositionsAreTrue, EntryOf
    <2> QED  BY <1>1, <1>3, <2>1 DEF Books, AnswersShaped
  <1>7. PICK r : pass' = [pass EXCEPT ![h] = r] /\ r = [pass[h] EXCEPT !.at = "remember"]
    BY DEF EditPacket, Goto
  <1>8. r.at = "remember" /\ r.key = k /\ r.ledger = pass[h].ledger
    BY <1>3, <1>7 DEF IsPass
  <1>9. Knows(r, ledger', budget', answer', handed')
    BY <1>1, <1>3, <1>4, <1>8
       DEF Knows, Paying, Deciding, Bare, Reserving, BudgetPuts, Disposing
  <1> QED  BY <1>5, <1>6, <1>7, <1>9, Advances

\* The world changes, and no pass.
LEMMA WorldTold ==
    ASSUME AuditInv, PaidInv',
           \/ NextMonth
           \/ \E i \in Issues : Commit(i) \/ \E j \in Issues : Switch(i, j)
           \/ UNCHANGED vars
    PROVE  AuditInv'
  <1>1. UNCHANGED <<ledger, budget, answer, handed, calls, pass>>
    BY DEF NextMonth, Commit, Switch, vars, canonical, history
  <1>2. \A i \in Issues : packet'[i].handoff \in {packet[i].handoff, None}
    <2>1. packet \in [Issues -> Packets]
      BY DEF AuditInv, PaidInv, Shaped
    <2>2. ASSUME NEW i \in Issues, Commit(i)
          PROVE  \A j \in Issues : packet'[j].handoff \in {packet[j].handoff, None}
      <3>1. PICK k \in Keys, left \in {packet[i].handoff, None} :
               packet' = [packet EXCEPT ![i].head = k, ![i].handoff = left]
        BY <2>2 DEF Commit
      <3>2. PICK p : p = [packet[i] EXCEPT !.head = k, !.handoff = left]
        OBVIOUS
      <3>3. p.handoff = left
        BY <2>1, <3>2 DEF Packets
      <3>4. packet' = [packet EXCEPT ![i] = p]
        BY <3>1, <3>2
      <3> QED  BY <2>1, <3>3, <3>4
    <2>3. ASSUME NEW i \in Issues, NEW j \in Issues, Switch(i, j)
          PROVE  \A l \in Issues : packet'[l].handoff \in {packet[l].handoff, None}
      <3>1. \A p \in Packets : /\ [p EXCEPT !.active = FALSE].handoff = p.handoff
                               /\ [p EXCEPT !.active = TRUE].handoff = p.handoff
        BY DEF Packets
      <3>2. i # j /\ packet' = [packet EXCEPT ![i].active = FALSE, ![j].active = TRUE]
        BY <2>3 DEF Switch
      <3> QED  BY <2>1, <3>1, <3>2
    <2>4. packet' = packet => \A j \in Issues : packet'[j].handoff \in {packet[j].handoff, None}
      OBVIOUS
    <2> QED  BY <2>2, <2>3, <2>4 DEF NextMonth, canonical, vars
  <1>3. DispositionsAreTrue'
    BY <1>1, <1>2 DEF AuditInv, Books, DispositionsAreTrue, EntryOf
  <1>4. Books'
    BY <1>1, <1>3 DEF AuditInv, Books, AnswersShaped
  <1> QED  BY <1>1, <1>4 DEF AuditInv
-----------------------------------------------------------------------------
(* The PUTs of a pass.                                                        *)

\* What is wanted of a budget keeps it good, and takes no reservation back.
LEMMA WantedBudget ==
    ASSUME AuditInv, NEW h \in Hosts, pass[h].at \in BudgetPuts, NEW k, k = Key(h)
    PROVE  /\ GoodBudget(answer, Wanted(h)) /\ Wanted(h).slots[k] # None
           /\ \A j \in Keys : pass[h].budget.slots[j] # None => Wanted(h).slots[j] # None
  <1>1. /\ TypedPass(pass[h]) /\ pass[h].key = k /\ k \in Keys
        /\ Knows(pass[h], ledger, budget, answer, handed) /\ Books
    BY Under DEF BudgetPuts
  <1>2. PICK b : b = pass[h].budget
    OBVIOUS
  <1>3. IsBudget(b) /\ GoodBudget(answer, b) /\ DOMAIN b.slots = Keys
    BY <1>1, <1>2 DEF TypedPass, IsBudget, Knows
  <1>4. Ceiling \in Nat /\ MonthlyHard \in Nat /\ b.spent \in Int
    BY <1>3, AuditAssumption DEF GoodBudget
  <1>5. CASE pass[h].at = "reserve"
    <2>1. PICK W : W = [spent |-> b.spent + Ceiling, slots |-> [b.slots EXCEPT ![k] = Reserved]]
      OBVIOUS
    <2>2. Wanted(h) = W
      BY <1>2, <1>5, <2>1 DEF Wanted
    <2>3. /\ W.spent = b.spent + Ceiling /\ W.slots[k] = Reserved
          /\ \A j \in Keys : j # k => W.slots[j] = b.slots[j]
      BY <1>1, <1>3, <2>1
    <2>4. Reserved # None /\ Reserved.usd = Ceiling
      <3>1. Reserved \in Slots
        BY <1>4 DEF Reserved, Slots
      <3> QED  BY <3>1, ClaimAssumption DEF Reserved
    <2>5. b.spent + Ceiling <= MonthlyHard
      BY <1>1, <1>2, <1>5 DEF Knows
    <2>6. AddsUp(W)
      <3>1. b.slots[k] = None
        BY <1>1, <1>2, <1>5 DEF Knows
      <3>2. Amounts(b)[k] = 0 /\ Amounts(W)[k] = Ceiling
        BY <1>1, <2>3, <2>4, <3>1 DEF Amounts
      <3>3. W.spent = b.spent - Amounts(b)[k] + Amounts(W)[k]
        BY <1>4, <2>3, <3>2
      <3>4. Reserved \in Slots
        BY <1>4 DEF Reserved, Slots
      <3>5. W.slots \in [Keys -> Slots \union {None}]
        BY <1>3, <2>1, <3>4 DEF IsBudget
      <3> QED  BY <1>1, <1>3, <2>3, <3>3, <3>5, StillAddsUp DEF GoodBudget, IsBudget
    <2>7. GoodBudget(answer, W)
      BY <1>3, <1>4, <2>3, <2>4, <2>5, <2>6 DEF GoodBudget, Priced
    <2> QED  BY <1>2, <2>2, <2>3, <2>4, <2>7
  <1>6. CASE pass[h].at = "settle"
    <2>1. PICK usd : usd = pass[h].result.cost
      OBVIOUS
    <2>2. PICK s : s = [usd |-> usd, settled |-> TRUE]
      OBVIOUS
    <2>3. PICK W : W = [spent |-> b.spent + usd - b.slots[k].usd,
                        slots |-> [b.slots EXCEPT ![k] = s]]
      OBVIOUS
    <2>4. Wanted(h) = W
      BY <1>1, <1>2, <1>6, <2>1, <2>2, <2>3 DEF Wanted, Key
    <2>5. /\ W.spent = b.spent + usd - b.slots[k].usd /\ W.slots[k] = s
          /\ \A j \in Keys : j # k => W.slots[j] = b.slots[j]
      BY <1>1, <1>3, <2>3
    <2>6. Priced(answer, k, usd) /\ b.slots[k] # None /\ ~b.slots[k].settled
      BY <1>1, <1>2, <1>6, <2>1 DEF Knows
    <2>7. usd \in Nat /\ usd <= Ceiling
      <3>1. answer[k] # None => answer[k].cost \in Nat /\ answer[k].cost <= Ceiling
        BY <1>1 DEF Books, AnswersShaped, Replies
      <3> QED  BY <1>4, <2>6, <3>1 DEF Priced
    <2>8. b.slots[k].usd = Ceiling
      BY <1>1, <1>3, <2>6 DEF GoodBudget
    <2>9. W.spent \in Int /\ W.spent <= MonthlyHard
      <3>1. b.spent <= MonthlyHard
        BY <1>3 DEF GoodBudget
      <3> QED  BY <1>4, <2>5, <2>7, <2>8, <3>1
    <2>10. s # None /\ s.usd = usd /\ s.settled
      <3>1. s \in Slots
        BY <2>2, <2>7 DEF Slots
      <3> QED  BY <2>2, <3>1, ClaimAssumption
    <2>11. AddsUp(W)
      <3>1. Amounts(b)[k] = b.slots[k].usd /\ Amounts(W)[k] = usd
        BY <1>1, <2>5, <2>6, <2>10 DEF Amounts
      <3>2. W.spent = b.spent - Amounts(b)[k] + Amounts(W)[k]
        BY <1>4, <2>5, <2>7, <2>8, <3>1
      <3>3. s \in Slots
        BY <2>2, <2>7 DEF Slots
      <3>4. W.slots \in [Keys -> Slots \union {None}]
        BY <1>3, <2>3, <3>3 DEF IsBudget
      <3> QED  BY <1>1, <1>3, <2>5, <3>2, <3>4, StillAddsUp DEF GoodBudget, IsBudget
    <2>12. GoodBudget(answer, W)
      BY <1>3, <2>5, <2>6, <2>9, <2>10, <2>11 DEF GoodBudget
    <2> QED  BY <1>2, <2>4, <2>5, <2>10, <2>12
  <1> QED  BY <1>5, <1>6 DEF BudgetPuts

\* A claim that a pass replaces is not closed, and what it writes is true.
LEMMA WantedClaim ==
    ASSUME AuditInv, NEW h \in Hosts, pass[h].at \in {"claim", "record", "finish"},
           NEW k, k = Key(h)
    PROVE  ~IsClosed(pass[h].ledger[k].claim) /\ Told(answer, k, pass[h].result)
  <1>1. pass[h].key = k /\ Knows(pass[h], ledger, budget, answer, handed)
    BY Under
  <1> QED  BY <1>1 DEF Knows, Paying, Bare, Deciding

\* A document that is stored keeps the books, and takes nothing back.
LEMMA StoreTold ==
    ASSUME AuditInv, NEW h \in Hosts, pass[h].at \in BudgetPuts \union LedgerPuts,
           Current(h) = Loaded(h), Store(h), UNCHANGED <<answer, handed, calls, packet>>
    PROVE  /\ Onward(ledger, budget, answer, handed, ledger', budget', answer', handed')
           /\ Books'
           /\ pass[h].at \in BudgetPuts => budget'[pass[h].month] = Wanted(h)
           /\ pass[h].at \in LedgerPuts => ledger'[Issue(h)] = Wanted(h)
  <1>1. PICK k : k = Key(h)
    OBVIOUS
  <1>2. /\ TypedPass(pass[h]) /\ IsPass(pass[h]) /\ pass[h].key = k /\ k \in Keys
        /\ Issue(h) = IssueOf[k] /\ Knows(pass[h], ledger, budget, answer, handed)
        /\ EntryOf(k) = ledger[Issue(h)][k] /\ Books /\ PaidInv
    BY <1>1, Under DEF BudgetPuts, LedgerPuts
  <1>3. CASE pass[h].at \in BudgetPuts
    <2>0. PICK m \in Months : m = pass[h].month
      BY <1>2, <1>3 DEF TypedPass, BudgetPuts, Paying, Bare, Deciding
    <2>1. PICK W : W = Wanted(h)
      OBVIOUS
    <2>2. /\ GoodBudget(answer, W) /\ W.slots[k] # None
          /\ \A j \in Keys : budget[m].slots[j] # None => W.slots[j] # None
      <3>1. pass[h].budget = budget[m]
        BY <1>3, <2>0 DEF Current, Loaded
      <3> QED  BY <1>1, <1>3, <2>1, <3>1, WantedBudget
    <2>3. /\ ledger' = ledger /\ budget'[m] = W
          /\ \A n \in Months : n # m => budget'[n] = budget[n]
      <3>1. budget = [n \in Months |-> budget[n]]
        BY <1>2 DEF PaidInv, Shaped
      <3> QED  BY <1>3, <2>0, <2>1, <3>1 DEF Store
    <2>4. \A n \in Months : \A j \in Keys :
             budget[n].slots[j] # None => budget'[n].slots[j] # None
      BY <2>2, <2>3
    <2>5. Onward(ledger, budget, answer, handed, ledger', budget', answer', handed')
      BY <2>3, <2>4 DEF Onward
    <2>6. BudgetsAreGood(budget', answer)
      <3>1. \A n \in Months : GoodBudget(answer, budget'[n])
        BY <1>2, <2>2, <2>3 DEF Books, BudgetsAreGood
      <3>2. \A j \in Keys : answer[j] # None => answer[j].month \in Months
        BY <1>2 DEF Books, AnswersShaped, Replies
      <3>3. \A j \in Keys : answer[j] # None => budget'[answer[j].month].slots[j] # None
        BY <1>2, <2>4, <3>2 DEF Books, BudgetsAreGood
      <3> QED  BY <3>1, <3>3 DEF BudgetsAreGood
    <2>7. Books'
      BY <1>2, <2>3, <2>6 DEF Books, AnswersShaped, DispositionsAreTrue, EntryOf
    <2> QED  BY <1>3, <2>0, <2>1, <2>3, <2>5, <2>7 DEF BudgetPuts, LedgerPuts
  <1>4. CASE pass[h].at \in LedgerPuts
    <2>0. pass[h].at \notin BudgetPuts
      BY <1>4 DEF BudgetPuts, LedgerPuts
    <2>1. PICK W : W = Wanted(h)
      OBVIOUS
    <2>2. budget' = budget /\ ledger' = [ledger EXCEPT ![Issue(h)] = W]
      BY <2>0, <2>1 DEF Store
    <2>3. ledger[Issue(h)] = pass[h].ledger /\ pass[h].ledger \in Docs
      BY <1>2, <1>4, <2>0, PutFacts DEF Current, Loaded
    <2>4. PICK e : e = W[k]
      OBVIOUS
    <2>5. /\ pass[h].at = "remember" => e.claim = EntryOf(k).claim
          /\ pass[h].at # "remember" => e.claim = pass[h].result
          /\ \A j \in Keys \ {k} : W[j] = pass[h].ledger[j]
      BY <1>1, <1>2, <1>4, <2>1, <2>3, <2>4, LedgerWanted
    <2>6. /\ pass[h].at # "remember" => e.note = EntryOf(k).note
          /\ pass[h].at = "remember" =>
                e.note = (IF Verdict(h) = "REWORK" THEN "rework_handoff" ELSE "human_required")
      <3>1. CASE pass[h].at = "remember"
        <4>1. PICK n : n = IF Verdict(h) = "REWORK" THEN "rework_handoff" ELSE "human_required"
          OBVIOUS
        <4>2. W = [pass[h].ledger EXCEPT ![k].note = n]
          BY <1>1, <2>1, <3>1, <4>1 DEF Wanted
        <4> QED  BY <1>2, <2>3, <2>4, <3>1, <4>1, <4>2 DEF Docs
      <3>2. CASE pass[h].at # "remember"
        <4>1. W = [pass[h].ledger EXCEPT ![k].claim = pass[h].result]
          BY <1>1, <1>4, <2>1, <3>2 DEF Wanted, LedgerPuts
        <4> QED  BY <1>2, <2>3, <2>4, <3>2, <4>1 DEF Docs
      <3> QED  BY <3>1, <3>2
    <2>7. /\ \A j \in Keys \ {k} : ledger'[IssueOf[j]][j] = ledger[IssueOf[j]][j]
          /\ ledger'[IssueOf[k]][k] = e
      <3>1. /\ \A j \in Keys : IssueOf[j] \in Issues /\ Issue(h) \in Issues
            /\ ledger \in [Issues -> Docs]
        BY <1>2 DEF Issues, PaidInv, Shaped
      <3> QED  BY <1>2, <2>2, <2>3, <2>4, <2>5, <3>1
    <2>8. CASE pass[h].at = "remember"
      <3>1. PICK c : c = EntryOf(k).claim
        OBVIOUS
      <3>2. /\ IsClosed(c) /\ Verdict(h) = c.verdict
            /\ c.verdict = "HUMAN_REQUIRED" \/ (c.verdict = "REWORK" /\ k \in handed)
        BY <1>1, <1>2, <2>3, <2>8, <3>1 DEF Knows, Verdict, Disposing
      <3>3. \A j \in Keys : ClaimIn(ledger', j) = ClaimIn(ledger, j)
        BY <1>2, <2>5, <2>7, <2>8 DEF ClaimIn
      <3>4. Onward(ledger, budget, answer, handed, ledger', budget', answer', handed')
        BY <2>2, <3>3 DEF Onward
      <3>5. ClaimsAreTold(ledger', answer)
        BY <1>2, <3>3 DEF Books, ClaimsAreTold
      <3>6. DispositionsAreTrue'
        <4>1. e.claim = c
          BY <2>5, <2>8, <3>1
        <4>2. /\ e.note = "rework_handoff" => k \in handed
              /\ e.note = "human_required" => IsClosed(c) /\ c.verdict = "HUMAN_REQUIRED"
          BY <2>6, <2>8, <3>2
        <4> QED  BY <1>2, <2>7, <4>1, <4>2 DEF Books, DispositionsAreTrue, EntryOf
      <3> QED  BY <1>1, <1>2, <2>0, <2>1, <2>2, <2>3, <3>4, <3>5, <3>6
               DEF Books, AnswersShaped, PaidInv, Shaped, Issues
    <2>9. CASE pass[h].at # "remember"
      <3>1. ~IsClosed(EntryOf(k).claim) /\ Told(answer, k, e.claim)
        BY <1>1, <1>2, <1>4, <2>3, <2>5, <2>9, WantedClaim DEF LedgerPuts
      <3>2. Onward(ledger, budget, answer, handed, ledger', budget', answer', handed')
        <4>1. \A j \in Keys : IsClosed(ClaimIn(ledger, j)) => ClaimIn(ledger', j) = ClaimIn(ledger, j)
          BY <1>2, <2>7, <3>1 DEF ClaimIn
        <4> QED  BY <2>2, <4>1 DEF Onward
      <3>3. ClaimsAreTold(ledger', answer)
        BY <1>2, <2>7, <3>1 DEF Books, ClaimsAreTold, ClaimIn
      <3>4. DispositionsAreTrue'
        <4>1. EntryOf(k).note # "human_required"
          BY <1>2, <3>1 DEF Books, DispositionsAreTrue
        <4> QED  BY <1>2, <2>6, <2>7, <2>9, <4>1 DEF Books, DispositionsAreTrue, EntryOf
      <3> QED  BY <1>1, <1>2, <2>0, <2>1, <2>2, <2>3, <3>2, <3>3, <3>4
               DEF Books, AnswersShaped, PaidInv, Shaped, Issues
    <2> QED  BY <2>8, <2>9
  <1> QED  BY <1>3, <1>4
\* Where a pass goes whose document is stored: it knows what is true of the
\* documents that hold what it wanted.
LEMMA StoredKnowing ==
    ASSUME AuditInv, NEW h \in Hosts, pass[h].at \in BudgetPuts \union LedgerPuts, Stored(h),
           NEW M, NEW C,
           Onward(ledger, budget, answer, handed, M, C, answer, handed),
           pass[h].at \in BudgetPuts => C[pass[h].month] = Wanted(h),
           pass[h].at \in LedgerPuts => M[Issue(h)] = Wanted(h)
    PROVE  \E r : pass' = [pass EXCEPT ![h] = r] /\ Knows(r, M, C, answer, handed)
  <1>1. PICK k : k = Key(h)
    OBVIOUS
  <1>2. /\ TypedPass(pass[h]) /\ IsPass(pass[h]) /\ pass[h].key = k /\ k \in Keys
        /\ Issue(h) = IssueOf[k] /\ Books /\ PaidInv
        /\ Knows(pass[h], ledger, budget, answer, handed)
    BY <1>1, Under DEF BudgetPuts, LedgerPuts
  <1>3. Knows(pass[h], M, C, answer, handed)
    BY <1>2, Persists
  <1>4. CASE pass[h].at \in {"finish", "remember"}
    <2>1. pass' = [pass EXCEPT ![h] = Idle]
      BY <1>4 DEF Stored
    <2> QED  BY <2>1, IdleKnows
  <1>5. CASE pass[h].at \in {"claim", "record"}
    <2>1. PICK s, W : /\ s = IF pass[h].at = "claim" THEN "call" ELSE "settle?"
                      /\ W = Wanted(h)
      OBVIOUS
    <2>2. PICK r : /\ pass' = [pass EXCEPT ![h] = r]
                   /\ r = [pass[h] EXCEPT !.at = s, !.asked = "no", !.tried = FALSE,
                                          !.budget = None, !.ledger = W]
      <3> DEFINE m == [pass[h] EXCEPT !.at = s, !.asked = "no", !.tried = FALSE,
                                      !.budget = None]
                 r == [m EXCEPT !.ledger = W]
      <3>1. pass' = [pass EXCEPT ![h] = r]
        BY <1>5, <2>1 DEF Stored
      <3>2. r = [pass[h] EXCEPT !.at = s, !.asked = "no", !.tried = FALSE,
                                !.budget = None, !.ledger = W]
        BY <1>2 DEF IsPass
      <3> QED  BY <3>1, <3>2
    <2>3. /\ r.at = s /\ r.ledger = W /\ r.key = k /\ r.month = pass[h].month
          /\ r.result = pass[h].result
      BY <1>2, <2>2 DEF IsPass
    <2>4. W[k].claim = pass[h].result
      BY <1>1, <1>2, <1>5, <2>1, LedgerWanted DEF LedgerPuts
    <2>5. /\ Told(answer, k, pass[h].result)
          /\ pass[h].at = "claim" => pass[h].result.way = "claimed"
          /\ pass[h].at = "record" => pass[h].result.way = "recorded"
          /\ C[pass[h].month].slots[k] # None
      BY <1>2, <1>3, <1>5 DEF Knows, Deciding, Reserving
    <2>6. ~IsClosed(pass[h].result)
      BY <1>5, <2>5 DEF IsClosed, Closed
    <2>7. pass[h].at = "record" => Priced(answer, k, pass[h].result.cost)
      BY <2>5 DEF Told, Priced
    <2>8. Knows(r, M, C, answer, handed)
      BY <1>5, <2>1, <2>3, <2>4, <2>5, <2>6, <2>7
         DEF Knows, BudgetPuts, Disposing
    <2> QED  BY <2>2, <2>8
  <1>6. CASE pass[h].at = "reserve"
    <2>1. PICK r : /\ pass' = [pass EXCEPT ![h] = r]
                   /\ r = [pass[h] EXCEPT !.at = "claim", !.asked = "no", !.tried = FALSE,
                                          !.budget = None, !.result = NewClaim(h)]
      <3> DEFINE m == [pass[h] EXCEPT !.at = "claim", !.asked = "no", !.tried = FALSE,
                                      !.budget = None]
                 r == [m EXCEPT !.result = NewClaim(h)]
      <3>1. pass' = [pass EXCEPT ![h] = r]
        BY <1>6 DEF Stored
      <3>2. r = [pass[h] EXCEPT !.at = "claim", !.asked = "no", !.tried = FALSE,
                                !.budget = None, !.result = NewClaim(h)]
        BY <1>2 DEF IsPass
      <3> QED  BY <3>1, <3>2
    <2>2. /\ r.at = "claim" /\ r.ledger = pass[h].ledger /\ r.key = k
          /\ r.month = pass[h].month /\ r.result = NewClaim(h)
      BY <1>2, <2>1 DEF IsPass
    <2>3. C[pass[h].month].slots[k] # None
      BY <1>1, <1>6, WantedBudget DEF BudgetPuts
    <2>4. Told(answer, k, NewClaim(h)) /\ NewClaim(h).way = "claimed"
      BY DEF Told, NewClaim
    <2>5. PICK c : c = pass[h].ledger[k].claim
      OBVIOUS
    <2>6. ~IsClosed(c) /\ (c # None => Told(answer, k, c))
      BY <1>2, <1>6, <2>5 DEF Knows, Paying, Bare
    <2>7. Knows(r, M, C, answer, handed)
      BY <2>2, <2>3, <2>4, <2>5, <2>6 DEF Knows, BudgetPuts, Disposing
    <2> QED  BY <2>1, <2>7
  <1>7. CASE pass[h].at = "settle"
    <2>0. /\ pass[h].result \in PricedClaims /\ Told(answer, k, pass[h].result)
          /\ pass[h].result.way # "claimed"
      BY <1>2, <1>7 DEF TypedPass, Deciding, Knows
    <2>1. PICK w : w = [pass[h].result EXCEPT !.way = SettledWay(@)]
      OBVIOUS
    <2>2. Told(answer, k, w) /\ w.way \in Closed
      BY <2>0, <2>1, Settles
    <2>3. PICK r : /\ pass' = [pass EXCEPT ![h] = r]
                   /\ r = [pass[h] EXCEPT !.at = "finish", !.asked = "no", !.tried = FALSE,
                                          !.budget = None, !.result = w]
      <3> DEFINE m == [pass[h] EXCEPT !.at = "finish", !.asked = "no", !.tried = FALSE,
                                      !.budget = None]
                 r == [m EXCEPT !.result.way = SettledWay(@)]
      <3>1. pass' = [pass EXCEPT ![h] = r]
        BY <1>7 DEF Stored
      <3>2. r = [pass[h] EXCEPT !.at = "finish", !.asked = "no", !.tried = FALSE,
                                !.budget = None, !.result = w]
        BY <1>2, <2>1 DEF IsPass
      <3> QED  BY <3>1, <3>2
    <2>4. r.at = "finish" /\ r.ledger = pass[h].ledger /\ r.key = k /\ r.result = w
      BY <1>2, <2>3 DEF IsPass
    <2>5. PICK c : c = pass[h].ledger[k].claim
      OBVIOUS
    <2>6. ~IsClosed(c) /\ (c # None => Told(answer, k, c))
      BY <1>2, <1>7, <2>5 DEF Knows, Paying, Deciding
    <2>7. Knows(r, M, C, answer, handed)
      BY <2>2, <2>4, <2>5, <2>6 DEF Knows, Reserving, BudgetPuts, Disposing
    <2> QED  BY <2>3, <2>7
  <1> QED  BY <1>4, <1>5, <1>6, <1>7 DEF BudgetPuts, LedgerPuts

LEMMA LandsKnowing ==
    ASSUME AuditInv, PaidInv', NEW h \in Hosts, PutLands(h)
    PROVE  AuditInv'
  <1>1. /\ pass[h].at \in BudgetPuts \union LedgerPuts
        /\ Current(h) = Loaded(h) /\ Store(h) /\ Stored(h)
        /\ UNCHANGED <<answer, handed, calls, packet>>
    BY DEF PutLands, Asking, history
  <1>2. /\ Onward(ledger, budget, answer, handed, ledger', budget', answer', handed')
        /\ Books'
        /\ pass[h].at \in BudgetPuts => budget'[pass[h].month] = Wanted(h)
        /\ pass[h].at \in LedgerPuts => ledger'[Issue(h)] = Wanted(h)
    BY <1>1, StoreTold
  <1>3. PICK M, C : M = ledger' /\ C = budget'
    OBVIOUS
  <1>4. PICK r : pass' = [pass EXCEPT ![h] = r] /\ Knows(r, M, C, answer, handed)
    BY <1>1, <1>2, <1>3, StoredKnowing
  <1> QED  BY <1>1, <1>2, <1>3, <1>4, Advances

\* A PUT that is refused, or of which nothing is heard: the host stays where it is.
LEMMA WaitsKnowing ==
    ASSUME AuditInv, PaidInv', NEW h \in Hosts, PutRefused(h) \/ PutUnanswered(h)
    PROVE  AuditInv'
  <1>1. /\ pass[h].at \in BudgetPuts \union LedgerPuts
        /\ UNCHANGED <<answer, handed, calls, packet>>
        /\ \/ UNCHANGED <<ledger, budget>>
           \/ Current(h) = Loaded(h) /\ Store(h)
    BY DEF PutRefused, PutUnanswered, Asking, canonical, history
  <1>2. PICK q : q = pass[h]
    OBVIOUS
  <1>3. IsPass(q) /\ TypedPass(q) /\ Knows(q, ledger, budget, answer, handed)
    BY <1>1, <1>2, Under DEF BudgetPuts, LedgerPuts
  <1>4. /\ Onward(ledger, budget, answer, handed, ledger', budget', answer', handed')
        /\ Books'
    BY <1>1, Stays, StoreTold
  <1>5. Knows(q, ledger', budget', answer', handed')
    BY <1>3, <1>4, Persists
  <1>6. PICK r : /\ pass' = [pass EXCEPT ![h] = r]
                 /\ \E v : r = [q EXCEPT !.asked = v]
    BY <1>2 DEF PutRefused, PutUnanswered
  <1>7. /\ r.at = q.at /\ r.key = q.key /\ r.month = q.month /\ r.ledger = q.ledger
        /\ r.budget = q.budget /\ r.result = q.result
    BY <1>3, <1>6 DEF IsPass
  <1>8. Knows(r, ledger', budget', answer', handed')
    BY <1>5, <1>7 DEF Knows
  <1> QED  BY <1>4, <1>6, <1>8, Advances

\* A host looks for what its PUT should have written.
LEMMA ObservesKnowing ==
    ASSUME AuditInv, PaidInv', NEW h \in Hosts, Observe(h)
    PROVE  AuditInv'
  <1>1. /\ pass[h].asked # "no" /\ UNCHANGED <<ledger, budget, answer, handed, calls, packet>>
    BY DEF Observe, canonical, history
  <1>2. pass[h].at \in BudgetPuts \union LedgerPuts
    BY <1>1 DEF AuditInv, PaidInv, Shaped, Honest, TypedPass
  <1>3. PICK q : q = pass[h]
    OBVIOUS
  <1>4. IsPass(q) /\ Knows(q, ledger, budget, answer, handed)
    BY <1>2, <1>3, Under DEF BudgetPuts, LedgerPuts
  <1>5. CASE Return(h)
    BY <1>1, <1>5, Gives
  <1>6. CASE Lost(h) /\ ~Return(h)
    <2>1. q.at \in BudgetPuts
      BY <1>3, <1>6 DEF Lost
    <2>2. PICK r : /\ pass' = [pass EXCEPT ![h] = r]
                   /\ r = [q EXCEPT !.tried = TRUE, !.asked = "no", !.budget = None,
                             !.at = IF q.at = "reserve" THEN "reserve?" ELSE "settle?"]
      <3> DEFINE r == [q EXCEPT !.tried = TRUE, !.asked = "no", !.budget = None,
                          !.at = IF q.at = "reserve" THEN "reserve?" ELSE "settle?"]
      <3>1. pass' = [pass EXCEPT ![h] = r]
        BY <1>3, <1>4, <1>6 DEF Lost, IsPass
      <3> QED  BY <3>1
    <2>3. /\ r.at = (IF q.at = "reserve" THEN "reserve?" ELSE "settle?") /\ r.key = q.key
          /\ r.ledger = q.ledger /\ r.month = q.month /\ r.result = q.result
      BY <1>4, <2>2 DEF IsPass
    <2>4. Knows(r, ledger, budget, answer, handed)
      BY <1>4, <2>1, <2>3
         DEF Knows, Paying, Bare, Deciding, Reserving, BudgetPuts, Disposing
    <2> QED  BY <1>1, <2>2, <2>4, Proceeds
  <1>7. CASE Current(h) = Wanted(h) /\ Stored(h)
    <2>1. /\ pass[h].at \in BudgetPuts => budget[pass[h].month] = Wanted(h)
          /\ pass[h].at \in LedgerPuts => ledger[Issue(h)] = Wanted(h)
      BY <1>7 DEF Current, BudgetPuts, LedgerPuts
    <2>2. Onward(ledger, budget, answer, handed, ledger, budget, answer, handed)
      BY DEF Onward
    <2>3. PICK r : pass' = [pass EXCEPT ![h] = r] /\ Knows(r, ledger, budget, answer, handed)
      BY <1>2, <1>7, <2>1, <2>2, StoredKnowing
    <2> QED  BY <1>1, <2>3, Proceeds
  <1> QED  BY <1>5, <1>6, <1>7 DEF Observe

-----------------------------------------------------------------------------
(* The invariant, and what follows from it.                                   *)

LEMMA InitTold == Init => AuditInv
  <1> SUFFICES ASSUME Init  PROVE AuditInv
    OBVIOUS
  <1>1. PaidInv
    BY InitPaid
  <1>2. \A k \in Keys : /\ IssueOf[k] \in Issues /\ EntryOf(k) = NoEntry
                        /\ ClaimIn(ledger, k) = None
                        /\ calls[k] = 0 /\ answer[k] = None
    BY DEF Init, EntryOf, ClaimIn, NoEntry, Issues
  <1>3. AnswersShaped
    <2>1. answer \in [Keys -> Replies \union {None}]
      BY DEF Init
    <2> QED  BY <1>2, <2>1 DEF AnswersShaped
  <1>4. ClaimsAreTold(ledger, answer)
    BY <1>2 DEF ClaimsAreTold
  <1>5. BudgetsAreGood(budget, answer)
    <2>1. \A m \in Months : budget[m] = [spent |-> 0, slots |-> [k \in Keys |-> None]]
      BY DEF Init
    <2>2. \A m \in Months : budget[m].spent = 0 /\ \A k \in Keys : budget[m].slots[k] = None
      BY <2>1
    <2>3. MonthlyHard \in Nat
      BY AuditAssumption
    <2>4. ASSUME NEW m \in Months PROVE AddsUp(budget[m])
      <3>1. PICK f : f = Amounts(budget[m])
        OBVIOUS
      <3>2. f \in [Keys -> Int] /\ \A k \in Keys : f[k] = 0
        BY <2>2, <3>1 DEF Amounts
      <3>3. SumFunction(f) = 0
        BY <3>2, SumOfZeros, AuditAssumption
      <3> QED  BY <2>2, <3>1, <3>3 DEF AddsUp
    <2> QED  BY <1>2, <2>2, <2>3, <2>4 DEF BudgetsAreGood, GoodBudget
  <1>6. DispositionsAreTrue
    <2>1. None # "rework_handoff" /\ None # "human_required"
      BY ClaimAssumption DEF Notes
    <2> QED  BY <1>2, <2>1 DEF DispositionsAreTrue, Init, NoEntry
  <1>7. \A h \in Hosts : Knows(pass[h], ledger, budget, answer, handed)
    BY IdleKnows DEF Init
  <1> QED  BY <1>1, <1>3, <1>4, <1>5, <1>6, <1>7 DEF AuditInv, Books
LEMMA NextTold == AuditInv /\ [Next]_vars => AuditInv'
  <1> SUFFICES ASSUME AuditInv, [Next]_vars  PROVE AuditInv'
    OBVIOUS
  <1>1. PaidInv'
    BY NextPaid DEF AuditInv
  <1>2. ASSUME NEW h \in Hosts, Step(h)  PROVE AuditInv'
    BY <1>1, <1>2, StartsKnowing, WalksKnowing, LoadsKnowing, ReservationKnown, BudgetKnown,
       CallTold, PacketKnown, EditKnown, LandsKnowing, WaitsKnowing, ObservesKnowing
       DEF Step
  <1>3. ASSUME NEW h \in Hosts, PutUnanswered(h) \/ Fail(h)  PROVE AuditInv'
    BY <1>1, <1>3, WaitsKnowing, WalksKnowing
  <1>4. CASE \/ NextMonth
             \/ \E i \in Issues : Commit(i) \/ \E j \in Issues : Switch(i, j)
             \/ UNCHANGED vars
    BY <1>1, <1>4, WorldTold
  <1> QED  BY <1>2, <1>3, <1>4 DEF Next

\* AuditInv holds always: what the documents, the claims that passes carry and the
\* answers say of one another, with what makes it inductive.
THEOREM LedgersInductive == Spec => []AuditInv
  BY InitTold, NextTold, PTL DEF Spec

LEMMA AuditBalances ==
    ASSUME AuditInv
    PROVE  WithinBudget
  <1>1. AnswersShaped /\ BudgetsAreGood(budget, answer) /\ MonthlyHard \in Nat
    BY AuditAssumption DEF AuditInv, Books
  <1>2. ASSUME NEW m \in Months  PROVE budget[m].spent <= MonthlyHard
    BY <1>1 DEF BudgetsAreGood, GoodBudget
  <1>3. ASSUME NEW m \in Months, NEW k \in Keys, answer[k] # None, answer[k].month = m
        PROVE  LET s == budget[m].slots[k] IN s # None /\ answer[k].cost <= s.usd
    <2>1. PICK s : s = budget[m].slots[k]
      OBVIOUS
    <2>2. s # None /\ Priced(answer, k, s.usd)
      BY <1>1, <1>3, <2>1 DEF BudgetsAreGood, GoodBudget
    <2>3. answer[k].cost <= Ceiling /\ answer[k].cost \in Nat
      BY <1>1, <1>3 DEF AnswersShaped, Replies
    <2>4. answer[k].cost <= s.usd
      BY <2>2, <2>3 DEF Priced
    <2> QED  BY <2>1, <2>2, <2>4
  <1> QED  BY <1>2, <1>3 DEF WithinBudget

\* What the ledger and the packets say of money and of verdicts is what happened, however
\* PUTs race, are lost or refused, and whenever hosts die: no month goes beyond its hard
\* limit, each call's cost is in the budget of its month, and a handoff or a human's
\* case that is noted is a fact (atlas/audit_claim.py, atlas/audit_disposition.py).
THEOREM LedgersTrue == Spec => []LedgersAreTrue
  <1>1. AuditInv => LedgersAreTrue
    BY AuditBalances DEF AuditInv, Books, LedgersAreTrue
  <1> QED  BY <1>1, LedgersInductive, PTL

\* For any number of HEADs, hosts and months, what a budget says is spent adds up to
\* what its reservations say, however the PUTs of its document race
\* (atlas/audit_claim.py).
THEOREM BudgetsAddUp == Spec => []BudgetAddsUp
  <1>1. AuditInv => BudgetAddsUp
    BY DEF AuditInv, Books, BudgetsAreGood, GoodBudget, AddsUp, BudgetAddsUp
  <1> QED  BY <1>1, LedgersInductive, PTL

-----------------------------------------------------------------------------
(* The supervisor implements AuditOnce.                                       *)

LEMMA OnceStays ==
    ASSUME answer' = answer, handed' = handed,
           \A k \in Keys : \/ EntryOf(k)'.claim = EntryOf(k).claim
                           \/ ~IsClosed(EntryOf(k).claim) /\ ~IsClosed(EntryOf(k)'.claim)
    PROVE  UNCHANGED Promise!vars
  BY DEF Promise!vars

LEMMA OnceCloses ==
    ASSUME AuditInv, answer' = answer, handed' = handed, NEW k \in Keys, NEW w,
           EntryOf(k)'.claim = w, w \in Claims, w.way \in Closed, Told(answer, k, w),
           ~IsClosed(EntryOf(k).claim),
           \A j \in Keys \ {k} : EntryOf(j)'.claim = EntryOf(j).claim
    PROVE  Promise!Next
  <1>1. w # None /\ IsClosed(w) /\ None \notin Verdicts
    BY ClaimAssumption DEF IsClosed
  <1>2. \/ w.verdict = "HUMAN_REQUIRED"
        \/ answer[k] # None /\ w.verdict = answer[k].verdict
    BY DEF Told, Closed
  <1>3. answer[k] # None => answer[k].verdict \in Verdicts
    BY DEF AuditInv, Books, AnswersShaped, Replies
  <1>4. w.verdict # None
    BY <1>1, <1>2, <1>3 DEF Verdicts
  <1>5. [j \in Keys |-> IF IsClosed(EntryOf(j).claim) THEN EntryOf(j).claim.verdict ELSE None]'
          = [[j \in Keys |-> IF IsClosed(EntryOf(j).claim) THEN EntryOf(j).claim.verdict
                             ELSE None] EXCEPT ![k] = w.verdict]
    <2>1. \A j \in Keys \ {k} : EntryOf(j)'.claim = EntryOf(j).claim
      OBVIOUS
    <2>2. IsClosed(EntryOf(k)'.claim) /\ EntryOf(k)'.claim.verdict = w.verdict
      BY <1>1
    <2> QED  BY <2>1, <2>2
  <1>6. Promise!Close(k)
    BY <1>2, <1>4, <1>5 DEF Promise!Close
  <1> QED  BY <1>6 DEF Promise!Next

LEMMA OnceStores ==
    ASSUME AuditInv, NEW h \in Hosts, pass[h].at \in BudgetPuts \union LedgerPuts,
           Current(h) = Loaded(h), Store(h), answer' = answer, handed' = handed
    PROVE  Promise!Next \/ UNCHANGED Promise!vars
  <1>1. PICK k : k = Key(h)
    OBVIOUS
  <1>2. /\ TypedPass(pass[h]) /\ pass[h].key = k /\ k \in Keys /\ PaidInv
        /\ Knows(pass[h], ledger, budget, answer, handed)
    BY <1>1, Under DEF BudgetPuts, LedgerPuts
  <1>3. PICK w : w = pass[h].result
    OBVIOUS
  <1>4. /\ \A j \in Keys \ {k} : EntryOf(j)'.claim = EntryOf(j).claim
        /\ pass[h].at \in BudgetPuts \union {"remember"} =>
              EntryOf(k)'.claim = EntryOf(k).claim
        /\ pass[h].at \in {"claim", "record", "finish"} =>
              /\ EntryOf(k)'.claim = w
              /\ pass[h].ledger[k].claim = EntryOf(k).claim
    BY <1>1, <1>2, <1>3, Stores
  <1>5. CASE pass[h].at \in BudgetPuts \union {"remember"}
    <2>1. \A j \in Keys : EntryOf(j)'.claim = EntryOf(j).claim
      BY <1>4, <1>5
    <2> QED  BY <2>1, OnceStays
  <1>6. CASE pass[h].at \in {"claim", "record", "finish"}
    <2>1. ~IsClosed(EntryOf(k).claim) /\ Told(answer, k, w)
      BY <1>1, <1>3, <1>4, <1>6, WantedClaim
    <2>2. w \in Claims
      BY <1>2, <1>3, <1>6 DEF TypedPass, Deciding, PricedClaims
    <2>3. CASE pass[h].at = "finish"
      <3>1. w.way \in Closed
        BY <1>2, <1>3, <2>3 DEF Knows
      <3> QED  BY <1>2, <1>4, <1>6, <2>1, <2>2, <3>1, OnceCloses
    <2>4. CASE pass[h].at \in {"claim", "record"}
      <3>1. w.way \in {"claimed", "recorded"}
        BY <1>2, <1>3, <2>4 DEF Knows
      <3>2. ~IsClosed(w)
        BY <3>1 DEF IsClosed, Closed
      <3>3. \A j \in Keys : \/ EntryOf(j)'.claim = EntryOf(j).claim
                            \/ ~IsClosed(EntryOf(j).claim) /\ ~IsClosed(EntryOf(j)'.claim)
        BY <1>4, <1>6, <2>1, <3>2
      <3> QED  BY <3>3, OnceStays
    <2> QED  BY <1>6, <2>3, <2>4
  <1> QED  BY <1>5, <1>6 DEF LedgerPuts

LEMMA OnceCalls ==
    ASSUME AuditInv, NEW h \in Hosts, Call(h)
    PROVE  Promise!Next \/ UNCHANGED Promise!vars
  <1>1. UNCHANGED <<ledger, handed>> /\ pass[h].at = "call"
    BY DEF Call, canonical
  <1>2. PICK k : k = Key(h)
    OBVIOUS
  <1>3. pass[h].key = k /\ k \in Keys /\ PaidInv /\ Books
    BY <1>1, <1>2, Under
  <1>4. \A j \in Keys : EntryOf(j)' = EntryOf(j)
    BY <1>1 DEF EntryOf
  <1>5. CASE answer' = answer
    BY <1>1, <1>4, <1>5, OnceStays
  <1>6. CASE answer' # answer
    <2>1. PICK v \in Answers, usd \in Costs :
             answer' = [answer EXCEPT ![k] =
                [verdict |-> v, cost |-> usd, month |-> pass[h].month]]
      BY <1>2, <1>6 DEF Call
    <2>2. PICK a : a = [verdict |-> v, cost |-> usd, month |-> pass[h].month]
      OBVIOUS
    <2>3. v \in Verdicts /\ a.verdict = v /\ a # None
      <3>1. pass[h].month \in Months
        BY <1>1, <1>2, Under DEF TypedPass, Paying, Deciding
      <3>2. a \in Replies
        BY <2>2, <3>1, AuditAssumption DEF Replies
      <3> QED  BY <2>2, <3>2, ClaimAssumption, AuditAssumption
    <2>4. answer[k] = None /\ answer \in [Keys -> Replies \union {None}]
      <3>1. calls[k] = 0
        BY <1>1, <1>3 DEF PaidInv, OneCaller
      <3> QED  BY <1>3, <3>1 DEF Books, AnswersShaped
    <2>5. answer'[k] = a /\ \A j \in Keys : j # k => answer'[j] = answer[j]
      BY <1>3, <2>1, <2>2, <2>4
    <2>6. [j \in Keys |-> IF answer[j] = None THEN None ELSE answer[j].verdict]'
            = [[j \in Keys |-> IF answer[j] = None THEN None ELSE answer[j].verdict]
                 EXCEPT ![k] = v]
      BY <2>3, <2>5
    <2>7. UNCHANGED [j \in Keys |-> IF IsClosed(EntryOf(j).claim)
                                    THEN EntryOf(j).claim.verdict ELSE None]
      BY <1>4
    <2>8. Promise!Ask(k)
      BY <1>1, <1>3, <2>3, <2>4, <2>6, <2>7 DEF Promise!Ask, Promise!Verdicts, Verdicts
    <2> QED  BY <1>3, <2>8 DEF Promise!Next
  <1> QED  BY <1>5, <1>6

LEMMA OnceEdits ==
    ASSUME AuditInv, NEW h \in Hosts, EditPacket(h)
    PROVE  Promise!Next
  <1>1. UNCHANGED <<ledger, answer>> /\ pass[h].at = "edit"
    BY DEF EditPacket
  <1>2. PICK k : k = Key(h)
    OBVIOUS
  <1>3. /\ pass[h].key = k /\ k \in Keys /\ Knows(pass[h], ledger, budget, answer, handed)
        /\ ClaimIn(ledger, k) = EntryOf(k).claim
    BY <1>1, <1>2, Under
  <1>4. IsClosed(EntryOf(k).claim) /\ EntryOf(k).claim.verdict = "REWORK"
    BY <1>1, <1>3 DEF Knows, Disposing
  <1>5. \A j \in Keys : EntryOf(j)' = EntryOf(j)
    BY <1>1 DEF EntryOf
  <1>6. handed' = handed \union {k}
    BY <1>2 DEF EditPacket
  <1>7. Promise!HandBack(k)
    BY <1>1, <1>3, <1>4, <1>5, <1>6 DEF Promise!HandBack
  <1> QED  BY <1>3, <1>7 DEF Promise!Next

LEMMA OnceSteps == AuditInv /\ [Next]_vars => [Promise!Next]_(Promise!vars)
  <1> SUFFICES ASSUME AuditInv, [Next]_vars
               PROVE  Promise!Next \/ UNCHANGED Promise!vars
    OBVIOUS
  <1>1. ASSUME UNCHANGED <<ledger, answer, handed>>  PROVE UNCHANGED Promise!vars
    <2>1. \A k \in Keys : EntryOf(k)'.claim = EntryOf(k).claim
      BY <1>1 DEF EntryOf
    <2> QED  BY <1>1, <2>1, OnceStays
  <1>2. ASSUME NEW h \in Hosts, Step(h)  PROVE Promise!Next \/ UNCHANGED Promise!vars
    <2>1. CASE PutLands(h)
      BY <2>1, OnceStores DEF PutLands, Asking, history
    <2>2. CASE \/ StartPass(h) \/ LookForClaim(h) \/ CollectEvidence(h)
               \/ Duplicate(h) \/ TakeOn(h) \/ LookForReservation(h) \/ LoadToReserve(h)
               \/ LoadToSettle(h) \/ LoadPrior(h) \/ LoadPacket(h) \/ Recheck(h)
               \/ PutRefused(h) \/ Observe(h)
      <3>1. UNCHANGED <<ledger, answer, handed>>
        BY <2>2 DEF StartPass, LookForClaim, CollectEvidence, Duplicate, TakeOn,
           LookForReservation, LoadToReserve, LoadToSettle, LoadPrior, LoadPacket, Recheck,
           PutRefused, Observe, canonical, history
      <3> QED  BY <1>1, <3>1
    <2> QED  BY <1>2, <2>1, <2>2, OnceCalls, OnceEdits DEF Step
  <1>3. ASSUME NEW h \in Hosts, PutUnanswered(h)  PROVE Promise!Next \/ UNCHANGED Promise!vars
    <2>1. UNCHANGED <<answer, handed>> /\ pass[h].at \in BudgetPuts \union LedgerPuts
          /\ Current(h) = Loaded(h) /\ (Store(h) \/ UNCHANGED ledger)
      BY <1>3 DEF PutUnanswered, Asking, history
    <2> QED  BY <1>1, <2>1, OnceStores
  <1>4. CASE \/ \E h \in Hosts : Fail(h)
             \/ \E i \in Issues : Commit(i) \/ \E j \in Issues : Switch(i, j)
             \/ NextMonth \/ UNCHANGED vars
    <2>1. UNCHANGED <<ledger, answer, handed>>
      BY <1>4 DEF Fail, Commit, Switch, NextMonth, vars, canonical, history
    <2> QED  BY <1>1, <2>1
  <1> QED  BY <1>2, <1>3, <1>4 DEF Next

LEMMA OnceBegins == Init => Promise!Init
  <1> SUFFICES ASSUME Init  PROVE Promise!Init
    OBVIOUS
  <1>1. \A k \in Keys : EntryOf(k).claim = None
    BY DEF Init, EntryOf, NoEntry, Issues
  <1> QED  BY <1>1 DEF Init, Promise!Init, IsClosed

\* Every behaviour of the supervisor, with any number of hosts that race, die or lose an
\* answer, is a behaviour of AuditOnce: one paid call for a HEAD, one final verdict, which
\* is the call's or HUMAN_REQUIRED, and rework handed back only after a verdict REWORK.
THEOREM ImplementsOnce == Spec => ImplementsAuditOnce
  <1>1. AuditInv /\ [Next]_vars => [Promise!Next]_(Promise!vars)
    BY OnceSteps
  <1>2. Spec => Promise!Init /\ [][Promise!Next]_(Promise!vars)
    BY <1>1, OnceBegins, LedgersInductive, PTL DEF Spec
  <1> QED  BY <1>2 DEF ImplementsAuditOnce, Promise!Spec
===============================================================================
