-------------------------- MODULE ReadinessActivation --------------------------
(***************************************************************************)
(* The activation of one queued Work Packet and its handoff:                *)
(* activate_and_authorize_single_worker_handoff (atlas/readiness_dispatch.py) *)
(* over activate_authorized_readiness_packet (atlas/work_controller.py).    *)
(* Controllers share nothing but the packets on GitHub, which can only be   *)
(* read one by one and are edited unconditionally: the compare of the       *)
(* compare-and-set is a read some time before.                              *)
(*                                                                          *)
(* All packets are of one repository and of trusted authors; a drift of     *)
(* branch, head or metadata is a drift as any other edit of the owner.      *)
(***************************************************************************)
EXTENDS Admission

CONSTANTS
    Controllers,
    Packets,    \* the issues of the repository
    Files,      \* the graph files that controllers are given
    Drafts,     \* snapshots that are planned, and never acted on
    Done,       \* the packets that are complete at first; the others are queued
    Edits,      \* what an owner may make of a packet: facts [status, queue]
    MaxEdits,   \* bound: edits of the owner
    MaxFaults,  \* bound: edits that fail or whose answer is lost
    Nothing

ASSUME ReadinessAssumption ==
    /\ MaxEdits \in Nat /\ MaxFaults \in Nat
    /\ \A G \in Files : Ids(G) \subseteq Packets

VARIABLES
    gh,         \* the facts of each packet
    planned,    \* a draft that was planned, or Nothing
    file,       \* per controller: its graph file
    node,       \* per controller: the node that file selects
    pc,         \* per controller: its step
    unread,     \* per controller: the nodes its authorization has yet to read
    current,    \* the controllers whose view of their packet is still its body
    raced,      \* the controllers that have overwritten a later body, or whose
                \* own edit the owner has overwritten
    handoffs,   \* the handoffs whose packet the owner has not touched since
    edits, faults

activationVars ==
    <<gh, planned, file, node, pc, unread, current, raced, handoffs, edits, faults>>

Queued == [status |-> "PAUSED", queue |-> "QUEUED"]
Active == [status |-> "ACTIVE", queue |-> "NONE"]
Complete == [status |-> "COMPLETE", queue |-> "NONE"]
AtFirst == [n \in Packets |-> IF n \in Done THEN Complete ELSE Queued]

ActivationTypeOK ==
    /\ gh \in [Packets -> {Queued, Active, Complete} \union Edits]
    /\ file \in [Controllers -> Files \union {Nothing}]
    /\ node \in [Controllers -> Packets \union {Nothing}]
    /\ current \subseteq Controllers /\ raced \subseteq Controllers

-----------------------------------------------------------------------------
Advance(c, step) == pc' = [pc EXCEPT ![c] = step]
\* Any refusal ends the call with HUMAN_REQUIRED and repairs nothing.
End(c) ==
    /\ Advance(c, "idle") /\ node' = [node EXCEPT ![c] = Nothing]
    /\ file' = [file EXCEPT ![c] = Nothing] /\ unread' = [unread EXCEPT ![c] = {}]
    /\ current' = current \ {c} /\ raced' = raced \ {c}

\* The canonical predecessor: the node the selected one depends on.
Pred(c) == Head(file[c].nodes[node[c]].deps)
Occupied == {n \in Packets : gh[n].status = "ACTIVE"}

\* The read-only commands plan any graph file, and any snapshot of the concurrency
\* admission.  What was planned is only kept to be looked at, and before any
\* controller has begun.
PlanDraft(S) ==
    /\ planned = Nothing /\ gh = AtFirst /\ edits = 0 /\ faults = 0 /\ handoffs = {}
    /\ \A c \in Controllers : pc[c] = "idle"
    /\ planned' = S
    /\ UNCHANGED <<gh, file, node, pc, unread, current, raced, handoffs, edits, faults>>

\* An authorization is asked for: every node's fact is read, one at a time.  The
\* code reads them twice and wants the same plan; as a plan is only allowed when
\* each fact is the file's, one pass admits whatever two would.
Ask(c, step) == Advance(c, step) /\ unread' = [unread EXCEPT ![c] = Ids(file[c])]

Begin(c, G) ==
    /\ planned = Nothing /\ pc[c] = "idle" /\ Allows(Plan(G))
    /\ file' = [file EXCEPT ![c] = G]
    /\ node' = [node EXCEPT ![c] = CHOOSE n \in Plan(G).selected : TRUE]
    /\ Advance(c, "preauthorize") /\ unread' = [unread EXCEPT ![c] = Ids(G)]
    /\ UNCHANGED <<gh, planned, current, raced, handoffs, edits, faults>>

\* A fact that is not the file's makes its node STALE and the graph unsafe.
Fits(c, n) ==
    LET stated == [m \in Ids(file[c]) |-> [status |-> file[c].nodes[m].status,
                                            queue |-> file[c].nodes[m].queue]]
    IN  Allows(Plan(Reconcile(file[c], [stated EXCEPT ![n] = gh[n]])))
Authorizing == {"preauthorize", "authorize", "reauthorize"}
ReadFact(c, n) ==
    /\ pc[c] \in Authorizing /\ n \in unread[c]
    /\ UNCHANGED <<gh, planned, handoffs, edits, faults>>
    /\ \/ /\ Fits(c, n)
          /\ unread' = [unread EXCEPT ![c] = @ \ {n}]
          /\ UNCHANGED <<pc, file, node, current, raced>>
       \/ ~Fits(c, n) /\ End(c)

\* One reading step: go on to next when what is read is right, else refuse.
Read(c, step, right, Onward(_)) ==
    /\ pc[c] = step /\ unread[c] = {}
    /\ UNCHANGED <<gh, planned, handoffs, edits, faults>>
    /\ \/ right /\ Onward(c)
       \/ ~right /\ End(c)
Steps(c, step) == Advance(c, step) /\ UNCHANGED <<file, node, unread, current, raced>>

RecheckQueued(c) ==
    Read(c, "preauthorize", gh[node[c]] = Queued,
         LAMBDA d : Ask(d, "authorize") /\ UNCHANGED <<file, node, current, raced>>)
\* The fact again and the body that will be edited.
View(c) ==
    Read(c, "authorize", gh[node[c]] = Queued,
         LAMBDA d : /\ Advance(d, "viewed") /\ current' = current \union {d}
                    /\ UNCHANGED <<file, node, unread, raced>>)
CheckPredecessor(c) ==
    Read(c, "viewed", gh[Pred(c)] = Complete, LAMBDA d : Steps(d, "vacancy"))
CheckVacancy(c) ==
    Read(c, "vacancy", Occupied = {}, LAMBDA d : Steps(d, "compare"))
\* The compare: the issue is read again, then all the rest is checked again.
Compare(c) ==
    Read(c, "compare", c \in current,
         LAMBDA d : Ask(d, "reauthorize") /\ UNCHANGED <<file, node, current, raced>>)
RecheckPredecessor(c) ==
    Read(c, "reauthorize", gh[Pred(c)] = Complete, LAMBDA d : Steps(d, "revacancy"))
RecheckVacancy(c) ==
    Read(c, "revacancy", Occupied = {}, LAMBDA d : Steps(d, "write"))

\* The unconditional edit.  It may fail, or land and fail to say so; when it
\* times out and the packet reads as edited, the controller goes on.
Write(c) ==
    /\ pc[c] = "write"
    /\ UNCHANGED <<planned, handoffs, edits>>
    /\ \/ /\ faults < MaxFaults /\ faults' = faults + 1
          /\ End(c) /\ UNCHANGED gh
       \/ /\ gh' = [gh EXCEPT ![node[c]] = Active]
          /\ \/ /\ Advance(c, "confirm")
                /\ raced' = IF c \in current THEN raced ELSE raced \union {c}
                /\ current' = {d \in current : node[d] # node[c]}
                /\ UNCHANGED <<file, node, unread, faults>>
             \/ /\ faults < MaxFaults /\ faults' = faults + 1
                /\ Advance(c, "idle") /\ file' = [file EXCEPT ![c] = Nothing]
                /\ node' = [node EXCEPT ![c] = Nothing]
                /\ unread' = [unread EXCEPT ![c] = {}] /\ raced' = raced \ {c}
                /\ current' = {d \in current \ {c} : node[d] # node[c]}

Confirm(c) ==
    Read(c, "confirm", gh[node[c]] = Active, LAMBDA d : Steps(d, "confirmed"))
ConfirmPredecessor(c) ==
    Read(c, "confirmed", gh[Pred(c)] = Complete, LAMBDA d : Steps(d, "landed"))
\* Variant: being among the active packets is enough.
AloneOrNot(c) == node[c] \in Occupied
Alone(c) == Occupied = {node[c]}
CheckLanded(c) == Read(c, "landed", Alone(c), LAMBDA d : Steps(d, "reread"))

\* The packet is read again by itself, with its predecessor and the occupancy, and once
\* more for its metadata.
RereadActive(c) ==
    Read(c, "reread", gh[node[c]] = Active, LAMBDA d : Steps(d, "followed"))
RereadPredecessor(c) ==
    Read(c, "followed", gh[Pred(c)] = Complete, LAMBDA d : Steps(d, "alone"))
RereadOccupancy(c) == Read(c, "alone", Alone(c), LAMBDA d : Steps(d, "bound"))
RereadMetadata(c) ==
    Read(c, "bound", gh[node[c]] = Active, LAMBDA d : Steps(d, "unique"))

\* The last look at the occupancy, and the handoff it authorizes.
HandOff(c) ==
    /\ pc[c] = "unique"
    /\ handoffs' = handoffs \union
         {h \in {[packet |-> node[c], by |-> c, raced |-> c \in raced]} : Alone(c)}
    /\ End(c)
    /\ UNCHANGED <<gh, planned, edits, faults>>

DieActivating(c) ==
    /\ pc[c] # "idle" /\ End(c)
    /\ UNCHANGED <<gh, planned, handoffs, edits, faults>>

Written ==
    {"confirm", "confirmed", "landed", "reread", "followed", "alone", "bound", "unique"}

\* The owner edits a packet, also one whose controller is about to edit it.
Edit(n, fact) ==
    /\ planned = Nothing /\ edits < MaxEdits /\ gh[n] # fact
    /\ edits' = edits + 1
    /\ gh' = [gh EXCEPT ![n] = fact]
    /\ current' = {c \in current : node[c] # n}
    /\ handoffs' = {h \in handoffs : h.packet # n}
    /\ raced' = raced \union {c \in Controllers : node[c] = n /\ pc[c] \in Written}
    /\ UNCHANGED <<planned, file, node, pc, unread, faults>>

-----------------------------------------------------------------------------
ActivationInit ==
    /\ gh = AtFirst
    /\ planned = Nothing
    /\ file = [c \in Controllers |-> Nothing] /\ node = file
    /\ pc = [c \in Controllers |-> "idle"]
    /\ unread = [c \in Controllers |-> {}]
    /\ current = {} /\ raced = {} /\ handoffs = {} /\ edits = 0 /\ faults = 0

ActivationStep(c) ==
    \/ \E G \in Files : Begin(c, G)
    \/ \E n \in Packets : ReadFact(c, n)
    \/ RecheckQueued(c) \/ View(c) \/ CheckPredecessor(c) \/ CheckVacancy(c)
    \/ Compare(c) \/ RecheckPredecessor(c) \/ RecheckVacancy(c) \/ Write(c)
    \/ Confirm(c) \/ ConfirmPredecessor(c) \/ CheckLanded(c)
    \/ RereadActive(c) \/ RereadPredecessor(c) \/ RereadOccupancy(c) \/ RereadMetadata(c)
    \/ HandOff(c)

ActivationNext ==
    \/ \E S \in Drafts : PlanDraft(S)
    \/ \E c \in Controllers : ActivationStep(c) \/ DieActivating(c)
    \/ \E n \in Packets, fact \in Edits : Edit(n, fact)

ActivationSpec == ActivationInit /\ [][ActivationNext]_activationVars

-----------------------------------------------------------------------------
\* The nodes below a node, by the definition of reachability.
Below(G, n) ==
    LET reach[k \in Nat] ==
            IF k = 0 THEN Known(G, n)
            ELSE reach[k - 1] \union UNION {Known(G, m) : m \in reach[k - 1]}
    IN  reach[Cardinality(Ids(G))]

\* What a plan selects may run now and at once: everything below is complete and
\* trusted, nothing in the graph is on a cycle, unknown or untrusted, nothing is
\* used twice, and the limit holds with what is already running.  And the
\* authorizer, which counts the plan anew, finds it consistent.
SelectionIsSafe ==
    planned # Nothing =>
        LET G == planned.graph
            chosen == Plan(G).selected
            running == chosen \union ActiveNodes(G)
        IN  /\ Consistent(Plan(G))
            /\ chosen # {} =>
                 /\ \A n \in Ids(G) : n \notin Below(G, n) /\ Known(G, n) = Deps(G, n)
                 /\ \A n \in Ids(G) : G.nodes[n].trusted
                 /\ \A n \in running : ~G.nodes[n].gated
                 /\ \A n \in running : \A d \in Below(G, n) :
                       /\ G.nodes[d].status = "COMPLETE" /\ G.nodes[d].queue = "NONE"
                       /\ ~G.nodes[d].gated
                 /\ \A n, m \in running :
                       n # m => G.nodes[n].res \intersect G.nodes[m].res = {}
                 /\ Cardinality(running) <= G.wip

\* What is admitted was selected, has a slot of its own that is good, and keeps to
\* the limit of its repository, with what is running there, and to the limit on
\* admissions; and nothing that is left out would still fit.
AdmissionIsFull ==
    planned # Nothing =>
        LET S == planned
            given == AdmissionPlan(S)
            chosen == Plan(S.graph).selected
            nodes == {given[i].node : i \in DOMAIN given}
            used == {given[i].slot : i \in DOMAIN given}
            Load(repo) == Cardinality({n \in nodes \union ActiveNodes(S.graph) :
                                         S.graph.nodes[n].repo = repo})
        IN  /\ Cardinality(nodes) = Len(given) /\ Cardinality(used) = Len(given)
            /\ nodes \subseteq chosen /\ Len(given) <= S.parallel
            /\ \A i \in used : Assignable(S, S.slots[i])
            /\ \A n \in nodes :
                  Load(S.graph.nodes[n].repo) <= S.limits[S.graph.nodes[n].repo]
            /\ \A n \in chosen \ nodes :
                  \/ Len(given) = S.parallel
                  \/ Load(S.graph.nodes[n].repo) >= S.limits[S.graph.nodes[n].repo]
                  \/ \A i \in DOMAIN S.slots : Assignable(S, S.slots[i]) => i \in used

\* A plan selects safely, and what is admitted of it is as much as there is room for.
PlansAreSound == SelectionIsSafe /\ AdmissionIsFull

\* At most one handoff stands, whatever controllers do at once: two only stand
\* for the same packet, and when one of the two controllers has overwritten an
\* edit made after its compare ("a residual server-side race" of GitHub), or the
\* owner has overwritten its own.
OneHandoffStands ==
    \A h, k \in handoffs : h # k => h.packet = k.packet /\ (h.raced \/ k.raced)
===============================================================================
