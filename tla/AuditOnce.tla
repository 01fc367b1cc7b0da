------------------------------ MODULE AuditOnce ------------------------------
(***************************************************************************)
(* What the supervisor promises of an exact HEAD: it is judged by at most   *)
(* one paid call, its claim is closed once and for good, closed without     *)
(* HUMAN_REQUIRED only on the answer of that call, and the packet is handed *)
(* back for rework only after such a verdict.                               *)
(***************************************************************************)
CONSTANTS Keys,  \* the exact HEADs of Work Packets
          None

VARIABLES
    answer,      \* per HEAD: what the paid call answered
    verdict,     \* per HEAD: what its claim is closed with
    handed       \* HEADs handed back for rework

vars == <<answer, verdict, handed>>

Verdicts == {"PASS", "REWORK", "HUMAN_REQUIRED"}

Ask(k) ==
    /\ answer[k] = None
    /\ \E v \in Verdicts : answer' = [answer EXCEPT ![k] = v]
    /\ UNCHANGED <<verdict, handed>>

Close(k) ==
    /\ verdict[k] = None
    /\ \E v \in {answer[k], "HUMAN_REQUIRED"} \ {None} :
          verdict' = [verdict EXCEPT ![k] = v]
    /\ UNCHANGED <<answer, handed>>

HandBack(k) ==
    /\ verdict[k] = "REWORK"
    /\ handed' = handed \union {k}
    /\ UNCHANGED <<answer, verdict>>

Init ==
    /\ answer = [k \in Keys |-> None]
    /\ verdict = [k \in Keys |-> None]
    /\ handed = {}

Next == \E k \in Keys : Ask(k) \/ Close(k) \/ HandBack(k)

Spec == Init /\ [][Next]_vars
=============================================================================
