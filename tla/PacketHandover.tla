--------------------------- MODULE PacketHandover ---------------------------
(***************************************************************************)
(* What the PASS cycle promises: a Work Packet is handed over at most once, *)
(* by one transition, to one successor, and first completed, then followed. *)
(***************************************************************************)
CONSTANTS Issues, Transitions, None

VARIABLE handed   \* per issue: None, or who handed it over, to whom, how far

Handovers == [by : Transitions, to : Issues, stage : {"completed", "followed"}]

Complete(i) ==
    /\ handed[i] = None
    /\ \E t \in Transitions, s \in Issues \ {i} :
          /\ t.issue = i
          /\ handed' = [handed EXCEPT ![i] =
                           [by |-> t, to |-> s, stage |-> "completed"]]

\* The successor is nobody else's.
Follow(i) ==
    /\ handed[i] # None
    /\ handed[i].stage = "completed"
    /\ \A j \in Issues \ {i} :
          handed[j] # None /\ handed[j].stage = "followed" =>
              handed[j].to # handed[i].to
    /\ handed' = [handed EXCEPT ![i].stage = "followed"]

Init == handed = [i \in Issues |-> None]

Next == \E i \in Issues : Complete(i) \/ Follow(i)

Spec == Init /\ [][Next]_handed
=============================================================================
