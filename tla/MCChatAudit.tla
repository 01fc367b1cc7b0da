----------------------------- MODULE MCChatAudit -----------------------------
(* Small instances of ChatAudit for TLC. *)
EXTENDS ChatAudit

CONSTANTS i1, i2, h1, h2, ua, ub

TwoUnits == <<ua, ub>>
==============================================================================
