--------------------------- MODULE MCFindingHandoff ---------------------------
(* A small instance of FindingHandoff for TLC. *)
EXTENDS FindingHandoff

CONSTANTS p1, p2
===============================================================================
