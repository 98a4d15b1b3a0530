---------------------------- MODULE MCSupervisor ----------------------------
(* Instance of Supervisor for TLC. *)
EXTENDS Supervisor

CONSTANTS r0, r1

\* Everybody serves one model, but r1 reports no name, which every LEASE matches.
MixedNames == [n \in Node |-> IF n = r1 THEN "" ELSE "m"]

\* r1 was started by hand under an id that reads as 0, the number of r0.
OddRank == [n \in Node |-> IF n = r1 THEN r0 ELSE n]
=============================================================================
