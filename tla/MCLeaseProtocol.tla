-------------------------- MODULE MCLeaseProtocol --------------------------
(* Instances of LeaseProtocol for TLC. *)
EXTENDS LeaseProtocol, TLC

CONSTANTS q1, q2, q3, s0, s1

OneModel == [n \in Node |-> "m"]

\* Every id is a number of its own.
SameId == [n \in Node |-> n]

\* One request thread per server.
Serial == q1 :> s0 @@ q2 :> s1

\* s1 was started by hand under an id that reads as the number of s0, as
\* "server-a" does as 0.
OddServer == [n \in Node |-> IF n = s1 THEN s0 ELSE n]

\* Two request threads in the first server.
Parallel == q1 :> s0 @@ q2 :> s1 @@ q3 :> s0
============================================================================
