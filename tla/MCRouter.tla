------------------------------ MODULE MCRouter ------------------------------
(* Instances of Router for TLC. *)
EXTENDS Router, TLC

\* All servers serve one model.
OneModel == [s \in Srv |-> "m"]

\* Right, or one off for good after a lost update.
SomeCounts == {0, 1}
=============================================================================
