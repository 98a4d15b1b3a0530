---------------------------- MODULE MCRankQueue ----------------------------
(* Small instances of RankQueue for TLC. *)
EXTENDS RankQueue, TLC
============================================================================
