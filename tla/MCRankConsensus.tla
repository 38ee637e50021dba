---------------------------- MODULE MCRankConsensus ----------------------------
(* Finite instances of RankConsensus for TLC. *)
EXTENDS RankConsensus
MCRanks == 0 .. 1
=============================================================================
