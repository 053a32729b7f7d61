---------------------------- MODULE MCGapRecovery ----------------------------
(* Pipelines for TLC: K-line keys are revisited, so their feeds go one key *)
(* less far than a feed of trades.                                         *)
EXTENDS GapRecovery
MCReach == [l \in Lanes |-> IF l = "trades" THEN MaxKey ELSE MaxKey - 1]
=============================================================================
