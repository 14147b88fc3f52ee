------------------------- MODULE MCTakeProfitLadder -------------------------
(* Two stop distances; levels on both sides of the entry and around 2R..4R; *)
(* a paper entry that is worse, the same or better.                         *)
EXTENDS TakeProfitLadder

MCLevels == {-1, 1, 2, 4, 5, 7, 9, 10}
MCDrifts == {-1, 0, 1}
=============================================================================
