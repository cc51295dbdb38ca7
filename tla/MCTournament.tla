---------------------------- MODULE MCTournament ----------------------------
(***************************************************************************)
(* Small tournaments for TLC.                                              *)
(***************************************************************************)
EXTENDS Tournament

\* What players do that make no mistakes, nor split their lines.
GoodHabits == {"legal", "goal"}
=============================================================================
