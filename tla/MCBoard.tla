------------------------------ MODULE MCBoard -------------------------------
(* A small board for TLC. *)
EXTENDS BoardPlayers

\* Every column and every row has a target.
Spread == {<<x, (4 * x + 1) % BOARD_SIZE>> : x \in 0..MAX_POSITION}
MCLimits == {<<1, BOARD_SIZE - 2>>, <<BOARD_SIZE - 2, BOARD_SIZE - 2>>}
=============================================================================
