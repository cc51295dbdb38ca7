----------------------------- MODULE GamePipes ------------------------------
(***************************************************************************)
(* The pipes of a tournament and the lines that go through them.  A pipe   *)
(* is the sequence of what was written and not yet read.  Every line has 7 *)
(* bytes; a position line is known by what the game makes of it.           *)
(***************************************************************************)
EXTENDS Integers, Sequences, FiniteSets

CONSTANT player_num

ASSUME PlayersAssumption == player_num \in Nat \ {0}

Player == 0..player_num-1

Guidance == {"hotter", "wrong!", "winner"}   \* colder and steady are like hotter
Move == {"legal", "goal", "illegal"}         \* goal is the legal move onto the target
MoveLine == Move \cup {"broken"}             \* what run_tournament tells game_maker

\* A legal line written in two parts, and a partial line that nothing follows.
Part == {"head", "tail", "scrap"}

VARIABLES
    in_game, out_game,       \* to and from game_maker
    in_player, out_player    \* to and from each player

pipes == <<in_game, out_game, in_player, out_player>>

NoPipes == [p \in Player |-> << >>]

PipesTypeOK ==
    /\ in_game \in Seq(MoveLine)
    /\ out_game \in Seq(Guidance \cup {"target", "start"})
    /\ in_player \in [Player -> Seq(Guidance \cup {"start"})]
    /\ out_player \in [Player -> Seq(Move \cup Part)]
=============================================================================
