----------------------------- MODULE GameMaker ------------------------------
(***************************************************************************)
(* shell/game_maker.c, as run_tournament runs it.                          *)
(***************************************************************************)
EXTENDS GamePipes

VARIABLES
    maker,     \* "none", "forked", "playing", or "exited" and not yet waited for
    turn,      \* i, at the next player whose move is read
    playing    \* the players with in_game set

makerVars == <<maker, turn, playing>>

MakerTypeOK ==
    /\ maker \in {"none", "forked", "playing", "exited"}
    /\ turn \in Player
    /\ playing \subseteq Player

\* The target and the positions of the players.
Deal ==
    /\ maker = "forked"
    /\ out_game' = out_game \o <<"target">> \o [i \in 1..player_num |-> "start"]
    /\ maker' = "playing" /\ turn' = 0 /\ playing' = Player
    /\ UNCHANGED <<in_game, in_player, out_player>>

\* The loops skip the players that are out.
IsNextTurn(t, left) ==
    \E d \in 1..player_num :
        /\ t = (turn + d) % player_num
        /\ t \in left
        /\ \A e \in 1..d-1 : (turn + e) % player_num \notin left

Judge ==
    /\ maker = "playing" /\ in_game # << >>
    /\ in_game' = Tail(in_game)
    /\ \/ /\ Head(in_game) = "goal"
          /\ out_game' = Append(out_game, "winner")
          /\ maker' = "exited" /\ UNCHANGED <<turn, playing>>
       \/ /\ Head(in_game) = "legal"
          /\ out_game' = Append(out_game, "hotter")
          /\ \E t \in Player : IsNextTurn(t, playing) /\ turn' = t
          /\ UNCHANGED <<maker, playing>>
       \/ /\ Head(in_game) \in {"illegal", "broken"}
          /\ out_game' = Append(out_game, "wrong!")
          /\ playing' = playing \ {turn}
          /\ IF playing' = {} THEN maker' = "exited" /\ UNCHANGED turn
             ELSE UNCHANGED maker /\ \E t \in Player : IsNextTurn(t, playing') /\ turn' = t
    /\ UNCHANGED <<in_player, out_player>>

MakerStep == Deal \/ Judge
=============================================================================
