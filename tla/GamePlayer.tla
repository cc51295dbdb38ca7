----------------------------- MODULE GamePlayer -----------------------------
(***************************************************************************)
(* The player programs of shell/: they read a position, then write moves   *)
(* and read guidance.  Which of the repository's programs a player is      *)
(* shows in what it does: Habits says what the players of a run may do.    *)
(***************************************************************************)
EXTENDS GamePipes

CONSTANTS
    Habits,     \* a subset of AllHabits
    MaxMoves    \* legal moves a player makes before it wins or goes wrong

AllHabits == {"legal", "goal", "illegal", "halves", "scrap", "quit", "badexit"}

ASSUME HabitsAssumption == Habits \subseteq AllHabits /\ MaxMoves \in Nat

VARIABLES
    state,    \* each player's process, see PlayerTypeOK
    moves,    \* legal moves made
    bad,      \* players that did what a working player does not
    split     \* players that wrote a line in two parts

playerVars == <<state, moves, bad, split>>

Alive == {"forked", "starting", "thinking", "half", "waiting", "won", "looping", "stuck"}
Ended == {"exit0", "exit1", "signaled"}     \* and not yet waited for

PlayerTypeOK ==
    /\ state \in [Player -> Alive \cup Ended \cup {"none"}]
    /\ moves \in [Player -> 0..MaxMoves]
    /\ bad \subseteq Player /\ split \subseteq Player

Becomes(p, s) == state' = [state EXCEPT ![p] = s]

Writes(p, piece) ==
    /\ out_player' = [out_player EXCEPT ![p] = Append(@, piece)]
    /\ UNCHANGED <<in_game, out_game, in_player>>

\* Setpgid and Execve in the child, between Fork and main.
Exec(p) ==
    /\ state[p] = "forked"
    /\ Becomes(p, "starting")
    /\ UNCHANGED <<split, moves, bad, pipes>>

read_position(p) ==
    /\ state[p] = "starting" /\ in_player[p] # << >>
    /\ in_player' = [in_player EXCEPT ![p] = Tail(@)]
    /\ Becomes(p, "thinking")
    /\ UNCHANGED <<split, moves, bad, in_game, out_game, out_player>>

MoveLegal(p) ==
    /\ state[p] = "thinking" /\ "legal" \in Habits /\ moves[p] < MaxMoves
    /\ Writes(p, "legal")
    /\ moves' = [moves EXCEPT ![p] = @ + 1]
    /\ Becomes(p, "waiting")
    /\ UNCHANGED <<bad, split>>

MoveGoal(p) ==
    /\ state[p] = "thinking" /\ "goal" \in Habits
    /\ Writes(p, "goal")
    /\ Becomes(p, "waiting")
    /\ UNCHANGED <<split, moves, bad>>

\* A move that is neither right nor up, or a line that is no position.
MoveWrong(p) ==
    /\ state[p] = "thinking" /\ "illegal" \in Habits
    /\ Writes(p, "illegal")
    /\ Becomes(p, "waiting")
    /\ bad' = bad \cup {p}
    /\ UNCHANGED <<moves, split>>

\* A legal move that takes two calls of write.
MoveHalf(p) ==
    /\ state[p] = "thinking" /\ "halves" \in Habits /\ moves[p] < MaxMoves
    /\ Writes(p, "head")
    /\ Becomes(p, "half")
    /\ split' = split \cup {p}
    /\ UNCHANGED <<moves, bad>>

MoveRest(p) ==
    /\ state[p] = "half"
    /\ Writes(p, "tail")
    /\ moves' = [moves EXCEPT ![p] = @ + 1]
    /\ Becomes(p, "waiting")
    /\ UNCHANGED <<bad, split>>

\* Part of a line, perhaps none of it, and then an end (garbled_player), an
\* endless loop without standard output (distracted_player) or one with it.
Scrap(p) ==
    /\ state[p] = "thinking" /\ "scrap" \in Habits
    /\ \/ Writes(p, "scrap") /\ \E s \in {"exit0", "looping", "stuck"} : Becomes(p, s)
       \/ UNCHANGED pipes /\ Becomes(p, "looping")
    /\ bad' = bad \cup {p}
    /\ UNCHANGED <<moves, split>>

\* An end that comes too early.  After a move it is one with a bad status:
\* whoever exits with 0 after the winning move has not failed.
Quit(p) ==
    /\ state[p] \in {"starting", "thinking", "waiting"} /\ "quit" \in Habits
    /\ \E s \in Ended : (state[p] = "waiting" => s # "exit0") /\ Becomes(p, s)
    /\ bad' = bad \cup {p}
    /\ UNCHANGED <<split, moves, pipes>>

read_guidance(p) ==
    /\ state[p] = "waiting" /\ in_player[p] # << >>
    /\ in_player' = [in_player EXCEPT ![p] = Tail(@)]
    /\ Becomes(p, CASE Head(in_player[p]) = "winner" -> "won"
                    [] Head(in_player[p]) = "hotter" -> "thinking"
                    [] OTHER -> "exit1")
    /\ UNCHANGED <<split, moves, bad, in_game, out_game, out_player>>

\* The end of main after winning: fumble_player spoils it.
Finish(p) ==
    /\ state[p] = "won"
    /\ \/ Becomes(p, "exit0") /\ UNCHANGED bad
       \/ /\ "badexit" \in Habits
          /\ \E s \in {"exit1", "signaled"} : Becomes(p, s)
          /\ bad' = bad \cup {p}
    /\ UNCHANGED <<split, moves, pipes>>

PlayerStep(p) ==
    \/ Exec(p) \/ read_position(p) \/ read_guidance(p) \/ Finish(p)
    \/ MoveLegal(p) \/ MoveGoal(p) \/ MoveWrong(p) \/ MoveHalf(p) \/ MoveRest(p)
    \/ Scrap(p) \/ Quit(p)

\* Nobody can write to the pipe that a player's standard output was.
OutputClosed(p) == state[p] \in Ended \cup {"looping", "none"}
=============================================================================
