------------------------------ MODULE MCShell -------------------------------
(***************************************************************************)
(* The two models of shell/ for TLC, which share no state: a behaviour is  *)
(* one of a tournament or one of a game on the board, and what does not    *)
(* run stays as it started.                                                *)
(***************************************************************************)
EXTENDS MCTournament, MCBoard

VARIABLE running

shellVars == <<running, vars, boardVars>>

First(S) == CHOOSE x \in S : TRUE

ShellInit ==
    /\ running \in {"tournament", "game"} /\ Init /\ BoardInit
    /\ running = "tournament" => /\ target = First(Targets) /\ limits = First(Limits)
                                 /\ program = First(Programs)

Plays(G) == running = "tournament" /\ G /\ UNCHANGED <<running, boardVars>>
Moves(G) == running = "game" /\ G /\ UNCHANGED <<running, vars>>

ShellNext == Plays(Next) \/ Moves(BoardNext)

ShellSpec ==
    /\ ShellInit /\ [][ShellNext]_shellVars
    /\ WF_shellVars(Plays(Relay)) /\ WF_shellVars(Plays(Maker))
    /\ \A p \in Player : WF_shellVars(Plays(Play(p)))
    /\ WF_shellVars(Moves(BoardMaker)) /\ WF_shellVars(Moves(BoardPlayer))

\* FairSpec's promise: see Tournament.
EveryTournamentEnds == running = "tournament" => TournamentEnds

\* What becomes of each player's game: see BoardPlayers.
EveryGameEnds == running = "game" => EndsAsExpected
=============================================================================
