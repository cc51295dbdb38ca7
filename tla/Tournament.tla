----------------------------- MODULE Tournament -----------------------------
(***************************************************************************)
(* shell/run_tournament.c with the processes it runs.  A round forks a     *)
(* game maker and the players, relays moves and guidance between them      *)
(* until somebody wins or everybody went wrong, and counts the results.    *)
(* SIGINT is blocked while a round runs; the handler reports and exits.    *)
(*                                                                         *)
(* Time starts when the handler is installed.                              *)
(***************************************************************************)
EXTENDS GameMaker, GamePlayer

CONSTANTS
    rounds,
    StrcmpSees   \* see Reads

ASSUME RoundsAssumption == rounds \in Nat \ {0} /\ StrcmpSees \in BOOLEAN

\* memset clears n ints where fail has n chars.  The allocator's smallest chunk
\* holds 24 bytes; what becomes of the heap beyond is not modelled.
ASSUME MemsetAssumption == 4 * player_num <= 24

NoWinner == -1

VARIABLES
    pc,              \* where run_tournament is
    current_round,
    i,               \* its loop variable i
    player,          \* whose turn it is
    fail, fail_count, winner_idx,
    results,         \* win, lose and fail of each player
    masked,          \* SIGINT is blocked
    pending,         \* SIGINT came while it was blocked
    childMasked,     \* the children of this round were forked with SIGINT blocked
    buffer,          \* the lines in stdout's buffer
    output,          \* the lines written
    done             \* rounds completed

relay == <<player, fail, fail_count, winner_idx>>
signals == <<masked, pending, childMasked>>
printing == <<buffer, output>>
vars == <<pc, current_round, i, relay, results, signals, printing, done,
          pipes, makerVars, playerVars>>

Everyone(v) == [p \in Player |-> v]

Init ==
    /\ pc = "head" /\ current_round = 0 /\ i = 0 /\ done = 0
    /\ player = 0 /\ fail = Everyone(FALSE) /\ fail_count = 0 /\ winner_idx = NoWinner
    /\ results = Everyone([win |-> 0, lose |-> 0, fail |-> 0])
    /\ masked = FALSE /\ pending = FALSE /\ childMasked = FALSE
    /\ buffer = << >> /\ output = << >>
    /\ in_game = << >> /\ out_game = << >> /\ in_player = NoPipes /\ out_player = NoPipes
    /\ maker = "none" /\ turn = 0 /\ playing = {}
    /\ state = Everyone("none") /\ moves = Everyone(0) /\ bad = {} /\ split = {}

children == <<makerVars, playerVars>>

-----------------------------------------------------------------------------
\* The report: the number of rounds, then one line for each player.
Lines(count, scores) ==
    <<[rounds |-> count]>> \o [k \in 1..player_num |-> [who |-> k-1, score |-> scores[k-1]]]

\* The handler of SIGINT.  exit writes what is left in stdout's buffer.
report(scores) ==
    /\ output' = output \o Lines(current_round + 1, scores) \o buffer
    /\ buffer' = << >>
    /\ pc' = "exited"

\* Not the code: SIGINT is never blocked.
BlockNothing ==
    /\ pc = "head"
    /\ pc' = IF current_round < rounds THEN "fork" ELSE "print"
    /\ i' = 0
    /\ UNCHANGED <<masked, current_round, relay, results, pending, childMasked, printing, done, pipes, children>>

\* Not the code: one round too many.
BlockOneMore ==
    /\ pc = "head"
    /\ IF current_round <= rounds THEN pc' = "fork" /\ masked' = TRUE
       ELSE pc' = "print" /\ UNCHANGED masked
    /\ i' = 0
    /\ UNCHANGED <<current_round, relay, results, pending, childMasked, printing, done, pipes, children>>

\* The head of the loop over the rounds, and Sigprocmask(SIG_BLOCK).
Block ==
    /\ pc = "head"
    /\ IF current_round < rounds THEN pc' = "fork" /\ masked' = TRUE
       ELSE pc' = "print" /\ UNCHANGED masked
    /\ i' = 0
    /\ UNCHANGED <<current_round, relay, results, pending, childMasked, printing, done, pipes, children>>

\* The pipes, the game maker and the players.
Start ==
    /\ pc = "fork" /\ pc' = "target"
    /\ maker' = "forked"
    /\ state' = Everyone("forked") /\ moves' = Everyone(0) /\ bad' = {} /\ split' = {}
    /\ childMasked' = masked
    /\ UNCHANGED <<current_round, i, relay, results, masked, pending, printing, done, pipes, turn, playing>>

ReadTarget ==
    /\ pc = "target" /\ out_game # << >>
    /\ out_game' = Tail(out_game)
    /\ pc' = "deal" /\ i' = 0
    /\ UNCHANGED <<current_round, relay, results, signals, printing, done,
                   in_game, in_player, out_player, children>>

\* One player's position.
RelayStart ==
    /\ pc = "deal" /\ i < player_num /\ out_game # << >>
    /\ in_player' = [in_player EXCEPT ![i] = Append(@, Head(out_game))]
    /\ out_game' = Tail(out_game)
    /\ i' = i + 1
    /\ UNCHANGED <<pc, current_round, relay, results, signals, printing, done,
                   in_game, out_player, children>>

\* Not the code: fail keeps what the round before left in it.
ClearCountOnly ==
    /\ pc = "deal" /\ i = player_num
    /\ pc' = "turn"
    /\ fail_count' = 0 /\ winner_idx' = NoWinner /\ player' = 0
    /\ UNCHANGED <<fail, current_round, i, results, signals, printing, done, pipes, children>>

\* memset, and the variables of the turns.
Clear ==
    /\ pc = "deal" /\ i = player_num
    /\ pc' = "turn"
    /\ fail' = Everyone(FALSE) /\ fail_count' = 0 /\ winner_idx' = NoWinner /\ player' = 0
    /\ UNCHANGED <<current_round, i, results, signals, printing, done, pipes, children>>

Following(p) == (p + 1) % player_num

\* Not the code: the turn stays with a player that is out.
TurnStays ==
    /\ pc = "turn"
    /\ pc' = IF fail_count = player_num THEN "winner" ELSE IF fail[player] THEN "turn" ELSE "read"
    /\ UNCHANGED <<player, current_round, i, fail, fail_count, winner_idx, results, signals,
                   printing, done, pipes, children>>

\* The head of the loop over the turns.
Turn ==
    /\ pc = "turn"
    /\ IF fail_count = player_num THEN pc' = "winner" /\ UNCHANGED player
       ELSE IF fail[player] THEN player' = Following(player) /\ UNCHANGED pc
       ELSE pc' = "read" /\ UNCHANGED player
    /\ UNCHANGED <<current_round, i, fail, fail_count, winner_idx, results, signals, printing, done,
                   pipes, children>>

\* Read(fd, buffer, 7) takes up to 7 bytes that are there, or sees the end of
\* the pipe.  Two halves are one line when both are there.
Taken(q) == IF Len(q) > 1 /\ q[1] = "head" /\ q[2] = "tail" THEN 2 ELSE 1
Relayed(q) ==
    IF q = << >> THEN "broken"
    ELSE IF Taken(q) = 2 THEN "legal"
    ELSE IF q[1] \in Part THEN "broken" ELSE q[1]

ReadMove ==
    /\ pc = "read"
    /\ LET q == out_player[player]
       IN  /\ q # << >> \/ OutputClosed(player)
           /\ in_game' = Append(in_game, Relayed(q))
           /\ out_player' = [out_player EXCEPT ![player] =
                                IF q = << >> THEN q ELSE SubSeq(q, Taken(q) + 1, Len(q))]
    /\ pc' = "verdict"
    /\ UNCHANGED <<current_round, i, relay, results, signals, printing, done,
                   out_game, in_player, children>>

\* strcmp(buffer, text) reads a byte beyond the 7 of buffer.  It finds them
\* equal if that byte happens to be 0; a compiler may also conclude that an
\* array of 7 chars never equals a string of 7 and leave the branch out.
Reads(line, text) == StrcmpSees /\ line = text

Verdict ==
    /\ pc = "verdict" /\ out_game # << >>
    /\ out_game' = Tail(out_game)
    /\ LET line == Head(out_game)
       IN  /\ IF Reads(line, "wrong!")
              THEN /\ fail' = [fail EXCEPT ![player] = TRUE] /\ fail_count' = fail_count + 1
                   /\ UNCHANGED in_player
              ELSE /\ in_player' = [in_player EXCEPT ![player] = Append(@, line)]
                   /\ UNCHANGED <<fail, fail_count>>
           /\ IF Reads(line, "winner")
              THEN winner_idx' = player /\ pc' = "winner" /\ UNCHANGED player
              ELSE player' = Following(player) /\ pc' = "turn" /\ UNCHANGED winner_idx
    /\ UNCHANGED <<current_round, i, results, signals, printing, done, in_game, out_player, children>>

\* Not the code: how the winner ended does not matter.
WinnerUnchecked ==
    /\ pc = "winner" /\ pc' = "tally" /\ i' = 0
    /\ IF winner_idx = NoWinner THEN UNCHANGED <<results, state>>
       ELSE /\ state[winner_idx] \in Ended
            /\ results' = [results EXCEPT ![winner_idx].win = @ + 1]
            /\ Becomes(winner_idx, "none")
    /\ UNCHANGED <<fail, current_round, player, fail_count, winner_idx, signals, printing, done,
                   pipes, makerVars, moves, bad, split>>

\* The winner is waited for.  Without one nothing happens here.
Winner ==
    /\ pc = "winner" /\ pc' = "tally" /\ i' = 0
    /\ IF winner_idx = NoWinner THEN UNCHANGED <<results, fail, state>>
       ELSE /\ state[winner_idx] \in Ended
            /\ results' = [results EXCEPT ![winner_idx].win = @ + 1]
            /\ fail' = [fail EXCEPT ![winner_idx] = @ \/ state[winner_idx] # "exit0"]
            /\ Becomes(winner_idx, "none")
    /\ UNCHANGED <<current_round, player, fail_count, winner_idx, signals, printing, done,
                   pipes, makerVars, moves, bad, split>>

\* Not the code: a player that failed does not lose.
TallyFailOrLose ==
    /\ pc = "tally" /\ i < player_num
    /\ results' = [results EXCEPT ![i].fail = IF fail[i] THEN @ + 1 ELSE @,
                                  ![i].lose = IF ~fail[i] /\ i # winner_idx THEN @ + 1 ELSE @]
    /\ IF i # winner_idx THEN Becomes(i, "none") ELSE UNCHANGED state
    /\ i' = i + 1
    /\ UNCHANGED <<pc, current_round, relay, signals, printing, done, pipes, makerVars, moves, bad, split>>

\* Not the code: players that did not win are left running.
TallyWithoutKill ==
    /\ pc = "tally" /\ i < player_num
    /\ results' = [results EXCEPT ![i].fail = IF fail[i] THEN @ + 1 ELSE @,
                                  ![i].lose = IF i # winner_idx THEN @ + 1 ELSE @]
    /\ i' = i + 1
    /\ UNCHANGED <<state, pc, current_round, relay, signals, printing, done, pipes, makerVars, moves, bad, split>>

\* One player's result; a player that did not win is killed and waited for.
Tally ==
    /\ pc = "tally" /\ i < player_num
    /\ results' = [results EXCEPT ![i].fail = IF fail[i] THEN @ + 1 ELSE @,
                                  ![i].lose = IF i # winner_idx THEN @ + 1 ELSE @]
    /\ IF i # winner_idx THEN Becomes(i, "none") ELSE UNCHANGED state
    /\ i' = i + 1
    /\ UNCHANGED <<pc, current_round, relay, signals, printing, done, pipes, makerVars, moves, bad, split>>

\* The game maker is waited for, the pipes are closed, and Sigprocmask
\* delivers a SIGINT that came during the round.
Unblock ==
    /\ pc = "tally" /\ i = player_num
    /\ maker = "exited" /\ maker' = "none"
    /\ in_game' = << >> /\ out_game' = << >> /\ in_player' = NoPipes /\ out_player' = NoPipes
    /\ done' = done + 1
    /\ masked' = FALSE /\ pending' = FALSE
    /\ IF pending THEN report(results) ELSE pc' = "next" /\ UNCHANGED printing
    /\ UNCHANGED <<current_round, i, relay, results, childMasked, turn, playing, playerVars>>

\* ++current_round
NextRound ==
    /\ pc = "next" /\ pc' = "head"
    /\ current_round' = current_round + 1
    /\ UNCHANGED <<i, relay, results, signals, printing, done, pipes, children>>

\* One printf of the final report.
PrintLine ==
    /\ pc = "print" /\ i <= player_num
    /\ buffer' = Append(buffer, Lines(rounds, results)[i + 1])
    /\ i' = i + 1
    /\ UNCHANGED <<pc, current_round, relay, results, signals, output, done, pipes, children>>

\* main returns.
Exit ==
    /\ pc = "print" /\ i > player_num
    /\ pc' = "exited"
    /\ output' = output \o buffer /\ buffer' = << >>
    /\ UNCHANGED <<current_round, i, relay, results, signals, done, pipes, children>>

Relay ==
    \/ Block \/ Start \/ ReadTarget \/ RelayStart \/ Clear \/ Turn \/ ReadMove \/ Verdict
    \/ Winner \/ Tally \/ Unblock \/ NextRound \/ PrintLine \/ Exit

-----------------------------------------------------------------------------
Running == pc # "exited"
relayVars == <<pc, current_round, i, relay, results, signals, printing, done>>

\* Ctl-C in a terminal: the signal goes to the process group, which a child
\* leaves in Exec.  A child keeps the mask it was forked with.  A signal that
\* is pending already changes nothing.
Interrupt ==
    /\ Running /\ ~pending
    /\ state' = [p \in Player |-> IF state[p] = "forked" /\ ~childMasked THEN "signaled" ELSE state[p]]
    /\ IF masked
       THEN pending' = TRUE /\ UNCHANGED <<pc, printing>>
       ELSE report(results) /\ UNCHANGED pending
    /\ UNCHANGED <<current_round, i, relay, results, masked, childMasked, done,
                   pipes, makerVars, moves, bad, split>>

Maker == MakerStep /\ UNCHANGED <<relayVars, playerVars>>
Play(p) == PlayerStep(p) /\ UNCHANGED <<relayVars, makerVars>>

\* The process is gone.
Stopped == ~Running /\ UNCHANGED vars

Next == Relay \/ Maker \/ (\E p \in Player : Play(p)) \/ Interrupt \/ Stopped

Spec == Init /\ [][Next]_vars
FairSpec == Spec /\ WF_vars(Relay) /\ WF_vars(Maker) /\ \A p \in Player : WF_vars(Play(p))

-----------------------------------------------------------------------------
Between == pc \in {"head", "next", "print", "exited"}

Score == [win : Nat, lose : Nat, fail : Nat]
Line == [rounds : Nat] \cup [who : Player, score : Score]

TypeOK ==
    /\ pc \in {"head", "fork", "target", "deal", "turn", "read", "verdict", "winner", "tally",
               "next", "print", "exited"}
    /\ current_round \in 0..rounds /\ i \in 0..player_num+1 /\ done \in 0..rounds
    /\ player \in Player /\ fail \in [Player -> BOOLEAN]
    /\ fail_count \in 0..player_num /\ winner_idx \in Player \cup {NoWinner}
    /\ results \in [Player -> Score]
    /\ masked \in BOOLEAN /\ pending \in BOOLEAN /\ childMasked \in BOOLEAN
    /\ buffer \in Seq(Line) /\ output \in Seq(Line)
    /\ PipesTypeOK /\ MakerTypeOK /\ PlayerTypeOK

(* The relay and the game maker agree whose move it is and who is out, at   *)
(* every moment when one waits for the other: no player's move is judged as *)
(* another's.                                                               *)
InStep ==
    /\ (pc = "verdict" /\ maker = "playing" /\ in_game # << >>) => turn = player
    /\ pc = "read" => player \in playing /\ player = turn
    /\ pc = "turn" => \A p \in Player : fail[p] <=> p \notin playing

(* A player fails a round only if it did something wrong in it or wrote a   *)
(* line in two parts, and always if the game maker told it so or if it won  *)
(* and ended badly.                                                         *)
FailsDeserved ==
    (pc = "tally" /\ i = 0) =>
        /\ \A p \in Player : fail[p] => p \in bad \cup split
        /\ \A p \in Player \ playing : fail[p]
        /\ winner_idx \in bad => fail[winner_idx]

(* "a program will either win or lose every round, and it may fail on some  *)
(* rounds" (Shell Assignment): so say the scores between the rounds.        *)
ScoresAddUp ==
    Between => \A p \in Player :
        results[p].win + results[p].lose = done /\ results[p].fail <= done

(* Between the rounds no process of a round is left, to spin or to wait for *)
(* ever.                                                                    *)
NothingLeft == Between => maker = "none" /\ state = Everyone("none")

(* What Ctl-C spares: the players ("should not reach the player programs"), *)
(* so that a child that was not yet in a group of its own survives it; and  *)
(* the round ("finish the current round and report"): the process stops     *)
(* between two rounds only.                                                 *)
PlayersSpared == \A p \in Player : state[p] = "forked" => state'[p] # "signaled"
RoundSpared == (Running /\ pc' = "exited") => (Between \/ done' = done + 1)
CtlCSpares == [][PlayersSpared /\ RoundSpared]_vars

(* A tournament ends, whatever the players do, and SIGINT ends it with the  *)
(* round.                                                                   *)
TournamentEnds == <>(pc = "exited")

(* The Shell Assignment says of a tournament cut short: "report the number  *)
(* of rounds completed and the results for those rounds, then exit", and of *)
(* any: "must end with a report of n+1 lines".                              *)
EndsWithReport ==
    pc = "exited" =>
        /\ Len(output) > player_num
        /\ SubSeq(output, Len(output) - player_num, Len(output)) = Lines(done, results)
=============================================================================
