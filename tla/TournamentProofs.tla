-------------------------- MODULE TournamentProofs --------------------------
(***************************************************************************)
(* What a tournament keeps, for any number of players and of rounds: the   *)
(* scores, the mask and the processes whatever strcmp sees; the turns and  *)
(* the failures if it sees the verdicts.                                   *)
(***************************************************************************)
EXTENDS Tournament, FiniteSetTheorems, SequenceTheorems, TLAPS

-----------------------------------------------------------------------------
\* TypeOK in parts, see TypeParts.
PlacesOK ==
    /\ pc \in {"head", "fork", "target", "deal", "turn", "read", "verdict", "winner", "tally",
               "next", "print", "exited"}
    /\ current_round \in 0..rounds /\ i \in 0..player_num+1 /\ done \in 0..rounds
    /\ masked \in BOOLEAN /\ pending \in BOOLEAN /\ childMasked \in BOOLEAN
RelayOK ==
    /\ player \in Player /\ fail \in [Player -> BOOLEAN]
    /\ fail_count \in 0..player_num /\ winner_idx \in Player \cup {NoWinner}
ResultsOK == results \in [Player -> Score]
PrintOK == buffer \in Seq(Line) /\ output \in Seq(Line)

\* SIGINT is blocked during the rounds and only then, and so is it in a child
\* that has not left the process group.
Mask ==
    /\ masked <=> ~Between
    /\ pending => masked
    /\ \A p \in Player : state[p] = "forked" => childMasked

\* A round starts with nothing of the round before.
Clean ==
    Between \/ pc = "fork" =>
        /\ maker = "none" /\ state = Everyone("none")
        /\ in_game = << >> /\ out_game = << >> /\ in_player = NoPipes /\ out_player = NoPipes

\* The rounds that are completed, and the one that is played.
Rounds ==
    /\ pc \notin {"next", "print", "exited"} => done = current_round
    /\ pc = "next" => done = current_round + 1
    /\ ~Between => current_round < rounds

One(b) == IF b THEN 1 ELSE 0

\* While the results are counted, some players have theirs: the winner its win
\* before anybody else.
Scored ==
    \A p \in Player :
        /\ results[p].win + results[p].lose = done + One(pc = "tally" /\ (p < i \/ p = winner_idx))
        /\ results[p].fail <= done + One(pc = "tally" /\ p < i)

\* A player in the middle of a legal move has one left.
Unfinished == \A p \in Player : state[p] = "half" => moves[p] < MaxMoves

\* Whoever has its result is killed and waited for.
Buried == pc = "tally" => \A p \in Player : p < i \/ p = winner_idx => state[p] = "none"

Out == {p \in Player : fail[p]}

\* fail_count counts the players in fail, and nobody of them has the turn.
Failures ==
    /\ pc \in {"turn", "read", "verdict"} => fail_count = Cardinality(Out) /\ winner_idx = NoWinner
    /\ pc \in {"read", "verdict"} => ~fail[player]

\* What is in the pipes from and to the game maker: the positions that are not
\* yet dealt, then at most one line, a move or what the game maker says of it.
Wires ==
    /\ pc \in {"target", "deal", "turn", "read", "winner", "tally"} => in_game = << >>
    /\ pc \in {"turn", "read", "winner", "tally"} => out_game = << >>
    /\ pc = "target" =>
          \/ maker = "forked" /\ out_game = << >>
          \/ /\ maker = "playing" /\ Len(out_game) = player_num + 1 /\ out_game[1] = "target"
             /\ \A k \in 2..player_num+1 : out_game[k] = "start"
    /\ pc = "deal" =>
          /\ maker = "playing" /\ i <= player_num /\ Len(out_game) = player_num - i
          /\ \A k \in 1..player_num-i : out_game[k] = "start"
    /\ pc \in {"turn", "read", "verdict", "winner", "tally"} => maker \in {"playing", "exited"}
    /\ pc = "verdict" =>
          \/ out_game = << >> /\ \E m \in MoveLine : in_game = <<m>>
          \/ in_game = << >> /\ \E g \in Guidance : out_game = <<g>>
    /\ pc = "tally" => i <= player_num

Typed == PlacesOK /\ RelayOK /\ ResultsOK /\ PrintOK /\ PipesTypeOK /\ MakerTypeOK /\ PlayerTypeOK
IInv == Typed /\ Mask /\ Clean /\ Rounds /\ Scored /\ Unfinished /\ Buried /\ Failures /\ Wires


LEMMA TypeParts == Typed <=> TypeOK
BY DEF Typed, PlacesOK, RelayOK, ResultsOK, PrintOK, TypeOK

\* Sequences of no or one line, as the pipes hold them.
LEMMA Lines1 ==
  ASSUME NEW x
  PROVE  /\ <<x>> # << >> /\ Len(<<x>>) = 1 /\ <<x>>[1] = x
         /\ Head(<<x>>) = x /\ Tail(<<x>>) = << >>
         /\ Append(<< >>, x) = <<x>>
         /\ Append(<< >>, x) # << >>
OBVIOUS

\* A report is made of lines.
LEMMA ReportLines ==
  ASSUME NEW n \in Nat, NEW scores \in [Player -> Score]
  PROVE  Lines(n, scores) \in Seq(Line) /\ Len(Lines(n, scores)) = player_num + 1
<1> DEFINE body == [k \in 1..player_num |-> [who |-> k-1, score |-> scores[k-1]]]
<1> DEFINE head == <<[rounds |-> n]>>
<1>1. head \in Seq(Line) /\ Len(head) = 1
  BY DEF Line
<1>2. \A k \in 1..player_num : [who |-> k-1, score |-> scores[k-1]] \in Line
  BY PlayersAssumption DEF Line, Player
<1>3. body \in Seq(Line) /\ Len(body) = player_num
  BY <1>2, PlayersAssumption
<1>4. Lines(n, scores) = head \o body
  BY DEF Lines
<1> HIDE DEF head, body
<1>5. head \o body \in Seq(Line) /\ Len(head \o body) = Len(head) + Len(body)
  BY <1>1, <1>3, ConcatProperties
<1> QED
  BY <1>1, <1>3, <1>4, <1>5, PlayersAssumption

\* Counting the players that are out.
LEMMA Counting ==
  /\ IsFiniteSet(Player) /\ Cardinality(Player) = player_num
  /\ \A S \in SUBSET Player : IsFiniteSet(S) /\ Cardinality(S) \in 0..player_num
  /\ \A S \in SUBSET Player : Cardinality(S) = player_num => S = Player
  /\ \A S \in SUBSET Player, p \in Player : p \notin S => Cardinality(S \cup {p}) = Cardinality(S) + 1
<1>1. IsFiniteSet(Player) /\ Cardinality(Player) = player_num
  BY PlayersAssumption, FS_Interval DEF Player
<1>2. ASSUME NEW S \in SUBSET Player
      PROVE  /\ IsFiniteSet(S) /\ Cardinality(S) \in 0..player_num
             /\ Cardinality(S) = player_num => S = Player
  BY <1>1, FS_Subset, FS_CardinalityType, PlayersAssumption
<1> QED
  BY <1>1, <1>2, FS_AddElement


LEMMA InitIInv == Init => IInv
<1> SUFFICES ASSUME Init PROVE IInv
  OBVIOUS
<1> USE PlayersAssumption, RoundsAssumption, HabitsAssumption DEF Init, Everyone
<1>1. TypeOK
  <2>1. 0 \in Player /\ 0 \in 0..MaxMoves /\ 0 \in 0..player_num+1 /\ 0 \in 0..rounds
    BY DEF Player
  <2>2. results \in [Player -> Score]
    BY DEF Score
  <2>3. PipesTypeOK
    BY DEF PipesTypeOK, NoPipes
  <2>4. MakerTypeOK /\ PlayerTypeOK
    BY <2>1 DEF MakerTypeOK, PlayerTypeOK
  <2> QED
    BY <2>1, <2>2, <2>3, <2>4 DEF TypeOK, NoWinner
<1>2. Mask /\ Clean /\ Rounds /\ Unfinished /\ Buried /\ Failures /\ Wires
  BY DEF Mask, Clean, Rounds, Unfinished, Buried, Failures, Wires, Between
<1>3. Scored
  BY DEF Scored, One
<1> QED
  BY <1>1, <1>2, <1>3, TypeParts DEF IInv

\* What a step of a player leaves alone, for the relay and the game maker.
LEMMA PlayerFrame ==
  ASSUME PipesTypeOK, PlayerTypeOK, Unfinished, NEW p \in Player, PlayerStep(p)
  PROVE  /\ PipesTypeOK' /\ PlayerTypeOK' /\ Unfinished'
         /\ in_game' = in_game /\ out_game' = out_game
         /\ state[p] # "none" /\ state'[p] \notin {"none", "forked"}
         /\ \A q \in Player \ {p} : state'[q] = state[q]
<1> USE HabitsAssumption DEF PlayerTypeOK, PipesTypeOK, Unfinished, Becomes, Writes, pipes, Alive, Ended, Part, Move, Guidance
<1>1. CASE Exec(p)
  BY <1>1 DEF Exec
<1>2. CASE read_position(p)
  BY <1>2 DEF read_position
<1>3. CASE read_guidance(p)
  BY <1>3 DEF read_guidance
<1>4. CASE Finish(p)
  BY <1>4 DEF Finish
<1>5. CASE MoveLegal(p)
  BY <1>5 DEF MoveLegal
<1>6. CASE MoveGoal(p)
  BY <1>6 DEF MoveGoal
<1>7. CASE MoveWrong(p)
  BY <1>7 DEF MoveWrong
<1>8. CASE MoveHalf(p)
  BY <1>8 DEF MoveHalf
<1>9. CASE MoveRest(p)
  BY <1>9 DEF MoveRest
<1>10. CASE Scrap(p)
  <2>1. CASE UNCHANGED pipes /\ Becomes(p, "looping")
    BY <1>10, <2>1 DEF Scrap
  <2>2. CASE Writes(p, "scrap") /\ \E s \in {"exit0", "looping", "stuck"} : Becomes(p, s)
    BY <1>10, <2>2 DEF Scrap
  <2> QED
    BY <1>10, <2>1, <2>2 DEF Scrap
<1>11. CASE Quit(p)
  BY <1>11 DEF Quit
<1> QED
  BY <1>1, <1>2, <1>3, <1>4, <1>5, <1>6, <1>7, <1>8, <1>9, <1>10, <1>11 DEF PlayerStep

\* No step breaks the invariant: one step of the proof for each action and,
\* under it, one for each part the action can disturb.
LEMMA NextIInv == IInv /\ [Next]_vars => IInv'
<1> SUFFICES ASSUME IInv, [Next]_vars PROVE IInv'
  OBVIOUS
<1> USE PlayersAssumption, RoundsAssumption DEF IInv, Typed
<1> USE DEF relay, signals, printing, pipes, children, makerVars, playerVars
<1>1. CASE Block
  <2>1. RelayOK' /\ ResultsOK' /\ PrintOK' /\ PipesTypeOK' /\ MakerTypeOK' /\ PlayerTypeOK'
       /\ Mask' /\ Clean' /\ Rounds' /\ Scored' /\ Unfinished' /\ Buried' /\ Failures' /\ Wires'
    BY <1>1 DEF Block, RelayOK, PlacesOK, ResultsOK, PrintOK, PipesTypeOK, MakerTypeOK,
       PlayerTypeOK, Mask, Between, Clean, Rounds, Scored, One, Unfinished, Buried, Failures,
       Out, Wires
  <2>2. PlacesOK'
    <3>1. CASE current_round < rounds
      BY <1>1, <3>1 DEF Block, PlacesOK
    <3>2. CASE ~(current_round < rounds)
      BY <1>1, <3>2 DEF Block, PlacesOK
    <3> QED
      BY <3>1, <3>2
  <2> QED
    BY <2>1, <2>2
<1>2. CASE Start
  <2>1. PlacesOK' /\ RelayOK' /\ ResultsOK' /\ PrintOK' /\ PipesTypeOK' /\ MakerTypeOK' /\ Mask'
       /\ Clean' /\ Rounds' /\ Scored' /\ Buried' /\ Failures'
    BY <1>2 DEF Start, PlacesOK, RelayOK, ResultsOK, PrintOK, PipesTypeOK, MakerTypeOK, Mask,
       Between, Clean, Rounds, Scored, One, Buried, Failures, Out
  <2>2. PlayerTypeOK'
    BY <1>2, HabitsAssumption DEF Start, PlayerTypeOK, Everyone, Alive
  <2>3. Unfinished'
    BY <1>2 DEF Start, Unfinished, Everyone
  <2>4. Wires'
    BY <1>2 DEF Start, Wires, Clean
  <2> QED
    BY <2>1, <2>2, <2>3, <2>4
<1>3. CASE ReadTarget
  <2>1. PlacesOK' /\ RelayOK' /\ ResultsOK' /\ PrintOK' /\ PipesTypeOK' /\ MakerTypeOK'
       /\ PlayerTypeOK' /\ Mask' /\ Clean' /\ Rounds' /\ Scored' /\ Unfinished' /\ Buried'
       /\ Failures' /\ Wires'
    BY <1>3, SMTT(30) DEF ReadTarget, PlacesOK, RelayOK, ResultsOK, PrintOK, PipesTypeOK, MakerTypeOK,
       PlayerTypeOK, Mask, Between, Clean, Rounds, Scored, One, Unfinished, Buried, Failures,
       Out, Wires
  <2> QED
    BY <2>1
<1>4. CASE RelayStart
  <2>1. PlacesOK' /\ RelayOK' /\ ResultsOK' /\ PrintOK' /\ MakerTypeOK' /\ PlayerTypeOK'
       /\ Mask' /\ Clean' /\ Rounds' /\ Scored' /\ Unfinished' /\ Buried' /\ Failures'
    BY <1>4 DEF RelayStart, PlacesOK, RelayOK, ResultsOK, PrintOK, MakerTypeOK, PlayerTypeOK,
       Mask, Between, Clean, Rounds, Scored, One, Unfinished, Buried, Failures, Out
  <2>2. PipesTypeOK'
    <3>1. i \in Player /\ Head(out_game) = "start"
      BY <1>4 DEF RelayStart, Wires, PlacesOK, Player
    <3>2. in_player[i] \in Seq(Guidance \cup {"start"})
      BY <3>1 DEF PipesTypeOK
    <3>3. Append(in_player[i], Head(out_game)) \in Seq(Guidance \cup {"start"})
      BY <3>1, <3>2
    <3> QED
      BY <1>4, <3>1, <3>3 DEF RelayStart, PipesTypeOK
  <2>3. Wires'
    <3>1. /\ out_game \in Seq(Guidance \cup {"target", "start"}) /\ i < player_num /\ i \in Nat
          /\ Len(out_game) = player_num - i /\ \A k \in 1..player_num-i : out_game[k] = "start"
      BY <1>4 DEF RelayStart, Wires, PipesTypeOK, PlacesOK
    <3>2. Len(out_game') = player_num - (i + 1) /\ \A k \in 1..player_num-(i + 1) : out_game'[k] = "start"
      BY <1>4, <3>1 DEF RelayStart
    <3> QED
      BY <1>4, <3>1, <3>2 DEF RelayStart, Wires
  <2> QED
    BY <2>1, <2>2, <2>3
<1>5. CASE Clear
  <2>1. PlacesOK' /\ ResultsOK' /\ PrintOK' /\ PipesTypeOK' /\ MakerTypeOK' /\ PlayerTypeOK'
       /\ Mask' /\ Clean' /\ Rounds' /\ Scored' /\ Unfinished' /\ Buried'
    BY <1>5 DEF Clear, PlacesOK, ResultsOK, PrintOK, PipesTypeOK, MakerTypeOK, PlayerTypeOK,
       Mask, Between, Clean, Rounds, Scored, One, Unfinished, Buried
  <2>2. RelayOK'
    BY <1>5 DEF Clear, RelayOK, Everyone, Player
  <2>3. Failures'
    BY <1>5, FS_EmptySet DEF Clear, Failures, Out, Everyone
  <2>4. Wires'
    BY <1>5 DEF Clear, Wires, PipesTypeOK
  <2> QED
    BY <2>1, <2>2, <2>3, <2>4
<1>6. CASE Turn
  <2>1. PlacesOK' /\ ResultsOK' /\ PrintOK' /\ PipesTypeOK' /\ MakerTypeOK' /\ PlayerTypeOK'
       /\ Mask' /\ Clean' /\ Rounds' /\ Scored' /\ Unfinished' /\ Buried' /\ Failures' /\ Wires'
    BY <1>6 DEF Turn, PlacesOK, ResultsOK, PrintOK, PipesTypeOK, MakerTypeOK, PlayerTypeOK, Mask,
       Between, Clean, Rounds, Scored, One, Unfinished, Buried, Failures, Out, Wires
  <2>2. RelayOK'
    <3>1. Following(player) \in Player
      BY DEF Following, RelayOK, Player
    <3> QED
      BY <1>6, <3>1 DEF Turn, RelayOK
  <2> QED
    BY <2>1, <2>2
<1>7. CASE ReadMove
  <2>1. PlacesOK' /\ RelayOK' /\ ResultsOK' /\ PrintOK' /\ MakerTypeOK' /\ PlayerTypeOK'
       /\ Mask' /\ Clean' /\ Rounds' /\ Scored' /\ Unfinished' /\ Buried' /\ Failures'
    BY <1>7 DEF ReadMove, PlacesOK, RelayOK, ResultsOK, PrintOK, MakerTypeOK, PlayerTypeOK, Mask,
       Between, Clean, Rounds, Scored, One, Unfinished, Buried, Failures, Out
  <2>2. PipesTypeOK'
    <3> DEFINE q == out_player[player]
    <3>1. q \in Seq(Move \cup Part)
      BY DEF PipesTypeOK, RelayOK
    <3>2. q # << >> => q[1] \in Move \cup Part /\ Len(q) \in Nat /\ Len(q) >= 1
      BY <3>1
    <3>3. Relayed(q) \in MoveLine
      BY <3>1, <3>2 DEF Relayed, MoveLine, Move
    <3>4. Taken(q) \in 1..2 /\ (q # << >> => Taken(q) <= Len(q))
      BY <3>1, <3>2 DEF Taken
    <3>5. (IF q = << >> THEN q ELSE SubSeq(q, Taken(q) + 1, Len(q))) \in Seq(Move \cup Part)
      BY <3>1, <3>2, <3>4
    <3>6. Append(in_game, Relayed(q)) \in Seq(MoveLine)
      BY <3>3 DEF PipesTypeOK
    <3> HIDE DEF q
    <3> QED
      BY <1>7, <3>5, <3>6 DEF ReadMove, PipesTypeOK, q
  <2>3. Wires'
    <3> DEFINE q == out_player[player]
    <3>1. q \in Seq(Move \cup Part)
      BY DEF PipesTypeOK, RelayOK
    <3>2. q # << >> => q[1] \in Move \cup Part
      BY <3>1
    <3>3. Relayed(q) \in MoveLine
      BY <3>1, <3>2 DEF Relayed, MoveLine, Move
    <3>4. in_game = << >> /\ out_game = << >> /\ maker \in {"playing", "exited"}
      BY <1>7 DEF ReadMove, Wires
    <3>5. in_game' = <<Relayed(q)>>
      BY <1>7, <3>4, Lines1 DEF ReadMove
    <3> HIDE DEF q
    <3> QED
      BY <1>7, <3>3, <3>4, <3>5 DEF ReadMove, Wires
  <2> QED
    BY <2>1, <2>2, <2>3
<1>8. CASE Verdict
  <2>1. PlacesOK' /\ ResultsOK' /\ PrintOK' /\ MakerTypeOK' /\ PlayerTypeOK' /\ Mask' /\ Clean'
       /\ Rounds' /\ Scored' /\ Unfinished' /\ Buried'
    BY <1>8 DEF Verdict, PlacesOK, ResultsOK, PrintOK, MakerTypeOK, PlayerTypeOK, Mask, Between,
       Clean, Rounds, Scored, One, Unfinished, Buried
  <2>2. RelayOK'
    <3>1. Following(player) \in Player
      BY DEF Following, RelayOK, Player
    <3>2. ~fail[player] /\ fail_count = Cardinality(Out) /\ player \in Player \ Out /\ Out \in SUBSET Player
      BY <1>8 DEF Verdict, Failures, Out, RelayOK
    <3>3. Cardinality(Out) \in 0..player_num /\ Cardinality(Out) # player_num
      BY <3>2, Counting
    <3> QED
      <4>1. fail' \in [Player -> BOOLEAN]
        BY <1>8 DEF Verdict, RelayOK
      <4>2. fail_count' \in 0..player_num
        BY <1>8, <3>2, <3>3 DEF Verdict
      <4>3. player' \in Player /\ winner_idx' \in Player \cup {NoWinner}
        BY <1>8, <3>1 DEF Verdict, RelayOK
      <4> QED
        BY <4>1, <4>2, <4>3 DEF RelayOK
  <2>3. PipesTypeOK'
    <3>1. \E g \in Guidance : out_game = <<g>> /\ in_game = << >>
      BY <1>8 DEF Verdict, Wires
    <3>2. PICK g \in Guidance : out_game = <<g>> /\ in_game = << >>
      BY <3>1
    <3>3. Head(out_game) = g /\ Tail(out_game) = << >>
      BY <3>2, Lines1
    <3>4. Append(in_player[player], g) \in Seq(Guidance \cup {"start"})
      BY DEF PipesTypeOK, RelayOK
    <3> QED
      <4>1. in_player' \in [Player -> Seq(Guidance \cup {"start"})]
        BY <1>8, <3>2, <3>3, <3>4 DEF Verdict, PipesTypeOK, RelayOK
      <4>2. out_game' = << >> /\ in_game' = in_game /\ out_player' = out_player
        BY <1>8, <3>3 DEF Verdict
      <4> QED
        BY <4>1, <4>2 DEF PipesTypeOK
  <2>4. Failures'
    <3>1. /\ ~fail[player] /\ fail_count = Cardinality(Out) /\ winner_idx = NoWinner
          /\ player \in Player \ Out /\ Out \in SUBSET Player
      BY <1>8 DEF Verdict, Failures, Out, RelayOK
    <3>2. Cardinality(Out \cup {player}) = Cardinality(Out) + 1
      BY <3>1, Counting
    <3>3. CASE Reads(Head(out_game), "wrong!")
      <4>1. fail' = [fail EXCEPT ![player] = TRUE] /\ fail_count' = fail_count + 1
        BY <1>8, <3>3 DEF Verdict
      <4>2. Out' = Out \cup {player}
        BY <3>1, <4>1 DEF Out, RelayOK
      <4> QED
        BY <1>8, <3>1, <3>2, <3>3, <4>1, <4>2 DEF Verdict, Failures, Reads
    <3>4. CASE ~Reads(Head(out_game), "wrong!")
      BY <1>8, <3>1, <3>4 DEF Verdict, Failures, Out
    <3> QED
      BY <3>3, <3>4
  <2>5. Wires'
    <3>1. \E g \in Guidance : out_game = <<g>> /\ in_game = << >>
      BY <1>8 DEF Verdict, Wires
    <3>2. PICK g \in Guidance : out_game = <<g>> /\ in_game = << >>
      BY <3>1
    <3>3. Head(out_game) = g /\ Tail(out_game) = << >>
      BY <3>2, Lines1
    <3> QED
      BY <1>8, <3>2, <3>3 DEF Verdict, Wires
  <2> QED
    BY <2>1, <2>2, <2>3, <2>4, <2>5
<1>9. CASE Winner
  <2>1. PlacesOK'
    BY <1>9 DEF Winner, PlacesOK
  <2>2. RelayOK' /\ PrintOK' /\ PipesTypeOK' /\ MakerTypeOK'
    BY <1>9 DEF Winner, RelayOK, PlacesOK, PrintOK, PipesTypeOK, MakerTypeOK
  <2>3. Clean' /\ Rounds' /\ Failures' /\ Wires'
    BY <1>9 DEF Winner, Clean, Between, Rounds, Failures, Out, Wires
  <2>4. ResultsOK'
    BY <1>9 DEF Winner, ResultsOK, RelayOK, Score
  <2>5. PlayerTypeOK'
    BY <1>9 DEF Winner, PlayerTypeOK, RelayOK, Becomes
  <2>6. Mask'
    BY <1>9 DEF Winner, Mask, Between, PlayerTypeOK, RelayOK, Becomes
  <2>7. Scored'
    <3>1. /\ done \in Nat /\ winner_idx \in Player \cup {NoWinner} /\ results \in [Player -> Score]
          /\ \A p \in Player : results[p].win + results[p].lose = done /\ results[p].fail <= done
      BY <1>9 DEF Winner, PlacesOK, RelayOK, ResultsOK, Scored, One
    <3>2. \A p \in Player : p \in Nat /\ ~(p < 0) /\ p # NoWinner
      BY DEF Player, NoWinner
    <3>3. ASSUME NEW p \in Player
          PROVE  /\ results'[p].win = results[p].win + One(p = winner_idx)
                 /\ results'[p].lose = results[p].lose /\ results'[p].fail = results[p].fail
      BY <1>9, <3>1, <3>2 DEF Winner, One, Score
    <3>4. pc' = "tally" /\ i' = 0 /\ done' = done /\ winner_idx' = winner_idx
      BY <1>9 DEF Winner
    <3> QED
      BY <3>1, <3>2, <3>3, <3>4 DEF Scored, One, Score
  <2>8. Unfinished'
    BY <1>9 DEF Winner, Unfinished, PlayerTypeOK, Becomes, RelayOK
  <2>9. Buried'
    <3>1. \A p \in Player : ~(p < 0) /\ p # NoWinner
      BY DEF Player, NoWinner
    <3> QED
      BY <1>9, <3>1 DEF Winner, Buried, RelayOK, PlayerTypeOK, Becomes
  <2> QED
    BY <2>1, <2>2, <2>3, <2>4, <2>5, <2>6, <2>7, <2>8, <2>9
<1>10. CASE Tally
  <2>1. PlacesOK'
    BY <1>10 DEF Tally, PlacesOK
  <2>2. RelayOK' /\ PrintOK' /\ PipesTypeOK' /\ MakerTypeOK'
    BY <1>10 DEF Tally, RelayOK, PlacesOK, PrintOK, PipesTypeOK, MakerTypeOK
  <2>3. Clean' /\ Rounds' /\ Failures'
    BY <1>10 DEF Tally, Clean, Between, Rounds, Failures, Out
  <2>4. ResultsOK'
    <3>1. i \in Player
      BY <1>10 DEF Tally, PlacesOK, Player
    <3>3. \A s \in Score : [s EXCEPT !.lose = IF i # winner_idx THEN @ + 1 ELSE @] \in Score
      BY DEF Score
    <3>4. results' = [results EXCEPT ![i].fail = IF fail[i] THEN @ + 1 ELSE @,
                                     ![i].lose = IF i # winner_idx THEN @ + 1 ELSE @]
      BY <1>10 DEF Tally
    <3>5. ASSUME NEW q \in Player PROVE results'[q] \in Score
      <4>1. results[q] \in Score
        BY DEF ResultsOK
      <4>2. CASE q = i
        <5>1. results'[q] = [[results[q] EXCEPT !.fail = IF fail[i] THEN @ + 1 ELSE @]
                                EXCEPT !.lose = IF i # winner_idx THEN @ + 1 ELSE @]
          BY <3>4, <4>2 DEF ResultsOK
        <5>2. [results[q] EXCEPT !.fail = IF fail[i] THEN @ + 1 ELSE @] \in Score
          BY <4>1 DEF Score
        <5> QED
          BY <3>3, <5>1, <5>2
      <4> QED
        BY <3>4, <4>1, <4>2 DEF ResultsOK
    <3>6. results' = [q \in Player |-> results'[q]]
      BY <3>4 DEF ResultsOK
    <3> QED
      BY ONLY <3>5, <3>6 DEF ResultsOK
  <2>5. PlayerTypeOK'
    <3>1. i \in Player
      BY <1>10 DEF Tally, PlacesOK, Player
    <3> QED
      BY <1>10, <3>1 DEF Tally, PlayerTypeOK, Becomes
  <2>6. Mask'
    <3>1. i \in Player
      BY <1>10 DEF Tally, PlacesOK, Player
    <3> QED
      BY <1>10, <3>1 DEF Tally, Mask, Between, PlayerTypeOK, Becomes
  <2>7. Scored'
    <3>1. i \in Player
      BY <1>10 DEF Tally, PlacesOK, Player
    <3>2. \A p \in Player : p \in Nat
      BY DEF Player
    <3>3. \A p \in Player : results[p] \in Score
      BY DEF ResultsOK
    <3>4. ASSUME NEW p \in Player
          PROVE  /\ results'[p].win = results[p].win
                 /\ results'[p].lose = results[p].lose + One(p = i /\ p # winner_idx)
                 /\ results'[p].fail = results[p].fail + One(p = i /\ fail[p])
      BY <1>10, <3>1, <3>3 DEF Tally, One, Score, ResultsOK
    <3>5. pc = "tally" /\ pc' = pc /\ i' = i + 1 /\ done' = done /\ winner_idx' = winner_idx
      BY <1>10 DEF Tally
    <3>6. done \in Nat /\ i \in Nat
      BY DEF PlacesOK
    <3> QED
      BY <3>1, <3>2, <3>3, <3>4, <3>5, <3>6 DEF Scored, One, Score
  <2>8. Unfinished'
    <3>1. i \in Player
      BY <1>10 DEF Tally, PlacesOK, Player
    <3> QED
      BY <1>10, <3>1 DEF Tally, Unfinished, PlayerTypeOK, Becomes, RelayOK
  <2>9. Buried'
    <3>1. i \in Player
      BY <1>10 DEF Tally, PlacesOK, Player
    <3>2. \A p \in Player : p < i + 1 <=> p < i \/ p = i
      BY <3>1 DEF Player
    <3> QED
      BY <1>10, <3>1, <3>2 DEF Tally, Buried, PlayerTypeOK, Becomes
  <2>10. Wires'
    <3>1. i \in Player
      BY <1>10 DEF Tally, PlacesOK, Player
    <3> QED
      BY <1>10, <3>1 DEF Tally, Wires, Player
  <2> QED
    BY <2>1, <2>2, <2>3, <2>4, <2>5, <2>6, <2>7, <2>8, <2>9, <2>10
<1>11. CASE Unblock
  <2>1. RelayOK' /\ ResultsOK' /\ MakerTypeOK' /\ PlayerTypeOK' /\ Unfinished'
    BY <1>11 DEF Unblock, RelayOK, PlacesOK, ResultsOK, MakerTypeOK, PlayerTypeOK, Unfinished
  <2>2. PlacesOK'
    <3>1. done + 1 \in 0..rounds
      BY <1>11 DEF Unblock, Rounds, Between, PlacesOK
    <3> QED
      BY <1>11, <3>1 DEF Unblock, report, PlacesOK
  <2>3. PrintOK'
    <3>1. Lines(current_round + 1, results) \in Seq(Line)
      BY ReportLines DEF PlacesOK, ResultsOK
    <3>2. output \o Lines(current_round + 1, results) \o buffer \in Seq(Line)
      BY <3>1, ConcatProperties DEF PrintOK
    <3> QED
      <4>1. CASE pending
        <5>1. output' = output \o Lines(current_round + 1, results) \o buffer /\ buffer' = << >>
          BY <1>11, <4>1 DEF Unblock, report
        <5>2. output' \in Seq(Line)
          BY ONLY <5>1, <3>2
        <5> QED
          BY <5>1, <5>2 DEF PrintOK
      <4>2. CASE ~pending
        BY <1>11, <4>2 DEF Unblock, PrintOK
      <4> QED
        BY <4>1, <4>2
  <2>4. PipesTypeOK'
    BY <1>11 DEF Unblock, PipesTypeOK, NoPipes
  <2>5. Mask'
    <3>1. pc' \in {"exited", "next"} /\ masked' = FALSE /\ pending' = FALSE /\ childMasked' = childMasked /\ state' = state
      BY <1>11 DEF Unblock, report
    <3> QED
      BY <3>1 DEF Mask, Between
  <2>6. Clean'
    <3>1. \A p \in Player : state[p] = "none"
      BY <1>11 DEF Unblock, Buried, Player
    <3>2. state = Everyone("none")
      BY <3>1 DEF PlayerTypeOK, Everyone
    <3> QED
      BY <1>11, <3>2 DEF Unblock, Clean
  <2>7. Rounds'
    BY <1>11 DEF Unblock, report, Rounds, Between
  <2>8. Scored'
    <3>1. pc = "tally" /\ i = player_num /\ done' = done + 1 /\ results' = results /\ pc' # "tally"
      BY <1>11 DEF Unblock, report
    <3>2. \A p \in Player : p < player_num /\ results[p] \in Score
      BY DEF Player, ResultsOK
    <3>3. done \in Nat
      BY DEF PlacesOK
    <3> QED
      BY <3>1, <3>2, <3>3 DEF Scored, One, Score
  <2>9. Buried'
    BY <1>11 DEF Unblock, report, Buried
  <2>10. Failures'
    BY <1>11 DEF Unblock, report, Failures
  <2>11. Wires'
    BY <1>11 DEF Unblock, report, Wires
  <2> QED
    BY <2>1, <2>2, <2>3, <2>4, <2>5, <2>6, <2>7, <2>8, <2>9, <2>10, <2>11
<1>12. CASE NextRound
  <2>1. RelayOK' /\ ResultsOK' /\ PrintOK' /\ PipesTypeOK' /\ MakerTypeOK' /\ PlayerTypeOK'
       /\ Mask' /\ Clean' /\ Rounds' /\ Scored' /\ Unfinished' /\ Buried' /\ Failures' /\ Wires'
    BY <1>12 DEF NextRound, RelayOK, PlacesOK, ResultsOK, PrintOK, PipesTypeOK, MakerTypeOK,
       PlayerTypeOK, Mask, Between, Clean, Rounds, Scored, One, Unfinished, Buried, Failures,
       Out, Wires
  <2>2. PlacesOK'
    BY <1>12 DEF NextRound, Rounds, PlacesOK
  <2> QED
    BY <2>1, <2>2
<1>13. CASE PrintLine
  <2>1. PlacesOK' /\ RelayOK' /\ ResultsOK' /\ PipesTypeOK' /\ MakerTypeOK' /\ PlayerTypeOK'
       /\ Mask' /\ Clean' /\ Rounds' /\ Scored' /\ Unfinished' /\ Buried' /\ Failures' /\ Wires'
    BY <1>13 DEF PrintLine, PlacesOK, RelayOK, ResultsOK, PipesTypeOK, MakerTypeOK, PlayerTypeOK,
       Mask, Between, Clean, Rounds, Scored, One, Unfinished, Buried, Failures, Out, Wires
  <2>2. PrintOK'
    <3>1. Lines(rounds, results) \in Seq(Line) /\ Len(Lines(rounds, results)) = player_num + 1
      BY ReportLines DEF ResultsOK
    <3>2. i + 1 \in 1..player_num+1
      BY <1>13 DEF PrintLine, PlacesOK
    <3>3. Lines(rounds, results)[i + 1] \in Line
      BY <3>1, <3>2
    <3> QED
      BY <1>13, <3>3 DEF PrintLine, PrintOK
  <2> QED
    BY <2>1, <2>2
<1>14. CASE Exit
  <2>1. PlacesOK' /\ RelayOK' /\ ResultsOK' /\ PrintOK' /\ PipesTypeOK' /\ MakerTypeOK'
       /\ PlayerTypeOK' /\ Mask' /\ Clean' /\ Rounds' /\ Scored' /\ Unfinished' /\ Buried'
       /\ Failures' /\ Wires'
    BY <1>14 DEF Exit, PlacesOK, RelayOK, ResultsOK, PrintOK, PipesTypeOK, MakerTypeOK,
       PlayerTypeOK, Mask, Between, Clean, Rounds, Scored, One, Unfinished, Buried, Failures,
       Out, Wires
  <2> QED
    BY <2>1
<1>15. CASE Interrupt
  <2>1. RelayOK' /\ ResultsOK' /\ PipesTypeOK' /\ MakerTypeOK'
    BY <1>15 DEF Interrupt, RelayOK, PlacesOK, ResultsOK, PipesTypeOK, MakerTypeOK
  <2>2. PlacesOK'
    BY <1>15 DEF Interrupt, report, PlacesOK
  <2>3. PrintOK'
    <3>1. Lines(current_round + 1, results) \in Seq(Line)
      BY ReportLines DEF PlacesOK, ResultsOK
    <3>2. output \o Lines(current_round + 1, results) \o buffer \in Seq(Line)
      BY <3>1, ConcatProperties DEF PrintOK
    <3> QED
      <4>1. CASE masked
        BY <1>15, <4>1 DEF Interrupt, PrintOK
      <4>2. CASE ~masked
        <5>1. output' = output \o Lines(current_round + 1, results) \o buffer /\ buffer' = << >>
          BY <1>15, <4>2 DEF Interrupt, report
        <5>2. output' \in Seq(Line)
          BY ONLY <5>1, <3>2
        <5> QED
          BY <5>1, <5>2 DEF PrintOK
      <4> QED
        BY <4>1, <4>2
  <2>4. PlayerTypeOK'
    <3>1. state' = state
      BY <1>15 DEF Interrupt, Mask, PlayerTypeOK
    <3> QED
      BY <1>15, <3>1 DEF Interrupt, PlayerTypeOK
  <2>5. Mask'
    <3>1. state' = state
      BY <1>15 DEF Interrupt, Mask, PlayerTypeOK
    <3> QED
      BY <1>15, <3>1 DEF Interrupt, report, Mask, Between
  <2>6. Clean'
    <3>1. state' = state
      BY <1>15 DEF Interrupt, Mask, PlayerTypeOK
    <3>2. Between' \/ pc' = "fork" => Between \/ pc = "fork"
      BY <1>15 DEF Interrupt, Mask, report, Between
    <3> QED
      BY <1>15, <3>1, <3>2 DEF Interrupt, Clean
  <2>7. Rounds'
    <3>1. masked <=> ~Between
      BY DEF Mask
    <3> QED
      BY <1>15, <3>1 DEF Interrupt, report, Between, Rounds
  <2>8. Scored'
    <3>1. masked <=> ~Between
      BY DEF Mask
    <3> QED
      BY <1>15, <3>1 DEF Interrupt, report, Between, Scored, One
  <2>9. Unfinished'
    <3>1. state' = state
      BY <1>15 DEF Interrupt, Mask, PlayerTypeOK
    <3> QED
      BY <1>15, <3>1 DEF Interrupt, Unfinished
  <2>10. Buried'
    <3>1. state' = state
      BY <1>15 DEF Interrupt, Mask, PlayerTypeOK
    <3>2. pc' = "tally" => pc = "tally"
      BY <1>15 DEF Interrupt, report
    <3> QED
      BY <1>15, <3>1, <3>2 DEF Interrupt, Buried
  <2>11. Failures'
    <3>1. masked <=> ~Between
      BY DEF Mask
    <3> QED
      BY <1>15, <3>1 DEF Interrupt, report, Between, Failures, Out
  <2>12. Wires'
    <3>1. masked <=> ~Between
      BY DEF Mask
    <3> QED
      BY <1>15, <3>1 DEF Interrupt, report, Between, Wires
  <2> QED
    BY <2>1, <2>2, <2>3, <2>4, <2>5, <2>6, <2>7, <2>8, <2>9, <2>10, <2>11, <2>12
<1>16. CASE Deal /\ UNCHANGED <<relayVars, playerVars>>
  <2>1. PlacesOK' /\ RelayOK' /\ ResultsOK' /\ PrintOK' /\ PlayerTypeOK' /\ Mask' /\ Clean'
       /\ Rounds' /\ Scored' /\ Unfinished' /\ Buried' /\ Failures'
    BY <1>16 DEF Deal, PlacesOK, RelayOK, ResultsOK, PrintOK, PlayerTypeOK, Mask, Between, Clean,
       Rounds, Scored, One, Unfinished, Buried, Failures, Out, relayVars
  <2>2. PipesTypeOK'
    <3> DEFINE starts == [k \in 1..player_num |-> "start"]
               Sent == Guidance \cup {"target", "start"}
    <3>1. starts \in Seq(Sent) /\ <<"target">> \in Seq(Sent) /\ out_game \in Seq(Sent)
      BY DEF PipesTypeOK
    <3> HIDE DEF starts, Sent
    <3>2. out_game \o <<"target">> \o starts \in Seq(Sent)
      BY <3>1, ConcatProperties
    <3> QED
      BY <1>16, <3>2 DEF Deal, PipesTypeOK, starts, Sent
  <2>3. MakerTypeOK'
    BY <1>16 DEF Deal, MakerTypeOK, Player
  <2>4. Wires'
    <3> DEFINE starts == [k \in 1..player_num |-> "start"]
               Sent == {"target", "start"}
    <3>1. starts \in Seq(Sent) /\ <<"target">> \in Seq(Sent) /\ Len(starts) = player_num
      OBVIOUS
    <3>2. pc = "target" /\ out_game = << >> /\ in_game = << >>
      BY <1>16 DEF Deal, Clean, Wires, PlacesOK, Between
    <3>3. out_game' = <<"target">> \o starts
      BY <1>16, <3>1, <3>2 DEF Deal
    <3>4. \A k \in 1..player_num : starts[k] = "start"
      OBVIOUS
    <3> HIDE DEF starts, Sent
    <3>5. /\ Len(<<"target">> \o starts) = 1 + player_num
          /\ \A k \in 1..(1 + player_num) : (<<"target">> \o starts)[k] = IF k <= 1 THEN <<"target">>[k] ELSE starts[k - 1]
      BY <3>1, ConcatProperties, Lines1
    <3>6. /\ Len(out_game') = player_num + 1 /\ out_game'[1] = "target"
          /\ \A k \in 2..player_num+1 : out_game'[k] = "start"
      BY <3>3, <3>4, <3>5
    <3> QED
      BY <1>16, <3>2, <3>6 DEF Deal, Wires, relayVars
  <2> QED
    BY <2>1, <2>2, <2>3, <2>4
<1>17. CASE Judge /\ UNCHANGED <<relayVars, playerVars>>
  <2>1. PlacesOK' /\ RelayOK' /\ ResultsOK' /\ PrintOK' /\ MakerTypeOK' /\ PlayerTypeOK'
       /\ Mask' /\ Clean' /\ Rounds' /\ Scored' /\ Unfinished' /\ Buried' /\ Failures'
    BY <1>17 DEF Judge, PlacesOK, RelayOK, ResultsOK, PrintOK, MakerTypeOK, PlayerTypeOK, Mask,
       Between, Clean, Rounds, Scored, One, Unfinished, Buried, Failures, Out, relayVars
  <2>2. PipesTypeOK'
    <3>1. in_game \in Seq(MoveLine) /\ in_game # << >> => Tail(in_game) \in Seq(MoveLine)
      OBVIOUS
    <3>2. \A g \in Guidance : Append(out_game, g) \in Seq(Guidance \cup {"target", "start"})
      BY DEF PipesTypeOK
    <3> QED
      BY <1>17, <3>1, <3>2 DEF Judge, PipesTypeOK, Guidance
  <2>3. Wires'
    <3>1. pc = "verdict" /\ out_game = << >> /\ \E m \in MoveLine : in_game = <<m>>
      BY <1>17 DEF Judge, Wires, Clean, Between, PlacesOK
    <3>2. in_game' = << >>
      BY <1>17, <3>1, Lines1 DEF Judge
    <3>3. (\E g \in Guidance : out_game' = <<g>>) /\ maker' \in {"playing", "exited"}
      BY <1>17, <3>1, Lines1 DEF Judge, Guidance
    <3> QED
      BY <1>17, <3>1, <3>2, <3>3 DEF Wires, relayVars
  <2> QED
    BY <2>1, <2>2, <2>3
<1>18. ASSUME NEW p \in Player, Play(p) PROVE IInv'
  <2>1. PlacesOK' /\ RelayOK' /\ ResultsOK' /\ PrintOK' /\ MakerTypeOK' /\ Rounds' /\ Scored'
       /\ Failures'
    BY <1>18 DEF Play, PlacesOK, RelayOK, ResultsOK, PrintOK, MakerTypeOK, Rounds, Between,
       Scored, One, Failures, Out, relayVars
  <2>2. PipesTypeOK'
    <3>1. /\ PipesTypeOK' /\ PlayerTypeOK' /\ Unfinished'
          /\ in_game' = in_game /\ out_game' = out_game
          /\ state[p] # "none" /\ state'[p] \notin {"none", "forked"}
          /\ \A q \in Player \ {p} : state'[q] = state[q]
      BY <1>18, PlayerFrame DEF Play
    <3> QED
      BY <1>18, <3>1
  <2>3. PlayerTypeOK'
    <3>1. /\ PipesTypeOK' /\ PlayerTypeOK' /\ Unfinished'
          /\ in_game' = in_game /\ out_game' = out_game
          /\ state[p] # "none" /\ state'[p] \notin {"none", "forked"}
          /\ \A q \in Player \ {p} : state'[q] = state[q]
      BY <1>18, PlayerFrame DEF Play
    <3> QED
      BY <1>18, <3>1
  <2>4. Mask'
    <3>1. /\ PipesTypeOK' /\ PlayerTypeOK' /\ Unfinished'
          /\ in_game' = in_game /\ out_game' = out_game
          /\ state[p] # "none" /\ state'[p] \notin {"none", "forked"}
          /\ \A q \in Player \ {p} : state'[q] = state[q]
      BY <1>18, PlayerFrame DEF Play
    <3> QED
      BY <1>18, <3>1 DEF Play, relayVars, Mask, Between
  <2>5. Clean'
    <3>1. /\ PipesTypeOK' /\ PlayerTypeOK' /\ Unfinished'
          /\ in_game' = in_game /\ out_game' = out_game
          /\ state[p] # "none" /\ state'[p] \notin {"none", "forked"}
          /\ \A q \in Player \ {p} : state'[q] = state[q]
      BY <1>18, PlayerFrame DEF Play
    <3> QED
      BY <1>18, <3>1 DEF Play, relayVars, Clean, Between, Everyone
  <2>6. Unfinished'
    <3>1. /\ PipesTypeOK' /\ PlayerTypeOK' /\ Unfinished'
          /\ in_game' = in_game /\ out_game' = out_game
          /\ state[p] # "none" /\ state'[p] \notin {"none", "forked"}
          /\ \A q \in Player \ {p} : state'[q] = state[q]
      BY <1>18, PlayerFrame DEF Play
    <3> QED
      BY <1>18, <3>1
  <2>7. Buried'
    <3>1. /\ PipesTypeOK' /\ PlayerTypeOK' /\ Unfinished'
          /\ in_game' = in_game /\ out_game' = out_game
          /\ state[p] # "none" /\ state'[p] \notin {"none", "forked"}
          /\ \A q \in Player \ {p} : state'[q] = state[q]
      BY <1>18, PlayerFrame DEF Play
    <3> QED
      BY <1>18, <3>1 DEF Play, relayVars, Buried
  <2>8. Wires'
    <3>1. /\ PipesTypeOK' /\ PlayerTypeOK' /\ Unfinished'
          /\ in_game' = in_game /\ out_game' = out_game
          /\ state[p] # "none" /\ state'[p] \notin {"none", "forked"}
          /\ \A q \in Player \ {p} : state'[q] = state[q]
      BY <1>18, PlayerFrame DEF Play
    <3> QED
      BY <1>18, <3>1 DEF Play, relayVars, Wires
  <2> QED
    BY <2>1, <2>2, <2>3, <2>4, <2>5, <2>6, <2>7, <2>8
<1>19. CASE UNCHANGED vars
  <2>1. PlacesOK' /\ RelayOK' /\ ResultsOK' /\ PrintOK' /\ PipesTypeOK' /\ MakerTypeOK'
       /\ PlayerTypeOK' /\ Mask' /\ Clean' /\ Rounds' /\ Scored' /\ Unfinished' /\ Buried'
       /\ Failures' /\ Wires'
    BY <1>19, SMTT(30) DEF vars, PlacesOK, RelayOK, ResultsOK, PrintOK, PipesTypeOK, MakerTypeOK,
       PlayerTypeOK, Mask, Between, Clean, Rounds, Scored, One, Unfinished, Buried, Failures,
       Out, Wires
  <2> QED
    BY <2>1
<1> QED
  BY <1>1, <1>2, <1>3, <1>4, <1>5, <1>6, <1>7, <1>8, <1>9, <1>10, <1>11, <1>12, <1>13, <1>14,
     <1>15, <1>16, <1>17, <1>18, <1>19 DEF Next, Relay, Maker, MakerStep, Stopped

LEMMA Invariant1 == Spec => []IInv
BY InitIInv, NextIInv, PTL DEF Spec

\* The types of all variables, for any number of players and rounds.
THEOREM TypeCorrect == Spec => []TypeOK
BY Invariant1, TypeParts, PTL DEF IInv

\* The scores add up to the rounds played, between any two rounds (run_tournament).
THEOREM ScoresSafe == Spec => []ScoresAddUp
<1>1. IInv => ScoresAddUp
  <2> SUFFICES ASSUME IInv, Between, NEW p \in Player
               PROVE  results[p].win + results[p].lose = done /\ results[p].fail <= done
    BY DEF ScoresAddUp
  <2>1. done \in Nat
    BY DEF IInv, Typed, PlacesOK
  <2> QED
    BY <2>1 DEF IInv, Scored, Between, One
<1> QED
  BY <1>1, Invariant1, PTL

\* No game maker and no player outlives its round, whatever became of it and
\* whenever SIGINT came (run_tournament).
THEOREM NothingSurvives == Spec => []NothingLeft
<1>1. IInv => NothingLeft
  BY DEF IInv, Clean, NothingLeft
<1> QED
  BY <1>1, Invariant1, PTL

\* SIGINT reaches no player and ends the process between two rounds only (the
\* mask of run_tournament and what its children make of it).
THEOREM SignalsSafe == Spec => CtlCSpares
<1>1. IInv /\ [Next]_vars => [PlayersSpared /\ RoundSpared]_vars
  <2> SUFFICES ASSUME IInv, Next PROVE PlayersSpared /\ RoundSpared
    OBVIOUS
  <2> USE DEF relay, signals, printing, pipes, children, makerVars, playerVars
  <2>1. CASE Relay
    <3>1. PlayersSpared
      BY <2>1, Lines1 DEF PlayersSpared, Relay, Block, Start, ReadTarget, RelayStart, Clear, Turn, ReadMove,
         Verdict, Winner, Tally, Unblock, NextRound, PrintLine, Exit, Becomes, Everyone,
         IInv, Typed, PlayerTypeOK, RelayOK
    <3>2. RoundSpared
      BY <2>1 DEF RoundSpared, Relay, Block, Start, ReadTarget, RelayStart, Clear, Turn, ReadMove,
         Verdict, Winner, Tally, Unblock, NextRound, PrintLine, Exit, report, Between
    <3> QED
      BY <3>1, <3>2
  <2>2. CASE Interrupt
    BY <2>2 DEF Interrupt, report, PlayersSpared, RoundSpared, Running, IInv, Mask, Between
  <2>3. CASE Maker
    BY <2>3 DEF Maker, relayVars, PlayersSpared, RoundSpared, Running
  <2>4. ASSUME NEW p \in Player, Play(p) PROVE PlayersSpared /\ RoundSpared
    <3>1. pc' = pc /\ \A q \in Player \ {p} : state'[q] = state[q]
      BY <2>4, PlayerFrame DEF Play, relayVars, IInv, Typed
    <3>2. state[p] = "forked" => state'[p] # "signaled"
      BY <2>4 DEF Play, PlayerStep, Exec, read_position, read_guidance, Finish, MoveLegal, MoveGoal, MoveWrong,
         MoveHalf, MoveRest, Scrap, Quit, Becomes, IInv, Typed, PlayerTypeOK
    <3> QED
      BY <3>1, <3>2 DEF PlayersSpared, RoundSpared, Running
  <2>5. CASE Stopped
    BY <2>5 DEF Stopped, vars, PlayersSpared, RoundSpared, Running
  <2> QED
    BY <2>1, <2>2, <2>3, <2>4, <2>5 DEF Next
<1> QED
  BY <1>1, Invariant1, PTL DEF Spec, CtlCSpares

\* Counting on from a player, at most once around.
LEMMA Wrap ==
  \A a \in 0..2*player_num-1 :
      a % player_num = IF a < player_num THEN a ELSE a - player_num
BY PlayersAssumption

\* From p on, t is the first player in S.
Due(p, t, S) ==
    \E d \in 0..player_num-1 :
        /\ t = (p + d) % player_num
        /\ t \in S
        /\ \A e \in 0..d-1 : (p + e) % player_num \notin S


\* The game maker's next turn is due for the relay that goes on from its player.
LEMMA NextIsDue ==
  ASSUME NEW p \in Player, NEW t \in Player, NEW S,
         NEW d \in 1..player_num, t = (p + d) % player_num, t \in S,
         \A e \in 1..d-1 : (p + e) % player_num \notin S
  PROVE  Due(Following(p), t, S)
<1> USE PlayersAssumption DEF Player
<1>1. ASSUME NEW e \in 1..player_num
      PROVE  (Following(p) + (e - 1)) % player_num = (p + e) % player_num
  <2>1. CASE p + 1 < player_num
    <3>1. Following(p) = p + 1
      BY <2>1, Wrap DEF Following
    <3>2. Following(p) + (e - 1) = p + e
      BY <3>1
    <3> QED
      BY <3>2
  <2>2. CASE p + 1 = player_num
    <3>1. Following(p) = 0
      <4>1. PICK a \in 0..2*player_num-1 : a = p + 1 /\ ~(a < player_num) /\ a - player_num = 0
        BY <2>2
      <4>2. a % player_num = a - player_num
        BY <4>1, Wrap
      <4> QED
        BY <4>1, <4>2 DEF Following
    <3>2. e - 1 \in 0..2*player_num-1 /\ e - 1 < player_num /\ p + e \in 0..2*player_num-1 /\ ~(p + e < player_num)
      BY <2>2
    <3>3. (e - 1) % player_num = e - 1 /\ (p + e) % player_num = p + e - player_num
      BY <3>2, Wrap
    <3>4. Following(p) + (e - 1) = e - 1 /\ p + e - player_num = e - 1
      BY <2>2, <3>1
    <3> QED
      BY <3>3, <3>4
  <2> QED
    BY <2>1, <2>2
<1>2. d - 1 \in 0..player_num-1 /\ t = (Following(p) + (d - 1)) % player_num
  BY <1>1
<1>3. ASSUME NEW e \in 0..(d-1)-1 PROVE (Following(p) + e) % player_num \notin S
  <2>1. e + 1 \in 1..d-1 /\ e + 1 \in 1..player_num
    OBVIOUS
  <2>2. (Following(p) + ((e + 1) - 1)) % player_num = (p + (e + 1)) % player_num
    BY <1>1, <2>1
  <2>3. (e + 1) - 1 = e
    OBVIOUS
  <2> QED
    BY <2>1, <2>2, <2>3
<1> QED
  BY <1>2, <1>3 DEF Due

\* A player that is due is met at once, one that is out is passed.
LEMMA DueHere ==
  ASSUME NEW p \in Player, NEW t, NEW S, Due(p, t, S)
  PROVE  /\ t \in S
         /\ p \in S => t = p
         /\ p \notin S => Due(Following(p), t, S)
<1> USE PlayersAssumption
<1>1. PICK d \in 0..player_num-1 :
        /\ t = (p + d) % player_num /\ t \in S
        /\ \A e \in 0..d-1 : (p + e) % player_num \notin S
  BY DEF Due
<1>2. (p + 0) % player_num = p
  BY Wrap DEF Player
<1>3. CASE d = 0
  BY <1>1, <1>2, <1>3
<1>4. CASE d \in 1..player_num-1
  <2>1. 0 \in 0..d-1 /\ d \in 1..player_num /\ \A e \in 1..d-1 : e \in 0..d-1
    BY <1>4
  <2>2. p \notin S
    BY <1>1, <1>2, <2>1
  <2>3. t \in Player
    BY <1>1 DEF Player
  <2> QED
    BY <1>1, <2>1, <2>2, <2>3, NextIsDue
<1> QED
  BY <1>3, <1>4

\* The relay and the game maker: who is out for one is out for the other, and
\* the relay, going on from its player, comes to the game maker's.
BeforeTurns == pc \in {"target", "deal"} /\ maker = "playing" => turn = 0 /\ playing = Player
AtTurn ==
    /\ pc \in {"turn", "read"} =>
          /\ Out = Player \ playing
          /\ playing # {} => maker = "playing" /\ Due(player, turn, playing)
    /\ pc = "read" => player \in playing /\ player = turn
AtMove ==
    pc = "verdict" /\ in_game # << >> =>
          /\ Out = Player \ playing
          /\ maker = "playing" /\ turn = player /\ player \in playing
AtVerdict ==
    pc = "verdict" /\ in_game = << >> =>
          /\ Out \cup (IF out_game = <<"wrong!">> THEN {player} ELSE {}) = Player \ playing
          /\ out_game # <<"winner">> /\ playing # {} =>
                maker = "playing" /\ Due(Following(player), turn, playing)
AfterTurns == pc = "winner" \/ (pc = "tally" /\ i = 0) => Player \ playing \subseteq Out

Agreed == BeforeTurns /\ AtTurn /\ AtMove /\ AtVerdict /\ AfterTurns


LEMMA InitAgreed == Init => Agreed
BY DEF Init, Agreed, BeforeTurns, AtTurn, AtMove, AtVerdict, AfterTurns

\* The relay and the game maker stay together if the relay sees the verdicts.
LEMMA NextAgreed ==
  ASSUME StrcmpSees, IInv, Agreed, [Next]_vars
  PROVE  Agreed'
<1> USE PlayersAssumption DEF IInv, Typed, Agreed
<1> USE DEF relay, signals, printing, pipes, children, makerVars, playerVars
<1>1. CASE Block
  BY <1>1 DEF Block, BeforeTurns, AtTurn, AtMove, AtVerdict, AfterTurns, Out
<1>2. CASE Start
  BY <1>2 DEF Start, BeforeTurns, AtTurn, AtMove, AtVerdict, AfterTurns
<1>3. CASE ReadTarget
  BY <1>3 DEF ReadTarget, Wires, BeforeTurns, AtTurn, AtMove, AtVerdict, AfterTurns
<1>4. CASE RelayStart
  BY <1>4 DEF RelayStart, BeforeTurns, AtTurn, AtMove, AtVerdict, AfterTurns, Out
<1>5. CASE Clear
  <2>1. turn = 0 /\ playing = Player /\ maker = "playing" /\ Out' = {}
    BY <1>5 DEF Clear, Wires, BeforeTurns, Out, Everyone
  <2>2. 0 \in 0..player_num-1 /\ 0 = (0 + 0) % player_num /\ 0 \in Player
    BY Wrap DEF Player
  <2>3. Due(0, 0, Player)
    BY <2>2 DEF Due
  <2>4. pc' = "turn" /\ player' = 0 /\ turn' = turn /\ playing' = playing /\ maker' = maker
    BY <1>5 DEF Clear
  <2> QED
    BY <2>1, <2>3, <2>4 DEF BeforeTurns, AtTurn, AtMove, AtVerdict, AfterTurns
<1>6. CASE Turn
  <2>1. Out' = Out /\ UNCHANGED <<turn, playing, maker>> /\ pc = "turn" /\ Out = Player \ playing
    BY <1>6 DEF Turn, Out, AtTurn
  <2>2. CASE fail_count = player_num
    BY <1>6, <2>1, <2>2 DEF Turn, BeforeTurns, AtTurn, AtMove, AtVerdict, AfterTurns
  <2>3. CASE fail_count # player_num
    <3>1. fail_count = Cardinality(Out)
      BY <2>1 DEF Failures
    <3>2. playing # {} /\ player \in Player
      BY <2>1, <2>3, <3>1, Counting DEF RelayOK, MakerTypeOK
    <3>3. Due(player, turn, playing) /\ maker = "playing"
      BY <2>1, <3>2 DEF AtTurn
    <3>4. CASE fail[player]
      <4>1. player \notin playing
        BY <2>1, <3>2, <3>4 DEF Out
      <4>2. Due(Following(player), turn, playing)
        BY <3>2, <3>3, <4>1, DueHere
      <4>3. pc' = "turn" /\ player' = Following(player)
        BY <1>6, <2>3, <3>4 DEF Turn
      <4> QED
        BY <2>1, <3>3, <4>2, <4>3 DEF BeforeTurns, AtTurn, AtMove, AtVerdict, AfterTurns
    <3>5. CASE ~fail[player]
      <4>1. player \in playing
        BY <2>1, <3>2, <3>5 DEF Out
      <4>2. turn = player
        BY <3>2, <3>3, <4>1, DueHere
      <4>3. pc' = "read" /\ player' = player
        BY <1>6, <2>3, <3>5 DEF Turn
      <4> QED
        BY <2>1, <3>3, <4>1, <4>2, <4>3 DEF BeforeTurns, AtTurn, AtMove, AtVerdict, AfterTurns
    <3> QED
      BY <3>4, <3>5
  <2> QED
    BY <2>2, <2>3
<1>7. CASE ReadMove
  <2>1. Out' = Out /\ UNCHANGED <<turn, playing, maker, player>> /\ pc = "read" /\ pc' = "verdict"
    BY <1>7 DEF ReadMove, Out
  <2>2. in_game' # << >>
    BY <1>7, Lines1 DEF ReadMove, Wires
  <2> QED
    BY <2>1, <2>2 DEF BeforeTurns, AtTurn, AtMove, AtVerdict, AfterTurns
<1>8. CASE Verdict
  <2>1. /\ UNCHANGED <<turn, playing, maker, in_game>> /\ pc = "verdict"
        /\ in_game = << >> /\ \E g \in Guidance : out_game = <<g>>
    BY <1>8 DEF Verdict, Wires
  <2>2. PICK g \in Guidance : out_game = <<g>>
    BY <2>1
  <2>3. /\ Head(out_game) = g /\ (out_game = <<"wrong!">> <=> g = "wrong!") /\ (out_game = <<"winner">> <=> g = "winner")
        /\ \A text : Reads(g, text) <=> g = text
    BY <2>2, Lines1 DEF Reads
  <2>4. player \in Player
    BY DEF RelayOK
  <2>5. CASE g = "winner"
    <3>1. fail' = fail /\ pc' = "winner"
      BY <1>8, <2>3, <2>5 DEF Verdict
    <3> QED
      BY <2>1, <2>3, <2>5, <3>1 DEF BeforeTurns, AtTurn, AtMove, AtVerdict, AfterTurns, Out
  <2>6. CASE g = "wrong!"
    <3>1. fail' = [fail EXCEPT ![player] = TRUE] /\ pc' = "turn" /\ player' = Following(player)
      BY <1>8, <2>3, <2>6 DEF Verdict
    <3>2. Out' = Out \cup {player}
      BY <2>4, <3>1 DEF Out, RelayOK
    <3> QED
      BY <2>1, <2>3, <2>6, <3>1, <3>2 DEF BeforeTurns, AtTurn, AtMove, AtVerdict, AfterTurns
  <2>7. CASE g = "hotter"
    <3>1. fail' = fail /\ pc' = "turn" /\ player' = Following(player)
      BY <1>8, <2>3, <2>7 DEF Verdict
    <3> QED
      BY <2>1, <2>3, <2>7, <3>1 DEF BeforeTurns, AtTurn, AtMove, AtVerdict, AfterTurns, Out
  <2> QED
    BY <2>5, <2>6, <2>7 DEF Guidance
<1>9. CASE Winner
  <2>1. Out \subseteq Out'
    BY <1>9 DEF Winner, Out, RelayOK
  <2> QED
    BY <1>9, <2>1 DEF Winner, BeforeTurns, AtTurn, AtMove, AtVerdict, AfterTurns
<1>10. CASE Tally
  BY <1>10 DEF Tally, PlacesOK, BeforeTurns, AtTurn, AtMove, AtVerdict, AfterTurns
<1>11. CASE Unblock
  BY <1>11 DEF Unblock, report, BeforeTurns, AtTurn, AtMove, AtVerdict, AfterTurns
<1>12. CASE NextRound
  BY <1>12 DEF NextRound, BeforeTurns, AtTurn, AtMove, AtVerdict, AfterTurns, Out
<1>13. CASE PrintLine
  BY <1>13 DEF PrintLine, BeforeTurns, AtTurn, AtMove, AtVerdict, AfterTurns, Out
<1>14. CASE Exit
  BY <1>14 DEF Exit, BeforeTurns, AtTurn, AtMove, AtVerdict, AfterTurns, Out
<1>15. CASE Interrupt
  <2>1. pc' = pc \/ pc' = "exited"
    BY <1>15 DEF Interrupt, report
  <2> QED
    BY <1>15, <2>1 DEF Interrupt, BeforeTurns, AtTurn, AtMove, AtVerdict, AfterTurns, Out
<1>16. CASE Deal /\ UNCHANGED <<relayVars, playerVars>>
  <2>1. pc = "target" /\ pc' = pc /\ turn' = 0 /\ playing' = Player
    BY <1>16 DEF Deal, Clean, Wires, PlacesOK, Between, relayVars
  <2> QED
    BY <2>1 DEF BeforeTurns, AtTurn, AtMove, AtVerdict, AfterTurns
<1>17. CASE Judge /\ UNCHANGED <<relayVars, playerVars>>
  <2>1. pc = "verdict" /\ out_game = << >> /\ \E m \in MoveLine : in_game = <<m>>
    BY <1>17 DEF Judge, Wires, Clean, Between, PlacesOK
  <2>2. PICK m \in MoveLine : in_game = <<m>>
    BY <2>1
  <2>3. Head(in_game) = m /\ in_game # << >> /\ in_game' = << >> /\ \A g : Append(out_game, g) = <<g>>
    BY <1>17, <2>1, <2>2, Lines1 DEF Judge
  <2>4. Out = Player \ playing /\ maker = "playing" /\ turn = player /\ player \in playing /\ player \in Player
    BY <2>1, <2>3 DEF AtMove, RelayOK
  <2>5. pc' = "verdict" /\ player' = player /\ Out' = Out
    BY <1>17, <2>1 DEF relayVars, Out
  <2>6. ASSUME NEW S, NEW t \in Player, IsNextTurn(t, S)
        PROVE  Due(Following(player), t, S)
    BY <2>4, <2>6, NextIsDue DEF IsNextTurn
  <2>7. CASE m = "goal"
    <3>1. out_game' = <<"winner">> /\ playing' = playing
      BY <1>17, <2>3, <2>7 DEF Judge
    <3>2. out_game' # <<"wrong!">>
      BY <3>1, Lines1
    <3> QED
      BY <2>3, <2>4, <2>5, <3>1, <3>2 DEF BeforeTurns, AtTurn, AtMove, AtVerdict, AfterTurns
  <2>8. CASE m = "legal"
    <3>1. /\ out_game' = <<"hotter">> /\ playing' = playing /\ maker' = maker
          /\ \E t \in Player : IsNextTurn(t, playing) /\ turn' = t
      BY <1>17, <2>3, <2>8 DEF Judge
    <3>2. Due(Following(player), turn', playing)
      BY <2>6, <3>1
    <3>3. out_game' # <<"wrong!">>
      BY <3>1, Lines1
    <3> QED
      BY <2>3, <2>4, <2>5, <3>1, <3>2, <3>3 DEF BeforeTurns, AtTurn, AtMove, AtVerdict, AfterTurns
  <2>9. CASE m \in {"illegal", "broken"}
    <3>1. /\ out_game' = <<"wrong!">> /\ playing' = playing \ {player}
          /\ playing' # {} => maker' = maker /\ \E t \in Player : IsNextTurn(t, playing') /\ turn' = t
      BY <1>17, <2>3, <2>4, <2>9 DEF Judge
    <3>2. playing' # {} => Due(Following(player), turn', playing')
      BY <2>6, <3>1
    <3>3. Out \cup {player} = Player \ playing'
      BY <2>4, <3>1
    <3> QED
      BY <2>3, <2>4, <2>5, <3>1, <3>2, <3>3 DEF BeforeTurns, AtTurn, AtMove, AtVerdict, AfterTurns
  <2> QED
    BY <2>7, <2>8, <2>9 DEF MoveLine, Move
<1>18. ASSUME NEW p \in Player, Play(p) PROVE Agreed'
  <2>1. in_game' = in_game /\ out_game' = out_game
    BY <1>18, PlayerFrame DEF Play
  <2> QED
    BY <1>18, <2>1 DEF Play, relayVars, BeforeTurns, AtTurn, AtMove, AtVerdict, AfterTurns, Out
<1>19. CASE UNCHANGED vars
  BY <1>19 DEF vars, BeforeTurns, AtTurn, AtMove, AtVerdict, AfterTurns, Out
<1> QED
  BY <1>1, <1>2, <1>3, <1>4, <1>5, <1>6, <1>7, <1>8, <1>9, <1>10, <1>11, <1>12, <1>13, <1>14, <1>15, <1>16, <1>17, <1>18, <1>19
     DEF Next, Relay, Maker, MakerStep, Stopped

\* The relay and the game maker agree whose move it is and who is out, provided
\* that strcmp sees the verdicts (run_tournament's loop over the turns and
\* game_maker's).
THEOREM StaysInStep ==
  ASSUME StrcmpSees
  PROVE  Spec => []InStep
<1>1. Init => IInv /\ Agreed
  BY InitIInv, InitAgreed
<1>2. IInv /\ Agreed /\ [Next]_vars => IInv' /\ Agreed'
  BY NextIInv, NextAgreed
<1>3. IInv /\ Agreed => InStep
  BY DEF IInv, Typed, RelayOK, MakerTypeOK, Agreed, AtTurn, AtMove, InStep, Out
<1> QED
  BY <1>1, <1>2, <1>3, PTL DEF Spec
-----------------------------------------------------------------------------
\* p's line is with the game maker, or what the game maker says of it is on its
\* way back.
On(p) == pc = "verdict" /\ player = p
GoodLine == in_game \in {<<"legal">>, <<"goal">>} \/ out_game \in {<<"hotter">>, <<"winner">>}
BadLine == in_game \in {<<"illegal">>, <<"broken">>} \/ out_game = <<"wrong!">>
Won(p) == pc \in {"winner", "tally"} /\ winner_idx = p
Judged(p) == pc \in {"turn", "read", "verdict", "winner", "tally"} /\ ~On(p) /\ fail[p]
Rejected(p) == ~Won(p) /\ ((On(p) /\ BadLine) \/ Judged(p))

\* The players of a round are there until the results are counted.
Playing == pc \in {"target", "deal", "turn", "read", "verdict", "winner"}

\* Where a player and its line are, by the state of its process.
InStart(p) ==
    state[p] \in {"forked", "starting"} =>
        /\ p \notin bad \cup split
        /\ out_player[p] = << >> /\ in_player[p] \in {<< >>, <<"start">>}
        /\ ~On(p) /\ ~Won(p)

Thinks(p) ==
    state[p] = "thinking" =>
        /\ p \notin bad
        /\ out_player[p] = << >> /\ in_player[p] = << >>
        /\ ~On(p) /\ ~Won(p)

HalfWay(p) ==
    state[p] = "half" =>
        /\ p \in split \ bad
        /\ in_player[p] = << >>
        /\ \/ out_player[p] = <<"head">> /\ ~On(p) /\ ~Won(p)
           \/ out_player[p] = << >> /\ Rejected(p)

WaitsBad(p) ==
    state[p] = "waiting" /\ p \in bad =>
        /\ in_player[p] = << >>
        /\ \/ out_player[p] = <<"illegal">> /\ ~On(p) /\ ~Won(p)
           \/ out_player[p] = << >> /\ Rejected(p)

Waits(p) ==
    state[p] = "waiting" /\ p \notin bad =>
        \/ /\ in_player[p] = << >> /\ ~On(p) /\ ~Won(p)
           /\ out_player[p] \in {<<"legal">>, <<"goal">>} \/ (p \in split /\ out_player[p] = <<"head", "tail">>)
        \/ in_player[p] = << >> /\ out_player[p] = << >> /\ On(p) /\ GoodLine
        \/ in_player[p] = <<"hotter">> /\ out_player[p] = << >> /\ ~On(p) /\ ~Won(p)
        \/ in_player[p] = <<"winner">> /\ out_player[p] = << >> /\ Won(p)
        \/ in_player[p] = << >> /\ p \in split /\ Rejected(p)

HasWon(p) ==
    state[p] = "won" \/ (state[p] = "exit0" /\ p \notin bad) => p \notin bad /\ Won(p)

Wrong(p) ==
    state[p] \in {"looping", "stuck"} \/ (state[p] = "exit0" /\ p \in bad) =>
        /\ p \in bad /\ ~Won(p)
        /\ out_player[p] \in {<< >>, <<"scrap">>}
        /\ On(p) => BadLine

Ends(p) == state[p] \in {"exit1", "signaled"} => p \in bad

Undealt(p) ==
    pc = "target" \/ (pc = "deal" /\ p >= i) =>
        in_player[p] = << >> /\ state[p] \in {"forked", "starting"} \cup Ended

Protocol(p) ==
    /\ InStart(p) /\ Thinks(p) /\ HalfWay(p) /\ WaitsBad(p) /\ Waits(p)
    /\ HasWon(p) /\ Wrong(p) /\ Ends(p) /\ Undealt(p)
    /\ state[p] = "none" => ~Playing

\* Failures, as FailsDeserved wants them at the end of the round.
Deserved ==
    /\ pc \in {"turn", "read", "verdict", "winner"} \/ (pc = "tally" /\ i = 0) =>
          \A p \in Player : fail[p] => p \in bad \cup split
    /\ pc = "tally" /\ i = 0 /\ winner_idx \in bad => fail[winner_idx]

PInv == Deserved /\ \A p \in Player : Protocol(p)
LEMMA InitPInv == Init => PInv
BY DEF Init, PInv, Deserved, Protocol, InStart, Thinks, HalfWay, WaitsBad, Waits, HasWon, Wrong, Ends, Undealt,
   Everyone, Playing

\* A step that neither moves p nor takes its line elsewhere.
LEMMA SamePlace ==
  ASSUME NEW p \in Player, Protocol(p), Undealt(p)',
         state'[p] = state[p], in_player'[p] = in_player[p], out_player'[p] = out_player[p],
         p \in bad' <=> p \in bad, p \in split' <=> p \in split,
         On(p)' <=> On(p), Won(p)' <=> Won(p),
         On(p) /\ GoodLine => GoodLine', On(p) /\ BadLine => BadLine',
         Rejected(p) => Rejected(p)',
         state[p] = "none" => ~Playing'
  PROVE  Protocol(p)'
<1>1. InStart(p)' /\ Thinks(p)' /\ HasWon(p)' /\ Ends(p)'
  BY DEF Protocol, InStart, Thinks, HasWon, Ends
<1>2. HalfWay(p)' /\ WaitsBad(p)'
  BY DEF Protocol, HalfWay, WaitsBad
<1>3. Waits(p)'
  BY DEF Protocol, Waits
<1>4. Wrong(p)'
  BY DEF Protocol, Wrong
<1> QED
  BY <1>1, <1>2, <1>3, <1>4 DEF Protocol

\* Nobody is there between the rounds, nor where a result is counted.
LEMMA NobodyThere ==
  ASSUME NEW p \in Player, state'[p] = "none", ~Playing'
  PROVE  Protocol(p)'
BY DEF Protocol, InStart, Thinks, HalfWay, WaitsBad, Waits, HasWon, Wrong, Ends, Undealt, Playing, Ended

\* A line is good or bad, and only who went wrong or split a line has a bad one.
LEMMA OneLine ==
  ASSUME IInv, pc = "verdict"
  PROVE  /\ GoodLine <=> ~BadLine
         /\ in_game = << >> => out_game \in {<<"hotter">>, <<"winner">>, <<"wrong!">>}
         /\ in_game # << >> => out_game = << >> /\ in_game \in {<<"legal">>, <<"goal">>, <<"illegal">>, <<"broken">>}
<1>1. CASE out_game = << >> /\ \E m \in MoveLine : in_game = <<m>>
  <2>1. PICK m \in MoveLine : in_game = <<m>>
    BY <1>1
  <2>2. m \in {"legal", "goal", "illegal", "broken"}
    BY DEF MoveLine, Move
  <2> QED
    BY <1>1, <2>1, <2>2, Lines1 DEF GoodLine, BadLine
<1>2. CASE in_game = << >> /\ \E g \in Guidance : out_game = <<g>>
  <2>1. PICK g \in Guidance : out_game = <<g>>
    BY <1>2
  <2>2. g \in {"hotter", "winner", "wrong!"}
    BY DEF Guidance
  <2> QED
    BY <1>2, <2>1, <2>2, Lines1 DEF GoodLine, BadLine
<1> QED
  BY <1>1, <1>2 DEF IInv, Wires

LEMMA BadLineDeserved ==
  ASSUME IInv, NEW p \in Player, Protocol(p), On(p), BadLine
  PROVE  p \in bad \cup split
<1>1. state[p] \in Alive \cup Ended
  BY DEF IInv, Typed, PlayerTypeOK, Protocol, On, Playing
<1>2. ~GoodLine
  BY OneLine DEF On
<1> QED
  BY <1>1, <1>2 DEF Protocol, InStart, Thinks, HalfWay, Waits, HasWon, Wrong, Ends, Alive, Ended, On, Won

LEMMA Lines2 ==
  ASSUME NEW x, NEW y
  PROVE  Append(<<x>>, y) = <<x, y>>
<1>1. <<x>> \in Seq({x, y}) /\ Len(<<x>>) = 1
  OBVIOUS
<1>2. \A k \in 1..2 : k # 2 => <<x>>[k] = x
  OBVIOUS
<1>3. Append(<<x>>, y) = [k \in 1..2 |-> IF k = 2 THEN y ELSE x]
  BY <1>1, <1>2
<1>4. <<x, y>> = [k \in 1..2 |-> IF k = 2 THEN y ELSE x]
  OBVIOUS
<1> QED
  BY <1>3, <1>4

\* What a player does itself.
LEMMA PlayerKeeps ==
  ASSUME IInv, NEW p \in Player, Protocol(p), Play(p)
  PROVE  Protocol(p)'
<1> USE DEF IInv, Typed, makerVars, relay
<1>1. /\ in_game' = in_game /\ out_game' = out_game /\ state[p] # "none" /\ state'[p] # "none" /\ PlayerStep(p)
      /\ UNCHANGED <<pc, player, fail, winner_idx, i>>
  BY PlayerFrame DEF Play, relayVars
<1>2. /\ On(p)' = On(p) /\ Won(p)' = Won(p) /\ GoodLine' = GoodLine /\ BadLine' = BadLine
      /\ Rejected(p)' = Rejected(p)
  BY <1>1 DEF On, Won, GoodLine, BadLine, Rejected, Judged
<1>3. /\ state \in [Player -> Alive \cup Ended \cup {"none"}]
      /\ in_player \in [Player -> Seq(Guidance \cup {"start"})] /\ out_player \in [Player -> Seq(Move \cup Part)]
      /\ bad \subseteq Player /\ split \subseteq Player
  BY DEF PlayerTypeOK, PipesTypeOK
<1> USE <1>2, <1>3 DEF Becomes, Writes, pipes, playerVars
<1>4. Undealt(p)'
  BY <1>1 DEF Protocol, Undealt, PlayerStep, Exec, read_position, read_guidance, Finish, MoveLegal, MoveGoal,
     MoveWrong, MoveHalf, MoveRest, Scrap, Quit, Ended
<1> USE <1>4
<1>5. CASE Exec(p)
  <2>1. /\ state'[p] = "starting" /\ p \notin bad' \cup split' /\ ~On(p) /\ ~Won(p)
        /\ out_player'[p] = << >> /\ in_player'[p] \in {<< >>, <<"start">>}
    BY <1>5, Lines1 DEF Exec, Protocol, InStart
  <2> QED
    BY <1>1, <2>1 DEF Protocol, InStart, Thinks, HalfWay, WaitsBad, Waits, HasWon, Wrong, Ends, Ended
<1>6. CASE read_position(p)
  <2>1. /\ state'[p] = "thinking" /\ p \notin bad' /\ ~On(p) /\ ~Won(p)
        /\ out_player'[p] = << >> /\ in_player'[p] = << >>
    BY <1>6, Lines1 DEF read_position, Protocol, InStart
  <2> QED
    BY <1>1, <2>1 DEF Protocol, InStart, Thinks, HalfWay, WaitsBad, Waits, HasWon, Wrong, Ends, Ended
<1>7. CASE read_guidance(p)
  <2>1. /\ p \notin bad' /\ ~On(p) /\ out_player'[p] = << >> /\ in_player'[p] = << >>
        /\ (state'[p] = "thinking" /\ ~Won(p)) \/ (state'[p] = "won" /\ Won(p))
    <3>1. state[p] = "waiting" /\ in_player[p] # << >>
      BY <1>7 DEF read_guidance
    <3>2. /\ p \notin bad /\ ~On(p) /\ out_player[p] = << >>
          /\ \/ in_player[p] = <<"hotter">> /\ ~Won(p)
             \/ in_player[p] = <<"winner">> /\ Won(p)
      <4>1. p \notin bad
        BY <3>1 DEF Protocol, WaitsBad
      <4>2. Waits(p)
        BY DEF Protocol
      <4> QED
        BY <3>1, <4>1, <4>2 DEF Waits, On, Won
    <3>3. /\ \A g : in_player[p] = <<g>> => Head(in_player[p]) = g /\ in_player'[p] = << >>
          /\ bad' = bad /\ out_player' = out_player
          /\ Head(in_player[p]) = "winner" => state'[p] = "won"
          /\ Head(in_player[p]) = "hotter" => state'[p] = "thinking"
      BY <1>7, Lines1 DEF read_guidance
    <3> QED
      BY <3>2, <3>3
  <2> QED
    BY <1>1, <2>1 DEF Protocol, InStart, Thinks, HalfWay, WaitsBad, Waits, HasWon, Wrong, Ends, Ended
<1>8. CASE Finish(p)
  <2>1. /\ p \notin bad /\ Won(p)
        /\ (state'[p] = "exit0" /\ p \notin bad') \/ (state'[p] \in {"exit1", "signaled"} /\ p \in bad')
    BY <1>8, Lines1 DEF Finish, Protocol, HasWon
  <2> QED
    BY <1>1, <2>1 DEF Protocol, InStart, Thinks, HalfWay, WaitsBad, Waits, HasWon, Wrong, Ends, Ended
<1>9. CASE MoveLegal(p)
  <2>1. /\ state'[p] = "waiting" /\ p \notin bad' /\ ~On(p) /\ ~Won(p)
        /\ out_player'[p] = <<"legal">> /\ in_player'[p] = << >>
    BY <1>9, Lines1 DEF MoveLegal, Protocol, Thinks
  <2> QED
    BY <1>1, <2>1 DEF Protocol, InStart, Thinks, HalfWay, WaitsBad, Waits, HasWon, Wrong, Ends, Ended
<1>10. CASE MoveGoal(p)
  <2>1. /\ state'[p] = "waiting" /\ p \notin bad' /\ ~On(p) /\ ~Won(p)
        /\ out_player'[p] = <<"goal">> /\ in_player'[p] = << >>
    BY <1>10, Lines1 DEF MoveGoal, Protocol, Thinks
  <2> QED
    BY <1>1, <2>1 DEF Protocol, InStart, Thinks, HalfWay, WaitsBad, Waits, HasWon, Wrong, Ends, Ended
<1>11. CASE MoveWrong(p)
  <2>1. /\ state'[p] = "waiting" /\ p \in bad' /\ ~On(p) /\ ~Won(p)
        /\ out_player'[p] = <<"illegal">> /\ in_player'[p] = << >>
    BY <1>11, Lines1 DEF MoveWrong, Protocol, Thinks
  <2> QED
    BY <1>1, <2>1 DEF Protocol, InStart, Thinks, HalfWay, WaitsBad, Waits, HasWon, Wrong, Ends, Ended
<1>12. CASE MoveHalf(p)
  <2>1. /\ state'[p] = "half" /\ p \in split' \ bad' /\ ~On(p) /\ ~Won(p)
        /\ out_player'[p] = <<"head">> /\ in_player'[p] = << >>
    BY <1>12, Lines1 DEF MoveHalf, Protocol, Thinks
  <2> QED
    BY <1>1, <2>1 DEF Protocol, InStart, Thinks, HalfWay, WaitsBad, Waits, HasWon, Wrong, Ends, Ended
<1>13. CASE MoveRest(p)
  <2>1. /\ state'[p] = "waiting" /\ p \in split' \ bad' /\ ~Won(p) /\ in_player'[p] = << >>
        /\ (out_player'[p] = <<"head", "tail">> /\ ~On(p)) \/ Rejected(p)
    <3>1. Append(<<"head">>, "tail") = <<"head", "tail">>
      BY Lines2
    <3>2. /\ state'[p] = "waiting" /\ bad' = bad /\ split' = split /\ in_player' = in_player
          /\ out_player'[p] = Append(out_player[p], "tail") /\ state[p] = "half"
      BY <1>13 DEF MoveRest
    <3> QED
      BY <3>1, <3>2 DEF Protocol, HalfWay, Rejected
  <2> QED
    BY <1>1, <2>1 DEF Protocol, InStart, Thinks, HalfWay, WaitsBad, Waits, HasWon, Wrong, Ends, Ended
<1>14. CASE Scrap(p)
  <2>1. /\ state'[p] \in {"exit0", "looping", "stuck"} /\ p \in bad' /\ ~On(p) /\ ~Won(p)
        /\ out_player'[p] \in {<< >>, <<"scrap">>}
    BY <1>14, Lines1 DEF Scrap, Protocol, Thinks
  <2> QED
    BY <1>1, <2>1 DEF Protocol, InStart, Thinks, HalfWay, WaitsBad, Waits, HasWon, Wrong, Ends, Ended
<1>15. CASE Quit(p)
  <2>1. /\ p \in bad' /\ state'[p] \in Ended
        /\ state'[p] = "exit0" => ~On(p) /\ ~Won(p) /\ out_player'[p] = << >>
    BY <1>15, Lines1 DEF Quit, Protocol, Thinks, InStart, Ended
  <2> QED
    BY <1>1, <2>1 DEF Protocol, InStart, Thinks, HalfWay, WaitsBad, Waits, HasWon, Wrong, Ends, Ended
<1> QED
  BY <1>1, <1>5, <1>6, <1>7, <1>8, <1>9, <1>10, <1>11, <1>12, <1>13, <1>14, <1>15 DEF PlayerStep

\* What the relay and the game maker do about a player.
LEMMA RelayKeeps ==
  ASSUME StrcmpSees, IInv, Agreed, IInv', [Next]_vars, NEW p \in Player, Protocol(p),
         ~\E q \in Player : Play(q)
  PROVE  Protocol(p)'
<1> USE PlayersAssumption DEF IInv, Typed
<1> USE DEF relay, signals, printing, pipes, children, makerVars, playerVars
<1>0. /\ state \in [Player -> Alive \cup Ended \cup {"none"}] /\ player \in Player
      /\ in_player \in [Player -> Seq(Guidance \cup {"start"})] /\ out_player \in [Player -> Seq(Move \cup Part)]
  BY DEF PlayerTypeOK, PipesTypeOK, RelayOK
<1>1. ASSUME UNCHANGED <<in_player, out_player, playerVars>>,
             Undealt(p)', On(p)' <=> On(p), Won(p)' <=> Won(p),
             On(p) /\ GoodLine => GoodLine', On(p) /\ BadLine => BadLine',
             Judged(p) => Judged(p)',
             state[p] = "none" => ~Playing'
      PROVE  Protocol(p)'
  <2>1. Rejected(p) => Rejected(p)'
    BY <1>1 DEF Rejected
  <2>2. UNCHANGED <<in_player, out_player, state, bad, split>>
    BY <1>1
  <2> QED
    BY <1>1, <2>1, <2>2, SamePlace
<1>2. ASSUME state' = state, Between \/ pc = "fork", ~Playing'
      PROVE  Protocol(p)'
  BY <1>2, NobodyThere DEF Clean, Everyone
<1>3. CASE Block
  BY <1>3, <1>2 DEF Block, Between, Playing
<1>4. CASE Start
  <2>1. /\ state'[p] = "forked" /\ p \notin bad' \cup split' /\ pc' = "target"
        /\ in_player'[p] = << >> /\ out_player'[p] = << >>
    BY <1>4 DEF Start, Clean, Everyone, NoPipes
  <2> QED
    BY <2>1 DEF Protocol, InStart, Thinks, HalfWay, WaitsBad, Waits, HasWon, Wrong, Ends, Undealt, On, Won
<1>5. CASE ReadTarget
  <2>1. Undealt(p)'
    BY <1>5 DEF ReadTarget, Protocol, Undealt
  <2>2. state[p] # "none" /\ pc = "target" /\ pc' = "deal"
    BY <1>5 DEF ReadTarget, Protocol, Playing
  <2> QED
    BY <1>5, <1>1, <2>1, <2>2 DEF ReadTarget, On, Won, Judged
<1>6. CASE RelayStart
  <2>1. /\ pc = "deal" /\ pc' = pc /\ i \in Player /\ i' = i + 1 /\ UNCHANGED <<relay, out_player, playerVars>>
        /\ in_player' = [in_player EXCEPT ![i] = Append(@, Head(out_game))] /\ Head(out_game) = "start"
    <3>1. i \in Player /\ Head(out_game) = "start"
      BY <1>6 DEF RelayStart, Wires, PlacesOK, Player
    <3> QED
      BY <1>6, <3>1 DEF RelayStart
  <2>2. CASE p = i
    <3>1. in_player[p] = << >> /\ state[p] \in {"forked", "starting"} \cup Ended
      BY <2>1, <2>2 DEF Protocol, Undealt, Player
    <3>2. in_player'[p] = <<"start">>
      BY <1>0, <2>1, <2>2, <3>1, Lines1
    <3>3. Undealt(p)'
      BY <2>1, <2>2 DEF Undealt, Player
    <3>4. ~On(p) /\ ~On(p)' /\ ~Won(p) /\ ~Won(p)' /\ UNCHANGED <<state, bad, split, out_player>>
      BY <2>1 DEF On, Won
    <3> QED
      BY <2>1, <3>1, <3>2, <3>3, <3>4 DEF Protocol, InStart, Thinks, HalfWay, WaitsBad, Waits, HasWon, Wrong, Ends, Ended
  <2>3. CASE p # i
    <3>1. in_player'[p] = in_player[p] /\ UNCHANGED <<state, bad, split, out_player>>
      BY <1>0, <2>1, <2>3
    <3>2. Undealt(p)'
      BY <2>1, <2>3, <3>1 DEF Protocol, Undealt, Player
    <3>3. ~On(p) /\ ~On(p)' /\ ~Won(p) /\ ~Won(p)' /\ ~Judged(p) /\ (state[p] = "none" => ~Playing')
      BY <2>1 DEF On, Won, Judged, Protocol, Playing
    <3> QED
      BY <3>1, <3>2, <3>3, SamePlace DEF Rejected
  <2> QED
    BY <2>2, <2>3
<1>7. CASE Clear
  <2>1. pc = "deal" /\ pc' = "turn" /\ UNCHANGED <<in_player, out_player, playerVars>>
    BY <1>7 DEF Clear
  <2>2. state[p] # "none"
    BY <2>1 DEF Protocol, Playing
  <2> QED
    BY <1>1, <2>1, <2>2 DEF On, Won, Judged, Undealt
<1>8. CASE Turn
  <2>1. /\ pc = "turn" /\ pc' \in {"turn", "read", "winner"} /\ winner_idx = NoWinner
        /\ UNCHANGED <<in_player, out_player, playerVars, winner_idx, fail>>
    BY <1>8 DEF Turn, Failures
  <2>2. state[p] # "none" /\ p # NoWinner
    BY <2>1 DEF Protocol, Playing, Player, NoWinner
  <2> QED
    BY <1>1, <2>1, <2>2 DEF On, Won, Judged, Undealt
<1>9. CASE ReadMove
  <2> DEFINE q == out_player[player]
  <2>1. /\ pc = "read" /\ pc' = "verdict" /\ UNCHANGED <<in_player, playerVars, fail, player, winner_idx, out_game>>
        /\ in_game = << >> /\ out_game = << >> /\ ~fail[player]
    BY <1>9 DEF ReadMove, Wires, Failures
  <2>2. ~On(p) /\ ~Won(p) /\ ~Won(p)' /\ Undealt(p)' /\ state[p] # "none"
    BY <2>1 DEF On, Won, Undealt, Protocol, Playing
  <2>3. CASE p # player
    <3>1. out_player'[p] = out_player[p] /\ ~On(p)' /\ (Judged(p) => Judged(p)')
      BY <1>9, <1>0, <2>1, <2>3 DEF ReadMove, On, Judged
    <3> QED
      BY <2>1, <2>2, <2>3, <3>1, SamePlace DEF Rejected
  <2>4. CASE p = player
    <3>1. On(p)' /\ ~Rejected(p)
      BY <2>1, <2>2, <2>4 DEF On, Rejected, Judged
    <3>2. /\ q # << >> \/ OutputClosed(p)
          /\ in_game' = <<Relayed(q)>>
          /\ out_player'[p] = IF q = << >> THEN q ELSE SubSeq(q, Taken(q) + 1, Len(q))
      BY <1>9, <1>0, <2>1, <2>4, Lines1 DEF ReadMove
    <3>3. /\ Relayed(q) \in {"legal", "goal"} => GoodLine'
          /\ Relayed(q) \in {"illegal", "broken"} => BadLine'
      BY <3>2 DEF GoodLine, BadLine
    <3>4. /\ \A x : Taken(<<x>>) = 1 /\ SubSeq(<<x>>, 2, 1) = << >>
          /\ \A x : Relayed(<<x>>) = IF x \in Part THEN "broken" ELSE x
          /\ Relayed(<< >>) = "broken"
      BY Lines1 DEF Taken, Relayed
    <3>5. Relayed(<<"head", "tail">>) = "legal" /\ Taken(<<"head", "tail">>) = 2 /\ SubSeq(<<"head", "tail">>, 3, 2) = << >>
      BY DEF Relayed, Taken
    <3>6. \A x : q = <<x>> => out_player'[p] = << >> /\ Relayed(q) = IF x \in Part THEN "broken" ELSE x
      BY <3>2, <3>4, Lines1
    <3>7. q = <<"head", "tail">> => out_player'[p] = << >> /\ Relayed(q) = "legal"
      BY <3>2, <3>5
    <3>8. q = << >> => out_player'[p] = << >> /\ Relayed(q) = "broken"
      BY <3>2, <3>4
    <3>9. /\ state' = state /\ in_player' = in_player /\ bad' = bad /\ split' = split /\ out_player[p] = q
          /\ On(p)' /\ ~On(p) /\ ~Won(p) /\ ~Won(p)' /\ ~Rejected(p) /\ (BadLine' => Rejected(p)')
      BY <2>1, <2>2, <2>4, <3>1 DEF Rejected
    <3> HIDE DEF q
    <3>10. InStart(p)' /\ Thinks(p)'
      BY <2>4, <3>2, <3>9 DEF Protocol, InStart, Thinks, OutputClosed, Ended
    <3>11. HalfWay(p)'
      BY <3>3, <3>6, <3>9 DEF Protocol, HalfWay, Part
    <3>12. WaitsBad(p)'
      BY <3>3, <3>6, <3>9 DEF Protocol, WaitsBad, Part
    <3>13. Waits(p)'
      <4>1. CASE q = << >>
        BY <3>2, <3>9, <4>1 DEF Protocol, Waits, OutputClosed, Ended
      <4>2. CASE q # << >>
        BY <3>3, <3>6, <3>7, <3>9, <4>2 DEF Protocol, Waits, Part
      <4> QED
        BY <4>1, <4>2
    <3>14. HasWon(p)' /\ Ends(p)'
      BY <3>9 DEF Protocol, HasWon, Ends
    <3>15. Wrong(p)'
      BY <3>3, <3>6, <3>8, <3>9 DEF Protocol, Wrong, Part
    <3> QED
      BY <2>2, <3>9, <3>10, <3>11, <3>12, <3>13, <3>14, <3>15 DEF Protocol
  <2> QED
    BY <2>3, <2>4
<1>10. CASE Verdict
  <2>1. /\ pc = "verdict" /\ pc' \in {"turn", "winner"} /\ in_game = << >> /\ in_game' = << >>
        /\ UNCHANGED <<playerVars, out_player>> /\ \E g \in Guidance : out_game = <<g>>
    BY <1>10 DEF Verdict, Wires
  <2>2. PICK g \in Guidance : out_game = <<g>>
    BY <2>1
  <2>3. Head(out_game) = g /\ \A text : Reads(g, text) <=> g = text
    BY <2>2, Lines1 DEF Reads
  <2>4. Undealt(p)' /\ state[p] # "none" /\ ~On(p)' /\ ~Won(p)
    BY <2>1 DEF Undealt, Protocol, Playing, On, Won
  <2>5. /\ g = "wrong!" => /\ fail' = [fail EXCEPT ![player] = TRUE] /\ in_player' = in_player
                           /\ winner_idx' = winner_idx /\ pc' = "turn"
        /\ g # "wrong!" => /\ in_player' = [in_player EXCEPT ![player] = Append(@, g)] /\ fail' = fail
        /\ g = "winner" => winner_idx' = player /\ pc' = "winner"
        /\ g = "hotter" => pc' = "turn"
    BY <1>10, <2>3 DEF Verdict
  <2>6. CASE p # player
    <3>1. in_player'[p] = in_player[p] /\ ~On(p) /\ ~Won(p)' /\ (Judged(p) => Judged(p)')
      BY <1>0, <2>1, <2>2, <2>4, <2>5, <2>6 DEF On, Won, Judged, Guidance, RelayOK
    <3> QED
      BY <2>1, <2>4, <3>1, SamePlace DEF Rejected
  <2>7. CASE p = player
    <3>1. /\ On(p) /\ (g = "wrong!" => BadLine /\ ~GoodLine) /\ (g # "wrong!" => GoodLine /\ ~BadLine)
      BY <2>1, <2>2, <2>7, OneLine, Lines1 DEF On, GoodLine, BadLine, Guidance
    <3>2. /\ state' = state /\ bad' = bad /\ split' = split /\ out_player' = out_player
      BY <2>1
    <3>3. CASE g = "wrong!"
      <4>1. in_player' = in_player /\ Rejected(p)' /\ ~Won(p)'
        BY <1>0, <2>1, <2>5, <2>7, <3>3 DEF Rejected, Judged, On, Won, RelayOK
      <4>2. InStart(p)' /\ Thinks(p)' /\ HalfWay(p)' /\ WaitsBad(p)'
        BY <2>4, <3>1, <3>2, <3>3, <4>1 DEF Protocol, InStart, Thinks, HalfWay, WaitsBad
      <4>3. Waits(p)' /\ HasWon(p)' /\ Wrong(p)' /\ Ends(p)'
        BY <2>4, <3>1, <3>2, <3>3, <4>1 DEF Protocol, Waits, HasWon, Wrong, Ends
      <4> QED
        BY <2>4, <3>2, <4>2, <4>3 DEF Protocol
    <3>4. CASE g \in {"hotter", "winner"}
      <4>1. (in_player[p] = << >> => in_player'[p] = <<g>>) /\ ~Rejected(p)
        BY <1>0, <2>5, <2>7, <3>1, <3>4, Lines1 DEF Rejected, Judged
      <4>2. (g = "hotter" => ~Won(p)') /\ (g = "winner" => Won(p)')
        BY <2>5, <2>7 DEF Won
      <4>3. InStart(p)' /\ Thinks(p)' /\ HalfWay(p)' /\ WaitsBad(p)'
        BY <2>4, <3>1, <3>2, <3>4, <4>1 DEF Protocol, InStart, Thinks, HalfWay, WaitsBad
      <4>4. Waits(p)' /\ HasWon(p)' /\ Wrong(p)' /\ Ends(p)'
        BY <2>4, <3>1, <3>2, <3>4, <4>1, <4>2 DEF Protocol, Waits, HasWon, Wrong, Ends
      <4> QED
        BY <2>4, <3>2, <4>3, <4>4 DEF Protocol
    <3> QED
      BY <3>3, <3>4 DEF Guidance
  <2> QED
    BY <2>6, <2>7
<1>11. CASE Winner
  <2>1. pc = "winner" /\ pc' = "tally" /\ UNCHANGED <<in_player, out_player, bad, split, winner_idx, player>>
    BY <1>11 DEF Winner
  <2>2. CASE p = winner_idx
    <3>1. state'[p] = "none"
      <4>1. winner_idx # NoWinner
        BY <2>2 DEF NoWinner, Player
      <4> QED
        BY <1>11, <1>0, <2>2, <4>1 DEF Winner, Becomes
    <3> QED
      BY <2>1, <3>1, NobodyThere DEF Playing
  <2>3. CASE p # winner_idx
    <3>1. state'[p] = state[p] /\ fail'[p] = fail[p]
      BY <1>11, <1>0, <2>3 DEF Winner, Becomes, RelayOK
    <3>2. ~Won(p) /\ ~Won(p)' /\ ~On(p) /\ ~On(p)' /\ (Judged(p) => Judged(p)') /\ Undealt(p)' /\ ~Playing'
      BY <2>1, <2>3, <3>1 DEF Won, On, Judged, Undealt, Playing
    <3> QED
      BY <2>1, <3>1, <3>2, SamePlace DEF Rejected
  <2> QED
    BY <2>2, <2>3
<1>12. CASE Tally
  <2>1. /\ pc = "tally" /\ pc' = "tally" /\ UNCHANGED <<in_player, out_player, bad, split, winner_idx, player, fail>>
        /\ state' = state \/ Becomes(i, "none")
    BY <1>12 DEF Tally
  <2>2. CASE state'[p] = "none"
    BY <2>1, <2>2, NobodyThere DEF Playing
  <2>3. CASE state'[p] = state[p]
    <3>1. (Won(p) <=> Won(p)') /\ ~On(p) /\ ~On(p)' /\ (Judged(p) => Judged(p)') /\ Undealt(p)' /\ ~Playing'
      BY <2>1, <2>3 DEF Won, On, Judged, Undealt, Playing
    <3> QED
      BY <2>1, <2>3, <3>1, SamePlace DEF Rejected
  <2> QED
    BY <1>0, <2>1, <2>2, <2>3 DEF Becomes
<1>13. CASE Unblock
  <2>1. state'[p] = "none"
    <3>1. pc = "tally" /\ p < i /\ state' = state
      BY <1>13 DEF Unblock, Player
    <3> QED
      BY <3>1 DEF Buried
  <2>2. ~Playing'
    BY <1>13 DEF Unblock, report, Playing
  <2> QED
    BY <2>1, <2>2, NobodyThere
<1>14. CASE NextRound
  BY <1>14, <1>2 DEF NextRound, Between, Playing
<1>15. CASE PrintLine
  BY <1>15, <1>2 DEF PrintLine, Between, Playing
<1>16. CASE Exit
  BY <1>16, <1>2 DEF Exit, Between, Playing
<1>17. CASE Interrupt
  <2>1. state' = state
    BY <1>17, <1>0 DEF Interrupt, Mask
  <2>2. CASE masked
    <3>1. UNCHANGED <<pc, i, relay, in_player, out_player, in_game, out_game, playerVars>>
      BY <1>17, <2>1, <2>2 DEF Interrupt
    <3>2. /\ On(p)' = On(p) /\ Won(p)' = Won(p) /\ GoodLine' = GoodLine /\ BadLine' = BadLine
          /\ Judged(p)' = Judged(p) /\ Playing' = Playing /\ Undealt(p)' = Undealt(p)
      BY <3>1 DEF On, Won, GoodLine, BadLine, Judged, Playing, Undealt
    <3> QED
      BY <1>1, <3>1, <3>2 DEF Protocol
  <2>3. CASE ~masked
    <3>1. Between /\ ~Playing'
      BY <1>17, <2>3 DEF Interrupt, report, Mask, Playing
    <3> QED
      BY <1>2, <2>1, <3>1
  <2> QED
    BY <2>2, <2>3
<1>18. CASE Deal /\ UNCHANGED <<relayVars, playerVars>>
  <2>1. /\ pc = "target" /\ UNCHANGED <<pc, i, relay, in_player, out_player, in_game, playerVars>>
    BY <1>18 DEF Deal, Clean, Wires, PlacesOK, Between, relayVars
  <2>2. ~On(p) /\ Won(p)' = Won(p) /\ On(p)' = On(p) /\ Judged(p)' = Judged(p) /\ Playing' = Playing /\ Undealt(p)' = Undealt(p)
    BY <2>1 DEF On, Won, Judged, Playing, Undealt
  <2> QED
    BY <1>1, <2>1, <2>2 DEF Protocol
<1>19. CASE Judge /\ UNCHANGED <<relayVars, playerVars>>
  <2>1. /\ pc = "verdict" /\ UNCHANGED <<pc, i, relay, in_player, out_player, playerVars>>
        /\ out_game = << >> /\ in_game # << >>
    BY <1>19 DEF Judge, Wires, Clean, PlacesOK, Between, relayVars
  <2>2. Won(p)' = Won(p) /\ On(p)' = On(p) /\ Judged(p)' = Judged(p) /\ Playing' = Playing /\ Undealt(p)' = Undealt(p)
    BY <2>1 DEF On, Won, Judged, Playing, Undealt
  <2>3. (GoodLine => GoodLine') /\ (BadLine => BadLine')
    <3>1. in_game \in {<<"legal">>, <<"goal">>, <<"illegal">>, <<"broken">>}
      BY <2>1, OneLine
    <3>2. \A g : Append(out_game, g) = <<g>>
      BY <2>1, Lines1
    <3>3. /\ in_game = <<"goal">> => Head(in_game) = "goal"
          /\ in_game = <<"legal">> => Head(in_game) = "legal"
          /\ in_game \in {<<"illegal">>, <<"broken">>} => Head(in_game) \in {"illegal", "broken"}
      BY Lines1
    <3>4. /\ Head(in_game) = "goal" => out_game' = <<"winner">>
          /\ Head(in_game) = "legal" => out_game' = <<"hotter">>
          /\ Head(in_game) \in {"illegal", "broken"} => out_game' = <<"wrong!">>
      BY <1>19, <3>2 DEF Judge
    <3> QED
      BY <2>1, <3>3, <3>4, Lines1 DEF GoodLine, BadLine
  <2> QED
    BY <1>1, <2>1, <2>2, <2>3 DEF Protocol
<1>20. CASE UNCHANGED vars
  <2>1. /\ On(p)' = On(p) /\ Won(p)' = Won(p) /\ GoodLine' = GoodLine /\ BadLine' = BadLine
        /\ Judged(p)' = Judged(p) /\ Playing' = Playing /\ Undealt(p)' = Undealt(p)
    BY <1>20 DEF vars, On, Won, GoodLine, BadLine, Judged, Playing, Undealt
  <2>2. UNCHANGED <<in_player, out_player, playerVars>>
    BY <1>20 DEF vars
  <2> QED
    BY <1>1, <2>1, <2>2 DEF Protocol
<1> QED
  BY <1>3, <1>4, <1>5, <1>6, <1>7, <1>8, <1>9, <1>10, <1>11, <1>12, <1>13, <1>14, <1>15, <1>16, <1>17, <1>18, <1>19, <1>20
     DEF Next, Relay, Maker, MakerStep, Stopped

LEMMA NextDeserved ==
  ASSUME StrcmpSees, IInv, [Next]_vars, Deserved, \A p \in Player : Protocol(p)
  PROVE  Deserved'
<1> USE DEF IInv, Typed
<1> USE DEF relay, signals, printing, pipes, children, makerVars, playerVars
<1>0. fail \in [Player -> BOOLEAN] /\ state \in [Player -> Alive \cup Ended \cup {"none"}] /\ player \in Player
  BY DEF RelayOK, PlayerTypeOK
<1>1. CASE Block
  BY <1>1 DEF Block, Deserved
<1>2. CASE Start
  BY <1>2 DEF Start, Deserved
<1>3. CASE ReadTarget
  BY <1>3 DEF ReadTarget, Deserved
<1>4. CASE RelayStart
  BY <1>4 DEF RelayStart, Deserved
<1>5. CASE Clear
  BY <1>5 DEF Clear, Deserved, Everyone
<1>6. CASE Turn
  BY <1>6 DEF Turn, Deserved
<1>7. CASE ReadMove
  BY <1>7 DEF ReadMove, Deserved
<1>8. CASE Verdict
  <2>1. /\ pc = "verdict" /\ pc' \in {"turn", "winner"} /\ in_game = << >>
        /\ bad' = bad /\ split' = split
        /\ \A p \in Player : fail'[p] => fail[p] \/ (p = player /\ Reads(Head(out_game), "wrong!"))
    BY <1>8, <1>0 DEF Verdict, Wires
  <2>2. Reads(Head(out_game), "wrong!") => BadLine
    BY <2>1, OneLine, Lines1 DEF Reads, BadLine
  <2>3. BadLine => player \in bad \cup split
    BY <1>0, <2>1, BadLineDeserved DEF On
  <2> QED
    BY <2>1, <2>2, <2>3 DEF Deserved
<1>9. CASE Winner
  <2>1. /\ pc = "winner" /\ pc' = "tally" /\ i' = 0 /\ winner_idx' = winner_idx /\ bad' = bad /\ split' = split
    BY <1>9 DEF Winner
  <2>2. CASE winner_idx = NoWinner
    <3>1. fail' = fail /\ winner_idx \notin bad
      BY <1>9, <2>2 DEF Winner, PlayerTypeOK, NoWinner, Player
    <3> QED
      BY <2>1, <3>1 DEF Deserved
  <2>3. CASE winner_idx \in Player
    <3>1. /\ state[winner_idx] \in Ended
          /\ fail' = [fail EXCEPT ![winner_idx] = @ \/ state[winner_idx] # "exit0"]
      BY <1>9, <2>3 DEF Winner, NoWinner, Player
    <3>2. Won(winner_idx)
      BY <2>1 DEF Won
    <3>3. state[winner_idx] # "exit0" => winner_idx \in bad
      BY <2>3, <3>1 DEF Protocol, Ends, Ended
    <3>4. winner_idx \in bad => state[winner_idx] # "exit0"
      BY <2>3, <3>2 DEF Protocol, Wrong
    <3>5. /\ \A p \in Player : fail'[p] => fail[p] \/ (p = winner_idx /\ winner_idx \in bad)
          /\ winner_idx \in bad => fail'[winner_idx]
      BY <1>0, <2>3, <3>1, <3>3, <3>4
    <3> QED
      BY <2>1, <3>5 DEF Deserved
  <2> QED
    BY <2>2, <2>3 DEF RelayOK
<1>10. CASE Tally
  <2>1. pc' = "tally" /\ i' # 0
    BY <1>10 DEF Tally, PlacesOK
  <2> QED
    BY <2>1 DEF Deserved
<1>11. CASE Unblock
  BY <1>11 DEF Unblock, report, Deserved
<1>12. CASE NextRound
  BY <1>12 DEF NextRound, Deserved
<1>13. CASE PrintLine
  BY <1>13 DEF PrintLine, Deserved
<1>14. CASE Exit
  BY <1>14 DEF Exit, Deserved
<1>15. CASE Interrupt
  <2>1. pc' = pc \/ pc' = "exited"
    BY <1>15 DEF Interrupt, report
  <2> QED
    BY <1>15, <2>1 DEF Interrupt, Deserved
<1>16. CASE Deal /\ UNCHANGED <<relayVars, playerVars>>
  BY <1>16 DEF Deal, Deserved, relayVars
<1>17. CASE Judge /\ UNCHANGED <<relayVars, playerVars>>
  BY <1>17 DEF Judge, Deserved, relayVars
<1>18. ASSUME NEW p \in Player, Play(p) PROVE Deserved'
  <2>1. state[p] # "none" /\ UNCHANGED <<pc, i, fail, winner_idx>>
    BY <1>18, PlayerFrame DEF Play, relayVars
  <2>2. bad \subseteq bad' /\ split \subseteq split' /\ bad' \subseteq bad \cup {p}
    BY <1>18 DEF Play, PlayerStep, Exec, read_position, read_guidance, Finish, MoveLegal, MoveGoal, MoveWrong,
       MoveHalf, MoveRest, Scrap, Quit
  <2>3. pc = "tally" => p # winner_idx
    BY <1>18, <2>1 DEF Buried
  <2> QED
    BY <2>1, <2>2, <2>3 DEF Deserved
<1>19. CASE UNCHANGED vars
  BY <1>19 DEF vars, Deserved
<1> QED
  BY <1>1, <1>2, <1>3, <1>4, <1>5, <1>6, <1>7, <1>8, <1>9, <1>10, <1>11, <1>12, <1>13, <1>14, <1>15, <1>16, <1>17, <1>18, <1>19
     DEF Next, Relay, Maker, MakerStep, Stopped

LEMMA NextPInv ==
  ASSUME StrcmpSees, IInv, Agreed, PInv, IInv', [Next]_vars
  PROVE  PInv'
<1>1. ASSUME NEW p \in Player PROVE Protocol(p)'
  <2>1. CASE ~\E q \in Player : Play(q)
    BY <2>1, RelayKeeps DEF PInv
  <2>2. CASE Play(p)
    BY <2>2, PlayerKeeps DEF PInv
  <2>3. ASSUME NEW q \in Player \ {p}, Play(q) PROVE Protocol(p)'
    <3>1. /\ in_game' = in_game /\ out_game' = out_game /\ state'[p] = state[p] /\ state[q] # "none"
          /\ UNCHANGED <<pc, player, fail, winner_idx, i>>
      BY <2>3, PlayerFrame DEF Play, relayVars, relay, IInv, Typed
    <3>2. /\ in_player'[p] = in_player[p] /\ out_player'[p] = out_player[p]
          /\ p \in bad' <=> p \in bad
      BY <2>3 DEF Play, PlayerStep, Exec, read_position, read_guidance, Finish, MoveLegal, MoveGoal, MoveWrong,
         MoveHalf, MoveRest, Scrap, Quit, Writes, pipes, IInv, Typed, PipesTypeOK
    <3>3. p \in split' <=> p \in split
      BY <2>3 DEF Play, PlayerStep, Exec, read_position, read_guidance, Finish, MoveLegal, MoveGoal, MoveWrong,
         MoveHalf, MoveRest, Scrap, Quit
    <3>4. /\ On(p)' = On(p) /\ Won(p)' = Won(p) /\ GoodLine' = GoodLine /\ BadLine' = BadLine
          /\ Rejected(p)' = Rejected(p) /\ Playing' = Playing
      BY <3>1 DEF On, Won, GoodLine, BadLine, Rejected, Judged, Playing
    <3>5. Undealt(p)'
      BY <3>1, <3>2 DEF PInv, Protocol, Undealt
    <3> QED
      BY <3>1, <3>2, <3>3, <3>4, <3>5, SamePlace DEF PInv, Protocol
  <2> QED
    BY <2>1, <2>2, <2>3
<1> QED
  BY <1>1, NextDeserved DEF PInv

\* Nobody fails a round that did nothing wrong in it, and whoever the game maker
\* told so, or won and ended badly, fails (the verdicts and the result of the
\* winner in run_tournament), provided that strcmp sees the verdicts.
THEOREM FailuresAreDeserved ==
  ASSUME StrcmpSees
  PROVE  Spec => []FailsDeserved
<1>1. Init => IInv /\ Agreed /\ PInv
  BY InitIInv, InitAgreed, InitPInv
<1>2. IInv /\ Agreed /\ PInv /\ [Next]_vars => IInv' /\ Agreed' /\ PInv'
  BY NextIInv, NextAgreed, NextPInv
<1>3. IInv /\ Agreed /\ PInv => FailsDeserved
  BY DEF FailsDeserved, Agreed, AfterTurns, PInv, Deserved, Out
<1> QED
  BY <1>1, <1>2, <1>3, PTL DEF Spec
=============================================================================
