------------------------------- MODULE Board --------------------------------
(***************************************************************************)
(* One player's game: game_maker.c deals a start and judges the moves, the *)
(* lines of io.c go to and fro.  What the player does with the guidance is *)
(* in BoardPlayers.  The games of a round do not touch each other; a line  *)
(* passes the relay of run_tournament, which completes a partial one.      *)
(***************************************************************************)
EXTENDS Integers, Sequences

CONSTANTS
    MAX_POSITION,
    Targets,    \* targets that random_position returns
    Limits      \* pairs of a minimum and a maximum distance

BOARD_SIZE == MAX_POSITION + 1
Position == (0..MAX_POSITION) \X (0..MAX_POSITION)

\* Lines have two digits for a number, and game_maker checks its arguments.
ASSUME BoardAssumption ==
    /\ MAX_POSITION \in 3..99 /\ Targets \subseteq Position
    /\ \A l \in Limits : l[1] \in 1..BOARD_SIZE-2 /\ l[2] \in l[1]..BOARD_SIZE-2

VARIABLES
    target,
    limits,    \* min_init_distance and max_init_distance
    place,     \* where game_maker has the player; <<>> before it is dealt
    said,      \* the bytes written by the player and not yet judged
    told       \* the guidance not yet read, or the last one: "wrong!"

gameVars == <<target, limits, place, said, told>>

\* "%2.2d, %2.2d\n"
Digit(n) == 48 + n
Digits(n) == <<Digit(n \div 10), Digit(n % 10)>>
write_position(p) == Digits(p[1]) \o <<44, 32>> \o Digits(p[2]) \o <<10>>

\* [ok, n] and [ok, at]; the bytes of a number that is none are not read.
IsDigit(b) == b \in 48..57
parse_a_number(s) == [ok |-> IsDigit(s[1]) /\ IsDigit(s[2]), n |-> (s[1] - 48) * 10 + s[2] - 48]
parse_position(s) ==
    LET x == parse_a_number(s)
        y == parse_a_number(SubSeq(s, 5, 6))
    IN  [ok |-> x.ok /\ s[3] = 44 /\ s[4] = 32 /\ y.ok /\ s[7] = 10, at |-> <<x.n, y.n>>]

Broken == <<98, 114, 111, 107, 101, 110, 10>>    \* "broken\n"
PassedOn(s) == IF Len(s) = 7 THEN s ELSE Broken

Abs(n) == IF n < 0 THEN -n ELSE n
distance_to(p, q) == Abs(p[1] - q[1]) + Abs(p[2] - q[2])

MakerInit ==
    /\ target \in Targets /\ limits \in Limits
    /\ place = << >> /\ said = << >> /\ told = "none"

\* The distances drawn; the longest only if it is the shortest too.
Drawn == LET min == limits[1]  max == limits[2] IN IF min < max THEN min..max-1 ELSE {min}

\* What one turn of the do-while loop may draw, and what ends the loop.
Tries ==
    UNION {{<<target[1] + sx * dx, target[2] + sy * (dist - dx)>> : dx \in 0..dist-1, sx \in {-1, 1}, sy \in {-1, 1}} :
              dist \in Drawn}
Kept(p) == p \in Position /\ distance_to(p, target) \in limits[1]..limits[2]

DealPlace ==
    /\ place = << >>
    /\ \E p \in Tries : Kept(p) /\ place' = p
    /\ limits' = << >>
    /\ UNCHANGED <<target, said, told>>

\* A legal move changes x or y, but not both.
Legal(line) ==
    LET parsed == parse_position(line)
    IN  parsed.ok /\ ((place[1] # parsed.at[1]) # (place[2] # parsed.at[2]))

Compare(before, after) ==
    CASE after = 0 -> "winner"
      [] after # 0 /\ after < before -> "hotter"
      [] after > before -> "colder"
      [] OTHER -> "steady"

JudgeLine ==
    /\ said # << >> /\ told = "none"
    /\ LET line == PassedOn(said)
           p == parse_position(line).at
       IN  IF Legal(line)
           THEN place' = p /\ told' = Compare(distance_to(place, target), distance_to(p, target))
           ELSE told' = "wrong!" /\ UNCHANGED place
    /\ said' = << >>
    /\ UNCHANGED <<target, limits>>
=============================================================================
