---------------------------- MODULE BoardPlayers ----------------------------
(***************************************************************************)
(* The strategies of the player programs of shell/, each against the game  *)
(* maker of Board: scan, step and jump, and the four that go wrong.        *)
(***************************************************************************)
EXTENDS Board

CONSTANTS
    Programs,    \* a subset of AllPrograms
    JUMP_TIME    \* of unreliable_player
AllPrograms == {"scan", "step", "jump", "fumble", "unreliable", "garbled", "distracted"}

ASSUME ProgramsAssumption == Programs \subseteq AllPrograms /\ JUMP_TIME \in Nat

VARIABLES
    program,
    init,       \* the position read
    at,         \* x and y
    stage,         \* the loop or the step the program is in; "lost" after the last
    count,      \* its counter: i, or count of unreliable_player
    axis,       \* jump: 1 while it moves along x
    lo, hi, amt,
    listens,    \* it waits for guidance
    exit        \* "none", "exit0", "exit1", "signaled" or "looping"

search == <<axis, lo, hi, amt>>
programVars == <<program, init, at, stage, count, search, listens, exit>>
boardVars == <<gameVars, programVars>>

Walkers == {"step", "fumble", "unreliable"}
Hoverers == {"garbled", "distracted"}

BoardInit ==
    /\ MakerInit
    /\ program \in Programs /\ stage = "start" /\ init = << >> /\ at = << >>
    /\ count = 0 /\ axis = 1 /\ lo = 0 /\ hi = MAX_POSITION /\ amt = 1
    /\ listens = FALSE /\ exit = "none"

ReadPosition ==
    /\ stage = "start" /\ place # << >>
    /\ init' = place /\ at' = place
    /\ stage' = CASE program = "scan" -> "x0" [] program = "jump" -> "loop"
               [] program \in Walkers -> "right" [] OTHER -> "hover"
    /\ UNCHANGED <<gameVars, program, count, search, listens, exit>>

Thinks == exit = "none" /\ ~listens /\ stage # "start"
Goes(p) == Thinks /\ stage = p
Says(p) ==
    /\ said' = write_position(p) /\ listens' = TRUE
    /\ UNCHANGED <<target, limits, place, told, program, init, exit>>
Jumps(p) ==
    /\ stage' = p
    /\ UNCHANGED <<gameVars, program, init, listens, exit>>
-----------------------------------------------------------------------------
\* step_player, fumble_player and unreliable_player: four loops and a step back.
NextLoop == [right |-> "left", left |-> "up", up |-> "down", down |-> "lost"]
Ahead == CASE stage = "right" -> at[1] < MAX_POSITION [] stage = "left" -> at[1] > 0
           [] stage = "up" -> at[2] < MAX_POSITION [] stage = "down" -> at[2] > 0
change(x) == IF x > 0 THEN x - 1 ELSE x + 1
Stray == program = "unreliable" /\ count + 1 = JUMP_TIME
Walked ==
    LET x == IF Stray THEN change(at[1]) ELSE at[1]
        y == IF Stray THEN change(at[2]) ELSE at[2]
    IN  CASE stage = "right" -> <<at[1] + 1, y>> [] stage = "left" -> <<at[1] - 1, y>>
          [] stage = "up" -> <<x, at[2] + 1>> [] stage = "down" -> <<x, at[2] - 1>>

Walk ==
    /\ Thinks /\ stage \in DOMAIN NextLoop
    /\ IF Ahead
       THEN /\ at' = Walked /\ Says(Walked)
            /\ count' = IF program = "unreliable" /\ count < JUMP_TIME THEN count + 1 ELSE count
            /\ UNCHANGED <<stage, search>>
       ELSE Jumps(NextLoop[stage]) /\ UNCHANGED <<at, count, search>>

\* Not the code: x stays where the step too far left it.
GoBackForgotten ==
    /\ Goes("back")
    /\ Says(<<at[1] + 1, at[2]>>)
    /\ UNCHANGED <<at, stage, count, search>>

GoBack ==
    /\ Goes("back")
    /\ at' = <<at[1] + 1, at[2]>> /\ Says(at')
    /\ UNCHANGED <<stage, count, search>>

\* Not the code: after the step back, the step to the left is tried again.
StartsOver(p, g) ==
    CASE p = "back" -> "left"
      [] p = "left" /\ g = "colder" -> "back"
      [] p \in {"right", "up"} /\ g = "colder" -> NextLoop[p]
      [] OTHER -> p

\* The loop after the guidance g in loop p.
WalkOn(p, g) ==
    CASE p = "back" -> "up"
      [] p = "left" /\ g = "colder" -> "back"
      [] p \in {"right", "up"} /\ g = "colder" -> NextLoop[p]
      [] OTHER -> p
-----------------------------------------------------------------------------
\* scan_player: to the corner, then row by row, each from its last x.
ToCorner ==
    /\ Thinks /\ stage \in {"x0", "y0"}
    /\ LET next == IF stage = "x0" THEN "y0" ELSE "row"
           p == IF stage = "x0" THEN <<0, at[2]>> ELSE <<0, 0>>
       IN  IF at[IF stage = "x0" THEN 1 ELSE 2] # 0
           THEN Says(p) /\ stage' = next
           ELSE Jumps(next)
    /\ at' = IF stage = "y0" THEN <<at[1], 0>> ELSE at
    /\ UNCHANGED <<count, search>>

Row ==
    /\ Goes("row")
    /\ IF at[2] <= MAX_POSITION
       THEN Says(<<MAX_POSITION, at[2]>>) /\ stage' = "cell"
       ELSE Jumps("lost")
    /\ count' = 0 /\ UNCHANGED <<at, search>>

Cell ==
    /\ Goes("cell")
    /\ IF count <= MAX_POSITION
       THEN /\ Says(<<count, at[2]>>)
            /\ count' = count + 1 /\ UNCHANGED <<at, stage>>
       ELSE Jumps("row") /\ at' = <<at[1], at[2] + 1>> /\ UNCHANGED count
    /\ UNCHANGED search
-----------------------------------------------------------------------------
\* jump_player: a search along x, then one along y.
On(a) == IF axis = 1 THEN <<a, at[2]>> ELSE <<at[1], a>>

Loop ==
    /\ Goes("loop")
    /\ IF lo < hi THEN Jumps("far") /\ amt' = 1 /\ UNCHANGED <<axis, lo, hi>>
       ELSE IF axis = 1 THEN Jumps("loop") /\ axis' = 2 /\ lo' = 0 /\ hi' = MAX_POSITION /\ UNCHANGED amt
       ELSE Jumps("lost") /\ UNCHANGED search
    /\ UNCHANGED <<at, count>>

Leap(amount, a) ==
    /\ amt' = amount /\ at' = On(a) /\ Says(On(a))
    /\ UNCHANGED <<stage, count, axis, lo, hi>>

Far ==
    /\ Goes("far")
    /\ LET a == at[axis]
           amount == IF a + amt > hi THEN hi - a ELSE amt
       IN  IF a < hi THEN Leap(amount, a + amount)
           ELSE Jumps("near") /\ amt' = 1 /\ UNCHANGED <<at, count, axis, lo, hi>>

\* Not the code: a leap towards smaller values is never shortened.
Unclipped(a) == amt

\* The leap is shortened to end at 0, not at lo.
Clipped(a) == IF a - amt < 0 THEN a ELSE amt

Near ==
    /\ Goes("near")
    /\ LET a == at[axis]
       IN  IF a > lo THEN Leap(Clipped(a), a - Clipped(a))
           ELSE Jumps("loop") /\ UNCHANGED <<at, count, search>>

\* Not the code: a leap that got hotter bounds the target by where it ends.
WholeLeap(amount) == 0

\* Half of a leap that got hotter.
HalfLeap(amount) == IF amount = 1 THEN 0 ELSE amount \div 2

\* A leap that got hotter moves the bound behind, any other the one ahead.
Narrow(g) ==
    LET a == at[axis]
    IN  IF g = "hotter"
        THEN /\ amt' = 2 * amt /\ UNCHANGED stage
             /\ IF stage = "far" THEN lo' = a - HalfLeap(amt) /\ UNCHANGED hi
                ELSE hi' = a + HalfLeap(amt) /\ UNCHANGED lo
        ELSE IF stage = "far" THEN hi' = a /\ stage' = "near" /\ amt' = 1 /\ UNCHANGED lo
             ELSE lo' = a /\ stage' = "loop" /\ UNCHANGED <<amt, hi>>
-----------------------------------------------------------------------------
\* garbled_player and distracted_player: n moves along the row, then scraps.
Beside(p) == IF p[1] < MAX_POSITION THEN <<p[1] + 1, p[2]>> ELSE <<p[1] - 1, p[2]>>

Hover ==
    /\ Goes("hover") /\ count < init[1] + init[2]
    /\ at' = Beside(at) /\ Says(Beside(at))
    /\ count' = count + 1
    /\ UNCHANGED <<stage, search>>

\* "%d\n" with x-y, in two to four bytes, or the first bytes of a position line; the pipe that
\* nobody writes to any more, empty or not, is read as a partial line.
WriteScrap ==
    /\ Goes("hover") /\ count >= init[1] + init[2]
    /\ LET p == Beside(at)
           minus == IF at[1] < at[2] THEN <<45>> ELSE << >>
       IN  IF program = "garbled"
           THEN /\ said' = minus \o Digits(Abs(at[1] - at[2])) \o <<10>>
                /\ exit' = "exit0" /\ UNCHANGED at
           ELSE /\ said' = <<0>> \o SubSeq(write_position(p), 1, (p[1] + p[2]) % 7)
                /\ exit' = "looping" /\ at' = p
    /\ UNCHANGED <<target, limits, place, told, program, init, stage, count, search, listens>>
-----------------------------------------------------------------------------
\* Not the code: whoever wins returns 0.
AllWell == "exit0"

\* won() of fumble_player and unreliable_player, and what the others return.
won ==
    CASE program \in Hoverers -> "exit1"
      [] program \in {"scan", "step", "jump"} -> "exit0"
      [] Abs(init[1] - init[2]) < 5 -> "exit1"
      [] program = "fumble" \/ init[1] < 10 -> "signaled"
      [] OTHER -> "exit0"

\* In GoBack the guidance is read and forgotten.  run_tournament passes
\* everything on but "wrong!".
ReadGuidance ==
    /\ exit = "none" /\ listens /\ told \notin {"none", "wrong!"}
    /\ UNCHANGED <<target, limits, place, said>>
    /\ IF told = "winner" /\ stage # "back"
       THEN exit' = won /\ UNCHANGED <<told, program, init, at, stage, count, search, listens>>
       ELSE /\ told' = "none" /\ listens' = FALSE
            /\ CASE program \in Walkers -> stage' = WalkOn(stage, told) /\ UNCHANGED search
                 [] program = "jump" -> Narrow(told) /\ UNCHANGED axis
                 [] OTHER -> UNCHANGED <<stage, search>>
            /\ UNCHANGED <<program, init, at, count, exit>>

BoardMaker == (DealPlace \/ JudgeLine) /\ UNCHANGED programVars

BoardPlayer ==
    \/ ReadPosition \/ ReadGuidance
    \/ Walk \/ GoBack \/ ToCorner \/ Row \/ Cell \/ Loop \/ Far \/ Near \/ Hover \/ WriteScrap

Over == exit # "none" \/ told = "wrong!"
BoardStopped == Over /\ said = << >> /\ UNCHANGED boardVars

BoardNext == BoardMaker \/ BoardPlayer \/ BoardStopped

BoardSpec == BoardInit /\ [][BoardNext]_boardVars /\ WF_boardVars(BoardMaker) /\ WF_boardVars(BoardPlayer)
-----------------------------------------------------------------------------
\* Only the players that are made to go wrong are told "wrong!", nobody leaves
\* the board, which jump_player does not although it clips its leaps at 0 and
\* not at lo, and nobody has tried everything in vain ("should win before
\* getting here", jump_player.c).
PlaysFair ==
    /\ stage # "lost"
    /\ told = "wrong!" => program \in Hoverers \cup {"unreliable"}
    /\ place # << >> => place \in Position

\* What a player believes when it thinks: it is where the game maker has it
\* (step, unreliable and others go by x and y that they count themselves), and
\* jump_player's lo and hi have the target's x or y between them; when it
\* turns to y, its x is the target's.
SamePlace == program # "scan" => at = place
JumpBrackets ==
    program = "jump" =>
        /\ target[axis] \in lo..hi
        /\ axis = 2 => at[1] = target[1]
KnowsWhere == Thinks => SamePlace /\ JumpBrackets

\* What test.rkt expects of a game played alone.  scan, step and jump win and
\* end well.  fumble_player always ends up with the same number of wins and
\* failures (Shell Assignment); garbled_player and distracted_player take a
\* bad step, or end badly if they come across the target before.
Wins == program \in {"scan", "step", "jump"} => told = "winner" /\ exit = "exit0"
Fails ==
    /\ program = "fumble" => told = "winner" /\ exit \in {"exit1", "signaled"}
    /\ program \in Hoverers => told = "wrong!" \/ (told = "winner" /\ exit = "exit1")
EndsAsExpected == <>(Wins /\ Fails)
=============================================================================
