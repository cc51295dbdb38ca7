---------------------------- MODULE BoardProofs ----------------------------
(***************************************************************************)
(* BoardPlayers for every size of the board, target, distance and          *)
(* JUMP_TIME: the players move legally, know where they are and never come *)
(* to the end of their search without the target.                          *)
(***************************************************************************)
EXTENDS BoardPlayers, SequenceTheorems, TLAPS

\* Where the game maker has the player when its last move was judged.
Spot ==
    CASE program = "scan" /\ stage = "y0" -> <<0, at[2]>>
      [] program = "scan" /\ stage = "row" -> IF at[2] = 0 THEN <<0, 0>> ELSE <<MAX_POSITION, at[2] - 1>>
      [] program = "scan" /\ stage = "cell" -> <<IF count = 0 THEN MAX_POSITION ELSE count - 1, at[2]>>
      [] OTHER -> at

Moving == exit = "none" /\ listens /\ said # << >>
Hearing == exit = "none" /\ listens /\ said = << >> /\ told # "wrong!"
OneAxis(p, q) == (p[1] # q[1]) # (p[2] # q[2])

Labels ==
    [scan |-> {"x0", "y0", "row", "cell"}, step |-> DOMAIN NextLoop \cup {"back"},
     fumble |-> DOMAIN NextLoop \cup {"back"}, unreliable |-> DOMAIN NextLoop \cup {"back"},
     jump |-> {"loop", "far", "near"}, garbled |-> {"hover"}, distracted |-> {"hover"}]

Typed ==
    /\ target \in Position
    /\ place = << >> => limits \in Limits
    /\ program \in Programs
    /\ place # << >> => place \in Position
    /\ stage = "start" \/ stage \in Labels[program]
    /\ listens \in BOOLEAN
    /\ told \in {"none", "winner", "hotter", "colder", "steady", "wrong!"}

\* Before the start is read.
Fresh ==
    stage = "start" =>
        /\ said = << >> /\ told = "none" /\ ~listens /\ exit = "none" /\ place # target
        /\ count = 0 /\ axis = 1 /\ lo = 0 /\ hi = MAX_POSITION /\ amt = 1

Playing ==
    stage # "start" =>
        /\ place \in Position /\ init \in Position
        /\ at \in (0..MAX_POSITION) \X (0..BOARD_SIZE)
        /\ count \in Nat

\* A player thinks after its move was judged, and only if that was not the
\* winning one.
Turns ==
    /\ Thinks => said = << >> /\ told = "none" /\ place = Spot /\ place # target
    /\ listens => stage # "start"
    /\ Moving =>
          /\ told = "none" /\ said = write_position(Spot) /\ Spot \in Position /\ place # target
          /\ \/ OneAxis(place, Spot)
             \/ program = "unreliable" /\ place[1] # at[1] /\ place[2] # at[2]
    /\ Hearing => told # "none" /\ place = Spot /\ (told = "winner" <=> place = target)
    /\ told = "wrong!" => said = << >>
    /\ told = "wrong!" => program \in Hoverers \cup {"unreliable"}
    /\ exit # "none" => said = << >> \/ (program \in Hoverers /\ ~Legal(PassedOn(said)))

\* step_player and its two relatives: where the target is in each loop; in
\* "back" the player is one step too far to the left.
WalkerKnows ==
    program \in Walkers =>
        /\ Thinks => CASE stage = "left" -> at[1] >= target[1]
                       [] stage = "back" -> at[1] = target[1] - 1 /\ at[2] # target[2]
                       [] stage = "up" -> at[1] = target[1]
                       [] stage = "down" -> at[1] = target[1] /\ at[2] > target[2]
                       [] OTHER -> TRUE
        /\ Moving /\ OneAxis(place, at) =>
              CASE stage = "right" -> at = <<place[1] + 1, place[2]>>
                [] stage = "left" -> at = <<place[1] - 1, place[2]>> /\ place[1] >= target[1]
                [] stage = "back" -> at = <<place[1] + 1, place[2]>> /\ at[1] = target[1] /\ at[2] # target[2]
                [] stage = "up" -> at = <<place[1], place[2] + 1>> /\ at[1] = target[1]
                [] stage = "down" -> at = <<place[1], place[2] - 1>> /\ at[1] = target[1] /\ at[2] >= target[2]
        /\ Hearing =>
              CASE stage = "right" -> told = "colder" => at[1] > target[1]
                [] stage = "left" -> IF told = "colder" THEN at[1] = target[1] - 1 /\ at[2] # target[2]
                                                     ELSE at[1] >= target[1]
                [] stage = "back" -> at[1] = target[1] /\ at[2] # target[2]
                [] stage = "up" -> at[1] = target[1] /\ (told = "colder" => at[2] > target[2])
                [] stage = "down" -> at[1] = target[1] /\ at[2] >= target[2]

\* scan_player: the target is not in the rows and the cells before.
ScanKnows ==
    program = "scan" =>
        /\ stage \in {"x0", "y0"} => at \in Position
        /\ stage \in {"row", "cell"} => target[2] >= at[2]
        /\ stage = "cell" => count \in 0..BOARD_SIZE /\ (target[2] = at[2] => target[1] >= count - 1)

(***************************************************************************)
(* jump_player: the target's coordinate is between lo and hi.  A leap      *)
(* towards smaller values may end below lo, because it is clipped at 0     *)
(* only; the loop goes on then, because hi is still beyond lo.  That takes *)
(* a bound of the leaps by lo: one that is clipped and odd cannot bring hi *)
(* down to lo.                                                             *)
(***************************************************************************)
A == at[axis]
T == target[axis]
Even(n) == n % 2 = 0

InLoop == (lo = 0 /\ hi = MAX_POSITION) \/ (A <= lo /\ (A < lo => lo < hi))
FarThinks == A <= hi /\ amt <= A + 1 /\ (lo = 0 \/ A + amt <= 4 * lo + 1)
FarLeapt == amt <= A /\ A <= hi /\ 2 * amt <= A + 1 /\ (lo = 0 \/ A <= 4 * lo + 1)
NearThinks ==
    /\ A < lo => lo < hi
    /\ amt = 1 \/ Even(amt)
    /\ lo = 0 \/ A + amt - 1 <= 4 * lo + 1
NearLeapt ==
    /\ A + amt <= MAX_POSITION
    /\ amt = 1 \/ Even(amt) \/ (A = 0 /\ (lo = 0 \/ 2 * amt <= 4 * lo + 1))
    /\ lo = 0 \/ A + 2 * amt - 1 <= 4 * lo + 1

\* Where a leap came from, and what the guidance says of it.
Behind == IF stage = "far" THEN A - amt ELSE A + amt
HearsRight == told = "hotter" <=> (A # T \/ at[3 - axis] # target[3 - axis]) /\ Abs(A - T) < Abs(Behind - T)

JumpKnows ==
    program = "jump" /\ stage # "start" =>
        /\ at \in Position
        /\ axis \in {1, 2} /\ lo \in 0..MAX_POSITION /\ hi \in 0..MAX_POSITION /\ amt \in Nat \ {0}
        /\ T \in lo..hi
        /\ axis = 2 => at[1] = target[1]
        /\ Thinks => CASE stage = "loop" -> InLoop [] stage = "far" -> FarThinks [] stage = "near" -> NearThinks
        /\ listens => CASE stage = "far" -> FarLeapt [] stage = "near" -> NearLeapt [] OTHER -> FALSE
        /\ Moving => place[axis] = Behind /\ place[3 - axis] = at[3 - axis]
        /\ Hearing => HearsRight

IInv == Typed /\ Fresh /\ Playing /\ Turns /\ WalkerKnows /\ ScanKnows /\ JumpKnows

LEMMA BoardSize ==
    MAX_POSITION \in Nat /\ MAX_POSITION >= 3 /\ MAX_POSITION <= 99 /\ BOARD_SIZE = MAX_POSITION + 1
BY BoardAssumption DEF BOARD_SIZE

LEMMA Coordinates ==
    ASSUME NEW p \in Position
    PROVE  /\ p[1] \in 0..MAX_POSITION /\ p[2] \in 0..MAX_POSITION /\ p[1] \in 0..99 /\ p[2] \in 0..99
           /\ p[1] \in Int /\ p[2] \in Int /\ p = <<p[1], p[2]>> /\ p # << >>
<1>1. PICK x \in 0..MAX_POSITION, y \in 0..MAX_POSITION : p = <<x, y>>
  BY DEF Position
<1>2. x \in 0..99 /\ y \in 0..99 /\ x \in Int /\ y \in Int
  BY BoardSize
<1> QED
  BY <1>1, <1>2

LEMMA Square ==
    \A x, y \in 0..MAX_POSITION : <<x, y>> \in Position
BY DEF Position

\* A line that a player writes is read back by the game maker.
LEMMA DigitsOf ==
    ASSUME NEW n \in 0..99
    PROVE  \E d, u \in 48..57 : Digits(n) = <<d, u>> /\ (d - 48) * 10 + u - 48 = n
<1>1. PICK d, u : d = n \div 10 /\ u = n % 10
  OBVIOUS
<1>2. d \in 0..9 /\ u \in 0..9 /\ 10 * d + u = n
  BY <1>1
<1>3. PICK a, b : a = 48 + d /\ b = 48 + u
  OBVIOUS
<1>4. a \in 48..57 /\ b \in 48..57 /\ (a - 48) * 10 + b - 48 = n
  BY <1>2, <1>3
<1>5. Digits(n) = <<a, b>>
  BY <1>1, <1>3 DEF Digits, Digit
<1> QED
  BY <1>4, <1>5

LEMMA Written ==
    ASSUME NEW p \in Position
    PROVE  LET w == write_position(p)
           IN  /\ Len(w) = 7 /\ w # << >>
               /\ w[1] = Digits(p[1])[1] /\ w[2] = Digits(p[1])[2]
               /\ w[3] = 44 /\ w[4] = 32 /\ w[7] = 10
               /\ w[5] = Digits(p[2])[1] /\ w[6] = Digits(p[2])[2]
<1>1. PICK s, t : s = Digits(p[1]) /\ t = Digits(p[2])
  OBVIOUS
<1>2. p[1] \in 0..99 /\ p[2] \in 0..99
  BY Coordinates
<1>3. s \in Seq(Int) /\ t \in Seq(Int) /\ Len(s) = 2 /\ Len(t) = 2
  <2>1. ASSUME NEW n \in 0..99
        PROVE  Digits(n) \in Seq(Int) /\ Len(Digits(n)) = 2
    <3>1. PICK x, y \in 48..57 : Digits(n) = <<x, y>>
      BY DigitsOf
    <3> QED
      BY <3>1
  <2> QED
    BY <1>1, <1>2, <2>1
<1>4. PICK m, e : m = <<44, 32>> /\ e = <<10>>
  OBVIOUS
<1>5. /\ m \in Seq(Int) /\ Len(m) = 2 /\ m[1] = 44 /\ m[2] = 32
      /\ e \in Seq(Int) /\ Len(e) = 1 /\ e[1] = 10
  BY <1>4
<1>6. PICK u : u = s \o m
  OBVIOUS
<1>7. u \in Seq(Int) /\ Len(u) = 4 /\ \A i \in 1..4 : u[i] = IF i <= 2 THEN s[i] ELSE m[i - 2]
  <2>1. s \in Seq(Int) /\ m \in Seq(Int) /\ Len(s) = 2 /\ Len(m) = 2
    BY <1>3, <1>5
  <2>2. /\ u \in Seq(Int) /\ Len(u) = Len(s) + Len(m)
        /\ \A i \in 1..Len(s) + Len(m) : u[i] = IF i <= Len(s) THEN s[i] ELSE m[i - Len(s)]
    BY <1>6, <2>1, ConcatProperties
  <2>3. Len(s) + Len(m) = 4
    BY <2>1
  <2> QED
    BY <2>1, <2>2, <2>3
<1>8. PICK v : v = u \o t
  OBVIOUS
<1>9. v \in Seq(Int) /\ Len(v) = 6 /\ \A i \in 1..6 : v[i] = IF i <= 4 THEN u[i] ELSE t[i - 4]
  <2>1. u \in Seq(Int) /\ t \in Seq(Int) /\ Len(u) = 4 /\ Len(t) = 2
    BY <1>3, <1>7
  <2>2. /\ v \in Seq(Int) /\ Len(v) = Len(u) + Len(t)
        /\ \A i \in 1..Len(u) + Len(t) : v[i] = IF i <= Len(u) THEN u[i] ELSE t[i - Len(u)]
    BY <1>8, <2>1, ConcatProperties
  <2>3. Len(u) + Len(t) = 6
    BY <2>1
  <2> QED
    BY <2>1, <2>2, <2>3
<1>10. PICK w : w = v \o e
  OBVIOUS
<1>11. w \in Seq(Int) /\ Len(w) = 7 /\ \A i \in 1..7 : w[i] = IF i <= 6 THEN v[i] ELSE e[i - 6]
  <2>1. v \in Seq(Int) /\ e \in Seq(Int) /\ Len(v) = 6 /\ Len(e) = 1
    BY <1>5, <1>9
  <2>2. /\ w \in Seq(Int) /\ Len(w) = Len(v) + Len(e)
        /\ \A i \in 1..Len(v) + Len(e) : w[i] = IF i <= Len(v) THEN v[i] ELSE e[i - Len(v)]
    BY <1>10, <2>1, ConcatProperties
  <2>3. Len(v) + Len(e) = 7
    BY <2>1
  <2> QED
    BY <2>1, <2>2, <2>3
<1>12. w = write_position(p)
  BY <1>1, <1>4, <1>6, <1>8, <1>10 DEF write_position
<1>13. /\ w[1] = v[1] /\ w[2] = v[2] /\ w[3] = v[3] /\ w[4] = v[4] /\ w[5] = v[5] /\ w[6] = v[6] /\ w[7] = 10
  BY <1>5, <1>11
<1>14. /\ v[1] = u[1] /\ v[2] = u[2] /\ v[3] = u[3] /\ v[4] = u[4] /\ v[5] = t[1] /\ v[6] = t[2]
  BY <1>9
<1>15. u[1] = s[1] /\ u[2] = s[2] /\ u[3] = 44 /\ u[4] = 32
  BY <1>5, <1>7
<1>16. w # << >>
  <2>1. Len(w) = 7 /\ Len(<< >>) = 0
    BY <1>11
  <2> QED
    BY <2>1
<1>17. Len(w) = 7
  BY <1>11
<1>18. /\ w[1] = s[1] /\ w[2] = s[2] /\ w[3] = 44 /\ w[4] = 32 /\ w[5] = t[1] /\ w[6] = t[2] /\ w[7] = 10
  BY <1>13, <1>14, <1>15
<1> QED
  BY <1>1, <1>12, <1>16, <1>17, <1>18

LEMMA WriteReads ==
    ASSUME NEW p \in Position
    PROVE  /\ write_position(p) # << >> /\ PassedOn(write_position(p)) = write_position(p)
           /\ parse_position(write_position(p)) = [ok |-> TRUE, at |-> p]
<1>1. PICK w : w = write_position(p)
  OBVIOUS
<1>2. PICK a, b, c, d : a = Digits(p[1])[1] /\ b = Digits(p[1])[2] /\ c = Digits(p[2])[1] /\ d = Digits(p[2])[2]
  OBVIOUS
<1>3. p[1] \in 0..99 /\ p[2] \in 0..99
  BY Coordinates
<1>4. /\ a \in 48..57 /\ b \in 48..57 /\ c \in 48..57 /\ d \in 48..57
      /\ (a - 48) * 10 + b - 48 = p[1] /\ (c - 48) * 10 + d - 48 = p[2]
  <2>1. ASSUME NEW n \in 0..99
        PROVE  /\ Digits(n)[1] \in 48..57 /\ Digits(n)[2] \in 48..57
               /\ (Digits(n)[1] - 48) * 10 + Digits(n)[2] - 48 = n
    <3>1. PICK x, y \in 48..57 : Digits(n) = <<x, y>> /\ (x - 48) * 10 + y - 48 = n
      BY DigitsOf
    <3> QED
      BY <3>1
  <2> QED
    BY <1>2, <1>3, <2>1
<1>5. /\ Len(w) = 7 /\ w # << >> /\ w[1] = a /\ w[2] = b /\ w[3] = 44 /\ w[4] = 32
      /\ w[5] = c /\ w[6] = d /\ w[7] = 10
  BY <1>1, <1>2, Written
<1>6. PICK y : y = SubSeq(w, 5, 6)
  OBVIOUS
<1>7. y[1] = c /\ y[2] = d
  <2>1. \A i \in 5..6 : w[i] \in Int
    BY <1>4, <1>5
  <2>2. \A i \in 1..2 : y[i] = w[5 + i - 1]
    BY <1>6, <2>1, SubSeqProperties
  <2> QED
    BY <1>5, <2>2
<1>8. parse_a_number(w) = [ok |-> TRUE, n |-> p[1]]
  BY <1>4, <1>5 DEF parse_a_number, IsDigit
<1>9. parse_a_number(y) = [ok |-> TRUE, n |-> p[2]]
  BY <1>4, <1>7 DEF parse_a_number, IsDigit
<1>10. p = <<p[1], p[2]>>
  BY Coordinates
<1>11. PICK nx, ny : nx = parse_a_number(w) /\ ny = parse_a_number(y)
  OBVIOUS
<1>12. nx.ok = TRUE /\ nx.n = p[1] /\ ny.ok = TRUE /\ ny.n = p[2]
  BY <1>8, <1>9, <1>11
<1>13. parse_position(w) = [ok |-> nx.ok /\ w[3] = 44 /\ w[4] = 32 /\ ny.ok /\ w[7] = 10, at |-> <<nx.n, ny.n>>]
  BY <1>6, <1>11 DEF parse_position
<1>14. parse_position(w) = [ok |-> TRUE, at |-> p]
  BY <1>5, <1>10, <1>12, <1>13
<1> QED
  BY <1>1, <1>5, <1>14 DEF PassedOn

\* So a move of one coordinate is legal, and any other is not.
LEMMA LegalMove ==
    ASSUME NEW q \in Position
    PROVE  /\ Legal(PassedOn(write_position(q))) <=> OneAxis(place, q)
           /\ parse_position(PassedOn(write_position(q))).at = q
BY WriteReads DEF Legal, OneAxis

\* What garbled_player and distracted_player write in the end is no move.
LEMMA NoMove ==
    /\ ~Legal(Broken)
    /\ \A s : s[1] = 0 => ~Legal(s)
<1>1. Broken[1] = 98
  BY DEF Broken
<1>2. \A s : s[1] \in {0, 98} => parse_position(s).ok = FALSE
  <2>1. TAKE s
  <2>2. HAVE s[1] \in {0, 98}
  <2>3. ~IsDigit(s[1])
    BY <2>2 DEF IsDigit
  <2>4. parse_a_number(s).ok = FALSE
    BY <2>3 DEF parse_a_number, IsDigit
  <2> QED
    BY <2>4 DEF parse_position
<1> QED
  BY <1>1, <1>2 DEF Legal

LEMMA Distances ==
    /\ \A n \in Int : Abs(n) \in Nat /\ (n >= 0 => Abs(n) = n) /\ (n <= 0 => Abs(n) = -n)
    /\ \A p, q \in Position :
          /\ distance_to(p, q) \in Nat /\ (distance_to(p, q) = 0 <=> p = q)
          /\ distance_to(p, q) = Abs(p[1] - q[1]) + Abs(p[2] - q[2])
<1>1. \A n \in Int : Abs(n) \in Nat /\ (n >= 0 => Abs(n) = n) /\ (n <= 0 => Abs(n) = -n) /\ (Abs(n) = 0 => n = 0)
  BY DEF Abs
<1>2. ASSUME NEW p \in Position, NEW q \in Position
      PROVE  /\ distance_to(p, q) \in Nat /\ (distance_to(p, q) = 0 <=> p = q)
             /\ distance_to(p, q) = Abs(p[1] - q[1]) + Abs(p[2] - q[2])
  <2>1. /\ p[1] \in Int /\ p[2] \in Int /\ q[1] \in Int /\ q[2] \in Int
        /\ p = <<p[1], p[2]>> /\ q = <<q[1], q[2]>>
    BY Coordinates
  <2>2. PICK u, v : u = Abs(p[1] - q[1]) /\ v = Abs(p[2] - q[2])
    OBVIOUS
  <2>3. u \in Nat /\ v \in Nat /\ (u = 0 <=> p[1] = q[1]) /\ (v = 0 <=> p[2] = q[2])
    BY <1>1, <2>1, <2>2
  <2>4. p = q <=> p[1] = q[1] /\ p[2] = q[2]
    BY <2>1
  <2> QED
    BY <2>2, <2>3, <2>4 DEF distance_to
<1> QED
  BY <1>1, <1>2

LEMMA GuidanceSays ==
    ASSUME NEW p \in Position, NEW q \in Position, NEW goal \in Position
    PROVE  LET before == distance_to(p, goal)
               after == distance_to(q, goal)
               g == Compare(before, after)
           IN  /\ g \in {"winner", "hotter", "colder", "steady"}
               /\ g = "winner" <=> q = goal
               /\ g = "hotter" <=> q # goal /\ after < before
               /\ g = "colder" <=> after > before
<1>1. PICK b, a : b = distance_to(p, goal) /\ a = distance_to(q, goal)
  OBVIOUS
<1>2. b \in Nat /\ a \in Nat /\ (a = 0 <=> q = goal)
  BY <1>1, Distances
<1>3. /\ Compare(b, a) \in {"winner", "hotter", "colder", "steady"}
      /\ (Compare(b, a) = "winner" <=> a = 0)
      /\ (Compare(b, a) = "hotter" <=> a # 0 /\ a < b)
      /\ (Compare(b, a) = "colder" <=> a > b)
  BY <1>2 DEF Compare
<1> QED
  BY <1>1, <1>2, <1>3

\* Which programs the steps and loops belong to.
LEMMA Kinds ==
    ASSUME Typed
    PROVE  /\ program \in AllPrograms
           /\ stage \in {"right", "left", "up", "down", "back"} <=> program \in Walkers /\ stage # "start"
           /\ stage \in {"x0", "y0", "row", "cell"} <=> program = "scan" /\ stage # "start"
           /\ stage \in {"loop", "far", "near"} <=> program = "jump" /\ stage # "start"
           /\ stage = "hover" <=> program \in Hoverers /\ stage # "start"
<1>1. program \in AllPrograms /\ (stage = "start" \/ stage \in Labels[program])
  BY ProgramsAssumption DEF Typed
<1>2. DOMAIN NextLoop = {"right", "left", "up", "down"}
  BY DEF NextLoop
<1>3. /\ program = "scan" => Labels[program] = {"x0", "y0", "row", "cell"}
      /\ program \in Walkers => Labels[program] = {"right", "left", "up", "down", "back"}
      /\ program = "jump" => Labels[program] = {"loop", "far", "near"}
      /\ program \in Hoverers => Labels[program] = {"hover"}
  BY <1>2 DEF Labels, Walkers, Hoverers
<1>4. /\ program = "scan" \/ program = "jump" \/ program \in Walkers \/ program \in Hoverers
      /\ program = "scan" => program \notin Walkers \cup Hoverers
      /\ program = "jump" => program \notin Walkers \cup Hoverers
      /\ program \in Walkers => program \notin Hoverers /\ program # "scan" /\ program # "jump"
      /\ program \in Hoverers => program \notin Walkers /\ program # "scan" /\ program # "jump"
  BY <1>1 DEF AllPrograms, Walkers, Hoverers
<1>5. CASE program = "scan"
  BY <1>1, <1>3, <1>4, <1>5
<1>6. CASE program = "jump"
  BY <1>1, <1>3, <1>4, <1>6
<1>7. CASE program \in Walkers
  BY <1>1, <1>3, <1>4, <1>7
<1>8. CASE program \in Hoverers
  BY <1>1, <1>3, <1>4, <1>8
<1> QED
  BY <1>4, <1>5, <1>6, <1>7, <1>8

LEMMA Apart ==
    ASSUME program \in AllPrograms
    PROVE  /\ program = "scan" \/ program = "jump" \/ program \in Walkers \/ program \in Hoverers
           /\ program \in Walkers => program \notin Hoverers /\ program # "scan" /\ program # "jump"
           /\ program \in Hoverers => program \notin Walkers /\ program # "scan" /\ program # "jump"
BY DEF AllPrograms, Walkers, Hoverers

LEMMA InitKeeps == BoardInit => IInv
<1> SUFFICES ASSUME BoardInit PROVE IInv
  OBVIOUS
<1>1. target \in Position /\ limits \in Limits /\ place = << >> /\ said = << >> /\ told = "none"
  BY BoardAssumption DEF BoardInit, MakerInit
<1>2. /\ program \in Programs /\ stage = "start" /\ count = 0 /\ axis = 1 /\ lo = 0 /\ hi = MAX_POSITION
      /\ amt = 1 /\ listens = FALSE /\ exit = "none"
  BY DEF BoardInit
<1>3. target # << >>
  BY <1>1, Coordinates
<1>4. Typed
  BY <1>1, <1>2 DEF Typed
<1>5. Fresh /\ Playing
  BY <1>1, <1>2, <1>3 DEF Fresh, Playing
<1>6. Turns
  BY <1>1, <1>2 DEF Turns, Thinks, Moving, Hearing
<1>7. WalkerKnows
  BY <1>2 DEF WalkerKnows, Thinks, Moving, Hearing
<1>8. ScanKnows /\ JumpKnows
  BY <1>2 DEF ScanKnows, JumpKnows
<1> QED
  BY <1>4, <1>5, <1>6, <1>7, <1>8 DEF IInv

LEMMA DealKeeps ==
    ASSUME IInv, DealPlace, UNCHANGED programVars
    PROVE  IInv'
<1>1. /\ place = << >> /\ UNCHANGED <<target, said, told>>
      /\ UNCHANGED <<program, stage, count, axis, lo, hi, amt, listens, exit>>
  BY DEF DealPlace, programVars, search
<1>2. stage = "start"
  BY <1>1, Coordinates DEF IInv, Playing
<1>3. target \in Position /\ limits \in Limits
  BY <1>1 DEF IInv, Typed
<1>4. place' \in Position /\ distance_to(place', target) \in limits[1]..limits[2]
  BY DEF DealPlace, Kept
<1>5. place' # target /\ place' # << >>
  <2>1. limits[1] \in Nat /\ limits[1] > 0 /\ limits[2] \in Int
    <3>1. limits[1] \in 1..BOARD_SIZE-2 /\ limits[2] \in limits[1]..BOARD_SIZE-2
      BY <1>3, BoardAssumption
    <3> QED
      BY <3>1, BoardSize
  <2>2. distance_to(place', target) # 0
    BY <1>4, <2>1
  <2> QED
    BY <1>3, <1>4, <2>2, Distances, Coordinates
<1>6. Typed'
  BY <1>1, <1>4, <1>5 DEF IInv, Typed
<1>7. Fresh' /\ Playing'
  BY <1>1, <1>2, <1>5 DEF IInv, Fresh, Playing
<1>8. Turns'
  BY <1>1, <1>2 DEF IInv, Fresh, Turns, Thinks, Moving, Hearing
<1>9. WalkerKnows'
  BY <1>1, <1>2 DEF IInv, Fresh, WalkerKnows, Thinks, Moving, Hearing
<1>10. ScanKnows' /\ JumpKnows'
  BY <1>1, <1>2 DEF ScanKnows, JumpKnows
<1> QED
  BY <1>6, <1>7, <1>8, <1>9, <1>10 DEF IInv

LEMMA ReadPositionKeeps ==
    ASSUME IInv, ReadPosition
    PROVE  IInv'
<1>1. /\ stage = "start" /\ place # << >> /\ init' = place /\ at' = place
      /\ UNCHANGED <<target, limits, place, said, told>>
      /\ UNCHANGED <<program, count, axis, lo, hi, amt, listens, exit>>
  BY DEF ReadPosition, gameVars, search
<1>2. /\ said = << >> /\ told = "none" /\ ~listens /\ exit = "none" /\ place # target
      /\ count = 0 /\ axis = 1 /\ lo = 0 /\ hi = MAX_POSITION /\ amt = 1
  BY <1>1 DEF IInv, Fresh
<1>3. place \in Position /\ target \in Position /\ program \in AllPrograms
  BY <1>1, Kinds DEF IInv, Typed
<1>4. /\ program = "scan" => stage' = "x0"
      /\ program = "jump" => stage' = "loop"
      /\ program \in Walkers => stage' = "right"
      /\ program \in Hoverers => stage' = "hover"
  BY <1>3, Apart DEF ReadPosition
<1>5. stage' # "start" /\ stage' \in Labels[program]
  <2>1. DOMAIN NextLoop = {"right", "left", "up", "down"}
    BY DEF NextLoop
  <2>2. /\ program = "scan" => stage' \in Labels[program]
        /\ program = "jump" => stage' \in Labels[program]
        /\ program \in Walkers => stage' \in Labels[program]
        /\ program \in Hoverers => stage' \in Labels[program]
    BY <1>4, <2>1 DEF Labels, Walkers, Hoverers
  <2> QED
    BY <1>3, <1>4, <2>2, Apart
<1>6. Typed'
  BY <1>1, <1>5 DEF IInv, Typed
<1>7. Fresh' /\ Playing'
  <2>1. at' \in (0..MAX_POSITION) \X (0..BOARD_SIZE)
    BY <1>1, <1>3, BoardSize DEF Position
  <2> QED
    BY <1>1, <1>2, <1>3, <1>5, <2>1 DEF Fresh, Playing
<1>8. Spot' = at'
  BY <1>1, <1>3, <1>4, Apart DEF Spot
<1>9. Turns'
  BY <1>1, <1>2, <1>5, <1>8 DEF Turns, Thinks, Moving, Hearing
<1>10. WalkerKnows'
  BY <1>1, <1>2, <1>4 DEF WalkerKnows, Thinks, Moving, Hearing
<1>11. ScanKnows'
  BY <1>1, <1>3, <1>4 DEF ScanKnows
<1>12. JumpKnows'
  <2>1. SUFFICES ASSUME program = "jump"
                 PROVE  JumpKnows'
    BY <1>1 DEF JumpKnows
  <2>2. stage' = "loop" /\ ~listens'
    BY <1>1, <1>2, <1>4, <2>1
  <2>3. /\ at' \in Position /\ axis' = 1 /\ lo' = 0 /\ hi' = MAX_POSITION /\ amt' = 1
        /\ target'[1] \in 0..MAX_POSITION /\ MAX_POSITION \in Nat
    BY <1>1, <1>2, <1>3, Coordinates, BoardSize
  <2>4. InLoop' /\ T' \in lo'..hi'
    BY <2>3 DEF InLoop, T
  <2> QED
    BY <1>1, <1>2, <2>2, <2>3, <2>4 DEF JumpKnows, Thinks, Moving, Hearing
<1> QED
  BY <1>6, <1>7, <1>9, <1>10, <1>11, <1>12 DEF IInv

\* What a judged move tells the walkers.
LEMMA WalkersHear ==
    ASSUME NEW p \in Position, NEW q \in Position, NEW goal \in Position, NEW g,
           p # goal, g = Compare(distance_to(p, goal), distance_to(q, goal))
    PROVE  /\ q = <<p[1] + 1, p[2]>> /\ g = "colder" => q[1] > goal[1]
           /\ q = <<p[1] - 1, p[2]>> /\ p[1] >= goal[1] =>
                 IF g = "colder" THEN q[1] = goal[1] - 1 /\ q[2] # goal[2] ELSE q[1] >= goal[1]
           /\ q = <<p[1], p[2] + 1>> /\ g = "colder" => q[2] > goal[2]
<1>1. PICK a, b, c, d, x, y : a = p[1] /\ b = p[2] /\ c = q[1] /\ d = q[2] /\ x = goal[1] /\ y = goal[2]
  OBVIOUS
<1>2. a \in Int /\ b \in Int /\ c \in Int /\ d \in Int /\ x \in Int /\ y \in Int
  BY <1>1, Coordinates
<1>3. ~(a = x /\ b = y)
  BY <1>1, Coordinates
<1>4. g = "colder" <=> Abs(c - x) + Abs(d - y) > Abs(a - x) + Abs(b - y)
  BY <1>1, GuidanceSays, Distances
<1>5. ASSUME c = a + 1, d = b, g = "colder" PROVE c > x
  BY <1>2, <1>4, <1>5 DEF Abs
<1>6. ASSUME c = a - 1, d = b, a >= x, g = "colder" PROVE c = x - 1 /\ d # y
  BY <1>2, <1>3, <1>4, <1>6 DEF Abs
<1>7. ASSUME c = a - 1, d = b, a >= x, g # "colder" PROVE c >= x
  BY <1>2, <1>3, <1>4, <1>7 DEF Abs
<1>8. ASSUME c = a, d = b + 1, g = "colder" PROVE d > y
  BY <1>2, <1>4, <1>8 DEF Abs
<1>9. /\ q = <<p[1] + 1, p[2]>> => c = a + 1 /\ d = b
      /\ q = <<p[1] - 1, p[2]>> => c = a - 1 /\ d = b
      /\ q = <<p[1], p[2] + 1>> => c = a /\ d = b + 1
  BY <1>1
<1> QED
  BY <1>1, <1>5, <1>6, <1>7, <1>8, <1>9

LEMMA JumpHears ==
    ASSUME NEW p \in Position, NEW q \in Position, NEW goal \in Position, NEW a \in {1, 2}, NEW g,
           p[3 - a] = q[3 - a], g = Compare(distance_to(p, goal), distance_to(q, goal))
    PROVE  g = "hotter" <=> (q[a] # goal[a] \/ q[3 - a] # goal[3 - a]) /\ Abs(q[a] - goal[a]) < Abs(p[a] - goal[a])
<1>1. /\ distance_to(p, goal) = Abs(p[1] - goal[1]) + Abs(p[2] - goal[2])
      /\ distance_to(q, goal) = Abs(q[1] - goal[1]) + Abs(q[2] - goal[2])
  BY Distances
<1>2. g = "hotter" <=> q # goal /\ distance_to(q, goal) < distance_to(p, goal)
  BY GuidanceSays
<1>3. q # goal <=> (q[1] # goal[1] \/ q[2] # goal[2])
  BY Coordinates
<1>4. /\ p[1] \in Int /\ p[2] \in Int /\ q[1] \in Int /\ q[2] \in Int /\ goal[1] \in Int /\ goal[2] \in Int
  BY Coordinates
<1>5. PICK u1, u2, v1, v2 : /\ u1 = Abs(p[1] - goal[1]) /\ u2 = Abs(p[2] - goal[2])
                            /\ v1 = Abs(q[1] - goal[1]) /\ v2 = Abs(q[2] - goal[2])
  OBVIOUS
<1>6. u1 \in Nat /\ u2 \in Nat /\ v1 \in Nat /\ v2 \in Nat
  <2>1. \A n \in Int : Abs(n) \in Nat
    BY DEF Abs
  <2> QED
    BY <1>4, <1>5, <2>1
<1>7. CASE a = 1
  <2>1. p[2] = q[2]
    BY <1>7
  <2>2. u2 = v2
    BY <1>5, <2>1
  <2>3. v1 + v2 < u1 + u2 <=> v1 < u1
    BY <1>6, <2>2
  <2>4. 3 - a = 2
    BY <1>7
  <2> QED
    BY <1>1, <1>2, <1>3, <1>5, <1>7, <2>3, <2>4
<1>8. CASE a = 2
  <2>1. p[1] = q[1]
    BY <1>8
  <2>2. u1 = v1
    BY <1>5, <2>1
  <2>3. v1 + v2 < u1 + u2 <=> v2 < u2
    BY <1>6, <2>2
  <2>4. 3 - a = 1
    BY <1>8
  <2> QED
    BY <1>1, <1>2, <1>3, <1>5, <1>8, <2>3, <2>4
<1> QED
  BY <1>7, <1>8

LEMMA JudgeKeeps ==
    ASSUME IInv, JudgeLine, UNCHANGED programVars
    PROVE  IInv'
<1>1. /\ said # << >> /\ told = "none" /\ said' = << >> /\ UNCHANGED <<target, limits>>
      /\ UNCHANGED <<program, init, at, stage, count, axis, lo, hi, amt, listens, exit>>
  BY DEF JudgeLine, programVars, search
<1>2. stage # "start" /\ place \in Position /\ place # << >> /\ target \in Position /\ program \in AllPrograms
  <2>1. stage # "start"
    BY <1>1 DEF IInv, Fresh
  <2> QED
    BY <2>1, Kinds, Coordinates DEF IInv, Playing, Typed
<1>3. ~Thinks /\ ~Hearing
  BY <1>1 DEF IInv, Turns, Hearing
<1>4. Fresh' /\ ScanKnows'
  BY <1>1, <1>2 DEF IInv, Fresh, ScanKnows
<1>5. CASE exit = "none" /\ OneAxis(place, Spot)
  <2>1. Moving
    BY <1>1, <1>2, <1>3, <1>5 DEF Moving, Thinks
  <2>2. said = write_position(Spot) /\ Spot \in Position /\ place # target
    BY <2>1 DEF IInv, Turns
  <2>3. /\ place' = Spot
        /\ told' = Compare(distance_to(place, target), distance_to(Spot, target))
    BY <1>5, <2>2, LegalMove DEF JudgeLine
  <2>4. /\ told' \in {"winner", "hotter", "colder", "steady"}
        /\ told' = "winner" <=> place' = target
    BY <1>2, <2>2, <2>3, GuidanceSays
  <2>5. ~Thinks' /\ ~Moving' /\ listens'
    BY <1>1, <1>3, <2>1 DEF Thinks, Moving
  <2>6. Spot' = Spot
    BY <1>1 DEF Spot
  <2>7. Typed'
    BY <1>1, <1>2, <2>2, <2>3, <2>4, Coordinates DEF IInv, Typed
  <2>8. Playing'
    BY <1>1, <1>2, <2>2, <2>3 DEF IInv, Playing
  <2>9. Turns'
    BY <1>1, <1>2, <1>5, <2>3, <2>4, <2>5, <2>6 DEF Turns, Hearing
  <2>10. WalkerKnows'
    <3>1. SUFFICES ASSUME program \in Walkers
                   PROVE  WalkerKnows'
      BY <1>1 DEF WalkerKnows
    <3>2. Spot = at
      BY <3>1 DEF Spot, Walkers
    <3>3. /\ at = <<place[1] + 1, place[2]>> /\ told' = "colder" => at[1] > target[1]
          /\ at = <<place[1] - 1, place[2]>> /\ place[1] >= target[1] =>
                IF told' = "colder" THEN at[1] = target[1] - 1 /\ at[2] # target[2] ELSE at[1] >= target[1]
          /\ at = <<place[1], place[2] + 1>> /\ told' = "colder" => at[2] > target[2]
      BY <1>2, <2>2, <2>3, <3>2, WalkersHear
    <3>4. CASE stage = "right"
      <4>1. at = <<place[1] + 1, place[2]>>
        BY <1>5, <2>1, <3>1, <3>2, <3>4 DEF IInv, WalkerKnows
      <4> QED
        BY <1>1, <2>5, <3>3, <3>4, <4>1 DEF WalkerKnows
    <3>5. CASE stage = "left"
      <4>1. at = <<place[1] - 1, place[2]>> /\ place[1] >= target[1]
        BY <1>5, <2>1, <3>1, <3>2, <3>5 DEF IInv, WalkerKnows
      <4> QED
        BY <1>1, <2>5, <3>3, <3>5, <4>1 DEF WalkerKnows
    <3>6. CASE stage = "back"
      <4>1. at[1] = target[1] /\ at[2] # target[2]
        BY <1>5, <2>1, <3>1, <3>2, <3>6 DEF IInv, WalkerKnows
      <4> QED
        BY <1>1, <2>5, <3>6, <4>1 DEF WalkerKnows
    <3>7. CASE stage = "up"
      <4>1. at = <<place[1], place[2] + 1>> /\ at[1] = target[1]
        BY <1>5, <2>1, <3>1, <3>2, <3>7 DEF IInv, WalkerKnows
      <4> QED
        BY <1>1, <2>5, <3>3, <3>7, <4>1 DEF WalkerKnows
    <3>8. CASE stage = "down"
      <4>1. at[1] = target[1] /\ at[2] >= target[2]
        BY <1>5, <2>1, <3>1, <3>2, <3>8 DEF IInv, WalkerKnows
      <4> QED
        BY <1>1, <2>5, <3>8, <4>1 DEF WalkerKnows
    <3>9. stage \in {"right", "left", "up", "down", "back"}
      BY <1>2, <3>1, Kinds DEF IInv
    <3> QED
      BY <3>4, <3>5, <3>6, <3>7, <3>8, <3>9
  <2>11. JumpKnows'
    <3>1. SUFFICES ASSUME program = "jump"
                   PROVE  JumpKnows'
      BY <1>1 DEF JumpKnows
    <3>2. Spot = at
      BY <3>1 DEF Spot
    <3>3. /\ axis \in {1, 2} /\ place[axis] = Behind /\ place[3 - axis] = at[3 - axis]
      BY <1>2, <2>1, <3>1 DEF IInv, JumpKnows
    <3>4. told' = "hotter" <=> (at[axis] # target[axis] \/ at[3 - axis] # target[3 - axis])
                               /\ Abs(at[axis] - target[axis]) < Abs(place[axis] - target[axis])
      BY <1>2, <2>2, <2>3, <3>2, <3>3, JumpHears
    <3>5. A' = A /\ T' = T /\ Behind' = Behind /\ A = at[axis] /\ T = target[axis]
      BY <1>1 DEF A, T, Behind
    <3>6. HearsRight'
      BY <1>1, <3>3, <3>4, <3>5 DEF HearsRight
    <3>7. FarLeapt' = FarLeapt /\ NearLeapt' = NearLeapt
      BY <1>1, <3>5 DEF FarLeapt, NearLeapt, Even
    <3> QED
      BY <1>1, <1>2, <2>5, <3>1, <3>5, <3>6, <3>7 DEF IInv, JumpKnows
  <2> QED
    BY <1>4, <2>7, <2>8, <2>9, <2>10, <2>11 DEF IInv
<1>6. CASE ~(exit = "none" /\ OneAxis(place, Spot))
  <2>1. ~Legal(PassedOn(said)) /\ (exit = "none" \/ program \in Hoverers)
    <3>1. CASE exit = "none"
      <4>1. said = write_position(Spot) /\ Spot \in Position
        BY <1>1, <1>2, <1>3, <3>1 DEF IInv, Turns, Moving, Thinks
      <4> QED
        BY <1>6, <3>1, <4>1, LegalMove
    <3>2. CASE exit # "none"
      BY <1>1, <3>2 DEF IInv, Turns
    <3> QED
      BY <3>1, <3>2
  <2>2. told' = "wrong!" /\ place' = place
    BY <2>1 DEF JudgeLine
  <2>3. program \in Hoverers \cup {"unreliable"}
    <3>1. CASE exit = "none"
      BY <1>1, <1>2, <1>3, <1>6, <3>1 DEF IInv, Turns, Moving, Thinks
    <3> QED
      BY <2>1, <3>1
  <2>4. ~Thinks' /\ ~Moving' /\ ~Hearing'
    BY <1>1, <1>3, <2>2 DEF Thinks, Moving, Hearing
  <2>5. Typed' /\ Playing'
    BY <1>1, <1>2, <2>2 DEF IInv, Typed, Playing
  <2>6. Turns'
    BY <1>1, <1>2, <2>2, <2>3, <2>4 DEF Turns
  <2>7. WalkerKnows'
    BY <2>4 DEF WalkerKnows
  <2>8. JumpKnows'
    <3>1. A' = A /\ T' = T
      BY <1>1 DEF A, T
    <3>2. FarLeapt' = FarLeapt /\ NearLeapt' = NearLeapt
      BY <1>1, <3>1 DEF FarLeapt, NearLeapt, Even
    <3> QED
      BY <1>1, <2>4, <3>1, <3>2 DEF IInv, JumpKnows
  <2> QED
    BY <1>4, <2>5, <2>6, <2>7, <2>8 DEF IInv
<1> QED
  BY <1>5, <1>6

\* What half of a leap is, without division.
LEMMA HalfOf ==
    ASSUME NEW w \in Nat \ {0}
    PROVE  /\ HalfLeap(w) \in Nat /\ 2 * HalfLeap(w) <= w /\ w <= 2 * HalfLeap(w) + 1
           /\ Even(w) => w = 2 * HalfLeap(w)
           /\ Even(2 * w)
<1>1. /\ w \div 2 \in Nat /\ 2 * (w \div 2) <= w /\ w <= 2 * (w \div 2) + 1
      /\ w % 2 = 0 => w = 2 * (w \div 2)
      /\ (2 * w) % 2 = 0
  OBVIOUS
<1>2. w = 1 => w \div 2 = 0
  OBVIOUS
<1>3. HalfLeap(w) = w \div 2
  BY <1>2 DEF HalfLeap
<1> QED
  BY <1>1, <1>3 DEF Even

\* A leap that got hotter passed less than half of its length beyond the
\* target, or did not reach it; one that did not has the target behind it.
LEMMA Narrows ==
    ASSUME NEW b \in Nat, NEW a \in Nat, NEW t \in Nat, NEW w \in Nat \ {0}, NEW h \in Nat,
           2 * h <= w, w <= 2 * h + 1
    PROVE  /\ b = a - w /\ Abs(a - t) < Abs(b - t) => a - h <= t
           /\ b = a - w /\ ~(Abs(a - t) < Abs(b - t)) => t < a
           /\ b = a + w /\ Abs(a - t) < Abs(b - t) => t <= a + h /\ (w = 2 * h => t < a + h)
           /\ b = a + w /\ ~(Abs(a - t) < Abs(b - t)) => a < t
BY DEF Abs

LEMMA ReadGuidanceKeeps ==
    ASSUME IInv, ReadGuidance
    PROVE  IInv'
<1>1. /\ exit = "none" /\ listens /\ told \notin {"none", "wrong!"}
      /\ UNCHANGED <<target, limits, place, said, program, init, at, count, axis>>
  BY DEF ReadGuidance, Narrow, search
<1>2. Hearing /\ said = << >> /\ stage # "start" /\ ~Thinks /\ ~Moving
  BY <1>1 DEF IInv, Turns, Hearing, Moving, Thinks
<1>3. place = Spot /\ (told = "winner" <=> place = target) /\ place \in Position /\ target \in Position
  BY <1>2 DEF IInv, Turns, Typed, Playing
<1>4. program \in AllPrograms
  BY Kinds DEF IInv
<1>5. told = "winner" => stage # "back"
  <2>1. SUFFICES ASSUME stage = "back", told = "winner" PROVE FALSE
    OBVIOUS
  <2>2. program \in Walkers
    BY <2>1, Kinds DEF IInv
  <2>3. Spot = at
    BY <2>2 DEF Spot, Walkers
  <2>4. at[2] # target[2]
    BY <1>2, <2>1, <2>2 DEF IInv, WalkerKnows
  <2> QED
    BY <1>3, <2>1, <2>3, <2>4
<1>6. CASE told = "winner"
  <2>1. exit' = won /\ UNCHANGED <<told, stage, lo, hi, amt, listens>>
    BY <1>5, <1>6 DEF ReadGuidance, search
  <2>2. exit' # "none"
    BY <2>1 DEF won
  <2>3. ~Thinks' /\ ~Moving' /\ ~Hearing'
    BY <2>2 DEF Thinks, Moving, Hearing
  <2>4. Typed' /\ Fresh' /\ Playing'
    BY <1>1, <1>2, <2>1 DEF IInv, Typed, Fresh, Playing
  <2>5. Turns'
    BY <1>1, <1>2, <1>6, <2>1, <2>2, <2>3 DEF Turns
  <2>6. WalkerKnows' /\ ScanKnows'
    BY <1>1, <2>1, <2>3 DEF IInv, WalkerKnows, ScanKnows
  <2>7. JumpKnows'
    <3>1. A' = A /\ T' = T
      BY <1>1 DEF A, T
    <3>2. FarLeapt' = FarLeapt /\ NearLeapt' = NearLeapt
      BY <1>1, <2>1, <3>1 DEF FarLeapt, NearLeapt, Even
    <3> QED
      BY <1>1, <2>1, <2>3, <3>1, <3>2 DEF IInv, JumpKnows
  <2> QED
    BY <2>4, <2>5, <2>6, <2>7 DEF IInv
<1>7. CASE told # "winner"
  <2>1. told' = "none" /\ ~listens' /\ listens' \in BOOLEAN /\ exit' = exit /\ place # target
    BY <1>1, <1>3, <1>7 DEF ReadGuidance
  <2>2. ~Moving' /\ ~Hearing'
    BY <2>1 DEF Moving, Hearing
  <2>3. /\ program \in Walkers => stage' = WalkOn(stage, told) /\ UNCHANGED <<axis, lo, hi, amt>>
        /\ program = "jump" => Narrow(told)
        /\ program # "jump" /\ program \notin Walkers => UNCHANGED <<stage, axis, lo, hi, amt>>
    BY <1>4, <1>7, Apart DEF ReadGuidance, search
  <2>4. /\ program \in Walkers => stage \in {"right", "left", "up", "down", "back"}
        /\ program = "jump" => stage \in {"loop", "far", "near"}
    BY <1>2, Kinds DEF IInv
  <2>5. stage' # "start" /\ stage' \in Labels[program]
    <3>1. CASE program \in Walkers
      <4>1. stage' \in {"right", "left", "up", "down", "back"}
        BY <2>3, <2>4, <3>1 DEF WalkOn, NextLoop
      <4>2. DOMAIN NextLoop = {"right", "left", "up", "down"}
        BY DEF NextLoop
      <4> QED
        BY <3>1, <4>1, <4>2 DEF Labels, Walkers
    <3>2. CASE program = "jump"
      <4>1. stage' \in {"loop", "far", "near"}
        BY <2>3, <2>4, <3>2 DEF Narrow
      <4> QED
        BY <3>2, <4>1 DEF Labels
    <3>3. CASE program # "jump" /\ program \notin Walkers
      BY <1>2, <2>3, <3>3 DEF IInv, Typed
    <3> QED
      BY <3>1, <3>2, <3>3
  <2>6. Typed' /\ Fresh' /\ Playing'
    BY <1>1, <1>2, <1>3, <2>1, <2>5 DEF IInv, Typed, Fresh, Playing
  <2>7. Spot' = Spot
    BY <1>1, <2>3, Apart, <1>4 DEF Spot
  <2>8. Turns'
    BY <1>1, <1>2, <1>3, <2>1, <2>2, <2>5, <2>7 DEF Turns
  <2>9. WalkerKnows'
    <3>1. SUFFICES ASSUME program \in Walkers
                   PROVE  WalkerKnows'
      BY <1>1 DEF WalkerKnows
    <3>2. at = place
      BY <1>3, <3>1 DEF Spot, Walkers
    <3>3. stage' = WalkOn(stage, told)
      BY <2>3, <3>1
    <3>4. CASE stage = "right"
      <4>1. at \in Position
        BY <1>3, <3>2
      <4>2. at[1] \in Int /\ target[1] \in Int /\ (told = "colder" => at[1] > target[1])
        BY <1>2, <1>3, <3>1, <3>4, <4>1, Coordinates DEF IInv, WalkerKnows
      <4>3. stage' = "right" \/ (stage' = "left" /\ at[1] >= target[1])
        BY <3>3, <3>4, <4>2 DEF WalkOn, NextLoop
      <4> QED
        BY <1>1, <2>2, <4>3 DEF WalkerKnows
    <3>5. CASE stage = "left"
      <4>1. IF told = "colder" THEN at[1] = target[1] - 1 /\ at[2] # target[2] ELSE at[1] >= target[1]
        BY <1>2, <3>1, <3>5 DEF IInv, WalkerKnows
      <4>2. stage' = IF told = "colder" THEN "back" ELSE "left"
        BY <3>3, <3>5 DEF WalkOn, NextLoop
      <4> QED
        BY <1>1, <2>2, <4>1, <4>2 DEF WalkerKnows
    <3>6. CASE stage = "back"
      <4>1. at[1] = target[1]
        BY <1>2, <3>1, <3>6 DEF IInv, WalkerKnows
      <4>2. stage' = "up"
        BY <3>3, <3>6 DEF WalkOn
      <4> QED
        BY <1>1, <2>2, <4>1, <4>2 DEF WalkerKnows
    <3>7. CASE stage = "up"
      <4>1. at[1] = target[1] /\ (told = "colder" => at[2] > target[2])
        BY <1>2, <3>1, <3>7 DEF IInv, WalkerKnows
      <4>2. stage' = IF told = "colder" THEN "down" ELSE "up"
        BY <3>3, <3>7 DEF WalkOn, NextLoop
      <4> QED
        BY <1>1, <2>2, <4>1, <4>2 DEF WalkerKnows
    <3>8. CASE stage = "down"
      <4>1. at[1] = target[1] /\ at[2] >= target[2]
        BY <1>2, <3>1, <3>8 DEF IInv, WalkerKnows
      <4>2. at[2] > target[2]
        <5>1. at \in Position /\ at # target
          BY <1>3, <2>1, <3>2
        <5>2. at[2] # target[2] /\ at[2] \in Int /\ target[2] \in Int
          BY <1>3, <4>1, <5>1, Coordinates
        <5> QED
          BY <4>1, <5>2
      <4>3. stage' = "down"
        BY <3>3, <3>8 DEF WalkOn
      <4> QED
        BY <1>1, <2>2, <4>1, <4>2, <4>3 DEF WalkerKnows
    <3> QED
      BY <2>4, <3>1, <3>4, <3>5, <3>6, <3>7, <3>8
  <2>10. ScanKnows'
    BY <1>1, <1>4, <2>3, Apart DEF IInv, ScanKnows
  <2>11. JumpKnows'
    <3>1. SUFFICES ASSUME program = "jump"
                   PROVE  JumpKnows'
      BY <1>1 DEF JumpKnows
    <3>2. at = place
      BY <1>3, <3>1 DEF Spot
    <3>3. /\ at \in Position /\ axis \in {1, 2} /\ lo \in 0..MAX_POSITION /\ hi \in 0..MAX_POSITION
          /\ amt \in Nat \ {0} /\ T \in lo..hi /\ (axis = 2 => at[1] = target[1])
          /\ CASE stage = "far" -> FarLeapt [] stage = "near" -> NearLeapt [] OTHER -> FALSE
          /\ HearsRight
      BY <1>1, <1>2, <3>1 DEF IInv, JumpKnows
    <3>4. A' = A /\ T' = T
      BY <1>1 DEF A, T
    <3>5. PICK a, t, w, h : a = A /\ t = T /\ w = amt /\ h = HalfLeap(amt)
      OBVIOUS
    <3>6. /\ a \in 0..MAX_POSITION /\ a = at[axis] /\ t \in 0..MAX_POSITION /\ MAX_POSITION \in Nat
          /\ lo \in 0..MAX_POSITION /\ hi \in 0..MAX_POSITION /\ t \in lo..hi
      <4>1. /\ at[1] \in 0..MAX_POSITION /\ at[2] \in 0..MAX_POSITION
            /\ target[1] \in 0..MAX_POSITION /\ target[2] \in 0..MAX_POSITION
        BY <1>3, <3>3, Coordinates
      <4>2. a = at[axis] /\ t = target[axis] /\ t \in lo..hi
        BY <3>3, <3>5 DEF A, T
      <4> QED
        BY <3>3, <4>1, <4>2, BoardSize
    <3>7. w \in Nat \ {0} /\ h \in Nat /\ 2 * h <= w /\ w <= 2 * h + 1 /\ (Even(w) => w = 2 * h)
          /\ Even(2 * w)
      <4>1. w \in Nat \ {0} /\ h = HalfLeap(w)
        BY <3>3, <3>5
      <4> QED
        BY <4>1, HalfOf
    <3>8. at[axis] # target[axis] \/ at[3 - axis] # target[3 - axis]
      BY <1>3, <2>1, <3>2, <3>3, Coordinates
    <3>9. /\ Narrow(told)
          /\ told = "hotter" <=> Abs(a - t) < Abs(Behind - t)
      BY <2>3, <3>1, <3>3, <3>5, <3>8 DEF HearsRight, A, T
    <3>10. a \in Nat /\ t \in Nat
      BY <3>6
    <3>11. Spot' = at /\ stage \in {"far", "near"}
      BY <1>3, <2>7, <3>2, <3>3
    <3>12. CASE stage = "far" /\ told = "hotter"
      <4>1. /\ amt' = 2 * w /\ stage' = "far" /\ lo' = a - h /\ hi' = hi
        BY <3>5, <3>6, <3>9, <3>12 DEF Narrow
      <4>2. w <= a /\ a <= hi /\ 2 * w <= a + 1
        BY <3>3, <3>5, <3>12 DEF FarLeapt
      <4>3. Behind = a - w /\ a - w \in Nat
        BY <3>5, <3>6, <3>7, <3>12, <4>2 DEF Behind
      <4>4. a - h <= t
        BY <3>7, <3>9, <3>12, <3>10, <4>3, Narrows
      <4>5. lo' \in 0..MAX_POSITION /\ t \in lo'..hi'
        BY <3>6, <3>7, <4>1, <4>2, <4>4
      <4>6. A' <= hi' /\ amt' <= A' + 1 /\ A' + amt' <= 4 * lo' + 1
        BY <3>4, <3>5, <3>6, <3>7, <4>1, <4>2
      <4>7. FarThinks'
        BY <4>6 DEF FarThinks
      <4>8. amt' \in Nat \ {0}
        BY <3>7, <4>1
      <4>9. T' \in lo'..hi' /\ lo' \in 0..MAX_POSITION /\ hi' \in 0..MAX_POSITION /\ amt' \in Nat \ {0}
        BY <3>3, <3>4, <3>5, <3>6, <4>1, <4>5, <4>7, <4>8
      <4> QED
        BY <1>1, <2>1, <2>2, <3>3, <4>9, <4>1, <4>5, <4>7, <4>8 DEF JumpKnows
    <3>13. CASE stage = "far" /\ told # "hotter"
      <4>1. hi' = a /\ stage' = "near" /\ amt' = 1 /\ lo' = lo
        BY <3>5, <3>6, <3>9, <3>13 DEF Narrow
      <4>2. w <= a /\ (lo = 0 \/ a <= 4 * lo + 1)
        BY <3>3, <3>5, <3>13 DEF FarLeapt
      <4>3. Behind = a - w /\ a - w \in Nat
        BY <3>5, <3>6, <3>7, <3>13, <4>2 DEF Behind
      <4>4. t < a
        BY <3>7, <3>9, <3>13, <3>10, <4>3, Narrows
      <4>5. hi' \in 0..MAX_POSITION /\ t \in lo'..hi' /\ lo' <= a
        BY <3>6, <4>1, <4>4
      <4>6. ~(A' < lo') /\ amt' = 1 /\ (lo' = 0 \/ A' + amt' - 1 <= 4 * lo' + 1)
        BY <3>4, <3>5, <3>6, <4>1, <4>2, <4>5
      <4>7. NearThinks'
        BY <4>6 DEF NearThinks
      <4>8. T' \in lo'..hi' /\ lo' \in 0..MAX_POSITION /\ hi' \in 0..MAX_POSITION /\ amt' \in Nat \ {0}
        BY <3>3, <3>4, <3>5, <3>6, <4>1, <4>5, <4>7
      <4> QED
        BY <1>1, <2>1, <2>2, <3>3, <4>8, <4>1, <4>5, <4>7 DEF JumpKnows
    <3>14. CASE stage = "near" /\ told = "hotter"
      <4>1. amt' = 2 * w /\ stage' = "near" /\ hi' = a + h /\ lo' = lo
        BY <3>5, <3>6, <3>9, <3>14 DEF Narrow
      <4>2. /\ a + w <= MAX_POSITION
            /\ w = 1 \/ Even(w) \/ (a = 0 /\ (lo = 0 \/ 2 * w <= 4 * lo + 1))
            /\ lo = 0 \/ a + 2 * w - 1 <= 4 * lo + 1
        BY <3>3, <3>5, <3>14 DEF NearLeapt
      <4>3. Behind = a + w /\ a + w \in Nat
        BY <3>5, <3>6, <3>7, <3>14 DEF Behind
      <4>4. t <= a + h /\ (w = 2 * h => t < a + h)
        BY <3>7, <3>9, <3>14, <3>10, <4>3, Narrows
      <4>5. hi' \in 0..MAX_POSITION /\ t \in lo'..hi'
        BY <3>6, <3>7, <4>1, <4>2, <4>4
      <4>6. a < lo => lo < a + h
        <5>1. CASE w = 1
          BY <3>6, <3>7, <4>4, <5>1
        <5>2. CASE Even(w)
          BY <3>6, <3>7, <4>4, <5>2
        <5>3. CASE a = 0 /\ (lo = 0 \/ 2 * w <= 4 * lo + 1)
          BY <3>6, <3>7, <4>4, <5>3
        <5> QED
          BY <4>2, <5>1, <5>2, <5>3
      <4>7. Even(amt') /\ (A' < lo' => lo' < hi') /\ (lo' = 0 \/ A' + amt' - 1 <= 4 * lo' + 1)
        BY <3>4, <3>5, <3>7, <4>1, <4>2, <4>6
      <4>8. NearThinks'
        BY <4>7 DEF NearThinks, Even
      <4>9. amt' \in Nat \ {0}
        BY <3>7, <4>1
      <4>10. T' \in lo'..hi' /\ lo' \in 0..MAX_POSITION /\ hi' \in 0..MAX_POSITION /\ amt' \in Nat \ {0}
        BY <3>3, <3>4, <3>5, <3>6, <4>1, <4>5, <4>8, <4>9
      <4> QED
        BY <1>1, <2>1, <2>2, <3>3, <4>10, <4>1, <4>5, <4>8, <4>9 DEF JumpKnows
    <3>15. CASE stage = "near" /\ told # "hotter"
      <4>1. lo' = a /\ stage' = "loop" /\ amt' = amt /\ hi' = hi
        BY <3>5, <3>6, <3>9, <3>15 DEF Narrow
      <4>2. Behind = a + w /\ a + w \in Nat
        BY <3>5, <3>6, <3>7, <3>15 DEF Behind
      <4>3. a < t
        BY <3>7, <3>9, <3>15, <3>10, <4>2, Narrows
      <4>4. lo' \in 0..MAX_POSITION /\ t \in lo'..hi'
        BY <3>6, <4>1, <4>3
      <4>5. InLoop'
        BY <3>4, <3>5, <3>6, <4>1 DEF InLoop
      <4>6. T' \in lo'..hi' /\ lo' \in 0..MAX_POSITION /\ hi' \in 0..MAX_POSITION /\ amt' \in Nat \ {0}
        BY <3>3, <3>4, <3>5, <3>6, <4>1, <4>4, <4>5
      <4> QED
        BY <1>1, <2>1, <2>2, <3>3, <4>6, <4>1, <4>4, <4>5 DEF JumpKnows
    <3> QED
      BY <3>11, <3>12, <3>13, <3>14, <3>15
  <2> QED
    BY <2>6, <2>8, <2>9, <2>10, <2>11 DEF IInv
<1> QED
  BY <1>6, <1>7

\* A player that thinks, one that writes a move and one that jumps.
LEMMA Thinking ==
    ASSUME IInv, Thinks
    PROVE  /\ exit = "none" /\ ~listens /\ stage # "start" /\ said = << >> /\ told = "none"
           /\ place = Spot /\ place # target /\ place \in Position /\ target \in Position
           /\ program \in AllPrograms /\ count \in Nat /\ at \in (0..MAX_POSITION) \X (0..BOARD_SIZE)
BY Kinds DEF IInv, Thinks, Turns, Typed, Playing

LEMMA Writing ==
    ASSUME IInv, Thinks, NEW q \in Position, Says(q), q = Spot',
           stage' # "start", stage' \in Labels[program],
           at' \in (0..MAX_POSITION) \X (0..BOARD_SIZE), count' \in Nat,
           OneAxis(place, q) \/ (program = "unreliable" /\ place[1] # at'[1] /\ place[2] # at'[2])
    PROVE  Typed' /\ Fresh' /\ Playing' /\ Turns' /\ ~Thinks' /\ ~Hearing'
<1>1. /\ said' = write_position(q) /\ listens' = TRUE
      /\ UNCHANGED <<target, limits, place, told, program, init, exit>>
  BY DEF Says
<1>2. said' # << >>
  BY <1>1, WriteReads
<1>3. Typed' /\ Fresh' /\ Playing'
  BY <1>1, Thinking DEF IInv, Typed, Fresh, Playing
<1>4. ~Thinks' /\ ~Hearing'
  BY <1>1, <1>2 DEF Thinks, Hearing
<1>5. said' = write_position(Spot') /\ Spot' \in Position
  BY <1>1
<1>6. OneAxis(place', Spot') \/ (program' = "unreliable" /\ place'[1] # at'[1] /\ place'[2] # at'[2])
  BY <1>1 DEF OneAxis
<1>7. Turns'
  BY <1>1, <1>4, <1>5, <1>6, Thinking DEF Turns
<1> QED
  BY <1>3, <1>4, <1>7

LEMMA Jumping ==
    ASSUME IInv, Thinks, NEW p, Jumps(p), p # "start", p \in Labels[program],
           at' \in (0..MAX_POSITION) \X (0..BOARD_SIZE), count' \in Nat, Spot' = Spot
    PROVE  Typed' /\ Fresh' /\ Playing' /\ Turns' /\ ~Moving' /\ ~Hearing'
<1>1. stage' = p /\ UNCHANGED <<target, limits, place, said, told, program, init, listens, exit>>
  BY DEF Jumps, gameVars
<1>2. Typed' /\ Fresh' /\ Playing'
  BY <1>1, Thinking DEF IInv, Typed, Fresh, Playing
<1>3. ~Moving' /\ ~Hearing'
  BY <1>1, Thinking DEF Moving, Hearing
<1>4. Turns'
  BY <1>1, <1>3, Thinking DEF Turns
<1> QED
  BY <1>2, <1>3, <1>4

LEMMA Onward ==
    /\ DOMAIN NextLoop = {"right", "left", "up", "down"}
    /\ NextLoop["right"] = "left" /\ NextLoop["left"] = "up" /\ NextLoop["up"] = "down" /\ NextLoop["down"] = "lost"
BY DEF NextLoop

LEMMA WalkKeeps ==
    ASSUME IInv, Walk
    PROVE  IInv'
<1>1. Thinks /\ stage \in {"right", "left", "up", "down"}
  BY Onward DEF Walk
<1>2. program \in Walkers
  BY <1>1, Kinds DEF IInv
<1>3. at = place /\ at \in Position /\ target \in Position /\ at # target /\ count \in Nat
  BY <1>1, <1>2, Thinking DEF Spot, Walkers
<1>4. PICK x, y, tx, ty : x = at[1] /\ y = at[2] /\ tx = target[1] /\ ty = target[2]
  OBVIOUS
<1>5. /\ x \in 0..MAX_POSITION /\ y \in 0..MAX_POSITION /\ tx \in 0..MAX_POSITION /\ ty \in 0..MAX_POSITION
      /\ x # tx \/ y # ty
      /\ MAX_POSITION \in Nat /\ MAX_POSITION >= 3
  BY <1>3, <1>4, Coordinates, BoardSize
<1>6. /\ stage = "left" => x >= tx
      /\ stage = "up" => x = tx
      /\ stage = "down" => x = tx /\ y > ty
  <2>1. CASE stage = "right"
    BY <2>1
  <2>2. CASE stage = "left"
    BY <1>1, <1>2, <1>4, <2>2 DEF IInv, WalkerKnows
  <2>3. CASE stage = "up"
    BY <1>1, <1>2, <1>4, <2>3 DEF IInv, WalkerKnows
  <2>4. CASE stage = "down"
    BY <1>1, <1>2, <1>4, <2>4 DEF IInv, WalkerKnows
  <2> QED
    BY <1>1, <2>1, <2>2, <2>3, <2>4
<1>7. CASE Ahead
  <2>1. /\ at' = Walked /\ Says(Walked) /\ UNCHANGED <<stage, axis, lo, hi, amt>>
        /\ count' = IF program = "unreliable" /\ count < JUMP_TIME THEN count + 1 ELSE count
    BY <1>7 DEF Walk, search
  <2>2. /\ stage = "right" => x < MAX_POSITION
        /\ stage = "left" => x > 0
        /\ stage = "up" => y < MAX_POSITION
        /\ stage = "down" => y > 0
    BY <1>4, <1>7 DEF Ahead
  <2>3. PICK s, t : s = (IF Stray THEN change(x) ELSE x) /\ t = (IF Stray THEN change(y) ELSE y)
    OBVIOUS
  <2>4. /\ s \in 0..MAX_POSITION /\ t \in 0..MAX_POSITION
        /\ Stray => s # x /\ t # y
        /\ ~Stray => s = x /\ t = y
    BY <1>5, <2>3 DEF change
  <2>5. PICK u, v : /\ stage = "right" => u = x + 1 /\ v = t
                    /\ stage = "left" => u = x - 1 /\ v = t
                    /\ stage = "up" => u = s /\ v = y + 1
                    /\ stage = "down" => u = s /\ v = y - 1
    <3>1. CASE stage = "right"
      BY <3>1
    <3>2. CASE stage = "left"
      BY <3>2
    <3>3. CASE stage = "up"
      BY <3>3
    <3>4. CASE stage = "down"
      BY <3>4
    <3> QED
      BY <1>1, <3>1, <3>2, <3>3, <3>4
  <2>6. Walked = <<u, v>>
    BY <1>1, <1>4, <2>3, <2>5 DEF Walked
  <2>7. u \in 0..MAX_POSITION /\ v \in 0..MAX_POSITION
    BY <1>1, <1>5, <2>2, <2>4, <2>5
  <2>8. Walked \in Position /\ at'[1] = u /\ at'[2] = v
    BY <2>1, <2>6, <2>7, Square
  <2>9. /\ Stray => x # u /\ y # v
        /\ ~Stray => (x # u) # (y # v)
    BY <1>1, <1>5, <2>4, <2>5
  <2>10. IF Stray THEN ~OneAxis(place, Walked) ELSE OneAxis(place, Walked)
    BY <1>3, <1>4, <2>6, <2>9 DEF OneAxis
  <2>11. program' = program /\ target' = target /\ place' = place
    BY <2>1 DEF Says
  <2>12. Walked = Spot'
    BY <1>2, <2>1, <2>11 DEF Spot, Walkers
  <2>13. at' \in (0..MAX_POSITION) \X (0..BOARD_SIZE) /\ count' \in Nat
    BY <1>3, <2>1, <2>6, <2>7, BoardSize
  <2>14. OneAxis(place, Walked) \/ (program = "unreliable" /\ place[1] # at'[1] /\ place[2] # at'[2])
    BY <1>3, <1>4, <2>8, <2>9, <2>10 DEF Stray
  <2>15. stage' # "start" /\ stage' \in Labels[program]
    BY <1>1, <2>1, Thinking DEF IInv, Typed
  <2>16. Typed' /\ Fresh' /\ Playing' /\ Turns' /\ ~Thinks' /\ ~Hearing'
    BY <1>1, <2>1, <2>8, <2>12, <2>13, <2>14, <2>15, Writing
  <2>17. WalkerKnows'
    <3>1. SUFFICES ASSUME OneAxis(place, Walked)
                   PROVE  WalkerKnows'
      BY <2>1, <2>11, <2>16 DEF WalkerKnows, OneAxis
    <3>2. s = x /\ t = y
      BY <2>4, <2>10, <3>1
    <3>3. CASE stage = "right"
      <4>1. at' = <<place'[1] + 1, place'[2]>>
        BY <1>3, <1>4, <2>1, <2>5, <2>6, <2>11, <3>2, <3>3
      <4> QED
        BY <2>1, <2>16, <3>3, <4>1 DEF WalkerKnows
    <3>4. CASE stage = "left"
      <4>1. at' = <<place'[1] - 1, place'[2]>> /\ place'[1] >= target'[1]
        BY <1>3, <1>4, <1>6, <2>1, <2>5, <2>6, <2>11, <3>2, <3>4
      <4> QED
        BY <2>1, <2>16, <3>4, <4>1 DEF WalkerKnows
    <3>5. CASE stage = "up"
      <4>1. at' = <<place'[1], place'[2] + 1>> /\ at'[1] = target'[1]
        BY <1>3, <1>4, <1>6, <2>1, <2>5, <2>6, <2>8, <2>11, <3>2, <3>5
      <4> QED
        BY <2>1, <2>16, <3>5, <4>1 DEF WalkerKnows
    <3>6. CASE stage = "down"
      <4>1. at' = <<place'[1], place'[2] - 1>> /\ at'[1] = target'[1] /\ v >= ty
        BY <1>3, <1>4, <1>5, <1>6, <2>1, <2>5, <2>6, <2>8, <2>11, <3>2, <3>6
      <4>2. at'[2] >= target'[2]
        BY <1>4, <2>8, <2>11, <4>1
      <4> QED
        BY <2>1, <2>16, <3>6, <4>1, <4>2 DEF WalkerKnows
    <3> QED
      BY <1>1, <3>3, <3>4, <3>5, <3>6
  <2>18. ScanKnows' /\ JumpKnows'
    BY <1>2, <2>11 DEF ScanKnows, JumpKnows, Walkers
  <2> QED
    BY <2>16, <2>17, <2>18 DEF IInv
<1>8. CASE ~Ahead
  <2>1. Jumps(NextLoop[stage]) /\ UNCHANGED <<at, count, axis, lo, hi, amt>>
    BY <1>8 DEF Walk, search
  <2>2. /\ stage = "right" => x >= MAX_POSITION
        /\ stage = "left" => x <= 0
        /\ stage = "up" => y >= MAX_POSITION
        /\ stage = "down" => y <= 0
    <3>1. /\ stage = "right" => ~(at[1] < MAX_POSITION)
          /\ stage = "left" => ~(at[1] > 0)
          /\ stage = "up" => ~(at[2] < MAX_POSITION)
          /\ stage = "down" => ~(at[2] > 0)
      BY <1>8 DEF Ahead
    <3> QED
      BY <1>4, <1>5, <3>1
  <2>3. /\ stage = "right" => x >= tx
        /\ stage = "left" => x = tx
        /\ stage = "up" => x = tx /\ y > ty
        /\ stage # "down"
    BY <1>1, <1>5, <1>6, <2>2
  <2>4. stage' = NextLoop[stage] /\ NextLoop[stage] \in {"left", "up", "down"} /\ program' = program /\ target' = target
    BY <1>1, <2>1, <2>3, Onward DEF Jumps, gameVars
  <2>5. NextLoop[stage] \in Labels[program] /\ NextLoop[stage] # "start"
    BY <1>2, <2>4, Onward DEF Labels, Walkers
  <2>6. Spot' = Spot
    BY <1>2, <2>1, <2>4 DEF Spot, Walkers
  <2>7. at' \in (0..MAX_POSITION) \X (0..BOARD_SIZE) /\ count' \in Nat
    BY <1>1, <2>1, Thinking
  <2>8. Typed' /\ Fresh' /\ Playing' /\ Turns' /\ ~Moving' /\ ~Hearing'
    BY <1>1, <2>1, <2>5, <2>6, <2>7, Jumping
  <2>9. WalkerKnows'
    <3>1. CASE stage = "right"
      BY <1>4, <2>1, <2>3, <2>4, <2>8, <3>1, Onward DEF WalkerKnows
    <3>2. CASE stage = "left"
      BY <1>4, <2>1, <2>3, <2>4, <2>8, <3>2, Onward DEF WalkerKnows
    <3>3. CASE stage = "up"
      BY <1>4, <2>1, <2>3, <2>4, <2>8, <3>3, Onward DEF WalkerKnows
    <3> QED
      BY <1>1, <2>3, <3>1, <3>2, <3>3
  <2>10. ScanKnows' /\ JumpKnows'
    BY <1>2, <2>4 DEF ScanKnows, JumpKnows, Walkers
  <2> QED
    BY <2>8, <2>9, <2>10 DEF IInv
<1> QED
  BY <1>7, <1>8

LEMMA GoBackKeeps ==
    ASSUME IInv, GoBack
    PROVE  IInv'
<1>1. Thinks /\ stage = "back"
  BY DEF GoBack, Goes
<1>2. program \in Walkers
  BY <1>1, Kinds DEF IInv
<1>3. at = place /\ at \in Position /\ target \in Position /\ count \in Nat
  BY <1>1, <1>2, Thinking DEF Spot, Walkers
<1>4. at[1] = target[1] - 1 /\ at[2] # target[2]
  BY <1>1, <1>2 DEF IInv, WalkerKnows
<1>5. PICK q : q = <<at[1] + 1, at[2]>>
  OBVIOUS
<1>6. at' = q /\ Says(q) /\ UNCHANGED <<stage, count, axis, lo, hi, amt>>
  BY <1>5 DEF GoBack, search, Says
<1>7. q[1] = target[1] /\ q[2] = at[2] /\ q[1] \in 0..MAX_POSITION /\ q[2] \in 0..MAX_POSITION /\ q[1] # at[1]
  <2>1. /\ at[2] \in 0..MAX_POSITION /\ target[1] \in 0..MAX_POSITION /\ at[1] \in Int /\ target[1] \in Int
    BY <1>3, Coordinates
  <2>2. at[1] + 1 = target[1] /\ at[1] + 1 # at[1]
    BY <1>4, <2>1
  <2> QED
    BY <1>5, <2>1, <2>2
<1>8. q \in Position
  <2>1. q = <<q[1], q[2]>>
    BY <1>5
  <2> QED
    BY <1>7, <2>1, Square
<1>9. OneAxis(place, q)
  BY <1>3, <1>7 DEF OneAxis
<1>10. program' = program /\ target' = target /\ place' = place
  BY <1>6 DEF Says
<1>11. q = Spot'
  BY <1>2, <1>6, <1>10 DEF Spot, Walkers
<1>12. at' \in (0..MAX_POSITION) \X (0..BOARD_SIZE) /\ count' \in Nat
  BY <1>3, <1>6, <1>8, BoardSize DEF Position
<1>13. stage' # "start" /\ stage' \in Labels[program]
  BY <1>1, <1>6, Thinking DEF IInv, Typed
<1>14. Typed' /\ Fresh' /\ Playing' /\ Turns' /\ ~Thinks' /\ ~Hearing'
  BY <1>1, <1>6, <1>8, <1>9, <1>11, <1>12, <1>13, Writing
<1>15. WalkerKnows'
  <2>1. at' = <<place'[1] + 1, place'[2]>> /\ at'[1] = target'[1] /\ at'[2] # target'[2]
    BY <1>3, <1>4, <1>5, <1>6, <1>7, <1>10
  <2> QED
    BY <1>1, <1>6, <1>14, <2>1 DEF WalkerKnows
<1>16. ScanKnows' /\ JumpKnows'
  BY <1>2, <1>10 DEF ScanKnows, JumpKnows, Walkers
<1> QED
  BY <1>14, <1>15, <1>16 DEF IInv

LEMMA ToCornerKeeps ==
    ASSUME IInv, ToCorner
    PROVE  IInv'
<1>1. Thinks /\ stage \in {"x0", "y0"} /\ count' = count
  BY DEF ToCorner
<1>2. program = "scan" /\ at \in Position
  BY <1>1, Kinds DEF IInv, ScanKnows
<1>3. place \in Position /\ place = Spot /\ target \in Position /\ count \in Nat
  BY <1>1, Thinking
<1>4. PICK x \in 0..MAX_POSITION, y \in 0..MAX_POSITION : at = <<x, y>>
  BY <1>2 DEF Position
<1>5. MAX_POSITION \in Nat /\ MAX_POSITION >= 3 /\ BOARD_SIZE = MAX_POSITION + 1 /\ target[2] >= 0
  BY <1>3, BoardSize, Coordinates
<1>6. WalkerKnows' /\ JumpKnows' /\ program' = program /\ target' = target
  <2>1. program' = program /\ target' = target
    BY DEF ToCorner, Says, Jumps, gameVars
  <2> QED
    BY <1>2, <2>1 DEF WalkerKnows, JumpKnows, Walkers
<1>7. CASE stage = "x0"
  <2>1. Spot = <<x, y>> /\ at' = at
    BY <1>2, <1>4, <1>7 DEF Spot, ToCorner
  <2>2. CASE x # 0
    <3>1. PICK q : q = <<0, y>>
      OBVIOUS
    <3>2. Says(q) /\ stage' = "y0"
      BY <1>4, <1>7, <2>2, <3>1 DEF ToCorner
    <3>3. q \in Position /\ q[1] = 0 /\ q[2] = y
      BY <1>5, <3>1, Square
    <3>4. q = Spot'
      BY <1>2, <1>4, <1>6, <2>1, <3>1, <3>2 DEF Spot
    <3>5. OneAxis(place, q)
      BY <1>3, <1>4, <2>1, <2>2, <3>3 DEF OneAxis
    <3>6. Typed' /\ Fresh' /\ Playing' /\ Turns'
      BY <1>1, <1>2, <1>3, <2>1, <3>2, <3>3, <3>4, <3>5, Writing, Thinking DEF Labels
    <3>7. ScanKnows'
      BY <1>2, <2>1, <3>2 DEF ScanKnows
    <3> QED
      BY <1>6, <3>6, <3>7 DEF IInv
  <2>3. CASE x = 0
    <3>1. Jumps("y0")
      BY <1>4, <1>7, <2>3 DEF ToCorner
    <3>2. stage' = "y0"
      BY <3>1 DEF Jumps
    <3>3. Spot' = Spot
      BY <1>2, <1>4, <1>6, <2>1, <2>3, <3>2 DEF Spot
    <3>4. Typed' /\ Fresh' /\ Playing' /\ Turns'
      BY <1>1, <1>2, <1>3, <2>1, <3>1, <3>3, Jumping, Thinking DEF Labels
    <3>5. ScanKnows'
      BY <1>2, <2>1, <3>2 DEF ScanKnows
    <3> QED
      BY <1>6, <3>4, <3>5 DEF IInv
  <2> QED
    BY <1>4, <2>2, <2>3
<1>8. CASE stage = "y0"
  <2>1. Spot = <<0, y>> /\ at' = <<x, 0>>
    BY <1>2, <1>4, <1>8 DEF Spot, ToCorner
  <2>2. at'[2] = 0 /\ at' \in (0..MAX_POSITION) \X (0..BOARD_SIZE)
    BY <1>5, <2>1
  <2>3. CASE y # 0
    <3>1. PICK q : q = <<0, 0>>
      OBVIOUS
    <3>2. Says(q) /\ stage' = "row"
      BY <1>4, <1>8, <2>3, <3>1 DEF ToCorner
    <3>3. q \in Position /\ q[1] = 0 /\ q[2] = 0
      BY <1>5, <3>1, Square
    <3>4. q = Spot'
      BY <1>2, <1>6, <2>2, <3>1, <3>2 DEF Spot
    <3>5. OneAxis(place, q)
      BY <1>3, <2>1, <2>3, <3>3 DEF OneAxis
    <3>6. Typed' /\ Fresh' /\ Playing' /\ Turns'
      BY <1>1, <1>2, <1>3, <2>2, <3>2, <3>3, <3>4, <3>5, Writing DEF Labels
    <3>7. ScanKnows'
      BY <1>5, <1>6, <2>2, <3>2 DEF ScanKnows
    <3> QED
      BY <1>6, <3>6, <3>7 DEF IInv
  <2>4. CASE y = 0
    <3>1. Jumps("row")
      BY <1>4, <1>8, <2>4 DEF ToCorner
    <3>2. stage' = "row"
      BY <3>1 DEF Jumps
    <3>3. Spot' = Spot
      BY <1>2, <1>6, <2>1, <2>2, <2>4, <3>2 DEF Spot
    <3>4. Typed' /\ Fresh' /\ Playing' /\ Turns'
      BY <1>1, <1>2, <1>3, <2>2, <3>1, <3>3, Jumping DEF Labels
    <3>5. ScanKnows'
      BY <1>5, <1>6, <2>2, <3>2 DEF ScanKnows
    <3> QED
      BY <1>6, <3>4, <3>5 DEF IInv
  <2> QED
    BY <1>4, <2>3, <2>4
<1> QED
  BY <1>1, <1>7, <1>8

LEMMA RowKeeps ==
    ASSUME IInv, Row
    PROVE  IInv'
<1>1. Thinks /\ stage = "row" /\ count' = 0 /\ at' = at
  BY DEF Row, Goes
<1>2. program = "scan" /\ target[2] >= at[2]
  BY <1>1, Kinds DEF IInv, ScanKnows
<1>3. /\ place \in Position /\ place = Spot /\ target \in Position
      /\ at \in (0..MAX_POSITION) \X (0..BOARD_SIZE)
  BY <1>1, Thinking
<1>4. PICK y : y = at[2]
  OBVIOUS
<1>5. /\ MAX_POSITION \in Nat /\ MAX_POSITION >= 3 /\ BOARD_SIZE = MAX_POSITION + 1
      /\ target[1] \in Nat /\ target[2] \in 0..MAX_POSITION
  BY <1>3, BoardSize, Coordinates
<1>6. y \in 0..MAX_POSITION
  <2>1. y \in 0..BOARD_SIZE
    BY <1>3, <1>4
  <2> QED
    BY <1>2, <1>4, <1>5, <2>1
<1>7. PICK q : q = <<MAX_POSITION, y>>
  OBVIOUS
<1>8. Says(q) /\ stage' = "cell"
  BY <1>4, <1>5, <1>6, <1>7 DEF Row
<1>9. program' = program /\ target' = target
  BY <1>8 DEF Says
<1>10. q \in Position /\ q[1] = MAX_POSITION /\ q[2] = y
  BY <1>5, <1>6, <1>7, Square
<1>11. q = Spot'
  BY <1>1, <1>2, <1>4, <1>7, <1>8, <1>9 DEF Spot
<1>12. OneAxis(place, q)
  <2>1. CASE y = 0
    <3>1. place = <<0, 0>>
      BY <1>1, <1>2, <1>3, <1>4, <2>1 DEF Spot
    <3> QED
      BY <1>5, <1>10, <2>1, <3>1 DEF OneAxis
  <2>2. CASE y # 0
    <3>1. place = <<MAX_POSITION, y - 1>>
      BY <1>1, <1>2, <1>3, <1>4, <2>2 DEF Spot
    <3>2. y - 1 # y
      BY <1>6
    <3> QED
      BY <1>10, <3>1, <3>2 DEF OneAxis
  <2> QED
    BY <2>1, <2>2
<1>13. Typed' /\ Fresh' /\ Playing' /\ Turns'
  BY <1>1, <1>2, <1>3, <1>8, <1>10, <1>11, <1>12, Writing DEF Labels
<1>14. WalkerKnows' /\ JumpKnows'
  BY <1>2, <1>9 DEF WalkerKnows, JumpKnows, Walkers
<1>15. ScanKnows'
  BY <1>1, <1>2, <1>5, <1>8, <1>9 DEF ScanKnows
<1> QED
  BY <1>13, <1>14, <1>15 DEF IInv

LEMMA CellKeeps ==
    ASSUME IInv, Cell
    PROVE  IInv'
<1>1. Thinks /\ stage = "cell"
  BY DEF Cell, Goes
<1>2. /\ program = "scan" /\ target[2] >= at[2] /\ count \in 0..BOARD_SIZE
      /\ target[2] = at[2] => target[1] >= count - 1
  BY <1>1, Kinds DEF IInv, ScanKnows
<1>3. /\ place \in Position /\ place = Spot /\ place # target /\ target \in Position
      /\ at \in (0..MAX_POSITION) \X (0..BOARD_SIZE)
  BY <1>1, Thinking
<1>4. PICK y, tx, ty : y = at[2] /\ tx = target[1] /\ ty = target[2]
  OBVIOUS
<1>5. /\ MAX_POSITION \in Nat /\ MAX_POSITION >= 3 /\ BOARD_SIZE = MAX_POSITION + 1
      /\ tx \in 0..MAX_POSITION /\ ty \in 0..MAX_POSITION /\ target = <<tx, ty>>
  BY <1>3, <1>4, BoardSize, Coordinates
<1>6. y \in 0..MAX_POSITION
  <2>1. y \in 0..BOARD_SIZE
    BY <1>3, <1>4
  <2> QED
    BY <1>2, <1>4, <1>5, <2>1
<1>7. PICK x : x = IF count = 0 THEN MAX_POSITION ELSE count - 1
  OBVIOUS
<1>8. place = <<x, y>> /\ (x # tx \/ y # ty)
  <2>1. place = <<x, y>>
    BY <1>1, <1>2, <1>3, <1>4, <1>7 DEF Spot
  <2> QED
    BY <1>3, <1>5, <2>1
<1>9. target' = target /\ program' = program
  BY DEF Cell, Says, Jumps, gameVars
<1>10. WalkerKnows' /\ JumpKnows'
  BY <1>2, <1>9 DEF WalkerKnows, JumpKnows, Walkers
<1>11. CASE count <= MAX_POSITION
  <2>1. PICK q : q = <<count, y>>
    OBVIOUS
  <2>2. Says(q) /\ count' = count + 1 /\ UNCHANGED <<at, stage>>
    BY <1>4, <1>11, <2>1 DEF Cell
  <2>3. q \in Position /\ q[1] = count /\ q[2] = y
    BY <1>2, <1>5, <1>6, <1>11, <2>1, Square
  <2>4. q = Spot'
    <3>1. count' # 0 /\ count' - 1 = count
      BY <1>2, <2>2
    <3> QED
      BY <1>1, <1>2, <1>4, <1>9, <2>1, <2>2, <3>1 DEF Spot
  <2>5. OneAxis(place, q)
    <3>1. x # count
      BY <1>2, <1>5, <1>7
    <3> QED
      BY <1>8, <2>3, <3>1 DEF OneAxis
  <2>6. count' \in Nat /\ count' \in 0..BOARD_SIZE
    BY <1>2, <1>5, <1>11, <2>2
  <2>7. Typed' /\ Fresh' /\ Playing' /\ Turns'
    BY <1>1, <1>2, <1>3, <2>2, <2>3, <2>4, <2>5, <2>6, Writing DEF Labels
  <2>8. ty = y => tx >= count' - 1
    BY <1>2, <1>4, <1>5, <1>7, <1>8, <2>2
  <2>9. ScanKnows'
    BY <1>1, <1>2, <1>4, <1>9, <2>2, <2>6, <2>8 DEF ScanKnows
  <2> QED
    BY <1>10, <2>7, <2>9 DEF IInv
<1>12. CASE count > MAX_POSITION
  <2>1. Jumps("row") /\ at' = <<at[1], y + 1>> /\ count' = count
    BY <1>2, <1>4, <1>5, <1>12 DEF Cell
  <2>2. stage' = "row"
    BY <2>1 DEF Jumps
  <2>3. count = BOARD_SIZE /\ x = MAX_POSITION
    BY <1>2, <1>5, <1>7, <1>12
  <2>4. ty >= y + 1
    BY <1>2, <1>4, <1>5, <1>6, <1>8, <2>3
  <2>5. at'[2] = y + 1 /\ at' \in (0..MAX_POSITION) \X (0..BOARD_SIZE) /\ count' \in Nat
    <3>1. at[1] \in 0..MAX_POSITION /\ y + 1 \in 0..BOARD_SIZE /\ count \in Nat
      BY <1>2, <1>3, <1>5, <1>6
    <3> QED
      BY <2>1, <3>1
  <2>6. Spot' = Spot
    <3>1. Spot' = <<MAX_POSITION, y>>
      <4>1. at'[2] # 0 /\ at'[2] - 1 = y
        BY <1>6, <2>5
      <4> QED
        BY <1>2, <1>9, <2>2, <4>1 DEF Spot
    <3> QED
      BY <1>3, <1>8, <2>3, <3>1
  <2>7. Typed' /\ Fresh' /\ Playing' /\ Turns'
    BY <1>1, <1>2, <2>1, <2>5, <2>6, Jumping DEF Labels
  <2>8. ScanKnows'
    BY <1>4, <1>9, <2>2, <2>4, <2>5 DEF ScanKnows
  <2> QED
    BY <1>10, <2>7, <2>8 DEF IInv
<1> QED
  BY <1>2, <1>5, <1>11, <1>12

LEMMA Searching ==
    ASSUME IInv, Thinks, program = "jump"
    PROVE  /\ at = place /\ at \in Position /\ target \in Position /\ at # target
           /\ axis \in {1, 2} /\ lo \in 0..MAX_POSITION /\ hi \in 0..MAX_POSITION /\ amt \in Nat \ {0}
           /\ A \in 0..MAX_POSITION /\ T \in 0..MAX_POSITION /\ T \in lo..hi
           /\ axis = 2 => at[1] = target[1]
<1>1. /\ at = place /\ at \in Position /\ target \in Position /\ at # target /\ stage # "start"
  BY Thinking DEF Spot
<1>2. /\ axis \in {1, 2} /\ lo \in 0..MAX_POSITION /\ hi \in 0..MAX_POSITION /\ amt \in Nat \ {0}
      /\ T \in lo..hi
  BY <1>1 DEF IInv, JumpKnows
<1>3. axis = 2 => at[1] = target[1]
  BY <1>1 DEF IInv, JumpKnows
<1>4. A \in 0..MAX_POSITION /\ T \in 0..MAX_POSITION
  <2>1. /\ at[1] \in 0..MAX_POSITION /\ at[2] \in 0..MAX_POSITION
        /\ target[1] \in 0..MAX_POSITION /\ target[2] \in 0..MAX_POSITION
    BY <1>1, Coordinates
  <2> QED
    BY <1>2, <2>1 DEF A, T
<1> QED
  BY <1>1, <1>2, <1>3, <1>4

\* A step of jump_player without a move.
LEMMA JumpsOn ==
    ASSUME IInv, Thinks, program = "jump", NEW p \in {"loop", "far", "near"}, Jumps(p), UNCHANGED <<at, count>>
    PROVE  /\ Typed' /\ Fresh' /\ Playing' /\ Turns' /\ WalkerKnows' /\ ScanKnows'
           /\ stage' = p /\ stage' # "start" /\ ~Moving' /\ ~Hearing' /\ ~listens' /\ target' = target
<1>1. /\ stage' = p /\ p # "start" /\ program' = program /\ target' = target /\ listens' = listens
  BY DEF Jumps, gameVars
<1>2. p \in Labels[program]
  BY DEF Labels
<1>3. Spot' = Spot
  BY <1>1 DEF Spot
<1>4. /\ at' \in (0..MAX_POSITION) \X (0..BOARD_SIZE) /\ count' \in Nat
  BY Thinking
<1>5. Typed' /\ Fresh' /\ Playing' /\ Turns' /\ ~Moving' /\ ~Hearing'
  BY <1>1, <1>2, <1>3, <1>4, Jumping
<1>6. WalkerKnows' /\ ScanKnows'
  BY <1>1 DEF WalkerKnows, ScanKnows, Walkers
<1> QED
  BY <1>1, <1>5, <1>6, Thinking

\* A leap to a, by amount.
LEMMA Leaping ==
    ASSUME IInv, Thinks, program = "jump", stage \in {"far", "near"},
           NEW amount \in Nat \ {0}, NEW a \in 0..MAX_POSITION, Leap(amount, a), a # A,
           A = IF stage = "far" THEN a - amount ELSE a + amount,
           (A' = a /\ amt' = amount /\ UNCHANGED <<lo, hi>>) => IF stage = "far" THEN FarLeapt' ELSE NearLeapt'
    PROVE  IInv'
<1>1. /\ amt' = amount /\ at' = On(a) /\ Says(On(a)) /\ UNCHANGED <<stage, count, axis, lo, hi>>
      /\ program' = program /\ target' = target /\ place' = place /\ listens' = TRUE
  BY DEF Leap, Says
<1>2. /\ at = place /\ at \in Position /\ target \in Position /\ axis \in {1, 2}
      /\ lo \in 0..MAX_POSITION /\ hi \in 0..MAX_POSITION /\ T \in lo..hi
      /\ axis = 2 => at[1] = target[1]
  BY Searching
<1>3. PICK x \in 0..MAX_POSITION, y \in 0..MAX_POSITION : at = <<x, y>>
  BY <1>2 DEF Position
<1>4. PICK q : q = On(a)
  OBVIOUS
<1>5. /\ q \in Position /\ q[axis] = a /\ q[3 - axis] = at[3 - axis]
      /\ axis = 2 => q[1] = at[1]
      /\ OneAxis(at, q)
  <2>1. CASE axis = 1
    <3>1. q = <<a, y>>
      BY <1>3, <1>4, <2>1 DEF On
    <3>2. a # x
      BY <1>3, <2>1 DEF A
    <3>3. q \in Position /\ q[1] = a /\ q[2] = y
      BY <3>1, Square
    <3> QED
      BY <1>3, <2>1, <3>2, <3>3 DEF OneAxis
  <2>2. CASE axis = 2
    <3>1. q = <<x, a>>
      BY <1>3, <1>4, <2>2 DEF On
    <3>2. a # y
      BY <1>3, <2>2 DEF A
    <3>3. q \in Position /\ q[1] = x /\ q[2] = a
      BY <3>1, Square
    <3> QED
      BY <1>3, <2>2, <3>2, <3>3 DEF OneAxis
  <2> QED
    BY <1>2, <2>1, <2>2
<1>6. q = Spot'
  BY <1>1, <1>4 DEF Spot
<1>7. at' \in (0..MAX_POSITION) \X (0..BOARD_SIZE)
  BY <1>1, <1>4, <1>5, BoardSize DEF Position
<1>8. stage' # "start" /\ stage' \in Labels[program] /\ count' \in Nat
  BY <1>1, Thinking DEF Labels
<1>9. Typed' /\ Fresh' /\ Playing' /\ Turns' /\ ~Thinks' /\ ~Hearing'
  BY <1>1, <1>2, <1>4, <1>5, <1>6, <1>7, <1>8, Writing
<1>10. WalkerKnows' /\ ScanKnows'
  BY <1>1 DEF WalkerKnows, ScanKnows, Walkers
<1>11. A' = a /\ T' = T /\ Behind' = A
  <2>1. A' = a /\ T' = T
    BY <1>1, <1>4, <1>5 DEF A, T
  <2> QED
    BY <1>1, <2>1 DEF Behind
<1>12. JumpKnows'
  <2>1. IF stage' = "far" THEN FarLeapt' ELSE NearLeapt'
    BY <1>1, <1>11
  <2>2. place'[axis'] = Behind' /\ place'[3 - axis'] = at'[3 - axis']
    BY <1>1, <1>2, <1>4, <1>5, <1>11 DEF A
  <2>3. at' \in Position /\ (axis' = 2 => at'[1] = target'[1]) /\ T' \in lo'..hi'
    BY <1>1, <1>2, <1>4, <1>5, <1>11
  <2>4. stage' \in {"far", "near"} /\ axis' \in {1, 2} /\ amt' \in Nat \ {0}
        /\ lo' \in 0..MAX_POSITION /\ hi' \in 0..MAX_POSITION
    BY <1>1, <1>2
  <2> QED
    BY <1>9, <2>1, <2>2, <2>3, <2>4 DEF JumpKnows
<1> QED
  BY <1>9, <1>10, <1>12 DEF IInv

LEMMA LoopKeeps ==
    ASSUME IInv, Loop
    PROVE  IInv'
<1>1. Thinks /\ stage = "loop" /\ UNCHANGED <<at, count>>
  BY DEF Loop, Goes
<1>2. program = "jump"
  BY <1>1, Kinds DEF IInv
<1>3. /\ at = place /\ at \in Position /\ target \in Position /\ at # target
      /\ axis \in {1, 2} /\ lo \in 0..MAX_POSITION /\ hi \in 0..MAX_POSITION /\ amt \in Nat \ {0}
      /\ A \in 0..MAX_POSITION /\ T \in 0..MAX_POSITION /\ T \in lo..hi
      /\ (axis = 2 => at[1] = target[1])
      /\ MAX_POSITION \in Nat /\ MAX_POSITION >= 3
  BY <1>1, <1>2, Searching, BoardSize
<1>4. (lo = 0 /\ hi = MAX_POSITION) \/ (A <= lo /\ (A < lo => lo < hi))
  BY <1>1, <1>2, Thinking DEF IInv, JumpKnows, InLoop
<1>5. CASE lo < hi
  <2>1. Jumps("far") /\ amt' = 1 /\ UNCHANGED <<axis, lo, hi>>
    BY <1>5 DEF Loop
  <2>2. /\ Typed' /\ Fresh' /\ Playing' /\ Turns' /\ WalkerKnows' /\ ScanKnows'
        /\ stage' = "far" /\ ~Moving' /\ ~Hearing' /\ ~listens' /\ target' = target
    BY <1>1, <1>2, <2>1, JumpsOn
  <2>3. A' = A /\ T' = T
    BY <1>1, <2>1, <2>2 DEF A, T
  <2>4. A <= hi /\ 1 <= A + 1 /\ (lo = 0 \/ A + 1 <= 4 * lo + 1)
    BY <1>3, <1>4, <1>5
  <2>5. FarThinks'
    BY <2>1, <2>3, <2>4 DEF FarThinks
  <2>6. JumpKnows'
    BY <1>1, <1>3, <2>1, <2>2, <2>3, <2>5 DEF JumpKnows
  <2> QED
    BY <2>2, <2>6 DEF IInv
<1>6. CASE ~(lo < hi)
  <2>1. A = T
    BY <1>3, <1>4, <1>6
  <2>2. axis = 1
    <3>1. SUFFICES ASSUME axis = 2 PROVE FALSE
      BY <1>3
    <3>2. at[1] = target[1] /\ at[2] = target[2]
      BY <1>3, <2>1, <3>1 DEF A, T
    <3> QED
      BY <1>3, <3>2, Coordinates
  <2>3. Jumps("loop") /\ axis' = 2 /\ lo' = 0 /\ hi' = MAX_POSITION /\ amt' = amt
    BY <1>6, <2>2 DEF Loop
  <2>4. /\ Typed' /\ Fresh' /\ Playing' /\ Turns' /\ WalkerKnows' /\ ScanKnows'
        /\ stage' = "loop" /\ ~Moving' /\ ~Hearing' /\ ~listens' /\ target' = target
    BY <1>1, <1>2, <2>3, JumpsOn
  <2>5. at'[1] = target'[1]
    BY <1>1, <2>1, <2>2, <2>4 DEF A, T
  <2>6. T' \in lo'..hi' /\ InLoop'
    <3>1. target[2] \in 0..MAX_POSITION
      BY <1>3, Coordinates
    <3> QED
      BY <2>3, <2>4, <3>1 DEF T, InLoop
  <2>7. lo' \in 0..MAX_POSITION /\ hi' \in 0..MAX_POSITION
    BY <1>3, <2>3
  <2>8. JumpKnows'
    BY <1>1, <1>3, <2>3, <2>4, <2>5, <2>6, <2>7 DEF JumpKnows
  <2> QED
    BY <2>4, <2>8 DEF IInv
<1> QED
  BY <1>5, <1>6

LEMMA FarKeeps ==
    ASSUME IInv, Far
    PROVE  IInv'
<1>1. Thinks /\ stage = "far"
  BY DEF Far, Goes
<1>2. program = "jump"
  BY <1>1, Kinds DEF IInv
<1>3. /\ at \in Position /\ axis \in {1, 2} /\ lo \in 0..MAX_POSITION /\ hi \in 0..MAX_POSITION
      /\ amt \in Nat \ {0} /\ A \in 0..MAX_POSITION /\ T \in lo..hi
      /\ (axis = 2 => at[1] = target[1])
      /\ MAX_POSITION \in Nat
  BY <1>1, <1>2, Searching, BoardSize
<1>4. A <= hi /\ amt <= A + 1 /\ (lo = 0 \/ A + amt <= 4 * lo + 1)
  BY <1>1, <1>2, Thinking DEF IInv, JumpKnows, FarThinks
<1>5. PICK a, w : a = A /\ w = IF A + amt > hi THEN hi - A ELSE amt
  OBVIOUS
<1>6. CASE A < hi
  <2>1. Leap(w, a + w)
    BY <1>5, <1>6 DEF Far, A
  <2>2. /\ w \in Nat \ {0} /\ w <= amt /\ a + w <= hi /\ a + w \in 0..MAX_POSITION /\ a + w # a
        /\ a = a + w - w /\ w <= a + 1
    BY <1>3, <1>4, <1>5, <1>6
  <2>3. ASSUME A' = a + w, amt' = w, UNCHANGED <<lo, hi>>
        PROVE  FarLeapt'
    <3>1. w <= a + w /\ a + w <= hi /\ 2 * w <= a + w + 1 /\ (lo = 0 \/ a + w <= 4 * lo + 1)
      BY <1>3, <1>4, <1>5, <2>2
    <3> QED
      BY <2>3, <3>1 DEF FarLeapt
  <2>4. PICK b : b = a + w
    OBVIOUS
  <2>5. b \in 0..MAX_POSITION /\ Leap(w, b) /\ b # A /\ A = IF stage = "far" THEN b - w ELSE b + w
    <3>1. a = b - w
      BY <1>3, <1>5, <2>2, <2>4
    <3> QED
      BY <1>1, <1>5, <2>1, <2>2, <2>4, <3>1
  <2>6. (A' = b /\ amt' = w /\ UNCHANGED <<lo, hi>>) => IF stage = "far" THEN FarLeapt' ELSE NearLeapt'
    BY <1>1, <2>3, <2>4
  <2> QED
    BY <1>1, <1>2, <2>2, <2>5, <2>6, Leaping
<1>7. CASE ~(A < hi)
  <2>1. Jumps("near") /\ amt' = 1 /\ UNCHANGED <<at, count, axis, lo, hi>>
    BY <1>7 DEF Far, A
  <2>2. /\ Typed' /\ Fresh' /\ Playing' /\ Turns' /\ WalkerKnows' /\ ScanKnows'
        /\ stage' = "near" /\ ~Moving' /\ ~Hearing' /\ ~listens' /\ target' = target
    BY <1>1, <1>2, <2>1, JumpsOn
  <2>3. A' = A /\ T' = T
    BY <2>1, <2>2 DEF A, T
  <2>4. ~(A < lo) /\ (lo = 0 \/ A + 1 - 1 <= 4 * lo + 1)
    BY <1>3, <1>4, <1>7
  <2>5. NearThinks'
    BY <2>1, <2>3, <2>4 DEF NearThinks
  <2>6. JumpKnows'
    BY <1>3, <2>1, <2>2, <2>3, <2>5 DEF JumpKnows
  <2> QED
    BY <2>2, <2>6 DEF IInv
<1> QED
  BY <1>6, <1>7

LEMMA NearKeeps ==
    ASSUME IInv, Near
    PROVE  IInv'
<1>1. Thinks /\ stage = "near"
  BY DEF Near, Goes
<1>2. program = "jump"
  BY <1>1, Kinds DEF IInv
<1>3. /\ at \in Position /\ axis \in {1, 2} /\ lo \in 0..MAX_POSITION /\ hi \in 0..MAX_POSITION
      /\ amt \in Nat \ {0} /\ A \in 0..MAX_POSITION /\ T \in lo..hi
      /\ (axis = 2 => at[1] = target[1])
      /\ MAX_POSITION \in Nat
  BY <1>1, <1>2, Searching, BoardSize
<1>4. (A < lo => lo < hi) /\ (amt = 1 \/ Even(amt)) /\ (lo = 0 \/ A + amt - 1 <= 4 * lo + 1)
  BY <1>1, <1>2, Thinking DEF IInv, JumpKnows, NearThinks
<1>5. PICK a, w : a = A /\ w = IF A - amt < 0 THEN A ELSE amt
  OBVIOUS
<1>6. CASE A > lo
  <2>1. Leap(w, a - w)
    BY <1>5, <1>6 DEF Near, A, Clipped
  <2>2. /\ w \in Nat \ {0} /\ w <= amt /\ a - w \in 0..MAX_POSITION /\ a - w # a /\ a = a - w + w
        /\ w = amt \/ (a - w = 0 /\ w = a /\ a < amt)
    BY <1>3, <1>5, <1>6
  <2>3. ASSUME A' = a - w, amt' = w, UNCHANGED <<lo, hi>>
        PROVE  NearLeapt'
    <3>1. a - w + w <= MAX_POSITION
      BY <1>3, <1>5
    <3>2. w = 1 \/ Even(w) \/ (a - w = 0 /\ (lo = 0 \/ 2 * w <= 4 * lo + 1))
      <4>1. CASE w = amt
        BY <1>4, <4>1
      <4>2. CASE a - w = 0 /\ w = a /\ a < amt
        BY <1>3, <1>4, <1>5, <4>2
      <4> QED
        BY <2>2, <4>1, <4>2
    <3>3. lo = 0 \/ a - w + 2 * w - 1 <= 4 * lo + 1
      BY <1>3, <1>4, <1>5, <2>2
    <3> QED
      BY <2>3, <3>1, <3>2, <3>3 DEF NearLeapt, Even
  <2>4. PICK b : b = a - w
    OBVIOUS
  <2>5. b \in 0..MAX_POSITION /\ Leap(w, b) /\ b # A /\ A = IF stage = "far" THEN b - w ELSE b + w
    BY <1>1, <1>5, <2>1, <2>2, <2>4
  <2>6. (A' = b /\ amt' = w /\ UNCHANGED <<lo, hi>>) => IF stage = "far" THEN FarLeapt' ELSE NearLeapt'
    BY <1>1, <2>3, <2>4
  <2> QED
    BY <1>1, <1>2, <2>2, <2>5, <2>6, Leaping
<1>7. CASE ~(A > lo)
  <2>1. Jumps("loop") /\ UNCHANGED <<at, count, axis, lo, hi, amt>>
    BY <1>7 DEF Near, A, search
  <2>2. /\ Typed' /\ Fresh' /\ Playing' /\ Turns' /\ WalkerKnows' /\ ScanKnows'
        /\ stage' = "loop" /\ ~Moving' /\ ~Hearing' /\ ~listens' /\ target' = target
    BY <1>1, <1>2, <2>1, JumpsOn
  <2>3. A' = A /\ T' = T
    BY <2>1, <2>2 DEF A, T
  <2>4. A <= lo
    BY <1>3, <1>7
  <2>5. InLoop'
    BY <1>4, <2>1, <2>3, <2>4 DEF InLoop
  <2>6. JumpKnows'
    BY <1>3, <2>1, <2>2, <2>3, <2>5 DEF JumpKnows
  <2> QED
    BY <2>2, <2>6 DEF IInv
<1> QED
  BY <1>6, <1>7

LEMMA BesideIt ==
    ASSUME NEW p \in Position
    PROVE  /\ Beside(p) \in Position /\ Beside(p)[1] # p[1] /\ Beside(p)[2] = p[2]
<1>1. PICK x \in 0..MAX_POSITION, y \in 0..MAX_POSITION : p = <<x, y>>
  BY DEF Position
<1>2. PICK u : u = IF x < MAX_POSITION THEN x + 1 ELSE x - 1
  OBVIOUS
<1>3. u \in 0..MAX_POSITION /\ u # x
  BY <1>2, BoardSize
<1>4. Beside(p) = <<u, y>>
  BY <1>1, <1>2, BoardSize DEF Beside
<1> QED
  BY <1>1, <1>3, <1>4, Square

LEMMA HoverKeeps ==
    ASSUME IInv, Hover
    PROVE  IInv'
<1>1. /\ Thinks /\ stage = "hover" /\ at' = Beside(at) /\ Says(Beside(at)) /\ count' = count + 1
      /\ UNCHANGED <<stage, axis, lo, hi, amt>>
  BY DEF Hover, Goes, search
<1>2. program \in Hoverers
  BY <1>1, Kinds DEF IInv
<1>3. at = place /\ at \in Position /\ count \in Nat
  BY <1>1, <1>2, Thinking DEF Spot, Hoverers
<1>4. PICK q : q = Beside(at)
  OBVIOUS
<1>5. q \in Position /\ q[1] # at[1] /\ q[2] = at[2]
  BY <1>3, <1>4, BesideIt
<1>6. OneAxis(place, q)
  BY <1>3, <1>5 DEF OneAxis
<1>7. program' = program
  BY <1>1 DEF Says
<1>8. q = Spot'
  BY <1>1, <1>2, <1>4, <1>7 DEF Spot, Hoverers
<1>9. at' \in (0..MAX_POSITION) \X (0..BOARD_SIZE) /\ count' \in Nat
  BY <1>1, <1>3, <1>4, <1>5, BoardSize DEF Position
<1>10. stage' # "start" /\ stage' \in Labels[program]
  BY <1>1, Thinking DEF IInv, Typed
<1>11. Typed' /\ Fresh' /\ Playing' /\ Turns'
  BY <1>1, <1>4, <1>5, <1>6, <1>8, <1>9, <1>10, Writing
<1>12. WalkerKnows' /\ ScanKnows' /\ JumpKnows'
  BY <1>2, <1>7 DEF WalkerKnows, ScanKnows, JumpKnows, Walkers, Hoverers
<1> QED
  BY <1>11, <1>12 DEF IInv

\* At most four bytes, or a zero first.
LEMMA ScrapsAreNoMoves ==
    ASSUME NEW p \in Position, NEW k \in 0..6, NEW n, NEW minus \in {<< 45 >>, << >>}
    PROVE  /\ ~Legal(PassedOn(minus \o Digits(n) \o <<10>>))
           /\ ~Legal(PassedOn(<<0>> \o SubSeq(write_position(p), 1, k)))
<1>1. ~Legal(PassedOn(minus \o Digits(n) \o <<10>>))
  <2>1. PICK S : S = {45, 10, Digits(n)[1], Digits(n)[2]}
    OBVIOUS
  <2>2. PICK d, e : d = Digits(n) /\ e = <<10>>
    OBVIOUS
  <2>3. d \in Seq(S) /\ Len(d) = 2
    <3>1. PICK x, y : d = <<x, y>>
      BY <2>2 DEF Digits
    <3>2. x \in S /\ y \in S
      BY <2>1, <2>2, <3>1
    <3> QED
      BY <3>1, <3>2
  <2>4. e \in Seq(S) /\ Len(e) = 1
    BY <2>1, <2>2
  <2>5. minus \in Seq(S) /\ Len(minus) \in 0..1
    <3>1. CASE minus = <<45>>
      BY <2>1, <3>1
    <3>2. CASE minus = << >>
      BY <3>2
    <3> QED
      BY <3>1, <3>2
  <2>6. PICK m : m = minus \o d
    OBVIOUS
  <2>7. m \in Seq(S) /\ Len(m) = Len(minus) + 2
    BY <2>3, <2>5, <2>6, ConcatProperties
  <2>8. Len(m \o e) = Len(m) + Len(e)
    BY <2>4, <2>7, ConcatProperties
  <2>9. Len(m \o e) # 7
    BY <2>4, <2>5, <2>7, <2>8
  <2> QED
    BY <2>2, <2>6, <2>9, NoMove DEF PassedOn
<1>2. ~Legal(PassedOn(<<0>> \o SubSeq(write_position(p), 1, k)))
  <2>1. PICK w, z : w = write_position(p) /\ z = <<0>>
    OBVIOUS
  <2>2. PICK S : S = {w[i] : i \in 1..6} \cup {0}
    OBVIOUS
  <2>3. \A i \in 1..k : w[i] \in S
    <3>1. TAKE i \in 1..k
    <3>2. i \in 1..6
      OBVIOUS
    <3> QED
      BY <2>2, <3>2
  <2>4. PICK t : t = SubSeq(w, 1, k)
    OBVIOUS
  <2>5. t \in Seq(S)
    BY <2>3, <2>4, SubSeqProperties
  <2>6. z \in Seq(S) /\ Len(z) = 1 /\ z[1] = 0
    BY <2>1, <2>2
  <2>7. PICK s : s = z \o t
    OBVIOUS
  <2>8. s[1] = 0
    <3>1. Len(t) \in Nat
      BY <2>5
    <3>2. 1 \in 1..Len(z) + Len(t) /\ 1 <= Len(z)
      BY <2>6, <3>1
    <3>3. s[1] = z[1]
      BY <2>5, <2>6, <2>7, <3>2, ConcatProperties
    <3> QED
      BY <2>6, <3>3
  <2>9. ~Legal(s) /\ ~Legal(Broken)
    BY <2>8, NoMove
  <2> QED
    BY <2>1, <2>4, <2>7, <2>9 DEF PassedOn
<1> QED
  BY <1>1, <1>2

LEMMA ScrapKeeps ==
    ASSUME IInv, WriteScrap
    PROVE  IInv'
<1>1. /\ Thinks /\ stage = "hover" /\ exit' # "none"
      /\ UNCHANGED <<target, limits, place, told, program, init, stage, count, axis, lo, hi, amt, listens>>
  BY DEF WriteScrap, Goes, search
<1>2. program \in Hoverers
  BY <1>1, Kinds DEF IInv
<1>3. at = place /\ at \in Position /\ count \in Nat
  BY <1>1, <1>2, Thinking DEF Spot, Hoverers
<1>4. PICK p : p = Beside(at)
  OBVIOUS
<1>5. p \in Position
  BY <1>3, <1>4, BesideIt
<1>6. PICK k : k = (p[1] + p[2]) % 7
  OBVIOUS
<1>7. k \in 0..6
  <2>1. p[1] \in 0..99 /\ p[2] \in 0..99
    BY <1>5, Coordinates
  <2>2. \A x \in Nat : x % 7 \in 0..6
    OBVIOUS
  <2>3. p[1] + p[2] \in Nat
    <3>1. \A x, y \in 0..99 : x + y \in Nat
      OBVIOUS
    <3> QED
      BY ONLY <2>1, <3>1
  <2> QED
    BY <1>6, <2>2, <2>3
<1>8. PICK minus, n : minus = (IF at[1] < at[2] THEN <<45>> ELSE << >>) /\ n = Abs(at[1] - at[2])
  OBVIOUS
<1>9. minus \in {<<45>>, << >>}
  BY <1>8
<1>10. /\ \/ said' = minus \o Digits(n) \o <<10>>
          \/ said' = <<0>> \o SubSeq(write_position(p), 1, k)
       /\ at' \in {at, p}
  <2>1. CASE program = "garbled"
    BY <1>8, <2>1 DEF WriteScrap
  <2>2. CASE program # "garbled"
    BY <1>4, <1>6, <2>2 DEF WriteScrap
  <2> QED
    BY <2>1, <2>2
<1>11. ~Legal(PassedOn(said'))
  BY <1>5, <1>7, <1>9, <1>10, ScrapsAreNoMoves
<1>12. Legal(PassedOn(said))' = Legal(PassedOn(said'))
  BY <1>1 DEF Legal, PassedOn
<1>13. ~Thinks' /\ ~Moving' /\ ~Hearing'
  BY <1>1 DEF Thinks, Moving, Hearing
<1>14. Typed' /\ Fresh'
  BY <1>1, Thinking DEF IInv, Typed, Fresh
<1>15. Playing'
  <2>1. at' \in (0..MAX_POSITION) \X (0..BOARD_SIZE)
    BY <1>3, <1>5, <1>10, BoardSize DEF Position
  <2> QED
    BY <1>1, <2>1 DEF IInv, Playing
<1>16. Turns'
  BY <1>1, <1>2, <1>11, <1>12, <1>13, Thinking DEF IInv, Turns
<1>17. WalkerKnows' /\ ScanKnows' /\ JumpKnows'
  BY <1>1, <1>2 DEF WalkerKnows, ScanKnows, JumpKnows, Walkers, Hoverers
<1> QED
  BY <1>14, <1>15, <1>16, <1>17 DEF IInv

LEMMA StepKeeps == IInv /\ [BoardNext]_boardVars => IInv'
<1> SUFFICES ASSUME IInv, [BoardNext]_boardVars PROVE IInv'
  OBVIOUS
<1>1. ASSUME UNCHANGED boardVars PROVE IInv'
  <2>1. UNCHANGED <<target, limits, place, said, told, program, init, at, stage, count, axis, lo, hi, amt, listens, exit>>
    BY <1>1 DEF boardVars, gameVars, programVars, search
  <2>2. Typed' /\ Fresh' /\ Playing'
    BY <2>1 DEF IInv, Typed, Fresh, Playing
  <2>3. /\ Spot' = Spot /\ Thinks' = Thinks /\ Moving' = Moving /\ Hearing' = Hearing
        /\ Legal(PassedOn(said))' = Legal(PassedOn(said))
    BY <2>1 DEF Spot, Thinks, Moving, Hearing, Legal, PassedOn
  <2>4. Turns'
    BY <2>1, <2>3 DEF IInv, Turns, OneAxis
  <2>5. WalkerKnows' /\ ScanKnows'
    BY <2>1, <2>3 DEF IInv, WalkerKnows, ScanKnows, OneAxis
  <2>6. A' = A /\ T' = T /\ Behind' = Behind
    BY <2>1 DEF A, T, Behind
  <2>7. /\ InLoop' = InLoop /\ FarThinks' = FarThinks /\ FarLeapt' = FarLeapt
        /\ NearThinks' = NearThinks /\ NearLeapt' = NearLeapt /\ HearsRight' = HearsRight
    BY <2>1, <2>6 DEF InLoop, FarThinks, FarLeapt, NearThinks, NearLeapt, HearsRight, Even
  <2>8. JumpKnows'
    BY <2>1, <2>3, <2>6, <2>7 DEF IInv, JumpKnows
  <2> QED
    BY <2>2, <2>4, <2>5, <2>8 DEF IInv
<1>2. ASSUME BoardMaker PROVE IInv'
  BY <1>2, DealKeeps, JudgeKeeps DEF BoardMaker
<1>3. ASSUME BoardPlayer PROVE IInv'
  BY <1>3, ReadPositionKeeps, ReadGuidanceKeeps, WalkKeeps, GoBackKeeps, ToCornerKeeps, RowKeeps, CellKeeps,
     LoopKeeps, FarKeeps, NearKeeps, HoverKeeps, ScrapKeeps DEF BoardPlayer
<1>4. ASSUME BoardStopped PROVE IInv'
  BY <1>1, <1>4 DEF BoardStopped
<1> QED
  BY <1>1, <1>2, <1>3, <1>4 DEF BoardNext

LEMMA InvariantHolds == BoardSpec => []IInv
BY InitKeeps, StepKeeps, PTL DEF BoardSpec

\* The search of a player that makes no mistakes ends at the target only, on
\* every board and for every target: nobody comes to the end of its loops
\* ("should win before getting here"), nobody leaves the board, and only the
\* players that are made to go wrong are told "wrong!".
THEOREM PlaysFairSafe == BoardSpec => []PlaysFair
<1>1. IInv => PlaysFair
  <2>1. SUFFICES ASSUME IInv PROVE PlaysFair
    OBVIOUS
  <2>2. stage # "lost"
    <3>1. stage = "start" \/ stage \in {"right", "left", "up", "down", "back", "x0", "y0", "row", "cell",
                                   "loop", "far", "near", "hover"}
      BY <2>1, Kinds, Apart DEF IInv
    <3> QED
      BY <3>1
  <2> QED
    BY <2>1, <2>2 DEF IInv, Typed, Turns, PlaysFair
<1> QED
  BY <1>1, InvariantHolds, PTL

\* The player knows where the game maker has it, and jump_player's lo and hi
\* always have the target between them.
THEOREM KnowsWhereSafe == BoardSpec => []KnowsWhere
<1>1. IInv => KnowsWhere
  <2>1. SUFFICES ASSUME IInv, Thinks PROVE SamePlace /\ JumpBrackets
    BY DEF KnowsWhere
  <2>2. SamePlace
    BY <2>1, Thinking DEF SamePlace, Spot
  <2>3. JumpBrackets
    BY <2>1, Searching DEF JumpBrackets, T
  <2> QED
    BY <2>2, <2>3
<1> QED
  BY <1>1, InvariantHolds, PTL
=============================================================================
