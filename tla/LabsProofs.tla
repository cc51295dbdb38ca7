----------------------------- MODULE LabsProofs -----------------------------
(***************************************************************************)
(* Three programs that have nothing to do with each other, and proofs      *)
(* about each.  The kernels, for images of every size that the driver may  *)
(* give them: both walks over the pixels reach each of them once, the      *)
(* bounds of the rows are the diamond, and glow's integers are the         *)
(* driver's hundredths.  The enforcer, for all libraries as a linker makes *)
(* them: what it lets through is in order, and what was in order before it *)
(* it lets through.  And the matcher, for every command line: it matches   *)
(* exactly the languages, and what it converts can be told from the rest.  *)
(***************************************************************************)
EXTENDS Kernels, SharedLibrary, Matcher, FiniteSetTheorems, SequenceTheorems, WellFoundedInduction, TLAPS

Work == {c \in Jobs : c.kernel # "none"}
Square(d) == (0..d - 1) \X (0..d - 1)

\* Where the pixel r of the source comes to, the index of that place in the
\* image, and what driver.c expects there.
Goes(c, r) ==
    IF c.kernel # "glow" /\ diamond(r[1], r[2], c.dim) THEN <<c.dim - r[2] - 1, r[1]>> ELSE r
Cell(c, r) == RIDX(Goes(c, r)[1], Goes(c, r)[2], c.dim)
Right(c, i, j) ==
    IF c.kernel = "glow" THEN check_weighted_sum(c.dim, i, j, c.src) ELSE check_pinwheel(i, j, c.dim)

\* The image is what becomes of the pixels in D, and nothing else.
Painted(c, image, D) ==
    /\ DOMAIN image = {Cell(c, r) : r \in D}
    /\ \A r \in D : image[Cell(c, r)] = Right(c, Goes(c, r)[1], Goes(c, r)[2])

\* The loop variables, and the pixels they have passed: two loops, and the
\* four loops over blocks.
Vars == [k : Int, m : Int, i : Int, j : Int]
At1(p, d) ==
    /\ p \in Vars /\ p.k = p.i /\ p.i \in 0..d /\ p.j \in 0..d - 1
    /\ p.i = d => p.j = 0
Passed1(p, d) == {r \in Square(d) : r[1] < p.i \/ (r[1] = p.i /\ r[2] < p.j)}

At2(p, d) ==
    /\ p \in Vars /\ p.k \in 0..d /\ p.m \in 0..d - 1
    /\ p.k % block = 0 /\ p.m % block = 0 /\ p.j % 2 = 0
    /\ p.i \in p.k..p.k + block - 1 /\ p.j \in p.m..p.m + block - 1
    /\ p.k = d => p.m = 0 /\ p.i = p.k /\ p.j = p.m
Passed2(p, d) ==
    {r \in Square(d) :
        \/ r[1] < p.k
        \/ /\ r[1] < p.k + block
           /\ \/ r[2] < p.m
              \/ r[2] < p.m + block /\ (r[1] < p.i \/ (r[1] = p.i /\ r[2] < p.j))}

Along(c, p) == IF c.kernel = "pinwheel" THEN At2(p, c.dim) ELSE At1(p, c.dim)
Passed(c, p) == IF c.kernel = "pinwheel" THEN Passed2(p, c.dim) ELSE Passed1(p, c.dim)

IInv ==
    /\ job \in Jobs
    /\ job \in Work => Along(job, at) /\ Painted(job, dest, Passed(job, at))

-----------------------------------------------------------------------------
(* Pixels and indices. *)

LEMMA JobTypes ==
    ASSUME NEW c \in Work
    PROVE  /\ c.kernel \in {"pinwheel", "naive_pinwheel", "glow"}
           /\ c.dim \in Nat /\ c.dim > 0
           /\ c.kernel = "pinwheel" => c.dim % 8 = 0
           /\ c.kernel # "glow" => \E h \in Nat : c.dim = 2 * h
           /\ c.kernel = "glow" => c.src \in [1..c.dim * c.dim -> unsigned_short]
<1>1. /\ c.kernel \in {"pinwheel", "naive_pinwheel", "glow"} /\ c.dim \in Nat /\ c.dim > 0
      /\ c.kernel = "pinwheel" => c.dim % 8 = 0
      /\ c.kernel = "naive_pinwheel" => c.dim % 2 = 0
      /\ c.kernel = "glow" => c.src \in [1..c.dim * c.dim -> unsigned_short]
  BY JobAssumption DEF JobAssumption, Work, block
<1>2. \A d \in Nat : (d % 8 = 0 => d \div 2 \in Nat /\ d = 2 * (d \div 2)) /\ (d % 2 = 0 => d \div 2 \in Nat /\ d = 2 * (d \div 2))
  OBVIOUS
<1>3. c.kernel # "glow" => c.dim \div 2 \in Nat /\ c.dim = 2 * (c.dim \div 2)
  BY <1>1, <1>2
<1> QED
  BY <1>1, <1>3

LEMMA IndexTells ==
    ASSUME NEW d \in Nat, NEW i \in 0..d - 1, NEW j \in 0..d - 1, NEW a \in 0..d - 1, NEW b \in 0..d - 1,
           RIDX(i, j, d) = RIDX(a, b, d)
    PROVE  i = a /\ j = b
<1>1. \A x, y \in Nat : x < y => x * d + d <= y * d
  OBVIOUS
<1>2. i * d \in Int /\ a * d \in Int /\ i * d + j = a * d + b
  BY DEF RIDX
<1>3. ~(i < a) /\ ~(a < i)
  BY <1>1, <1>2
<1> QED
  BY <1>2, <1>3

LEMMA IndexRange ==
    ASSUME NEW d \in Nat, d > 0
    PROVE  /\ \A i, j \in 0..d - 1 : RIDX(i, j, d) \in 1..d * d
           /\ \A n \in 1..d * d : \E i, j \in 0..d - 1 : RIDX(i, j, d) = n
<1>1. ASSUME NEW i \in 0..d - 1, NEW j \in 0..d - 1 PROVE RIDX(i, j, d) \in 1..d * d
  <2>1. i * d \in Nat /\ i * d <= (d - 1) * d /\ (d - 1) * d = d * d - d
    OBVIOUS
  <2> QED
    BY <2>1 DEF RIDX
<1>2. ASSUME NEW n \in 1..d * d PROVE \E i, j \in 0..d - 1 : RIDX(i, j, d) = n
  <2>1. PICK q : q = (n - 1) \div d
    OBVIOUS
  <2>2. q \in Nat /\ q * d <= n - 1 /\ n - 1 < q * d + d
    BY <2>1
  <2>3. q < d
    <3>1. q >= d => q * d >= d * d
      BY <2>2
    <3>2. q * d \in Int /\ d * d \in Int
      BY <2>2
    <3> QED
      BY <2>2, <3>1, <3>2
  <2>4. q \in 0..d - 1 /\ (n - 1) - q * d \in 0..d - 1 /\ 1 + q * d + ((n - 1) - q * d) = n
    <3>1. q * d \in Int
      BY <2>2
    <3> QED
      BY <2>2, <2>3, <3>1
  <2> QED
    BY <2>4 DEF RIDX
<1> QED
  BY <1>1, <1>2

\* The bounds of a row are the diamond, and the diamond turns into itself.
LEMMA RowIsDiamond ==
    ASSUME NEW h \in Nat, NEW i \in 0..2 * h - 1, NEW j \in 0..2 * h - 1
    PROVE  /\ (j >= begin(i, 2 * h) /\ j < end(i, 2 * h)) <=> diamond(i, j, 2 * h)
           /\ diamond(i, j, 2 * h) <=> diamond(2 * h - j - 1, i, 2 * h)
<1>1. (2 * h) \div 2 = h
  OBVIOUS
<1>2. (j >= begin(i, 2 * h) /\ j < end(i, 2 * h)) <=> diamond(i, j, 2 * h)
  BY <1>1 DEF begin, end, diamond, Abs
<1>3. diamond(i, j, 2 * h) <=> diamond(2 * h - j - 1, i, 2 * h)
  BY DEF diamond, Abs
<1> QED
  BY <1>2, <1>3

LEMMA GoesInside ==
    ASSUME NEW c \in Work, NEW r \in Square(c.dim)
    PROVE  Goes(c, r) \in Square(c.dim)
<1>1. c.dim \in Nat
  BY JobTypes
<1>2. PICK i \in 0..c.dim - 1, j \in 0..c.dim - 1 : r = <<i, j>>
  BY DEF Square
<1>3. c.dim - j - 1 \in 0..c.dim - 1
  BY <1>1
<1>4. <<i, j>>[1] = i /\ <<i, j>>[2] = j /\ <<c.dim - j - 1, i>> \in Square(c.dim)
  BY <1>3 DEF Square
<1> QED
  BY <1>2, <1>4 DEF Goes

LEMMA GoesApart ==
    ASSUME NEW c \in Work, NEW r \in Square(c.dim), NEW s \in Square(c.dim), Goes(c, r) = Goes(c, s)
    PROVE  r = s
<1>1. PICK i \in 0..c.dim - 1, j \in 0..c.dim - 1 : r = <<i, j>>
  BY DEF Square
<1>2. PICK a \in 0..c.dim - 1, b \in 0..c.dim - 1 : s = <<a, b>>
  BY DEF Square
<1>3. CASE c.kernel = "glow"
  BY <1>3 DEF Goes
<1>4. CASE c.kernel # "glow"
  <2>1. PICK h \in Nat : c.dim = 2 * h
    BY <1>4, JobTypes
  <2>2. /\ diamond(i, j, c.dim) <=> diamond(c.dim - j - 1, i, c.dim)
        /\ diamond(a, b, c.dim) <=> diamond(c.dim - b - 1, a, c.dim)
    BY <2>1, RowIsDiamond
  <2>3. /\ diamond(i, j, c.dim) => Goes(c, r) = <<c.dim - j - 1, i>>
        /\ ~diamond(i, j, c.dim) => Goes(c, r) = <<i, j>>
        /\ diamond(a, b, c.dim) => Goes(c, s) = <<c.dim - b - 1, a>>
        /\ ~diamond(a, b, c.dim) => Goes(c, s) = <<a, b>>
    BY <1>1, <1>2, <1>4 DEF Goes
  <2>4. CASE diamond(i, j, c.dim) /\ diamond(a, b, c.dim)
    BY <1>1, <1>2, <2>1, <2>3, <2>4
  <2>5. CASE ~diamond(i, j, c.dim) /\ ~diamond(a, b, c.dim)
    BY <1>1, <1>2, <2>3, <2>5
  <2>6. CASE diamond(i, j, c.dim) /\ ~diamond(a, b, c.dim)
    BY <2>2, <2>3, <2>6
  <2>7. CASE ~diamond(i, j, c.dim) /\ diamond(a, b, c.dim)
    BY <2>2, <2>3, <2>7
  <2> QED
    BY <2>4, <2>5, <2>6, <2>7
<1> QED
  BY <1>3, <1>4

LEMMA GoesEverywhere ==
    ASSUME NEW c \in Work, NEW s \in Square(c.dim)
    PROVE  \E r \in Square(c.dim) : Goes(c, r) = s
<1>1. PICK i \in 0..c.dim - 1, j \in 0..c.dim - 1 : s = <<i, j>>
  BY DEF Square
<1>2. CASE c.kernel = "glow"
  BY <1>2 DEF Goes
<1>3. CASE c.kernel # "glow"
  <2>1. PICK h \in Nat : c.dim = 2 * h
    BY <1>3, JobTypes
  <2>2. j \in 0..c.dim - 1 /\ c.dim - i - 1 \in 0..c.dim - 1 /\ c.dim - (c.dim - i - 1) - 1 = i
    BY <2>1
  <2>3. diamond(j, c.dim - i - 1, c.dim) <=> diamond(i, j, c.dim)
    <3>1. diamond(j, c.dim - i - 1, c.dim) <=> diamond(c.dim - (c.dim - i - 1) - 1, j, c.dim)
      BY <2>1, <2>2, RowIsDiamond
    <3> QED
      BY <2>2, <3>1
  <2>4. CASE diamond(i, j, c.dim)
    <3>1. Goes(c, <<j, c.dim - i - 1>>) = <<i, j>>
      BY <1>3, <2>2, <2>3, <2>4 DEF Goes
    <3>2. <<j, c.dim - i - 1>> \in Square(c.dim)
      BY <2>2 DEF Square
    <3> QED
      BY <1>1, <3>1, <3>2
  <2>5. CASE ~diamond(i, j, c.dim)
    <3>1. Goes(c, s) = s
      BY <1>1, <2>5 DEF Goes
    <3> QED
      BY <3>1
  <2> QED
    BY <2>4, <2>5
<1> QED
  BY <1>2, <1>3

LEMMA CellTells ==
    ASSUME NEW c \in Work, NEW r \in Square(c.dim), NEW s \in Square(c.dim), Cell(c, r) = Cell(c, s)
    PROVE  r = s
<1>1. PICK u, v : u = Goes(c, r) /\ v = Goes(c, s)
  OBVIOUS
<1>2. u \in Square(c.dim) /\ v \in Square(c.dim)
  BY <1>1, GoesInside
<1>3. u = <<u[1], u[2]>> /\ v = <<v[1], v[2]>>
      /\ u[1] \in 0..c.dim - 1 /\ u[2] \in 0..c.dim - 1 /\ v[1] \in 0..c.dim - 1 /\ v[2] \in 0..c.dim - 1
  BY <1>2 DEF Square
<1>4. RIDX(u[1], u[2], c.dim) = RIDX(v[1], v[2], c.dim)
  BY <1>1 DEF Cell
<1>5. u[1] = v[1] /\ u[2] = v[2]
  <2>1. c.dim \in Nat
    BY JobTypes
  <2> QED
    BY <1>3, <1>4, <2>1, IndexTells
<1> QED
  BY <1>1, <1>3, <1>5, GoesApart

-----------------------------------------------------------------------------
(* What is written. *)

LEMMA AssignPaints ==
    ASSUME NEW c \in Work, NEW image, NEW D, D \subseteq Square(c.dim), Painted(c, image, D),
           NEW r \in Square(c.dim), NEW n, n = Cell(c, r),
           NEW x, x = Right(c, Goes(c, r)[1], Goes(c, r)[2])
    PROVE  Painted(c, Assign(image, n, x), D \cup {r})
<1>1. PICK g : g = Assign(image, n, x)
  OBVIOUS
<1>2. DOMAIN g = DOMAIN image \cup {n} /\ g[n] = x /\ \A y \in DOMAIN image : y # n => g[y] = image[y]
  BY <1>1 DEF Assign
<1>3. DOMAIN g = {Cell(c, s) : s \in D \cup {r}}
  BY <1>2 DEF Painted
<1>4. ASSUME NEW s \in D \cup {r} PROVE g[Cell(c, s)] = Right(c, Goes(c, s)[1], Goes(c, s)[2])
  <2>1. CASE s = r
    BY <1>2, <2>1
  <2>2. CASE s # r
    <3>1. s \in D /\ Cell(c, s) # n
      BY <2>2, CellTells
    <3>2. Cell(c, s) \in DOMAIN image /\ image[Cell(c, s)] = Right(c, Goes(c, s)[1], Goes(c, s)[2])
      BY <3>1 DEF Painted
    <3> QED
      BY <1>2, <3>1, <3>2
  <2> QED
    BY <2>1, <2>2
<1> QED
  BY <1>1, <1>3, <1>4 DEF Painted

LEMMA SpinPaints ==
    ASSUME NEW c \in Work, c.kernel # "glow", NEW image, NEW D, D \subseteq Square(c.dim), Painted(c, image, D),
           NEW a \in 0..c.dim - 1, NEW b \in 0..c.dim - 1, NEW inside, inside <=> diamond(a, b, c.dim)
    PROVE  Painted(c, Spin(image, a, b, inside, c.dim), D \cup {<<a, b>>})
<1>1. PICK h \in Nat : c.dim = 2 * h
  BY JobTypes
<1>2. PICK r : r = <<a, b>>
  OBVIOUS
<1>3. r \in Square(c.dim) /\ r[1] = a /\ r[2] = b
  BY <1>2 DEF Square
<1>4. CASE diamond(a, b, c.dim)
  <2>1. Goes(c, r) = <<c.dim - b - 1, a>>
    BY <1>3, <1>4 DEF Goes
  <2>2. Cell(c, r) = RIDX(c.dim - b - 1, a, c.dim)
    BY <2>1 DEF Cell
  <2>3. diamond(c.dim - b - 1, a, c.dim) /\ c.dim - 1 - (c.dim - b - 1) = b
    BY <1>1, <1>4, RowIsDiamond
  <2>4. Right(c, Goes(c, r)[1], Goes(c, r)[2]) = gray(RIDX(a, b, c.dim))
    BY <2>1, <2>3 DEF Right, check_pinwheel
  <2>5. Painted(c, Assign(image, RIDX(c.dim - b - 1, a, c.dim), gray(RIDX(a, b, c.dim))), D \cup {r})
    BY <1>3, <2>2, <2>4, AssignPaints
  <2> QED
    BY <1>2, <1>4, <2>5 DEF Spin
<1>5. CASE ~diamond(a, b, c.dim)
  <2>1. Goes(c, r) = r
    BY <1>3, <1>5 DEF Goes
  <2>2. Cell(c, r) = RIDX(a, b, c.dim)
    BY <1>3, <2>1 DEF Cell
  <2>3. Right(c, Goes(c, r)[1], Goes(c, r)[2]) = same(RIDX(a, b, c.dim))
    BY <1>3, <1>5, <2>1 DEF Right, check_pinwheel
  <2>4. Painted(c, Assign(image, RIDX(a, b, c.dim), same(RIDX(a, b, c.dim))), D \cup {r})
    BY <1>3, <2>2, <2>3, AssignPaints
  <2> QED
    BY <1>2, <1>5, <2>4 DEF Spin
<1> QED
  BY <1>4, <1>5

\* glow's quotients are the driver's, and their sum is an unsigned short.
LEMMA ColourBound ==
    /\ \A x \in unsigned_short : x \in Nat /\ x <= 65535
    /\ 0 \in unsigned_short
<1>1. \A n \in Nat : 0 \in 0..n /\ \A x \in 0..n : x \in Nat /\ x <= n
  OBVIOUS
<1>2. 65535 \in Nat
  BY SMT
<1> QED
  BY SMT, <1>1, <1>2 DEF unsigned_short

LEMMA QuotientsAgree ==
    ASSUME NEW x \in unsigned_short
    PROVE  /\ (x * 16) \div 100 = (x * 4) \div 25 /\ (x * 30) \div 100 = (x * 3) \div 10
           /\ (x * 4) \div 25 \in Nat /\ (x * 4) \div 25 <= 10486
           /\ (x * 3) \div 10 \in Nat /\ (x * 3) \div 10 <= 19661
<1>1. x \in Nat /\ x <= 65535
  BY ColourBound
<1> QED
  BY SMT, <1>1

LEMMA SumsAgree ==
    ASSUME NEW d \in Nat, d > 0, NEW src \in [1..d * d -> unsigned_short], NEW i \in 0..d - 1, NEW j \in 0..d - 1
    PROVE  weighted_combo(d, i, j, src) = check_weighted_sum(d, i, j, src)
<1> DEFINE f(a, b) == color(src, a, b, d)
           part(ii, jj) == IF i + ii \in 0..d - 1 /\ j + jj \in 0..d - 1
                           THEN (src[RIDX(i + ii, j + jj, d)] * weights[ii + 2][jj + 2]) \div 100 ELSE 0
<1>1. ASSUME NEW a \in Int, NEW b \in Int PROVE f(a, b) \in unsigned_short
  <2>1. CASE a \in 0..d - 1 /\ b \in 0..d - 1
    <3>1. RIDX(a, b, d) \in 1..d * d
      BY <2>1, IndexRange
    <3>2. src[RIDX(a, b, d)] \in unsigned_short
      BY <3>1
    <3>3. f(a, b) = src[RIDX(a, b, d)]
      BY <2>1 DEF color
    <3> QED
      BY <3>2, <3>3
  <2>2. CASE ~(a \in 0..d - 1 /\ b \in 0..d - 1)
    <3>1. f(a, b) = 0
      BY <2>2 DEF color
    <3> QED
      BY <3>1, ColourBound
  <2> QED
    BY <2>1, <2>2
<1>2. /\ weights[-1 + 2][-1 + 2] = 16 /\ weights[-1 + 2][0 + 2] = 0 /\ weights[-1 + 2][1 + 2] = 16
      /\ weights[0 + 2][-1 + 2] = 0 /\ weights[0 + 2][0 + 2] = 30 /\ weights[0 + 2][1 + 2] = 0
      /\ weights[1 + 2][-1 + 2] = 16 /\ weights[1 + 2][0 + 2] = 0 /\ weights[1 + 2][1 + 2] = 16
  BY DEF weights
<1>3. ASSUME NEW ii \in Int, NEW jj \in Int, NEW w \in Nat, weights[ii + 2][jj + 2] = w
      PROVE  part(ii, jj) = (f(i + ii, j + jj) * w) \div 100
  <2>1. CASE i + ii \in 0..d - 1 /\ j + jj \in 0..d - 1
    BY <1>3, <2>1 DEF color
  <2>2. CASE ~(i + ii \in 0..d - 1 /\ j + jj \in 0..d - 1)
    <3>1. f(i + ii, j + jj) = 0 /\ part(ii, jj) = 0
      BY <2>2 DEF color
    <3>2. (0 * w) \div 100 = 0
      OBVIOUS
    <3> QED
      BY <3>1, <3>2
  <2> QED
    BY <2>1, <2>2
<1>4. /\ i + -1 = i - 1 /\ j + -1 = j - 1 /\ i + 0 = i /\ j + 0 = j /\ -1 \in Int /\ 0 \in Int /\ 1 \in Int
      /\ i - 1 \in Int /\ i \in Int /\ i + 1 \in Int /\ j - 1 \in Int /\ j \in Int /\ j + 1 \in Int
  OBVIOUS
<1>5. check_weighted_sum(d, i, j, src) =
         (part(-1, -1) + part(-1, 0) + part(-1, 1)) + (part(0, -1) + part(0, 0) + part(0, 1))
         + (part(1, -1) + part(1, 0) + part(1, 1))
  BY DEF check_weighted_sum
<1>6. weighted_combo(d, i, j, src) =
         ((f(i - 1, j - 1) * 4) \div 25 + (f(i - 1, j + 1) * 4) \div 25 + (f(i, j) * 3) \div 10
          + (f(i + 1, j - 1) * 4) \div 25 + (f(i + 1, j + 1) * 4) \div 25) % 65536
  BY DEF weighted_combo
<1> HIDE DEF f, part
<1>7. /\ part(-1, -1) = (f(i - 1, j - 1) * 16) \div 100 /\ part(-1, 1) = (f(i - 1, j + 1) * 16) \div 100
      /\ part(0, 0) = (f(i, j) * 30) \div 100
      /\ part(1, -1) = (f(i + 1, j - 1) * 16) \div 100 /\ part(1, 1) = (f(i + 1, j + 1) * 16) \div 100
  BY <1>2, <1>3, <1>4
<1>8. /\ part(-1, 0) = (f(i - 1, j) * 0) \div 100 /\ part(0, -1) = (f(i, j - 1) * 0) \div 100
      /\ part(0, 1) = (f(i, j + 1) * 0) \div 100 /\ part(1, 0) = (f(i + 1, j) * 0) \div 100
  BY <1>2, <1>3, <1>4
<1>9. part(-1, 0) = 0 /\ part(0, -1) = 0 /\ part(0, 1) = 0 /\ part(1, 0) = 0
  <2>1. \A x \in unsigned_short : (x * 0) \div 100 = 0
    BY ColourBound
  <2>2. /\ f(i - 1, j) \in unsigned_short /\ f(i, j - 1) \in unsigned_short
        /\ f(i, j + 1) \in unsigned_short /\ f(i + 1, j) \in unsigned_short
    BY <1>1, <1>4
  <2> QED
    BY <1>8, <2>1, <2>2
<1>10. PICK a \in unsigned_short, b \in unsigned_short, c \in unsigned_short, e \in unsigned_short, g \in unsigned_short :
          /\ a = f(i - 1, j - 1) /\ b = f(i - 1, j + 1) /\ c = f(i, j) /\ e = f(i + 1, j - 1) /\ g = f(i + 1, j + 1)
  BY <1>1, <1>4
<1>11. PICK u, v, w, x, y : /\ u = (a * 4) \div 25 /\ v = (b * 4) \div 25 /\ w = (c * 3) \div 10
                            /\ x = (e * 4) \div 25 /\ y = (g * 4) \div 25
  OBVIOUS
<1>12. /\ u \in Nat /\ u <= 10486 /\ v \in Nat /\ v <= 10486 /\ w \in Nat /\ w <= 19661
       /\ x \in Nat /\ x <= 10486 /\ y \in Nat /\ y <= 10486
  BY <1>11, QuotientsAgree
<1>13. part(-1, -1) = u /\ part(-1, 1) = v /\ part(0, 0) = w /\ part(1, -1) = x /\ part(1, 1) = y
  <2>1. /\ (a * 16) \div 100 = u /\ (b * 16) \div 100 = v /\ (c * 30) \div 100 = w
        /\ (e * 16) \div 100 = x /\ (g * 16) \div 100 = y
    BY <1>11, QuotientsAgree
  <2> QED
    BY ONLY <1>7, <1>10, <2>1
<1>14. (u + v + w + x + y) % 65536 = (u + 0 + v) + (0 + w + 0) + (x + 0 + y)
  BY ONLY <1>12
<1>15. weighted_combo(d, i, j, src) = (u + v + w + x + y) % 65536
  BY <1>6, <1>10, <1>11
<1> QED
  BY ONLY <1>5, <1>9, <1>13, <1>14, <1>15

LEMMA GlowPaints ==
    ASSUME NEW c \in Work, c.kernel = "glow", NEW image, NEW D, D \subseteq Square(c.dim), Painted(c, image, D),
           NEW a \in 0..c.dim - 1, NEW b \in 0..c.dim - 1
    PROVE  Painted(c, Assign(image, RIDX(a, b, c.dim), weighted_combo(c.dim, a, b, c.src)), D \cup {<<a, b>>})
<1>1. PICK r : r = <<a, b>>
  OBVIOUS
<1>2. r \in Square(c.dim) /\ r[1] = a /\ r[2] = b
  BY <1>1 DEF Square
<1>3. Goes(c, r) = r
  BY DEF Goes
<1>4. Cell(c, r) = RIDX(a, b, c.dim)
  BY <1>2, <1>3 DEF Cell
<1>5. weighted_combo(c.dim, a, b, c.src) = check_weighted_sum(c.dim, a, b, c.src)
  BY JobTypes, SumsAgree
<1>6. weighted_combo(c.dim, a, b, c.src) = Right(c, Goes(c, r)[1], Goes(c, r)[2])
  BY <1>2, <1>3, <1>5 DEF Right
<1> QED
  BY <1>1, <1>2, <1>4, <1>6, AssignPaints

-----------------------------------------------------------------------------
(* The loops. *)

LEMMA Advance1 ==
    ASSUME NEW d \in Nat, d > 0, NEW p, At1(p, d), ~(p.k >= d)
    PROVE  /\ At1(After1(p, d), d)
           /\ Passed1(After1(p, d), d) = Passed1(p, d) \cup {<<p.i, p.j>>}
           /\ p.i \in 0..d - 1 /\ p.j \in 0..d - 1
<1>1. /\ p.k \in Int /\ p.m \in Int /\ p.i \in 0..d - 1 /\ p.j \in 0..d - 1 /\ p.k = p.i
      /\ p \in Vars
  BY DEF At1, Vars
<1>2. PICK q : q = After1(p, d)
  OBVIOUS
<1>3. CASE p.j + 1 < d
  <2>1. q = [p EXCEPT !.j = p.j + 1]
    BY <1>2, <1>3 DEF After1
  <2>2. q \in Vars /\ q.k = p.k /\ q.i = p.i /\ q.j = p.j + 1
    BY <1>1, <2>1 DEF Vars
  <2>3. At1(q, d)
    BY <1>1, <1>3, <2>2 DEF At1
  <2>4. ASSUME NEW x \in 0..d - 1, NEW y \in 0..d - 1
        PROVE  (x < q.i \/ (x = q.i /\ y < q.j)) <=> (x < p.i \/ (x = p.i /\ y < p.j)) \/ (x = p.i /\ y = p.j)
    BY <1>1, <2>2
  <2>5. Passed1(q, d) = Passed1(p, d) \cup {<<p.i, p.j>>}
    BY <1>1, <2>4 DEF Passed1, Square
  <2> QED
    BY <1>1, <1>2, <2>3, <2>5
<1>4. CASE ~(p.j + 1 < d)
  <2>1. q = [k |-> p.i + 1, m |-> 0, i |-> p.i + 1, j |-> 0]
    BY <1>2, <1>4 DEF After1
  <2>2. q \in Vars /\ q.k = p.i + 1 /\ q.i = p.i + 1 /\ q.j = 0
    BY <1>1, <2>1 DEF Vars
  <2>3. At1(q, d)
    BY <1>1, <2>2 DEF At1
  <2>4. ASSUME NEW x \in 0..d - 1, NEW y \in 0..d - 1
        PROVE  (x < q.i \/ (x = q.i /\ y < q.j)) <=> (x < p.i \/ (x = p.i /\ y < p.j)) \/ (x = p.i /\ y = p.j)
    BY <1>1, <1>4, <2>2
  <2>5. Passed1(q, d) = Passed1(p, d) \cup {<<p.i, p.j>>}
    BY <1>1, <2>4 DEF Passed1, Square
  <2> QED
    BY <1>1, <1>2, <2>3, <2>5
<1> QED
  BY <1>3, <1>4

\* Passed2 in the words of its four bounds.
Behind(k, m, i, j, x, y) ==
    \/ x < k
    \/ x < k + 8 /\ (y < m \/ (y < m + 8 /\ (x < i \/ (x = i /\ y < j))))

LEMMA BehindRow ==
    ASSUME NEW k \in Nat, NEW m \in Nat, NEW i \in Nat, k <= i, i + 1 < k + 8, NEW x \in Nat, NEW y \in Nat
    PROVE  Behind(k, m, i + 1, m, x, y) <=> Behind(k, m, i, m + 6, x, y) \/ (x = i /\ (y = m + 6 \/ y = m + 7))
<1>1. CASE x < k \/ x >= k + 8
  BY <1>1 DEF Behind
<1>2. CASE k <= x /\ x < k + 8 /\ (y < m \/ y >= m + 8)
  BY <1>2 DEF Behind
<1>3. CASE k <= x /\ x < k + 8 /\ m <= y /\ y < m + 8
  BY <1>3 DEF Behind
<1> QED
  BY <1>1, <1>2, <1>3

LEMMA BehindBlocks ==
    ASSUME NEW k \in Nat, NEW m \in Nat, NEW x \in Nat, NEW y \in Nat, y < m + 8
    PROVE  Behind(k + 8, 0, k + 8, 0, x, y)
              <=> Behind(k, m, k + 7, m + 6, x, y) \/ (x = k + 7 /\ (y = m + 6 \/ y = m + 7))
<1>1. CASE x < k \/ x >= k + 8
  BY <1>1 DEF Behind
<1>2. CASE k <= x /\ x < k + 8 /\ y < m
  BY <1>2 DEF Behind
<1>3. CASE k <= x /\ x < k + 8 /\ m <= y
  BY <1>3 DEF Behind
<1> QED
  BY <1>1, <1>2, <1>3

LEMMA Advance2 ==
    ASSUME NEW d \in Nat, d > 0, d % 8 = 0, NEW p, At2(p, d), ~(p.k >= d)
    PROVE  /\ At2(After2(p, d), d)
           /\ Passed2(After2(p, d), d) = Passed2(p, d) \cup {<<p.i, p.j>>, <<p.i, p.j + 1>>}
           /\ p.i \in 0..d - 1 /\ p.j \in 0..d - 1 /\ p.j + 1 \in 0..d - 1
<1>1. /\ p.k \in Nat /\ p.m \in Nat /\ p.i \in Int /\ p.j \in Int /\ p.k < d /\ p.m < d
      /\ p.k % 8 = 0 /\ p.m % 8 = 0 /\ p.j % 2 = 0
      /\ p.k <= p.i /\ p.i < p.k + 8 /\ p.m <= p.j /\ p.j < p.m + 8
      /\ p \in Vars
  BY DEF At2, Vars, block
<1>2. \A x, y \in Nat : x % 8 = 0 /\ y % 8 = 0 /\ x < y => x + 8 <= y
  OBVIOUS
<1>3. p.k + 8 <= d /\ p.m + 8 <= d
  BY <1>1, <1>2
<1>4. \A x, y \in Nat : x % 8 = 0 /\ y % 2 = 0 /\ y < x + 8 => y + 2 <= x + 8
  OBVIOUS
<1>5. p.j \in Nat /\ p.j + 2 <= p.m + 8
  BY <1>1, <1>4
<1>6. p.i \in 0..d - 1 /\ p.j \in 0..d - 1 /\ p.j + 1 \in 0..d - 1
  BY <1>1, <1>3, <1>5
<1>7. PICK q : q = After2(p, d)
  OBVIOUS
<1>8. SUFFICES /\ q \in Vars /\ q.k \in 0..d /\ q.m \in 0..d - 1 /\ q.k % 8 = 0 /\ q.m % 8 = 0 /\ q.j % 2 = 0
               /\ q.k <= q.i /\ q.i < q.k + 8 /\ q.m <= q.j /\ q.j < q.m + 8
               /\ q.k = d => q.m = 0 /\ q.i = q.k /\ q.j = q.m
               /\ \A x, y \in 0..d - 1 : Behind(q.k, q.m, q.i, q.j, x, y)
                     <=> Behind(p.k, p.m, p.i, p.j, x, y) \/ (x = p.i /\ (y = p.j \/ y = p.j + 1))
  <2>1. At2(q, d)
    BY <1>8 DEF At2, Vars, block
  <2>2. /\ Passed2(q, d) = {r \in Square(d) : Behind(q.k, q.m, q.i, q.j, r[1], r[2])}
        /\ Passed2(p, d) = {r \in Square(d) : Behind(p.k, p.m, p.i, p.j, r[1], r[2])}
    BY DEF Passed2, Behind, block
  <2>3. Passed2(q, d) = Passed2(p, d) \cup {<<p.i, p.j>>, <<p.i, p.j + 1>>}
    BY <1>6, <1>8, <2>2 DEF Square
  <2> QED
    BY <1>6, <1>7, <2>1, <2>3
<1>9. CASE p.j + 2 < p.m + 8
  <2>1. q = [p EXCEPT !.j = p.j + 2]
    BY <1>1, <1>7, <1>9 DEF After2, block
  <2>2. q \in Vars /\ q.k = p.k /\ q.m = p.m /\ q.i = p.i /\ q.j = p.j + 2
    BY <1>1, <2>1 DEF Vars
  <2>3. q.j % 2 = 0
    BY <1>1, <2>2
  <2>4. ASSUME NEW x \in 0..d - 1, NEW y \in 0..d - 1
        PROVE  Behind(q.k, q.m, q.i, q.j, x, y)
                  <=> Behind(p.k, p.m, p.i, p.j, x, y) \/ (x = p.i /\ (y = p.j \/ y = p.j + 1))
    BY ONLY <1>1, <1>3, <1>5, <1>9, <2>2, <2>4 DEF Behind
  <2> QED
    BY <1>1, <1>3, <1>5, <1>9, <2>2, <2>3, <2>4
<1>10. CASE p.j + 2 >= p.m + 8 /\ p.i + 1 < p.k + 8
  <2>1. q = [p EXCEPT !.i = p.i + 1, !.j = p.m]
    BY <1>1, <1>7, <1>10 DEF After2, block
  <2>2. q \in Vars /\ q.k = p.k /\ q.m = p.m /\ q.i = p.i + 1 /\ q.j = p.m
    <3>1. q = [k |-> p.k, m |-> p.m, i |-> p.i + 1, j |-> p.m]
      BY <1>1, <2>1 DEF Vars
    <3> QED
      BY <1>1, <3>1 DEF Vars
  <2>3. q.j % 2 = 0
    BY <1>1, <2>2
  <2>4. ASSUME NEW x \in 0..d - 1, NEW y \in 0..d - 1
        PROVE  Behind(q.k, q.m, q.i, q.j, x, y)
                  <=> Behind(p.k, p.m, p.i, p.j, x, y) \/ (x = p.i /\ (y = p.j \/ y = p.j + 1))
    <3>1. p.i \in Nat /\ p.j = p.m + 6 /\ p.j + 1 = p.m + 7
      BY <1>1, <1>5, <1>10
    <3>2. Behind(p.k, p.m, p.i + 1, p.m, x, y)
             <=> Behind(p.k, p.m, p.i, p.m + 6, x, y) \/ (x = p.i /\ (y = p.m + 6 \/ y = p.m + 7))
      <4>1. p.k \in Nat /\ p.m \in Nat /\ p.k <= p.i /\ p.i + 1 < p.k + 8 /\ x \in Nat /\ y \in Nat
        BY <1>1, <1>10
      <4> QED
        BY ONLY <3>1, <4>1, BehindRow
    <3> QED
      BY <2>2, <3>1, <3>2
  <2> QED
    BY <1>1, <1>3, <1>5, <1>10, <2>2, <2>3, <2>4
<1>11. CASE p.j + 2 >= p.m + 8 /\ p.i + 1 >= p.k + 8 /\ p.m + 8 < d
  <2>1. q = [k |-> p.k, m |-> p.m + 8, i |-> p.k, j |-> p.m + 8]
    <3>1. p.m + 8 # 0
      BY <1>1
    <3> QED
      BY <1>1, <1>7, <1>11, <3>1 DEF After2, block
  <2>2. q \in Vars /\ q.k = p.k /\ q.m = p.m + 8 /\ q.i = p.k /\ q.j = p.m + 8
    BY <1>1, <2>1 DEF Vars
  <2>3. q.j % 2 = 0 /\ q.m % 8 = 0
    BY <1>1, <2>2
  <2>4. ASSUME NEW x \in 0..d - 1, NEW y \in 0..d - 1
        PROVE  Behind(q.k, q.m, q.i, q.j, x, y)
                  <=> Behind(p.k, p.m, p.i, p.j, x, y) \/ (x = p.i /\ (y = p.j \/ y = p.j + 1))
    BY ONLY <1>1, <1>3, <1>5, <1>11, <2>2, <2>4 DEF Behind
  <2> QED
    BY <1>1, <1>3, <1>5, <1>11, <2>2, <2>3, <2>4
<1>12. CASE p.j + 2 >= p.m + 8 /\ p.i + 1 >= p.k + 8 /\ ~(p.m + 8 < d)
  <2>1. q = [k |-> p.k + 8, m |-> 0, i |-> p.k + 8, j |-> 0]
    BY <1>1, <1>7, <1>12 DEF After2, block
  <2>2. q \in Vars /\ q.k = p.k + 8 /\ q.m = 0 /\ q.i = p.k + 8 /\ q.j = 0
    BY <1>1, <2>1 DEF Vars
  <2>3. q.j % 2 = 0 /\ q.m % 8 = 0 /\ q.k % 8 = 0
    BY <1>1, <2>2
  <2>4. ASSUME NEW x \in 0..d - 1, NEW y \in 0..d - 1
        PROVE  Behind(q.k, q.m, q.i, q.j, x, y)
                  <=> Behind(p.k, p.m, p.i, p.j, x, y) \/ (x = p.i /\ (y = p.j \/ y = p.j + 1))
    <3>1. p.i = p.k + 7 /\ p.j = p.m + 6 /\ p.j + 1 = p.m + 7 /\ d = p.m + 8
      <4>1. /\ p.k \in Nat /\ p.m \in Nat /\ p.i \in Int /\ p.j \in Nat /\ d \in Nat
            /\ p.i < p.k + 8 /\ p.j + 2 <= p.m + 8 /\ p.m + 8 <= d
        BY <1>1, <1>3, <1>5
      <4> QED
        BY ONLY <1>12, <4>1
    <3>2. Behind(p.k + 8, 0, p.k + 8, 0, x, y)
             <=> Behind(p.k, p.m, p.k + 7, p.m + 6, x, y) \/ (x = p.k + 7 /\ (y = p.m + 6 \/ y = p.m + 7))
      <4>1. p.k \in Nat /\ p.m \in Nat /\ x \in Nat /\ y \in Nat /\ y < p.m + 8
        BY <1>1, <3>1
      <4> QED
        BY ONLY <4>1, BehindBlocks
    <3> QED
      BY <2>2, <3>1, <3>2
  <2> QED
    BY <1>1, <1>3, <1>5, <1>12, <2>2, <2>3, <2>4
<1> QED
  BY <1>1, <1>9, <1>10, <1>11, <1>12

\* At the beginning no pixel was passed, at the end all of them were.
LEMMA Bounds ==
    ASSUME NEW c \in Work
    PROVE  LET p == [k |-> 0, m |-> 0, i |-> 0, j |-> 0]
           IN  Along(c, p) /\ Passed(c, p) = {}
<1> DEFINE p == [k |-> 0, m |-> 0, i |-> 0, j |-> 0]
<1>1. c.dim \in Nat /\ c.dim > 0
  BY JobTypes
<1>2. p \in Vars /\ p.k = 0 /\ p.m = 0 /\ p.i = 0 /\ p.j = 0
  BY DEF Vars
<1> HIDE DEF p
<1>3. At1(p, c.dim) /\ At2(p, c.dim)
  BY <1>1, <1>2 DEF At1, At2, block
<1>4. Passed1(p, c.dim) = {} /\ Passed2(p, c.dim) = {}
  BY <1>1, <1>2 DEF Passed1, Passed2, Square, block
<1> QED
  BY <1>3, <1>4 DEF p, Along, Passed

LEMMA AllPassed ==
    ASSUME NEW c \in Work, NEW p, Along(c, p), p.k >= c.dim
    PROVE  Passed(c, p) = Square(c.dim)
<1>1. c.dim \in Nat /\ c.dim > 0
  BY JobTypes
<1>2. CASE c.kernel = "pinwheel"
  <2>1. p.k = c.dim
    BY <1>1, <1>2 DEF Along, At2
  <2>2. \A x \in 0..c.dim - 1 : x < p.k
    BY <1>1, <2>1
  <2> QED
    BY <1>2, <2>2 DEF Passed, Passed2, Square
<1>3. CASE c.kernel # "pinwheel"
  <2>1. p.i = c.dim
    BY <1>1, <1>3 DEF Along, At1
  <2>2. \A x \in 0..c.dim - 1 : x < p.i
    BY <1>1, <2>1
  <2> QED
    BY <1>3, <2>2 DEF Passed, Passed1, Square
<1> QED
  BY <1>2, <1>3

\* The image of all pixels is the one that driver.c expects.
LEMMA AllPainted ==
    ASSUME NEW c \in Work, NEW image, Painted(c, image, Square(c.dim))
    PROVE  /\ DOMAIN image = 1..c.dim * c.dim
           /\ \A i \in 0..c.dim - 1, j \in 0..c.dim - 1 : image[RIDX(i, j, c.dim)] = Right(c, i, j)
<1>1. c.dim \in Nat /\ c.dim > 0
  BY JobTypes
<1>2. ASSUME NEW i \in 0..c.dim - 1, NEW j \in 0..c.dim - 1
      PROVE  \E r \in Square(c.dim) : Cell(c, r) = RIDX(i, j, c.dim) /\ Goes(c, r)[1] = i /\ Goes(c, r)[2] = j
  <2>1. PICK r \in Square(c.dim) : Goes(c, r) = <<i, j>>
    <3>1. <<i, j>> \in Square(c.dim)
      BY DEF Square
    <3> QED
      BY <3>1, GoesEverywhere
  <2> QED
    BY <2>1 DEF Cell
<1>3. ASSUME NEW r \in Square(c.dim) PROVE Cell(c, r) \in 1..c.dim * c.dim
  <2>1. Goes(c, r)[1] \in 0..c.dim - 1 /\ Goes(c, r)[2] \in 0..c.dim - 1
    BY GoesInside DEF Square
  <2> QED
    BY <1>1, <2>1, IndexRange DEF Cell
<1>4. ASSUME NEW n \in 1..c.dim * c.dim PROVE \E r \in Square(c.dim) : Cell(c, r) = n
  <2>1. PICK i \in 0..c.dim - 1, j \in 0..c.dim - 1 : RIDX(i, j, c.dim) = n
    BY <1>1, IndexRange
  <2> QED
    BY <1>2, <2>1
<1>5. DOMAIN image = 1..c.dim * c.dim
  BY <1>3, <1>4 DEF Painted
<1>6. ASSUME NEW i \in 0..c.dim - 1, NEW j \in 0..c.dim - 1 PROVE image[RIDX(i, j, c.dim)] = Right(c, i, j)
  BY <1>2 DEF Painted
<1> QED
  BY <1>5, <1>6

-----------------------------------------------------------------------------
(* The invariant. *)

LEMMA InitKernels ==
    KernelsInit => IInv
<1> SUFFICES ASSUME KernelsInit PROVE IInv
  OBVIOUS
<1>1. job \in Jobs /\ at = [k |-> 0, m |-> 0, i |-> 0, j |-> 0] /\ dest = <<>>
  BY DEF KernelsInit, KernelsFresh
<1>2. ASSUME job \in Work PROVE Along(job, at) /\ Painted(job, dest, Passed(job, at))
  <2>1. Along(job, at) /\ Passed(job, at) = {}
    BY <1>1, <1>2, Bounds
  <2>2. DOMAIN dest = {}
    BY <1>1
  <2> QED
    BY <2>1, <2>2 DEF Painted
<1> QED
  BY <1>1, <1>2 DEF IInv

LEMMA NextKernels ==
    IInv /\ [KernelsNext]_kernelVars => IInv'
<1> SUFFICES ASSUME IInv, [KernelsNext]_kernelVars PROVE IInv'
  OBVIOUS
<1>1. CASE pinwheel
  <2>1. /\ job.kernel = "pinwheel" /\ ~(at.k >= job.dim) /\ at' = After2(at, job.dim) /\ job' = job
        /\ job \in Work
    BY <1>1 DEF pinwheel, KernelsEnded, IInv, Work
  <2>2. PICK d \in Nat : d = job.dim /\ d > 0 /\ d % 8 = 0 /\ \E h \in Nat : d = 2 * h
    BY <2>1, JobTypes
  <2>3. At2(at, d) /\ Painted(job, dest, Passed2(at, d))
    BY <2>1, <2>2 DEF IInv, Along, Passed
  <2>4. /\ At2(at', d) /\ Passed2(at', d) = Passed2(at, d) \cup {<<at.i, at.j>>, <<at.i, at.j + 1>>}
        /\ at.i \in 0..d - 1 /\ at.j \in 0..d - 1 /\ at.j + 1 \in 0..d - 1
    BY <2>1, <2>2, <2>3, Advance2
  <2>5. ASSUME NEW j \in 0..d - 1 PROVE (j >= begin(at.i, d) /\ j < end(at.i, d)) <=> diamond(at.i, j, d)
    BY <2>2, <2>4, RowIsDiamond
  <2>6. PICK u, v : /\ u = (at.j >= begin(at.i, d) /\ at.j < end(at.i, d))
                    /\ v = (at.j + 1 >= begin(at.i, d) /\ at.j + 1 < end(at.i, d))
    OBVIOUS
  <2>7. PICK first : first = Spin(dest, at.i, at.j, u, d)
    OBVIOUS
  <2>8. dest' = Spin(first, at.i, at.j + 1, v, d)
    BY <1>1, <2>2, <2>6, <2>7 DEF pinwheel
  <2>9. Passed2(at, d) \subseteq Square(d) /\ <<at.i, at.j>> \in Square(d)
    BY <2>4 DEF Passed2, Square
  <2>10. Painted(job, first, Passed2(at, d) \cup {<<at.i, at.j>>})
    BY <2>1, <2>2, <2>3, <2>4, <2>5, <2>6, <2>7, <2>9, SpinPaints
  <2>11. Painted(job, dest', (Passed2(at, d) \cup {<<at.i, at.j>>}) \cup {<<at.i, at.j + 1>>})
    <3>1. PICK j \in 0..d - 1 : j = at.j + 1
      BY <2>4
    <3>2. v <=> diamond(at.i, j, d)
      BY <2>5, <2>6, <3>1
    <3>3. PICK D : D = Passed2(at, d) \cup {<<at.i, at.j>>}
      OBVIOUS
    <3>4. D \subseteq Square(d)
      BY <2>9, <3>3
    <3>5. Painted(job, Spin(first, at.i, j, v, d), D \cup {<<at.i, j>>})
      BY <2>1, <2>2, <2>4, <2>10, <3>2, <3>3, <3>4, SpinPaints
    <3> QED
      BY <2>8, <3>1, <3>3, <3>5
  <2>12. (Passed2(at, d) \cup {<<at.i, at.j>>}) \cup {<<at.i, at.j + 1>>} = Passed2(at', d)
    BY <2>4
  <2> QED
    BY <2>1, <2>2, <2>4, <2>11, <2>12 DEF IInv, Along, Passed, Work
<1>2. CASE naive_pinwheel
  <2>1. /\ job.kernel = "naive_pinwheel" /\ ~(at.k >= job.dim) /\ at' = After1(at, job.dim) /\ job' = job
        /\ dest' = Spin(dest, at.i, at.j, diamond(at.i, at.j, job.dim), job.dim) /\ job \in Work
    BY <1>2 DEF naive_pinwheel, KernelsEnded, IInv, Work
  <2>2. job.dim \in Nat /\ job.dim > 0
    BY <2>1, JobTypes
  <2>3. At1(at, job.dim) /\ Painted(job, dest, Passed1(at, job.dim))
    BY <2>1 DEF IInv, Along, Passed
  <2>4. /\ At1(at', job.dim) /\ Passed1(at', job.dim) = Passed1(at, job.dim) \cup {<<at.i, at.j>>}
        /\ at.i \in 0..job.dim - 1 /\ at.j \in 0..job.dim - 1
    BY <2>1, <2>2, <2>3, Advance1
  <2>5. Passed1(at, job.dim) \subseteq Square(job.dim)
    BY DEF Passed1
  <2>6. Painted(job, dest', Passed1(at, job.dim) \cup {<<at.i, at.j>>})
    BY <2>1, <2>3, <2>4, <2>5, SpinPaints
  <2> QED
    BY <2>1, <2>4, <2>6 DEF IInv, Along, Passed, Work
<1>3. CASE glow
  <2>1. /\ job.kernel = "glow" /\ ~(at.k >= job.dim) /\ at' = After1(at, job.dim) /\ job' = job
        /\ dest' = Assign(dest, RIDX(at.i, at.j, job.dim), weighted_combo(job.dim, at.i, at.j, job.src))
        /\ job \in Work
    BY <1>3 DEF glow, KernelsEnded, IInv, Work
  <2>2. job.dim \in Nat /\ job.dim > 0
    BY <2>1, JobTypes
  <2>3. At1(at, job.dim) /\ Painted(job, dest, Passed1(at, job.dim))
    BY <2>1 DEF IInv, Along, Passed
  <2>4. /\ At1(at', job.dim) /\ Passed1(at', job.dim) = Passed1(at, job.dim) \cup {<<at.i, at.j>>}
        /\ at.i \in 0..job.dim - 1 /\ at.j \in 0..job.dim - 1
    BY <2>1, <2>2, <2>3, Advance1
  <2>5. Passed1(at, job.dim) \subseteq Square(job.dim)
    BY DEF Passed1
  <2>6. Painted(job, dest', Passed1(at, job.dim) \cup {<<at.i, at.j>>})
    BY <2>1, <2>3, <2>4, <2>5, GlowPaints
  <2> QED
    BY <2>1, <2>4, <2>6 DEF IInv, Along, Passed, Work
<1>4. CASE UNCHANGED kernelVars
  BY <1>4 DEF IInv, kernelVars
<1> QED
  BY <1>1, <1>2, <1>3, <1>4 DEF KernelsNext

\* Whatever the size of an image, both versions of pinwheel and both versions
\* of glow in kernels.c leave the image that driver.c computes, pixel for pixel,
\* and write nothing else.
THEOREM KernelsRight ==
    KernelsSpec => []ImageRight
<1>1. IInv => ImageRight
  <2> SUFFICES ASSUME IInv, KernelsEnded, job.kernel # "none"
               PROVE  /\ DOMAIN dest = 1..job.dim * job.dim
                      /\ \A i \in 0..job.dim - 1, j \in 0..job.dim - 1 : dest[RIDX(i, j, job.dim)] = Expected(i, j)
    BY DEF ImageRight
  <2>1. job \in Work /\ at.k >= job.dim /\ Along(job, at) /\ Painted(job, dest, Passed(job, at))
    BY DEF IInv, KernelsEnded, Work
  <2>2. Painted(job, dest, Square(job.dim))
    BY <2>1, AllPassed
  <2>3. \A i, j : Expected(i, j) = Right(job, i, j)
    BY DEF Expected, Right
  <2> QED
    BY <2>1, <2>2, <2>3, AllPainted
<1> QED
  BY <1>1, InitKernels, NextKernels, PTL DEF KernelsSpec
-----------------------------------------------------------------------------
(***************************************************************************)
(* The enforcer.  decode finds the instructions that a library has where   *)
(* they stand, so a turn of the walk is Turn, at a whole instruction, and  *)
(* elsewhere the walk gives up (Turns); Base says where it may be.         *)
(***************************************************************************)
Kinds == {"open", "close", "prot", "glob", "other", "sub", "mov", "ret", "jcc", "jmp",
          "tail_open", "tail_close", "got_open", "got_close"}

LEMMA LeastOf ==
    ASSUME NEW T \in SUBSET Nat, T # {}
    PROVE  \E x \in T : \A y \in T : x <= y
<1>1. PICK x \in T : \A y \in T : ~(<<y, x>> \in OpToRel(<, Nat))
  BY NatLessThanWellFounded, WFMin
<1>2. \A y \in T : ~(y < x)
  BY <1>1 DEF OpToRel
<1> QED
  BY <1>2

LEMMA SizeOf ==
    /\ DOMAIN Size = Kinds
    /\ Size["open"] = 5 /\ Size["close"] = 5 /\ Size["prot"] = 7 /\ Size["glob"] = 7 /\ Size["other"] = 2
    /\ Size["sub"] = 4 /\ Size["mov"] = 5 /\ Size["ret"] = 1 /\ Size["jcc"] = 2
    /\ Size["jmp"] = 2 /\ Size["tail_open"] = 5 /\ Size["tail_close"] = 5 /\ Size["got_open"] = 6
    /\ Size["got_close"] = 6
    /\ \A k \in Kinds : Size[k] \in 1..7
<1>1. DOMAIN Size = Kinds
  BY DEF Size, Kinds
<1>2. /\ Size["open"] = 5 /\ Size["close"] = 5 /\ Size["prot"] = 7 /\ Size["glob"] = 7 /\ Size["other"] = 2
    /\ Size["sub"] = 4 /\ Size["mov"] = 5 /\ Size["ret"] = 1 /\ Size["jcc"] = 2
    /\ Size["jmp"] = 2 /\ Size["tail_open"] = 5 /\ Size["tail_close"] = 5 /\ Size["got_open"] = 6
    /\ Size["got_close"] = 6
  BY DEF Size
<1> QED
  BY <1>1, <1>2 DEF Kinds

LEMMA NoPrefix ==
    ASSUME NEW text, NEW a, NEW q \in 0..1, Byte(text, a + (q + 0)) # 102
    PROVE  (CHOOSE k \in 0..15 : Byte(text, a + (q + k)) # 102 /\ \A j \in 0..k - 1 : Byte(text, a + (q + j)) = 102) = 0
<1> DEFINE W(k) == Byte(text, a + (q + k)) # 102 /\ \A j \in 0..k - 1 : Byte(text, a + (q + j)) = 102
<1>1. 0 \in 0..15 /\ W(0)
  OBVIOUS
<1>2. \A k \in 0..15 : W(k) => k = 0
  OBVIOUS
<1> HIDE DEF W
<1>3. (CHOOSE k \in 0..15 : W(k)) = 0
  BY <1>1, <1>2
<1> QED
  BY <1>3 DEF W

LEMMA DecodeMov ==
    ASSUME NEW text, NEW a \in Nat, NEW d, {a, a + 1, a + 2, a + 3} \subseteq DOMAIN text,
           text[a] = 72, text[a + 1] = 139, text[a + 2] = 5, text[a + 3] = d
    PROVE  decode(text, a) = Instruction("MOV_ADDR_TO_REG_OP", 7, a + 7 + d)
<1>1. Byte(text, a + 0) = 72 /\ Byte(text, a + 1) = 139 /\ Byte(text, a + 2) = 5 /\ Byte(text, a + 3) = d
  BY DEF Byte
<1>2. MODRM_MOD(5) = 0 /\ MODRM_RM(5) = 5
  BY DEF MODRM_MOD, MODRM_RM
<1> QED
  BY <1>1, <1>2 DEF decode

LEMMA DecodeCall ==
    ASSUME NEW text, NEW a \in Nat, NEW d, {a, a + 1} \subseteq DOMAIN text, text[a] = 232, text[a + 1] = d
    PROVE  decode(text, a) = Instruction("CALL_OP", 5, a + 5 + d)
<1>1. Byte(text, a + 0) = 232 /\ Byte(text, a + 1) = d
  BY DEF Byte
<1> QED
  BY <1>1 DEF decode

LEMMA DecodeSlot ==
    ASSUME NEW text, NEW a \in Nat, NEW d, {a, a + 1, a + 2} \subseteq DOMAIN text,
           text[a] = 255, text[a + 1] = 37, text[a + 2] = d
    PROVE  decode(text, a) = Instruction("JMP_TO_ADDR_OP", 6, a + 6 + d)
<1>1. Byte(text, a + 0) = 255 /\ Byte(text, a + 1) = 37 /\ Byte(text, a + 2) = d
  BY DEF Byte
<1> QED
  BY <1>1 DEF decode

LEMMA DecodeJcc ==
    ASSUME NEW text, NEW a \in Nat, NEW d, {a, a + 1} \subseteq DOMAIN text, text[a] = 117, text[a + 1] = d
    PROVE  decode(text, a) = Instruction("MAYBE_JMP_TO_ADDR_OP", 2, a + 2 + d)
<1>1. Byte(text, a + 0) = 117 /\ Byte(text, a + 1) = d
  BY DEF Byte
<1> QED
  BY <1>1 DEF decode

LEMMA DecodeBehind ==
    ASSUME NEW text, NEW a \in Nat, NEW q, q = (IF Byte(text, a + 0) = 72 THEN 1 ELSE 0),
           Byte(text, a + 0) \notin {255, 232, 144}, Byte(text, a + 0) \notin 112..127,
           Byte(text, a + 0) = 72 => Byte(text, a + 1) # 139,
           Byte(text, a + (q + 0)) \notin {46, 102}
    PROVE  decode(text, a) = Unprefixed(text, a, q, IF q = 1 THEN 8 ELSE 4)
<1> DEFINE W(p) == CHOOSE k \in 0..15 : Byte(text, a + (p + k)) # 102 /\ \A j \in 0..k - 1 : Byte(text, a + (p + j)) = 102
           D(p) == Unprefixed(text, a, p + W(p) + (IF Byte(text, a + (p + W(p))) = 46 THEN 1 ELSE 0),
                              IF W(p) > 0 THEN 2 ELSE IF p = 1 THEN 8 ELSE 4)
<1>1. decode(text, a) = D(IF Byte(text, a + 0) = 72 THEN 1 ELSE 0)
  BY DEF decode
<1>2. W(q) = 0
  <2>1. q \in 0..1 /\ Byte(text, a + (q + 0)) # 102
    OBVIOUS
  <2> QED
    BY <2>1, NoPrefix
<1>3. D(q) = Unprefixed(text, a, q, IF q = 1 THEN 8 ELSE 4)
  <2> HIDE DEF W
  <2> QED
    BY <1>2
<1>4. decode(text, a) = D(q)
  <2> HIDE DEF D, W
  <2> QED
    BY <1>1
<1> QED
  BY <1>3, <1>4

LEMMA DecodeOther ==
    ASSUME NEW text, NEW a \in Nat, NEW b, a \in DOMAIN text, text[a] = b,
           b \in Nat, b \notin {72, 46, 102, 255, 232, 144}, b \notin 112..127
    PROVE  decode(text, a) = Unprefixed(text, a, 0, 4)
<1>1. Byte(text, a + 0) = b /\ Byte(text, a + (0 + 0)) = b
  BY DEF Byte
<1>2. PICK q : q = (IF Byte(text, a + 0) = 72 THEN 1 ELSE 0)
  OBVIOUS
<1>3. q = 0
  BY <1>1, <1>2
<1>4. decode(text, a) = Unprefixed(text, a, q, IF q = 1 THEN 8 ELSE 4)
  BY <1>1, <1>2, <1>3, DecodeBehind
<1> QED
  BY <1>3, <1>4

\* The instructions behind no prefix.
LEMMA DecodeShort ==
    ASSUME NEW text, NEW a \in Nat, NEW b, NEW c \in Int, {a, a + 1} \subseteq DOMAIN text, text[a] = b, text[a + 1] = c
    PROVE  /\ b = 49 /\ c = 192 => decode(text, a) = Instruction("OTHER_OP", 2, 0)
           /\ b = 184 => decode(text, a) = Instruction("OTHER_OP", 5, 0)
           /\ b = 129 => decode(text, a) = Instruction("OTHER_OP", 4, 0)
           /\ b = 235 => decode(text, a) = Instruction("JMP_TO_ADDR_OP", 2, a + 2 + (IF c > 127 THEN c - 256 ELSE c))
           /\ b = 233 => decode(text, a) = Instruction("JMP_TO_ADDR_OP", 5, a + 5 + c)
<1>1. Byte(text, a + 0 + 0) = b /\ Byte(text, a + 0 + 1) = c
  BY DEF Byte
<1>2. b \in {49, 184, 129, 235, 233} => decode(text, a) = Unprefixed(text, a, 0, 4)
  BY DecodeOther
<1>3. OperandLength(192) = 2
  BY DEF OperandLength, MODRM_MOD
<1>4. b = 49 /\ c = 192 => Unprefixed(text, a, 0, 4) = Instruction("OTHER_OP", 2, 0)
  BY <1>1, <1>3 DEF Unprefixed, Other, PushPop, Variants
<1>5. b = 184 => Unprefixed(text, a, 0, 4) = Instruction("OTHER_OP", 5, 0)
  BY <1>1 DEF Unprefixed, Other, PushPop, Variants
<1>6. b = 129 => Unprefixed(text, a, 0, 4) = Instruction("OTHER_OP", 4, 0)
  BY <1>1 DEF Unprefixed, Other, PushPop, Variants
<1>7. b = 235 => Unprefixed(text, a, 0, 4) = Instruction("JMP_TO_ADDR_OP", 2, a + 2 + (IF c > 127 THEN c - 256 ELSE c))
  BY <1>1 DEF Unprefixed, PushPop, Variants
<1>8. b = 233 => Unprefixed(text, a, 0, 4) = Instruction("JMP_TO_ADDR_OP", 5, a + 5 + c)
  BY <1>1 DEF Unprefixed, PushPop, Variants
<1> QED
  BY <1>2, <1>4, <1>5, <1>6, <1>7, <1>8

\* A return, a crash, and bytes inside an instruction, whatever follows.
LEMMA DecodeOne ==
    ASSUME NEW text, NEW a \in Nat, NEW b, a \in DOMAIN text, text[a] = b
    PROVE  /\ b = 195 => decode(text, a) = Instruction("RET_OP", 1, 0)
           /\ b \in {204, 205, 0} => decode(text, a) = Instruction("exit", 0, 0)
<1>1. Byte(text, a + 0) = b /\ Byte(text, a + 0 + 0) = b
  BY DEF Byte
<1>2. b \in {195, 204, 205, 0} => decode(text, a) = Unprefixed(text, a, 0, 4)
  BY DecodeOther
<1>3. b = 195 => Unprefixed(text, a, 0, 4) = Instruction("RET_OP", 1, 0)
  BY <1>1 DEF Unprefixed, PushPop, Variants
<1>4. b \in {204, 205, 0} => Unprefixed(text, a, 0, 4) = Instruction("exit", 0, 0)
  BY <1>1 DEF Unprefixed, PushPop, Variants, Unrecognized
<1> QED
  BY <1>2, <1>3, <1>4

LEMMA DecodeSub ==
    ASSUME NEW text, NEW a \in Nat, {a, a + 1} \subseteq DOMAIN text, text[a] = 72, text[a + 1] = 131
    PROVE  decode(text, a) = Instruction("OTHER_OP", 4, 0)
<1>1. Byte(text, a + 0) = 72 /\ Byte(text, a + 1) = 131 /\ Byte(text, a + 1 + 0) = 131
  BY DEF Byte
<1>2. PICK q : q = (IF Byte(text, a + 0) = 72 THEN 1 ELSE 0)
  OBVIOUS
<1>3. q = 1 /\ Byte(text, a + (q + 0)) = 131
  BY <1>1, <1>2 DEF Byte
<1>4. decode(text, a) = Unprefixed(text, a, q, IF q = 1 THEN 8 ELSE 4)
  BY <1>1, <1>2, <1>3, DecodeBehind
<1>5. decode(text, a) = Unprefixed(text, a, 1, 8)
  BY <1>3, <1>4
<1>6. Unprefixed(text, a, 1, 8) = Instruction("OTHER_OP", 4, 0)
  BY <1>1 DEF Unprefixed, Other, PushPop, Variants
<1> QED
  BY <1>5, <1>6

\* The instructions of a library: their kinds, and where they stand and end.
Kind(l, n, i) == l.source[n][i].k
Width(l, n, i) == Size[Kind(l, n, i)]
Target(l, n, i) == l.source[n][i].to

LEMMA FunctionFacts ==
    ASSUME NEW l, Linked(l), NEW n \in DOMAIN l.source
    PROVE  /\ Len(l.source[n]) \in Nat \ {0} /\ DOMAIN l.source[n] = 1..Len(l.source[n])
           /\ \A i \in 1..Len(l.source[n]) :
                 /\ Kind(l, n, i) \in Kinds /\ Width(l, n, i) \in 1..7
                 /\ Kind(l, n, i) \in {"jcc", "jmp"} => Target(l, n, i) \in i + 1..Len(l.source[n])
                 /\ Kind(l, n, i) \notin {"jcc", "jmp"} => Target(l, n, i) = 0
           /\ Kind(l, n, Len(l.source[n])) \in {"ret", "tail_open", "got_open", "tail_close", "got_close"}
           /\ \A i \in 1..Len(l.source[n]) + 1 : l.at[n][i] \in Nat
           /\ l.at[n][1] >= 256
           /\ \A i \in 1..Len(l.source[n]) : l.at[n][i + 1] = l.at[n][i] + Width(l, n, i)
<1> DEFINE f == l.source[n]
<1>1. f \in Seq([k : DOMAIN Size, to : Nat, when : SUBSET Int]) /\ Compiled(f) /\ StandsAt(f, l.at[n], l.code)
  BY DEF Linked
<1>2. f # <<>> /\ Len(f) \in Nat /\ DOMAIN f = 1..Len(f) /\ \A i \in 1..Len(f) : f[i] \in [k : DOMAIN Size, to : Nat, when : SUBSET Int]
  BY <1>1, LenProperties, ElementOfSeq DEF Compiled
<1>3. Len(f) # 0
  BY <1>1, <1>2, EmptySeq
<1>4. \A i \in 1..Len(f) : f[i].k \in Kinds /\ Size[f[i].k] \in 1..7
  BY <1>2, SizeOf
<1>5. \A i \in 1..Len(f) : /\ f[i].k \in {"jcc", "jmp"} => f[i].to \in i + 1..Len(f)
                           /\ f[i].k \notin {"jcc", "jmp"} => f[i].to = 0
  BY <1>1, <1>2 DEF Compiled
<1>6. f[Len(f)].k \in {"ret", "tail_open", "got_open", "tail_close", "got_close"}
  BY <1>1 DEF Compiled, Last, TailOpen, TailClose
<1>7. /\ l.at[n] \in Seq(Nat) /\ Len(l.at[n]) = Len(f) + 1 /\ l.at[n][1] >= Text
      /\ \A i \in DOMAIN f : l.at[n][i + 1] = l.at[n][i] + Size[f[i].k]
  BY <1>1 DEF StandsAt
<1>8. \A i \in 1..Len(f) + 1 : l.at[n][i] \in Nat
  BY <1>7, ElementOfSeq
<1> QED
  BY <1>2, <1>3, <1>4, <1>5, <1>6, <1>7, <1>8 DEF Kind, Width, Target, Text

LEMMA Longer ==
    ASSUME NEW p \in Nat, NEW q \in 1..7, NEW r \in Nat, NEW t \in 1..7, p + q <= r
    PROVE  p + q <= r + t
OBVIOUS

\* The instructions of a function stand one behind the other.
LEMMA Ascending ==
    ASSUME NEW l, Linked(l), NEW n \in DOMAIN l.source,
           NEW i \in 1..Len(l.source[n]), NEW j \in 1..Len(l.source[n]) + 1, i < j
    PROVE  l.at[n][i] + Width(l, n, i) <= l.at[n][j]
<1> DEFINE L == Len(l.source[n])
           a == l.at[n]
           w == [m \in 1..L |-> Width(l, n, m)]
           T == {m \in Nat : m \in i + 1..L + 1 /\ ~(a[i] + w[i] <= a[m])}
<1>1. /\ L \in Nat /\ \A m \in 1..L + 1 : a[m] \in Nat
      /\ \A m \in 1..L : a[m + 1] = a[m] + w[m] /\ w[m] \in 1..7
  BY FunctionFacts
<1> HIDE DEF a, w
<1>0. CASE T = {}
  <2>1. j \in Nat /\ j \in i + 1..L + 1
    BY <1>1
  <2>2. a[i] + w[i] <= a[j]
    BY <1>0, <2>1
  <2> QED
    BY <2>2 DEF a, w
<1>2. SUFFICES ASSUME T # {} PROVE FALSE
  BY <1>0
<1>3. PICK m \in T : \A o \in T : m <= o
  <2>1. T \in SUBSET Nat
    OBVIOUS
  <2> HIDE DEF T
  <2> QED
    BY <1>2, <2>1, LeastOf
<1>4. m # i + 1
  BY <1>1, <1>3
<1>5. m - 1 \in i + 1..L + 1 /\ m - 1 \in Nat /\ m - 1 \notin T /\ m - 1 \in 1..L
  BY <1>1, <1>3, <1>4
<1>6. a[i] + w[i] <= a[m - 1]
  BY <1>5
<1>7. a[m] = a[m - 1] + w[m - 1] /\ w[m - 1] \in 1..7
  <2>1. m - 1 + 1 = m
    BY <1>3
  <2> QED
    BY <1>1, <1>5, <2>1
<1>8. a[i] \in Nat /\ w[i] \in 1..7 /\ a[m - 1] \in Nat
  BY <1>1, <1>5
<1>9. a[i] + w[i] <= a[m]
  <2>1. a[i] + w[i] <= a[m - 1] + w[m - 1]
    BY <1>6, <1>7, <1>8, Longer
  <2> QED
    BY <2>1, <1>7
<1> QED
  BY <1>3, <1>9

LEMMA Further ==
    ASSUME NEW p \in Nat, NEW q \in 1..7, NEW r \in Nat, NEW t \in Nat, NEW u \in Nat,
           p + q <= r, r <= t, t <= u
    PROVE  p + q <= u
OBVIOUS

\* No two instructions share an address.
LEMMA Apart ==
    ASSUME NEW l, Linked(l), NEW n \in DOMAIN l.source, NEW m \in DOMAIN l.source,
           NEW i \in 1..Len(l.source[n]), NEW j \in 1..Len(l.source[m]), <<n, i>> # <<m, j>>
    PROVE  \/ l.at[n][i] + Width(l, n, i) <= l.at[m][j]
           \/ l.at[m][j] + Width(l, m, j) <= l.at[n][i]
<1>1. n \in Nat /\ m \in Nat /\ Len(l.source[n]) \in Nat /\ Len(l.source[m]) \in Nat
  <2>1. \A o \in DOMAIN l.source : o \in Nat
    <3>1. PICK S : l.source \in Seq(S)
      BY DEF Linked
    <3> QED
      BY <3>1, LenProperties
  <2> QED
    BY <2>1, FunctionFacts
<1>2. \A o, p \in DOMAIN l.source : o < p => l.at[o][Len(l.source[o]) + 1] <= l.at[p][1]
  BY DEF Linked, StandsAt, Last
<1>3. \A o \in DOMAIN l.source : \A k \in 1..Len(l.source[o]) :
         /\ l.at[o][k] + Width(l, o, k) <= l.at[o][Len(l.source[o]) + 1]
         /\ l.at[o][1] <= l.at[o][k]
         /\ l.at[o][k] \in Nat /\ Width(l, o, k) \in 1..7
         /\ l.at[o][1] \in Nat /\ l.at[o][Len(l.source[o]) + 1] \in Nat
  <2> TAKE o \in DOMAIN l.source
  <2> TAKE k \in 1..Len(l.source[o])
  <2>1. /\ Len(l.source[o]) \in Nat \ {0} /\ l.at[o][k] \in Nat /\ Width(l, o, k) \in 1..7
        /\ l.at[o][1] \in Nat /\ l.at[o][Len(l.source[o]) + 1] \in Nat /\ Width(l, o, 1) \in 1..7
    BY FunctionFacts
  <2>2. l.at[o][k] + Width(l, o, k) <= l.at[o][Len(l.source[o]) + 1]
    <3>1. Len(l.source[o]) + 1 \in 1..Len(l.source[o]) + 1 /\ k < Len(l.source[o]) + 1
      BY <2>1
    <3> QED
      BY <3>1, Ascending
  <2>3. k # 1 => l.at[o][1] + Width(l, o, 1) <= l.at[o][k]
    <3>1. 1 \in 1..Len(l.source[o]) /\ k \in 1..Len(l.source[o]) + 1 /\ (k # 1 => 1 < k)
      BY <2>1
    <3> QED
      BY <3>1, Ascending
  <2>4. l.at[o][1] <= l.at[o][k]
    <3>1. PICK p, q, r : p = l.at[o][1] /\ q = Width(l, o, 1) /\ r = l.at[o][k]
      OBVIOUS
    <3>2. p \in Nat /\ q \in 1..7 /\ r \in Nat /\ (k # 1 => p + q <= r)
      BY <2>1, <2>3, <3>1
    <3>3. k # 1 => p <= r
      BY ONLY <3>2
    <3>4. k = 1 => p = r
      BY <3>1
    <3> QED
      BY <3>1, <3>2, <3>3, <3>4
  <2> QED
    BY <2>1, <2>2, <2>4
<1>4. CASE n = m /\ i < j
  BY <1>1, <1>4, Ascending
<1>5. CASE n = m /\ j < i
  BY <1>1, <1>5, Ascending
<1>6. CASE n < m
  <2>1. /\ l.at[n][i] + Width(l, n, i) <= l.at[n][Len(l.source[n]) + 1]
        /\ l.at[n][Len(l.source[n]) + 1] <= l.at[m][1] /\ l.at[m][1] <= l.at[m][j]
    BY <1>2, <1>3, <1>6
  <2> QED
    BY <1>3, <2>1, Further
<1>7. CASE m < n
  <2>1. /\ l.at[m][j] + Width(l, m, j) <= l.at[m][Len(l.source[m]) + 1]
        /\ l.at[m][Len(l.source[m]) + 1] <= l.at[n][1] /\ l.at[n][1] <= l.at[n][i]
    BY <1>2, <1>3, <1>7
  <2> QED
    BY <1>3, <2>1, Further
<1> QED
  BY <1>1, <1>4, <1>5, <1>6, <1>7

\* The instruction i of function n is in the text as the library has it.
Intact(l, text, n, i) ==
    \A b \in 1..Width(l, n, i) : /\ l.at[n][i] + b - 1 \in DOMAIN text
                                 /\ text[l.at[n][i] + b - 1] = l.code[l.at[n][i] + b - 1]

\* What decode makes of it.
Op(k) ==
    CASE k \in {"open", "close"} -> "CALL_OP"
      [] k \in {"prot", "glob"} -> "MOV_ADDR_TO_REG_OP"
      [] k \in {"other", "sub", "mov"} -> "OTHER_OP"
      [] k = "ret" -> "RET_OP"
      [] k = "jcc" -> "MAYBE_JMP_TO_ADDR_OP"
      [] OTHER -> "JMP_TO_ADDR_OP"
Goal(l, n, i) ==
    CASE Kind(l, n, i) \in {"open", "tail_open"} -> 16
      [] Kind(l, n, i) \in {"close", "tail_close"} -> 32
      [] Kind(l, n, i) = "got_open" -> 48
      [] Kind(l, n, i) = "got_close" -> 56
      [] Kind(l, n, i) = "prot" -> 64
      [] Kind(l, n, i) = "glob" -> 72
      [] Kind(l, n, i) \in {"jcc", "jmp"} -> l.at[n][Target(l, n, i)]
      [] OTHER -> 0

LEMMA IntactBytes ==
    ASSUME NEW l, Linked(l), NEW n \in DOMAIN l.source, NEW i \in 1..Len(l.source[n]), NEW text, Intact(l, text, n, i)
    PROVE  \A b \in 1..Width(l, n, i) :
              /\ l.at[n][i] + b - 1 \in DOMAIN text
              /\ text[l.at[n][i] + b - 1] =
                   Encode(l.source[n][i], l.at[n][i], IF Target(l, n, i) = 0 THEN 0 ELSE l.at[n][Target(l, n, i)])[b]
<1>1. StandsAt(l.source[n], l.at[n], l.code) /\ i \in DOMAIN l.source[n]
  BY FunctionFacts DEF Linked
<1> QED
  BY <1>1 DEF StandsAt, Intact, Width, Kind, Target

\* decode finds the instructions that a library has where they stand.
LEMMA DecodeIntact ==
    ASSUME NEW l, Linked(l), NEW n \in DOMAIN l.source, NEW i \in 1..Len(l.source[n]), NEW text, Intact(l, text, n, i)
    PROVE  decode(text, l.at[n][i]) = Instruction(Op(Kind(l, n, i)), Width(l, n, i), Goal(l, n, i))
<1> DEFINE x == l.source[n][i]
           a == l.at[n][i]
           t == IF Target(l, n, i) = 0 THEN 0 ELSE l.at[n][Target(l, n, i)]
           w == Width(l, n, i)
           E(b) == Encode(x, a, t)[b]
<1>1. /\ a \in Nat /\ w \in 1..7 /\ x.k \in Kinds /\ x.k = Kind(l, n, i) /\ w = Size[x.k]
      /\ x.k \in {"jcc", "jmp"} => Target(l, n, i) \in i + 1..Len(l.source[n])
      /\ x.k \notin {"jcc", "jmp"} => Target(l, n, i) = 0
      /\ Len(l.source[n]) \in Nat /\ \A j \in 1..Len(l.source[n]) + 1 : l.at[n][j] \in Nat
  BY FunctionFacts DEF Kind, Width
<1>2. t \in Nat
  BY <1>1
<1>3. \A b \in 1..w : a + b - 1 \in DOMAIN text /\ text[a + b - 1] = E(b)
  BY IntactBytes
<1>4. x.k \in {"jcc", "jmp"} =>
         /\ t = l.at[n][Target(l, n, i)] /\ t - (a + 2) \in 0..127 /\ (t - (a + 2)) % 256 = t - (a + 2)
  <2> HAVE x.k \in {"jcc", "jmp"}
  <2>1. Target(l, n, i) \in i + 1..Len(l.source[n]) /\ Target(l, n, i) # 0 /\ t = l.at[n][Target(l, n, i)]
    BY <1>1
  <2>2. Target(l, n, i) \in 1..Len(l.source[n]) + 1 /\ i < Target(l, n, i) /\ i + 1 \in 1..Len(l.source[n]) + 1
    BY <1>1, <2>1
  <2>3. w = 2
    BY <1>1, SizeOf
  <2>4. a + 2 <= t
    BY <2>1, <2>2, <2>3, Ascending
  <2>5. t - l.at[n][i + 1] <= 127 /\ l.at[n][i + 1] = a + w
    <3>1. StandsAt(l.source[n], l.at[n], l.code) /\ i \in DOMAIN l.source[n]
      BY FunctionFacts DEF Linked
    <3>2. l.at[n][l.source[n][i].to] - l.at[n][i + 1] <= 127
      BY <3>1, <2>1 DEF StandsAt, Target
    <3> QED
      BY <3>2, <2>1, FunctionFacts DEF Target
  <2> HIDE DEF t, a, w, x
  <2>6. t - (a + 2) \in 0..127
    BY <1>1, <1>2, <2>3, <2>4, <2>5
  <2>7. PICK d \in 0..127 : d = t - (a + 2)
    BY <2>6
  <2>8. d % 256 = d
    OBVIOUS
  <2> QED
    BY <2>1, <2>6, <2>7, <2>8
<1> HIDE DEF x, a, t, w, E
<1>5. CASE x.k = "open"
  <2>1. w = 5
    BY <1>1, <1>5, SizeOf
  <2>2. {a, a + 1} \subseteq DOMAIN text /\ text[a] = 232 /\ text[a + 1] = 16 - (a + 5)
    <3>1. a + 1 - 1 \in DOMAIN text /\ text[a + 1 - 1] = E(1) /\ a + 1 - 1 = a
      BY <1>1, <1>3, <2>1
    <3>2. a + 2 - 1 \in DOMAIN text /\ text[a + 2 - 1] = E(2) /\ a + 2 - 1 = a + 1
      BY <1>1, <1>3, <2>1
    <3>3. Encode(x, a, t) = <<232, 16 - (a + 5), 0, 0, 0>>
      BY <1>5, SMT DEF Encode, PltOpen, PltClose
    <3>4. E(1) = 232 /\ E(2) = 16 - (a + 5)
      BY <3>3, SMT DEF E
    <3> QED
      BY <3>1, <3>2, <3>4, SMT
  <2>3. decode(text, a) = Instruction("CALL_OP", 5, 16)
    BY <1>1, <1>2, <1>4, <1>5, <2>2, DecodeCall, SMT
  <2>4. Op(Kind(l, n, i)) = "CALL_OP" /\ Width(l, n, i) = 5 /\ Goal(l, n, i) = 16
    BY <1>1, <1>4, <1>5, <2>1, SMT DEF Op, Goal, w
  <2> QED
    BY <2>3, <2>4, SMT DEF a
<1>6. CASE x.k = "close"
  <2>1. w = 5
    BY <1>1, <1>6, SizeOf
  <2>2. {a, a + 1} \subseteq DOMAIN text /\ text[a] = 232 /\ text[a + 1] = 32 - (a + 5)
    <3>1. a + 1 - 1 \in DOMAIN text /\ text[a + 1 - 1] = E(1) /\ a + 1 - 1 = a
      BY <1>1, <1>3, <2>1
    <3>2. a + 2 - 1 \in DOMAIN text /\ text[a + 2 - 1] = E(2) /\ a + 2 - 1 = a + 1
      BY <1>1, <1>3, <2>1
    <3>3. Encode(x, a, t) = <<232, 32 - (a + 5), 0, 0, 0>>
      BY <1>6, SMT DEF Encode, PltOpen, PltClose
    <3>4. E(1) = 232 /\ E(2) = 32 - (a + 5)
      BY <3>3, SMT DEF E
    <3> QED
      BY <3>1, <3>2, <3>4, SMT
  <2>3. decode(text, a) = Instruction("CALL_OP", 5, 32)
    BY <1>1, <1>2, <1>4, <1>6, <2>2, DecodeCall, SMT
  <2>4. Op(Kind(l, n, i)) = "CALL_OP" /\ Width(l, n, i) = 5 /\ Goal(l, n, i) = 32
    BY <1>1, <1>4, <1>6, <2>1, SMT DEF Op, Goal, w
  <2> QED
    BY <2>3, <2>4, SMT DEF a
<1>7. CASE x.k = "prot"
  <2>1. w = 7
    BY <1>1, <1>7, SizeOf
  <2>2. {a, a + 1, a + 2, a + 3} \subseteq DOMAIN text /\ text[a] = 72 /\ text[a + 1] = 139 /\ text[a + 2] = 5 /\ text[a + 3] = 64 - (a + 7)
    <3>1. a + 1 - 1 \in DOMAIN text /\ text[a + 1 - 1] = E(1) /\ a + 1 - 1 = a
      BY <1>1, <1>3, <2>1
    <3>2. a + 2 - 1 \in DOMAIN text /\ text[a + 2 - 1] = E(2) /\ a + 2 - 1 = a + 1
      BY <1>1, <1>3, <2>1
    <3>3. a + 3 - 1 \in DOMAIN text /\ text[a + 3 - 1] = E(3) /\ a + 3 - 1 = a + 2
      BY <1>1, <1>3, <2>1
    <3>4. a + 4 - 1 \in DOMAIN text /\ text[a + 4 - 1] = E(4) /\ a + 4 - 1 = a + 3
      BY <1>1, <1>3, <2>1
    <3>5. Encode(x, a, t) = <<72, 139, 5, 64 - (a + 7), 0, 0, 0>>
      BY <1>7, SMT DEF Encode, PltOpen, PltClose
    <3>6. E(1) = 72 /\ E(2) = 139 /\ E(3) = 5 /\ E(4) = 64 - (a + 7)
      BY <3>5, SMT DEF E
    <3> QED
      BY <3>1, <3>2, <3>3, <3>4, <3>6, SMT
  <2>3. decode(text, a) = Instruction("MOV_ADDR_TO_REG_OP", 7, 64)
    BY <1>1, <1>2, <1>4, <1>7, <2>2, DecodeMov, SMT
  <2>4. Op(Kind(l, n, i)) = "MOV_ADDR_TO_REG_OP" /\ Width(l, n, i) = 7 /\ Goal(l, n, i) = 64
    BY <1>1, <1>4, <1>7, <2>1, SMT DEF Op, Goal, w
  <2> QED
    BY <2>3, <2>4, SMT DEF a
<1>8. CASE x.k = "glob"
  <2>1. w = 7
    BY <1>1, <1>8, SizeOf
  <2>2. {a, a + 1, a + 2, a + 3} \subseteq DOMAIN text /\ text[a] = 72 /\ text[a + 1] = 139 /\ text[a + 2] = 5 /\ text[a + 3] = 72 - (a + 7)
    <3>1. a + 1 - 1 \in DOMAIN text /\ text[a + 1 - 1] = E(1) /\ a + 1 - 1 = a
      BY <1>1, <1>3, <2>1
    <3>2. a + 2 - 1 \in DOMAIN text /\ text[a + 2 - 1] = E(2) /\ a + 2 - 1 = a + 1
      BY <1>1, <1>3, <2>1
    <3>3. a + 3 - 1 \in DOMAIN text /\ text[a + 3 - 1] = E(3) /\ a + 3 - 1 = a + 2
      BY <1>1, <1>3, <2>1
    <3>4. a + 4 - 1 \in DOMAIN text /\ text[a + 4 - 1] = E(4) /\ a + 4 - 1 = a + 3
      BY <1>1, <1>3, <2>1
    <3>5. Encode(x, a, t) = <<72, 139, 5, 72 - (a + 7), 0, 0, 0>>
      BY <1>8, SMT DEF Encode, PltOpen, PltClose
    <3>6. E(1) = 72 /\ E(2) = 139 /\ E(3) = 5 /\ E(4) = 72 - (a + 7)
      BY <3>5, SMT DEF E
    <3> QED
      BY <3>1, <3>2, <3>3, <3>4, <3>6, SMT
  <2>3. decode(text, a) = Instruction("MOV_ADDR_TO_REG_OP", 7, 72)
    BY <1>1, <1>2, <1>4, <1>8, <2>2, DecodeMov, SMT
  <2>4. Op(Kind(l, n, i)) = "MOV_ADDR_TO_REG_OP" /\ Width(l, n, i) = 7 /\ Goal(l, n, i) = 72
    BY <1>1, <1>4, <1>8, <2>1, SMT DEF Op, Goal, w
  <2> QED
    BY <2>3, <2>4, SMT DEF a
<1>9. CASE x.k = "other"
  <2>1. w = 2
    BY <1>1, <1>9, SizeOf
  <2>2. {a, a + 1} \subseteq DOMAIN text /\ text[a] = 49 /\ text[a + 1] = 192
    <3>1. a + 1 - 1 \in DOMAIN text /\ text[a + 1 - 1] = E(1) /\ a + 1 - 1 = a
      BY <1>1, <1>3, <2>1
    <3>2. a + 2 - 1 \in DOMAIN text /\ text[a + 2 - 1] = E(2) /\ a + 2 - 1 = a + 1
      BY <1>1, <1>3, <2>1
    <3>3. Encode(x, a, t) = <<49, 192>>
      BY <1>9, SMT DEF Encode, PltOpen, PltClose
    <3>4. E(1) = 49 /\ E(2) = 192
      BY <3>3, SMT DEF E
    <3> QED
      BY <3>1, <3>2, <3>4, SMT
  <2>3. decode(text, a) = Instruction("OTHER_OP", 2, 0)
    BY <1>1, <1>2, <1>4, <1>9, <2>2, DecodeShort, SMT
  <2>4. Op(Kind(l, n, i)) = "OTHER_OP" /\ Width(l, n, i) = 2 /\ Goal(l, n, i) = 0
    BY <1>1, <1>4, <1>9, <2>1, SMT DEF Op, Goal, w
  <2> QED
    BY <2>3, <2>4, SMT DEF a
<1>10. CASE x.k = "sub"
  <2>1. w = 4
    BY <1>1, <1>10, SizeOf
  <2>2. {a, a + 1} \subseteq DOMAIN text /\ text[a] = 72 /\ text[a + 1] = 131
    <3>1. a + 1 - 1 \in DOMAIN text /\ text[a + 1 - 1] = E(1) /\ a + 1 - 1 = a
      BY <1>1, <1>3, <2>1
    <3>2. a + 2 - 1 \in DOMAIN text /\ text[a + 2 - 1] = E(2) /\ a + 2 - 1 = a + 1
      BY <1>1, <1>3, <2>1
    <3>3. Encode(x, a, t) = <<72, 131, 236, 8>>
      BY <1>10, SMT DEF Encode, PltOpen, PltClose
    <3>4. E(1) = 72 /\ E(2) = 131
      BY <3>3, SMT DEF E
    <3> QED
      BY <3>1, <3>2, <3>4, SMT
  <2>3. decode(text, a) = Instruction("OTHER_OP", 4, 0)
    BY <1>1, <1>2, <1>4, <1>10, <2>2, DecodeSub, SMT
  <2>4. Op(Kind(l, n, i)) = "OTHER_OP" /\ Width(l, n, i) = 4 /\ Goal(l, n, i) = 0
    BY <1>1, <1>4, <1>10, <2>1, SMT DEF Op, Goal, w
  <2> QED
    BY <2>3, <2>4, SMT DEF a
<1>11. CASE x.k = "mov"
  <2>1. w = 5
    BY <1>1, <1>11, SizeOf
  <2>2. {a, a + 1} \subseteq DOMAIN text /\ text[a] = 184 /\ text[a + 1] = 1
    <3>1. a + 1 - 1 \in DOMAIN text /\ text[a + 1 - 1] = E(1) /\ a + 1 - 1 = a
      BY <1>1, <1>3, <2>1
    <3>2. a + 2 - 1 \in DOMAIN text /\ text[a + 2 - 1] = E(2) /\ a + 2 - 1 = a + 1
      BY <1>1, <1>3, <2>1
    <3>3. Encode(x, a, t) = <<184, 1, 0, 0, 0>>
      BY <1>11, SMT DEF Encode, PltOpen, PltClose
    <3>4. E(1) = 184 /\ E(2) = 1
      BY <3>3, SMT DEF E
    <3> QED
      BY <3>1, <3>2, <3>4, SMT
  <2>3. decode(text, a) = Instruction("OTHER_OP", 5, 0)
    BY <1>1, <1>2, <1>4, <1>11, <2>2, DecodeShort, SMT
  <2>4. Op(Kind(l, n, i)) = "OTHER_OP" /\ Width(l, n, i) = 5 /\ Goal(l, n, i) = 0
    BY <1>1, <1>4, <1>11, <2>1, SMT DEF Op, Goal, w
  <2> QED
    BY <2>3, <2>4, SMT DEF a
<1>13. CASE x.k = "ret"
  <2>1. w = 1
    BY <1>1, <1>13, SizeOf
  <2>2. {a} \subseteq DOMAIN text /\ text[a] = 195
    <3>1. a + 1 - 1 \in DOMAIN text /\ text[a + 1 - 1] = E(1) /\ a + 1 - 1 = a
      BY <1>1, <1>3, <2>1
    <3>2. Encode(x, a, t) = << 195 >>
      BY <1>13, SMT DEF Encode, PltOpen, PltClose
    <3>3. E(1) = 195
      BY <3>2, SMT DEF E
    <3> QED
      BY <3>1, <3>3, SMT
  <2>3. decode(text, a) = Instruction("RET_OP", 1, 0)
    BY <1>1, <1>2, <1>4, <1>13, <2>2, DecodeOne, SMT
  <2>4. Op(Kind(l, n, i)) = "RET_OP" /\ Width(l, n, i) = 1 /\ Goal(l, n, i) = 0
    BY <1>1, <1>4, <1>13, <2>1, SMT DEF Op, Goal, w
  <2> QED
    BY <2>3, <2>4, SMT DEF a
<1>14. CASE x.k = "jcc"
  <2>1. w = 2
    BY <1>1, <1>14, SizeOf
  <2>2. {a, a + 1} \subseteq DOMAIN text /\ text[a] = 117 /\ text[a + 1] = t - (a + 2)
    <3>1. a + 1 - 1 \in DOMAIN text /\ text[a + 1 - 1] = E(1) /\ a + 1 - 1 = a
      BY <1>1, <1>3, <2>1
    <3>2. a + 2 - 1 \in DOMAIN text /\ text[a + 2 - 1] = E(2) /\ a + 2 - 1 = a + 1
      BY <1>1, <1>3, <2>1
    <3>3. Encode(x, a, t) = <<117, (t - (a + 2)) % 256>>
      BY <1>14, SMT DEF Encode, PltOpen, PltClose
    <3>4. E(1) = 117 /\ E(2) = t - (a + 2)
      BY <1>4, <1>14, <3>3, SMT DEF E
    <3> QED
      BY <3>1, <3>2, <3>4, SMT
  <2>3. decode(text, a) = Instruction("MAYBE_JMP_TO_ADDR_OP", 2, t)
    BY <1>1, <1>2, <1>4, <1>14, <2>2, DecodeJcc, SMT
  <2>4. Op(Kind(l, n, i)) = "MAYBE_JMP_TO_ADDR_OP" /\ Width(l, n, i) = 2 /\ Goal(l, n, i) = t
    BY <1>1, <1>4, <1>14, <2>1, SMT DEF Op, Goal, w
  <2> QED
    BY <2>3, <2>4, SMT DEF a
<1>15. CASE x.k = "jmp"
  <2>1. w = 2
    BY <1>1, <1>15, SizeOf
  <2>2. {a, a + 1} \subseteq DOMAIN text /\ text[a] = 235 /\ text[a + 1] = t - (a + 2)
    <3>1. a + 1 - 1 \in DOMAIN text /\ text[a + 1 - 1] = E(1) /\ a + 1 - 1 = a
      BY <1>1, <1>3, <2>1
    <3>2. a + 2 - 1 \in DOMAIN text /\ text[a + 2 - 1] = E(2) /\ a + 2 - 1 = a + 1
      BY <1>1, <1>3, <2>1
    <3>3. Encode(x, a, t) = <<235, (t - (a + 2)) % 256>>
      BY <1>15, SMT DEF Encode, PltOpen, PltClose
    <3>4. E(1) = 235 /\ E(2) = t - (a + 2)
      BY <1>4, <1>15, <3>3, SMT DEF E
    <3> QED
      BY <3>1, <3>2, <3>4, SMT
  <2>3. decode(text, a) = Instruction("JMP_TO_ADDR_OP", 2, t)
    <3>0. a \in Nat /\ t \in Nat /\ t - (a + 2) \in 0..127
      BY <1>1, <1>2, <1>4, <1>15
    <3>1. PICK d \in Int : d = t - (a + 2) /\ a + 2 + d = t /\ (IF d > 127 THEN d - 256 ELSE d) = d
      BY ONLY <3>0, SMT
    <3>2. {a, a + 1} \subseteq DOMAIN text /\ text[a] = 235 /\ text[a + 1] = d
      BY <2>2, <3>1
    <3>3. decode(text, a) = Instruction("JMP_TO_ADDR_OP", 2, a + 2 + (IF d > 127 THEN d - 256 ELSE d))
      BY ONLY <3>0, <3>2, DecodeShort
    <3> QED
      BY <3>1, <3>3, SMT
  <2>4. Op(Kind(l, n, i)) = "JMP_TO_ADDR_OP" /\ Width(l, n, i) = 2 /\ Goal(l, n, i) = t
    BY <1>1, <1>4, <1>15, <2>1, SMT DEF Op, Goal, w
  <2> QED
    BY <2>3, <2>4, SMT DEF a
<1>16. CASE x.k = "tail_open"
  <2>1. w = 5
    BY <1>1, <1>16, SizeOf
  <2>2. {a, a + 1} \subseteq DOMAIN text /\ text[a] = 233 /\ text[a + 1] = 16 - (a + 5)
    <3>1. a + 1 - 1 \in DOMAIN text /\ text[a + 1 - 1] = E(1) /\ a + 1 - 1 = a
      BY <1>1, <1>3, <2>1
    <3>2. a + 2 - 1 \in DOMAIN text /\ text[a + 2 - 1] = E(2) /\ a + 2 - 1 = a + 1
      BY <1>1, <1>3, <2>1
    <3>3. Encode(x, a, t) = <<233, 16 - (a + 5), 0, 0, 0>>
      BY <1>16, SMT DEF Encode, PltOpen, PltClose
    <3>4. E(1) = 233 /\ E(2) = 16 - (a + 5)
      BY <3>3, SMT DEF E
    <3> QED
      BY <3>1, <3>2, <3>4, SMT
  <2>3. decode(text, a) = Instruction("JMP_TO_ADDR_OP", 5, 16)
    BY <1>1, <1>2, <1>4, <1>16, <2>2, DecodeShort, SMT
  <2>4. Op(Kind(l, n, i)) = "JMP_TO_ADDR_OP" /\ Width(l, n, i) = 5 /\ Goal(l, n, i) = 16
    BY <1>1, <1>4, <1>16, <2>1, SMT DEF Op, Goal, w
  <2> QED
    BY <2>3, <2>4, SMT DEF a
<1>17. CASE x.k = "tail_close"
  <2>1. w = 5
    BY <1>1, <1>17, SizeOf
  <2>2. {a, a + 1} \subseteq DOMAIN text /\ text[a] = 233 /\ text[a + 1] = 32 - (a + 5)
    <3>1. a + 1 - 1 \in DOMAIN text /\ text[a + 1 - 1] = E(1) /\ a + 1 - 1 = a
      BY <1>1, <1>3, <2>1
    <3>2. a + 2 - 1 \in DOMAIN text /\ text[a + 2 - 1] = E(2) /\ a + 2 - 1 = a + 1
      BY <1>1, <1>3, <2>1
    <3>3. Encode(x, a, t) = <<233, 32 - (a + 5), 0, 0, 0>>
      BY <1>17, SMT DEF Encode, PltOpen, PltClose
    <3>4. E(1) = 233 /\ E(2) = 32 - (a + 5)
      BY <3>3, SMT DEF E
    <3> QED
      BY <3>1, <3>2, <3>4, SMT
  <2>3. decode(text, a) = Instruction("JMP_TO_ADDR_OP", 5, 32)
    BY <1>1, <1>2, <1>4, <1>17, <2>2, DecodeShort, SMT
  <2>4. Op(Kind(l, n, i)) = "JMP_TO_ADDR_OP" /\ Width(l, n, i) = 5 /\ Goal(l, n, i) = 32
    BY <1>1, <1>4, <1>17, <2>1, SMT DEF Op, Goal, w
  <2> QED
    BY <2>3, <2>4, SMT DEF a
<1>18. CASE x.k = "got_open"
  <2>1. w = 6
    BY <1>1, <1>18, SizeOf
  <2>2. {a, a + 1, a + 2} \subseteq DOMAIN text /\ text[a] = 255 /\ text[a + 1] = 37 /\ text[a + 2] = 48 - (a + 6)
    <3>1. a + 1 - 1 \in DOMAIN text /\ text[a + 1 - 1] = E(1) /\ a + 1 - 1 = a
      BY <1>1, <1>3, <2>1
    <3>2. a + 2 - 1 \in DOMAIN text /\ text[a + 2 - 1] = E(2) /\ a + 2 - 1 = a + 1
      BY <1>1, <1>3, <2>1
    <3>3. a + 3 - 1 \in DOMAIN text /\ text[a + 3 - 1] = E(3) /\ a + 3 - 1 = a + 2
      BY <1>1, <1>3, <2>1
    <3>4. Encode(x, a, t) = <<255, 37, 48 - (a + 6), 0, 0, 0>>
      BY <1>18, SMT DEF Encode, PltOpen, PltClose
    <3>5. E(1) = 255 /\ E(2) = 37 /\ E(3) = 48 - (a + 6)
      BY <3>4, SMT DEF E
    <3> QED
      BY <3>1, <3>2, <3>3, <3>5, SMT
  <2>3. decode(text, a) = Instruction("JMP_TO_ADDR_OP", 6, 48)
    <3>0. a \in Nat
      BY <1>1
    <3>1. PICK d \in Int : d = 48 - (a + 6) /\ a + 6 + d = 48
      BY ONLY <3>0, SMT
    <3>2. {a, a + 1, a + 2} \subseteq DOMAIN text /\ text[a] = 255 /\ text[a + 1] = 37 /\ text[a + 2] = d
      BY <2>2, <3>1
    <3>3. decode(text, a) = Instruction("JMP_TO_ADDR_OP", 6, a + 6 + d)
      BY ONLY <3>0, <3>2, DecodeSlot
    <3> QED
      BY <3>1, <3>3, SMT
  <2>4. Op(Kind(l, n, i)) = "JMP_TO_ADDR_OP" /\ Width(l, n, i) = 6 /\ Goal(l, n, i) = 48
    BY <1>1, <1>4, <1>18, <2>1, SMT DEF Op, Goal, w
  <2> QED
    BY <2>3, <2>4, SMT DEF a
<1>19. CASE x.k = "got_close"
  <2>1. w = 6
    BY <1>1, <1>19, SizeOf
  <2>2. {a, a + 1, a + 2} \subseteq DOMAIN text /\ text[a] = 255 /\ text[a + 1] = 37 /\ text[a + 2] = 56 - (a + 6)
    <3>1. a + 1 - 1 \in DOMAIN text /\ text[a + 1 - 1] = E(1) /\ a + 1 - 1 = a
      BY <1>1, <1>3, <2>1
    <3>2. a + 2 - 1 \in DOMAIN text /\ text[a + 2 - 1] = E(2) /\ a + 2 - 1 = a + 1
      BY <1>1, <1>3, <2>1
    <3>3. a + 3 - 1 \in DOMAIN text /\ text[a + 3 - 1] = E(3) /\ a + 3 - 1 = a + 2
      BY <1>1, <1>3, <2>1
    <3>4. Encode(x, a, t) = <<255, 37, 56 - (a + 6), 0, 0, 0>>
      BY <1>19, SMT DEF Encode, PltOpen, PltClose
    <3>5. E(1) = 255 /\ E(2) = 37 /\ E(3) = 56 - (a + 6)
      BY <3>4, SMT DEF E
    <3> QED
      BY <3>1, <3>2, <3>3, <3>5, SMT
  <2>3. decode(text, a) = Instruction("JMP_TO_ADDR_OP", 6, 56)
    <3>0. a \in Nat
      BY <1>1
    <3>1. PICK d \in Int : d = 56 - (a + 6) /\ a + 6 + d = 56
      BY ONLY <3>0, SMT
    <3>2. {a, a + 1, a + 2} \subseteq DOMAIN text /\ text[a] = 255 /\ text[a + 1] = 37 /\ text[a + 2] = d
      BY <2>2, <3>1
    <3>3. decode(text, a) = Instruction("JMP_TO_ADDR_OP", 6, a + 6 + d)
      BY ONLY <3>0, <3>2, DecodeSlot
    <3> QED
      BY <3>1, <3>3, SMT
  <2>4. Op(Kind(l, n, i)) = "JMP_TO_ADDR_OP" /\ Width(l, n, i) = 6 /\ Goal(l, n, i) = 56
    BY <1>1, <1>4, <1>19, <2>1, SMT DEF Op, Goal, w
  <2> QED
    BY <2>3, <2>4, SMT DEF a
<1> QED
  BY <1>1, <1>5, <1>6, <1>7, <1>8, <1>9, <1>10, <1>11, <1>13, <1>14, <1>15, <1>16, <1>17, <1>18, <1>19 DEF Kinds

\* The names behind the slots; an entry of the linkage table is no slot.
LEMMA NamesOf ==
    ASSUME lib.rela_plt = RelaPlt, lib.rela_dyn = RelaDyn
    PROVE  /\ find_called_fun_name(48) = "open_it" /\ find_called_fun_name(56) = "close_it"
           /\ \A a \in Nat : a \notin {48, 56} => find_called_fun_name(a) = ""
           /\ find_accessed_var_name(64) = "protected_" /\ find_accessed_var_name(72) = "other_"
<1>1. DOMAIN RelaPlt = {48, 56} /\ RelaPlt[48] = "open_it" /\ RelaPlt[56] = "close_it"
  BY DEF RelaPlt
<1>2. DOMAIN RelaDyn = {64, 72} /\ RelaDyn[64] = "protected_" /\ RelaDyn[72] = "other_"
  BY DEF RelaDyn
<1> QED
  BY <1>1, <1>2 DEF find_called_fun_name, find_accessed_var_name, Name

\* The status that a name leaves, 2 where it is misused.
LEMMA AfterOf ==
    ASSUME NEW s \in 0..1
    PROVE  /\ After("open_it", s) = 2 <=> s = 1
           /\ After("open_it", s) # 2 => After("open_it", s) = 1
           /\ After("close_it", s) = 2 <=> s = 0
           /\ After("close_it", s) # 2 => After("close_it", s) = 0
           /\ After("", s) = s
<1>1. After("open_it", s) = IF s = 0 THEN 1 ELSE 2
  BY DEF After
<1>2. After("close_it", s) = IF s = 1 THEN 0 ELSE 2
  BY DEF After
<1>3. After("", s) = s
  BY DEF After
<1>4. PICK x, y : x = After("open_it", s) /\ y = After("close_it", s)
  OBVIOUS
<1>5. /\ x = (IF s = 0 THEN 1 ELSE 2) /\ y = (IF s = 1 THEN 0 ELSE 2)
  BY <1>1, <1>2, <1>4
<1>6. /\ x = 2 <=> s = 1
      /\ x # 2 => x = 1
      /\ y = 2 <=> s = 0
      /\ y # 2 => y = 0
  BY ONLY <1>5, s \in 0..1
<1> QED
  BY <1>3, <1>4, <1>6

\* A crash stands in place of the instruction i of function n.
Crashed(l, text, n, i) ==
    /\ Kind(l, n, i) \in {"open", "close", "prot", "ret", "got_open", "got_close"}
    /\ l.at[n][i] \in DOMAIN text /\ text[l.at[n][i]] \in {204, 205}

Stubs == {16, 17, 18, 32, 33, 34}

\* Every instruction is whole or a crash; the linkage table is as it was.
CodeOK(l, text) ==
    /\ \A n \in DOMAIN l.source : \A i \in 1..Len(l.source[n]) : Intact(l, text, n, i) \/ Crashed(l, text, n, i)
    /\ \A a \in Stubs : a \in DOMAIN text /\ text[a] = l.code[a]

\* Where the walk may be.
Spot(l, a) == \E n \in DOMAIN l.source : \E i \in 1..Len(l.source[n]) : a = l.at[n][i]

Frames == [at : Nat, status : 0..1]
Calls(st) == {st[j] : j \in 1..Len(st)}
WalkOK == stack \in Seq(Frames) /\ \A c \in Calls(stack) : Spot(lib, c.at)

\* The functions still to be walked are the last ones of the library.
TodoOK ==
    /\ todo \in Seq(Nat) /\ Len(todo) <= Len(lib.source)
    /\ \A j \in 1..Len(todo) : todo[j] = lib.at[Len(lib.source) - Len(todo) + j][1]

Base ==
    /\ lib \in Libraries /\ exit \in {"none", "0", "1"}
    /\ exit = "0" => stack = <<>> /\ todo = <<>>
    /\ TodoOK /\ WalkOK /\ CodeOK(lib, code)

Misused(k, s) ==
    \/ k \in {"open", "ret", "got_open"} /\ s = 1
    \/ k \in {"close", "prot", "got_close"} /\ s = 0
Next1(k, s) == CASE k = "open" -> 1 [] k = "close" -> 0 [] OTHER -> s
Leaves(k) == k \in {"ret", "jmp", "tail_open", "tail_close", "got_open", "got_close"}

\* What the walk does at the instruction i of function n.
Onward(l, n, i, s) ==
    CASE Leaves(Kind(l, n, i)) -> <<>>
      [] Kind(l, n, i) = "jcc" -> <<[at |-> l.at[n][Target(l, n, i)], status |-> s],
                                    [at |-> l.at[n][i] + 2, status |-> s]>>
      [] OTHER -> <<[at |-> l.at[n][i] + Width(l, n, i), status |-> Next1(Kind(l, n, i), s)]>>
Turn(n, i, s) ==
    /\ lib' = lib /\ todo' = todo /\ exit' = "none"
    /\ code' = IF Misused(Kind(lib, n, i), s)
               THEN replace_with_crash(code, lib.at[n][i], Instruction(Op(Kind(lib, n, i)), Width(lib, n, i), Goal(lib, n, i)))
               ELSE code
    /\ stack' = Onward(lib, n, i, s) \o Tail(stack)

LEMMA LinkedLib ==
    ASSUME Base
    PROVE  Linked(lib) /\ lib.rela_plt = RelaPlt /\ lib.rela_dyn = RelaDyn
BY LibrariesAssumption DEF Base, Linked

\* The entries of the linkage table lead to the slots.
LEMMA StubsLead ==
    ASSUME Base
    PROVE  /\ decode(code, 16).addr = 48 /\ decode(code, 32).addr = 56
           /\ decode(code, 16).op # "exit" /\ decode(code, 32).op # "exit"
<1>1. JumpsThrough(lib.code, 16, 48) /\ JumpsThrough(lib.code, 32, 56)
  BY LinkedLib DEF Linked, PltOpen, PltClose
<1>2. /\ {16, 16 + 1, 16 + 2} \subseteq DOMAIN code /\ code[16] = 255 /\ code[16 + 1] = 37 /\ code[16 + 2] = 48 - (16 + 6)
      /\ {32, 32 + 1, 32 + 2} \subseteq DOMAIN code /\ code[32] = 255 /\ code[32 + 1] = 37 /\ code[32 + 2] = 56 - (32 + 6)
  BY <1>1, SMT DEF Base, CodeOK, Stubs, JumpsThrough
<1>3. PICK d \in Int : d = 48 - (16 + 6) /\ 16 + 6 + d = 48
  BY SMT
<1>4. PICK e \in Int : e = 56 - (32 + 6) /\ 32 + 6 + e = 56
  BY SMT
<1>5. decode(code, 16) = Instruction("JMP_TO_ADDR_OP", 6, 16 + 6 + d)
  BY <1>2, <1>3, DecodeSlot, SMT
<1>6. decode(code, 32) = Instruction("JMP_TO_ADDR_OP", 6, 32 + 6 + e)
  BY <1>2, <1>4, DecodeSlot, SMT
<1> QED
  BY <1>3, <1>4, <1>5, <1>6, SMT DEF Instruction

LEMMA TurnOf ==
    ASSUME Base, exit = "none", stack # <<>>, NEW n \in DOMAIN lib.source, NEW i \in 1..Len(lib.source[n]), NEW s \in 0..1,
           stack[1].at = lib.at[n][i], stack[1].status = s, Intact(lib, code, n, i), Next
    PROVE  Turn(n, i, s)
<1> DEFINE k == Kind(lib, n, i)
           a == lib.at[n][i]
           w == Width(lib, n, i)
           g == Goal(lib, n, i)
           h == Width(lib, n, i)
<1>1. /\ Linked(lib) /\ k \in Kinds /\ a \in Nat /\ w = Size[k]
  BY LinkedLib, FunctionFacts DEF Width
<1>2. top.at = a /\ top.status = s
  BY DEF top
<1>3. ins = Instruction(Op(k), h, g)
  BY <1>1, <1>2, DecodeIntact DEF ins
<1>4. ins.op = Op(k) /\ ins.length = h /\ ins.addr = g
  BY <1>3 DEF Instruction
<1>5. Op(k) # "exit" /\ exit # "0" /\ exit # "1"
  BY DEF Op
<1>6. Op(k) = "CALL_OP" => jump_ins.op # "exit"
  <2>1. SUFFICES ASSUME Op(k) = "CALL_OP" PROVE jump_ins.op # "exit"
    OBVIOUS
  <2>2. g \in {16, 32}
    BY <2>1 DEF Op, Goal
  <2>3. jump_ins = decode(code, g)
    BY <1>4 DEF jump_ins
  <2> QED
    BY <2>2, <2>3, StubsLead
<1>13. AccessVar \/ Call \/ JmpToAddr \/ MaybeJmp \/ Ret \/ Ignore
  BY <1>4, <1>5, <1>6 DEF Next, NextFunction, GiveUp, Finish, Stopped, Walks
<1> HIDE DEF k, a, w, g, h
<1>7. CASE AccessVar
  <2>1. k \in {"prot", "glob"} /\ ~Leaves(k) /\ k # "jcc" /\ Next1(k, s) = s
    BY <1>1, <1>4, <1>7 DEF AccessVar, Walks, Op, Kinds, Leaves, Next1
  <2>2. h = w /\ g = (IF k = "prot" THEN 64 ELSE 72)
    BY <2>1 DEF Goal, h, w, g, k
  <2>3. Protected(find_accessed_var_name(ins.addr)) <=> k = "prot"
    BY <1>4, <2>1, <2>2, LinkedLib, NamesOf DEF Protected
  <2>4. code' = IF Misused(k, s) THEN replace_with_crash(code, a, Instruction(Op(k), w, g)) ELSE code
    BY <1>2, <1>3, <1>7, <2>1, <2>2, <2>3 DEF AccessVar, AccessAllowed, Crash, Misused
  <2>5. stack' = <<[at |-> a + h, status |-> s]>> \o Tail(stack)
    BY <1>2, <1>4, <1>7 DEF AccessVar, Proceed
  <2>6. lib' = lib /\ todo' = todo /\ exit' = "none"
    BY <1>7 DEF AccessVar
  <2> QED
    BY <2>1, <2>4, <2>5, <2>6 DEF Turn, Onward, k, a, w, g, h
<1>8. CASE Call
  <2>1. k \in {"open", "close"} /\ ~Leaves(k) /\ k # "jcc"
    BY <1>1, <1>4, <1>8 DEF Call, Walks, Op, Kinds, Leaves
  <2>2. h = w /\ g = (IF k = "open" THEN 16 ELSE 32)
    BY <2>1 DEF Goal, h, w, g, k
  <2>3. find_called_fun_name(jump_ins.addr) = (IF k = "open" THEN "open_it" ELSE "close_it")
    <3>1. find_called_fun_name(48) = "open_it" /\ find_called_fun_name(56) = "close_it"
      BY LinkedLib, NamesOf
    <3>2. CASE k = "open"
      <4>1. jump_ins.addr = 48
        BY <1>4, <2>2, <3>2, StubsLead DEF jump_ins
      <4> QED
        BY <3>1, <3>2, <4>1
    <3>3. CASE k = "close"
      <4>1. jump_ins.addr = 56
        BY <1>4, <2>2, <3>3, StubsLead DEF jump_ins
      <4> QED
        BY <3>1, <3>3, <4>1
    <3> QED
      BY <2>1, <3>2, <3>3
  <2>4. PICK x : x = (IF k = "open" THEN "open_it" ELSE "close_it") /\ Switch(x)
    BY <1>8, <2>3 DEF Call
  <2>5. /\ After(x, s) = 2 <=> Misused(k, s)
        /\ ~Misused(k, s) => After(x, s) = Next1(k, s)
        /\ Misused(k, s) => s = Next1(k, s)
    <3>1. CASE k = "open"
      BY <2>4, <3>1, AfterOf DEF Misused, Next1
    <3>2. CASE k = "close"
      BY <2>4, <3>2, AfterOf DEF Misused, Next1
    <3> QED
      BY <2>1, <3>1, <3>2
  <2>6. code' = IF Misused(k, s) THEN replace_with_crash(code, a, Instruction(Op(k), w, g)) ELSE code
    BY <1>2, <1>3, <2>2, <2>4, <2>5 DEF Switch, Crash
  <2>7. stack' = <<[at |-> a + h, status |-> Next1(k, s)]>> \o Tail(stack)
    BY <1>2, <1>4, <2>4, <2>5 DEF Switch, Proceed
  <2>8. lib' = lib /\ todo' = todo /\ exit' = "none"
    BY <1>8 DEF Call
  <2> QED
    BY <2>1, <2>6, <2>7, <2>8 DEF Turn, Onward, k, a, w, g, h
<1>9. CASE JmpToAddr
  <2>1. k \in {"jmp", "tail_open", "tail_close", "got_open", "got_close"} /\ Leaves(k)
    BY <1>1, <1>4, <1>9 DEF JmpToAddr, Walks, Op, Kinds, Leaves
  <2>2. /\ h = w
        /\ k = "got_open" => g = 48
        /\ k = "got_close" => g = 56
        /\ k \notin {"got_open", "got_close"} => g \in Nat /\ g \notin {48, 56}
    <3>1. CASE k = "jmp"
      <4>1. Target(lib, n, i) \in i + 1..Len(lib.source[n]) /\ Len(lib.source[n]) \in Nat
        BY <1>1, <3>1, FunctionFacts DEF k
      <4>2. lib.at[n][1] >= 256 /\ lib.at[n][1] \in Nat /\ lib.at[n][Target(lib, n, i)] \in Nat /\ Width(lib, n, 1) \in 1..7
        BY <1>1, <4>1, FunctionFacts
      <4>3. 1 \in 1..Len(lib.source[n]) /\ Target(lib, n, i) \in 1..Len(lib.source[n]) + 1 /\ 1 < Target(lib, n, i)
        BY <4>1
      <4>4. lib.at[n][1] + Width(lib, n, 1) <= lib.at[n][Target(lib, n, i)]
        BY <1>1, <4>3, Ascending
      <4>5. g = lib.at[n][Target(lib, n, i)] /\ h = w
        BY <3>1 DEF Goal, g, h, w, k
      <4>6. PICK p, q, r : p = lib.at[n][1] /\ q = Width(lib, n, 1) /\ r = g
        OBVIOUS
      <4>7. p \in Nat /\ q \in 1..7 /\ r \in Nat /\ p >= 256 /\ p + q <= r
        BY <4>2, <4>4, <4>5, <4>6
      <4>8. r \in Nat /\ r \notin {48, 56}
        BY ONLY <4>7, SMT
      <4> QED
        BY <3>1, <4>5, <4>6, <4>8
    <3>2. CASE k = "tail_open"
      BY <3>2, SMT DEF Goal, h, w, g, k
    <3>3. CASE k = "tail_close"
      BY <3>3, SMT DEF Goal, h, w, g, k
    <3>4. CASE k = "got_open"
      BY <3>4, SMT DEF Goal, h, w, g, k
    <3>5. CASE k = "got_close"
      BY <3>5, SMT DEF Goal, h, w, g, k
    <3> QED
      BY <2>1, <3>1, <3>2, <3>3, <3>4, <3>5
  <2>3. /\ k = "got_open" => find_called_fun_name(ins.addr) = "open_it"
        /\ k = "got_close" => find_called_fun_name(ins.addr) = "close_it"
        /\ k \notin {"got_open", "got_close"} => find_called_fun_name(ins.addr) = ""
    <3>1. /\ find_called_fun_name(48) = "open_it" /\ find_called_fun_name(56) = "close_it"
          /\ \A b \in Nat : b \notin {48, 56} => find_called_fun_name(b) = ""
      BY LinkedLib, NamesOf
    <3> QED
      BY <1>4, <2>2, <3>1
  <2>4. After(find_called_fun_name(ins.addr), s) = 2 <=> Misused(k, s)
    <3>1. CASE k = "got_open"
      BY <2>3, <3>1, AfterOf DEF Misused
    <3>2. CASE k = "got_close"
      BY <2>3, <3>2, AfterOf DEF Misused
    <3>3. CASE k \notin {"got_open", "got_close"}
      <4>1. After(find_called_fun_name(ins.addr), s) # 2
        <5>1. After("", s) = s
          BY AfterOf
        <5>3. s # 2
          OBVIOUS
        <5>2. find_called_fun_name(ins.addr) = ""
          BY <2>3, <3>3
        <5> QED
          BY <5>1, <5>2, <5>3
      <4>2. ~Misused(k, s)
        BY <2>1, <3>3 DEF Misused
      <4> QED
        BY <4>1, <4>2
    <3> QED
      BY <3>1, <3>2, <3>3
  <2>5. code' = IF Misused(k, s) THEN replace_with_crash(code, a, Instruction(Op(k), w, g)) ELSE code
    BY <1>2, <1>3, <1>9, <2>2, <2>4 DEF JmpToAddr, Crash
  <2>6. stack' = <<>> \o Tail(stack)
    <3>1. stack' = Tail(stack) /\ Tail(stack) \in Seq(Frames)
      BY <1>9, HeadTailProperties DEF JmpToAddr, LeaveWalk, Base, WalkOK
    <3> QED
      BY <3>1, ConcatEmptySeq
  <2>7. lib' = lib /\ todo' = todo /\ exit' = "none"
    BY <1>9 DEF JmpToAddr
  <2> QED
    BY <2>1, <2>5, <2>6, <2>7 DEF Turn, Onward, k, a, w, g, h
<1>10. CASE MaybeJmp
  <2>1. k = "jcc" /\ ~Leaves(k) /\ ~Misused(k, s)
    BY <1>1, <1>4, <1>10 DEF MaybeJmp, Walks, Op, Kinds, Leaves, Misused
  <2>2. h = 2 /\ g = lib.at[n][Target(lib, n, i)]
    BY <1>1, <2>1, SizeOf DEF Goal, h, w, g, k
  <2>3. stack' = <<[at |-> g, status |-> s], [at |-> a + h, status |-> s]>> \o Tail(stack)
    BY <1>2, <1>4, <1>10 DEF MaybeJmp, Inherited
  <2>4. lib' = lib /\ todo' = todo /\ exit' = "none" /\ code' = code
    BY <1>10 DEF MaybeJmp
  <2> QED
    BY <2>1, <2>2, <2>3, <2>4 DEF Turn, Onward, k, a, w, g, h
<1>11. CASE Ret
  <2>1. k = "ret" /\ Leaves(k) /\ (Misused(k, s) <=> s = 1)
    BY <1>1, <1>4, <1>11 DEF Ret, Walks, Op, Kinds, Leaves, Misused
  <2>2. h = w
    BY <2>1 DEF h, w, k
  <2>3. code' = IF Misused(k, s) THEN replace_with_crash(code, a, Instruction(Op(k), w, g)) ELSE code
    BY <1>2, <1>3, <1>11, <2>1, <2>2 DEF Ret, Crash
  <2>4. stack' = <<>> \o Tail(stack)
    <3>1. stack' = Tail(stack) /\ Tail(stack) \in Seq(Frames)
      BY <1>11, HeadTailProperties DEF Ret, LeaveWalk, Base, WalkOK
    <3> QED
      BY <3>1, ConcatEmptySeq
  <2>5. lib' = lib /\ todo' = todo /\ exit' = "none"
    BY <1>11 DEF Ret
  <2> QED
    BY <2>1, <2>3, <2>4, <2>5 DEF Turn, Onward, k, a, w, g, h
<1>12. CASE Ignore
  <2>1. k \in {"other", "sub", "mov"} /\ ~Leaves(k) /\ ~Misused(k, s) /\ k # "jcc" /\ Next1(k, s) = s
    BY <1>1, <1>4, <1>12 DEF Ignore, Walks, Op, Kinds, Leaves, Misused, Next1
  <2>2. stack' = <<[at |-> a + h, status |-> s]>> \o Tail(stack)
    BY <1>2, <1>4, <1>12 DEF Ignore, Proceed
  <2>3. lib' = lib /\ todo' = todo /\ exit' = "none" /\ code' = code
    BY <1>12 DEF Ignore
  <2> QED
    BY <2>1, <2>2, <2>3 DEF Turn, Onward, k, a, w, g, h
<1> QED
  BY <1>13, <1>7, <1>8, <1>9, <1>10, <1>11, <1>12

LEMMA LibFacts ==
    ASSUME Base
    PROVE  /\ Linked(lib)
           /\ \A n \in DOMAIN lib.source : \A i \in 1..Len(lib.source[n]) :
                 /\ lib.at[n][i] \in Nat /\ Width(lib, n, i) \in 1..7 /\ lib.at[n][i] >= 256
                 /\ Kind(lib, n, i) \in Kinds
<1>1. Linked(lib)
  BY LinkedLib
<1>2. SUFFICES ASSUME NEW n \in DOMAIN lib.source, NEW i \in 1..Len(lib.source[n])
               PROVE  lib.at[n][i] \in Nat /\ Width(lib, n, i) \in 1..7 /\ lib.at[n][i] >= 256 /\ Kind(lib, n, i) \in Kinds
  BY <1>1
<1>3. /\ Len(lib.source[n]) \in Nat \ {0} /\ lib.at[n][1] \in Nat /\ lib.at[n][1] >= 256
      /\ lib.at[n][i] \in Nat /\ Width(lib, n, i) \in 1..7 /\ Width(lib, n, 1) \in 1..7 /\ Kind(lib, n, i) \in Kinds
  BY <1>1, FunctionFacts
<1>4. CASE i = 1
  BY <1>3, <1>4
<1>5. CASE i # 1
  <2>1. 1 \in 1..Len(lib.source[n]) /\ i \in 1..Len(lib.source[n]) + 1 /\ 1 < i
    BY <1>3, <1>5
  <2>2. lib.at[n][1] + Width(lib, n, 1) <= lib.at[n][i]
    BY <1>1, <2>1, Ascending
  <2>3. PICK p, q, r : p = lib.at[n][1] /\ q = Width(lib, n, 1) /\ r = lib.at[n][i]
    OBVIOUS
  <2>4. r >= 256
    <3>1. p \in Nat /\ p >= 256 /\ q \in 1..7 /\ r \in Nat
      BY <1>3, <2>3
    <3>2. p + q <= r
      BY <2>2, <2>3
    <3> QED
      BY ONLY <3>1, <3>2
  <2> QED
    BY <1>3, <2>3, <2>4
<1> QED
  BY <1>4, <1>5

LEMMA Outside ==
    ASSUME NEW a \in Nat, NEW v \in 1..7, NEW c \in Nat, NEW w \in 1..7, a + v <= c \/ c + w <= a, NEW b \in 1..v
    PROVE  a + b - 1 \notin c .. c + w - 1
OBVIOUS

\* A crash takes the place of one instruction and leaves the rest alone.
LEMMA CrashOf ==
    ASSUME Base, NEW n \in DOMAIN lib.source, NEW i \in 1..Len(lib.source[n]), NEW s \in 0..1,
           Intact(lib, code, n, i), Turn(n, i, s), Misused(Kind(lib, n, i), s)
    PROVE  /\ DOMAIN code' = DOMAIN code
           /\ lib.at[n][i] \in DOMAIN code /\ code'[lib.at[n][i]] \in {204, 205}
           /\ \A m \in DOMAIN lib.source : \A j \in 1..Len(lib.source[m]) : <<m, j>> # <<n, i>> =>
                 \A b \in 1..Width(lib, m, j) :
                    lib.at[m][j] + b - 1 \in DOMAIN code => code'[lib.at[m][j] + b - 1] = code[lib.at[m][j] + b - 1]
           /\ \A a \in Stubs : a \in DOMAIN code => code'[a] = code[a]
<1> DEFINE c == lib.at[n][i]
           w == Width(lib, n, i)
           g == Goal(lib, n, i)
           o == Op(Kind(lib, n, i))
<1>1. code' = replace_with_crash(code, c, Instruction(o, w, g))
  BY DEF Turn
<1>2. Linked(lib) /\ c \in Nat /\ w \in 1..7 /\ c >= 256
  BY LibFacts
<1>3. c \in DOMAIN code
  <2>1. 1 \in 1..w
    BY <1>2
  <2>2. c + 1 - 1 \in DOMAIN code
    BY <2>1 DEF Intact
  <2> QED
    BY <1>2, <2>2
<1> HIDE DEF c, w, g, o
<1>4. Instruction(o, w, g).length = w
  BY DEF Instruction
<1>5. DOMAIN code' = DOMAIN code
  BY <1>1 DEF replace_with_crash
<1>6. code'[c] \in {204, 205}
  <2>1. c \in c .. c + w - 1
    BY <1>2
  <2>2. code'[c] = IF w = 1 THEN 204 ELSE 205
    BY <1>1, <1>3, <1>4, <2>1 DEF replace_with_crash
  <2> QED
    BY <2>2
<1>7. ASSUME NEW m \in DOMAIN lib.source, NEW j \in 1..Len(lib.source[m]), <<m, j>> # <<n, i>>,
             NEW b \in 1..Width(lib, m, j), lib.at[m][j] + b - 1 \in DOMAIN code
      PROVE  code'[lib.at[m][j] + b - 1] = code[lib.at[m][j] + b - 1]
  <2>1. lib.at[m][j] + Width(lib, m, j) <= c \/ c + w <= lib.at[m][j]
    BY <1>2, <1>7, Apart DEF c, w
  <2>2. lib.at[m][j] \in Nat /\ Width(lib, m, j) \in 1..7
    BY LibFacts
  <2>3. PICK p \in Nat, v \in 1..7 : p = lib.at[m][j] /\ v = Width(lib, m, j)
    BY <2>2
  <2>4. (p + v <= c \/ c + w <= p) /\ b \in 1..v /\ p + b - 1 \in DOMAIN code
    BY <1>7, <2>1, <2>3
  <2>5. p + b - 1 \notin c .. c + w - 1
    BY <1>2, <2>4, Outside
  <2>6. replace_with_crash(code, c, Instruction(o, w, g))[p + b - 1] = code[p + b - 1]
    BY <1>4, <2>4, <2>5 DEF replace_with_crash
  <2> QED
    BY <1>1, <2>3, <2>6
<1>8. ASSUME NEW a \in Stubs, a \in DOMAIN code
      PROVE  code'[a] = code[a]
  <2>1. a \in Nat /\ a < 256
    BY SMT DEF Stubs
  <2>2. a \notin c .. c + w - 1
    BY <1>2, <2>1
  <2> QED
    BY <1>1, <1>4, <1>8, <2>2 DEF replace_with_crash
<1> QED
  BY <1>3, <1>5, <1>6, <1>7, <1>8 DEF c

LEMMA CodeStays ==
    ASSUME Base, NEW n \in DOMAIN lib.source, NEW i \in 1..Len(lib.source[n]), NEW s \in 0..1,
           Intact(lib, code, n, i), Turn(n, i, s)
    PROVE  CodeOK(lib, code')
<1>1. CASE ~Misused(Kind(lib, n, i), s)
  BY <1>1 DEF Turn, Base
<1>2. CASE Misused(Kind(lib, n, i), s)
  <2>1. /\ DOMAIN code' = DOMAIN code
        /\ lib.at[n][i] \in DOMAIN code /\ code'[lib.at[n][i]] \in {204, 205}
        /\ \A m \in DOMAIN lib.source : \A j \in 1..Len(lib.source[m]) : <<m, j>> # <<n, i>> =>
                 \A b \in 1..Width(lib, m, j) :
                    lib.at[m][j] + b - 1 \in DOMAIN code => code'[lib.at[m][j] + b - 1] = code[lib.at[m][j] + b - 1]
        /\ \A a \in Stubs : a \in DOMAIN code => code'[a] = code[a]
    BY <1>2, CrashOf
  <2>2. Crashed(lib, code', n, i)
    BY <1>2, <2>1 DEF Crashed, Misused
  <2>3. ASSUME NEW m \in DOMAIN lib.source, NEW j \in 1..Len(lib.source[m]), <<m, j>> # <<n, i>>
        PROVE  Intact(lib, code', m, j) \/ Crashed(lib, code', m, j)
    <3>1. Intact(lib, code, m, j) \/ Crashed(lib, code, m, j)
      BY DEF Base, CodeOK
    <3>2. \A b \in 1..Width(lib, m, j) :
             lib.at[m][j] + b - 1 \in DOMAIN code => code'[lib.at[m][j] + b - 1] = code[lib.at[m][j] + b - 1]
      BY <2>1, <2>3
    <3>3. ASSUME Intact(lib, code, m, j) PROVE Intact(lib, code', m, j)
      BY <2>1, <3>2, <3>3 DEF Intact
    <3>4. ASSUME Crashed(lib, code, m, j) PROVE Crashed(lib, code', m, j)
      <4>1. lib.at[m][j] \in Nat /\ Width(lib, m, j) \in 1..7
        BY LibFacts
      <4>2. 1 \in 1..Width(lib, m, j) /\ lib.at[m][j] + 1 - 1 = lib.at[m][j]
        BY <4>1
      <4>3. lib.at[m][j] \in DOMAIN code /\ code'[lib.at[m][j]] = code[lib.at[m][j]]
        BY <3>2, <3>4, <4>2 DEF Crashed
      <4> QED
        BY <2>1, <3>4, <4>3 DEF Crashed
    <3> QED
      BY <3>1, <3>3, <3>4
  <2>4. \A a \in Stubs : a \in DOMAIN code' /\ code'[a] = lib.code[a]
    BY <2>1 DEF Base, CodeOK
  <2> QED
    BY <2>2, <2>3, <2>4 DEF CodeOK
<1> QED
  BY <1>1, <1>2

LEMMA CallsConcat ==
    ASSUME NEW S, NEW s \in Seq(S), NEW t \in Seq(S)
    PROVE  Calls(s \o t) = Calls(s) \cup Calls(t)
<1>1. /\ Len(s) \in Nat /\ Len(t) \in Nat /\ Len(s \o t) = Len(s) + Len(t)
      /\ \A i \in 1 .. Len(s) + Len(t) : (s \o t)[i] = IF i <= Len(s) THEN s[i] ELSE t[i - Len(s)]
  BY LenProperties, ConcatProperties
<1>2. ASSUME NEW c \in Calls(s \o t) PROVE c \in Calls(s) \cup Calls(t)
  <2>1. PICK j \in 1..Len(s \o t) : c = (s \o t)[j]
    BY <1>2 DEF Calls
  <2>2. CASE j <= Len(s)
    BY <1>1, <2>1, <2>2 DEF Calls
  <2>3. CASE ~(j <= Len(s))
    <3>1. j - Len(s) \in 1..Len(t) /\ c = t[j - Len(s)]
      BY <1>1, <2>1, <2>3
    <3> QED
      BY <3>1 DEF Calls
  <2> QED
    BY <2>2, <2>3
<1>3. ASSUME NEW c \in Calls(s) PROVE c \in Calls(s \o t)
  <2>1. PICK j \in 1..Len(s) : c = s[j]
    BY <1>3 DEF Calls
  <2>2. j \in 1..Len(s) + Len(t) /\ j <= Len(s)
    BY <1>1
  <2>3. c = (s \o t)[j]
    BY <1>1, <2>1, <2>2
  <2> QED
    BY <1>1, <2>2, <2>3 DEF Calls
<1>4. ASSUME NEW c \in Calls(t) PROVE c \in Calls(s \o t)
  <2>1. PICK j \in 1..Len(t) : c = t[j]
    BY <1>4 DEF Calls
  <2>2. Len(s) + j \in 1..Len(s) + Len(t) /\ ~(Len(s) + j <= Len(s)) /\ Len(s) + j - Len(s) = j
    BY <1>1
  <2>3. c = (s \o t)[Len(s) + j]
    BY <1>1, <2>1, <2>2
  <2> QED
    BY <1>1, <2>2, <2>3 DEF Calls
<1> QED
  BY <1>2, <1>3, <1>4

LEMMA CallsOf ==
    ASSUME NEW S
    PROVE  /\ \A x : Calls(<<x>>) = {x}
           /\ \A x, y : Calls(<<x, y>>) = {x, y}
           /\ Calls(<<>>) = {}
           /\ \A s \in Seq(S) : s # <<>> => Calls(s) = {s[1]} \cup Calls(Tail(s))
<1>1. Calls(<<>>) = {}
  BY DEF Calls
<1>2. \A x : Calls(<<x>>) = {x}
  BY DEF Calls
<1>3. \A x, y : Calls(<<x, y>>) = {x, y}
  BY DEF Calls
<1>4. ASSUME NEW s \in Seq(S), s # <<>> PROVE Calls(s) = {s[1]} \cup Calls(Tail(s))
  <2>1. Len(s) \in Nat \ {0} /\ Len(Tail(s)) = Len(s) - 1 /\ \A i \in 1..Len(Tail(s)) : Tail(s)[i] = s[i + 1]
    BY <1>4, EmptySeq, HeadTailProperties
  <2>2. ASSUME NEW c \in Calls(s) PROVE c \in {s[1]} \cup Calls(Tail(s))
    <3>1. PICK j \in 1..Len(s) : c = s[j]
      BY <2>2 DEF Calls
    <3>2. CASE j = 1
      BY <3>1, <3>2
    <3>3. CASE j # 1
      <4>1. j - 1 \in 1..Len(Tail(s)) /\ s[j - 1 + 1] = s[j]
        BY <2>1, <3>3
      <4>2. Tail(s)[j - 1] = c
        BY <2>1, <3>1, <4>1
      <4> QED
        BY <4>1, <4>2 DEF Calls
    <3> QED
      BY <3>2, <3>3
  <2>3. ASSUME NEW c \in {s[1]} \cup Calls(Tail(s)) PROVE c \in Calls(s)
    <3>1. CASE c = s[1]
      BY <2>1, <3>1 DEF Calls
    <3>2. CASE c \in Calls(Tail(s))
      <4>1. PICK j \in 1..Len(Tail(s)) : c = Tail(s)[j]
        BY <3>2 DEF Calls
      <4>2. c = s[j + 1] /\ j + 1 \in 1..Len(s)
        BY <2>1, <4>1
      <4> QED
        BY <4>2 DEF Calls
    <3> QED
      BY <2>3, <3>1, <3>2
  <2> QED
    BY <2>2, <2>3
<1> QED
  BY <1>1, <1>2, <1>3, <1>4

\* A turn of the walk is one at a whole instruction; elsewhere it gives up.
LEMMA Turns ==
    ASSUME Base, exit = "none", stack # <<>>, Next
    PROVE  \/ stack' = stack /\ code' = code /\ lib' = lib /\ todo' = todo /\ exit' = "1"
           \/ \E n \in DOMAIN lib.source : \E i \in 1..Len(lib.source[n]) : \E s \in 0..1 :
                 Intact(lib, code, n, i) /\ stack[1] = [at |-> lib.at[n][i], status |-> s] /\ Turn(n, i, s)
<1>1. /\ stack \in Seq(Frames) /\ stack[1] \in Frames /\ stack[1] \in Calls(stack)
      /\ Spot(lib, stack[1].at)
  <2>1. stack \in Seq(Frames)
    BY DEF Base, WalkOK
  <2>2. stack[1] \in Calls(stack)
    BY <2>1, CallsOf
  <2>3. 1 \in 1..Len(stack)
    BY <2>1, EmptySeq
  <2> QED
    BY <2>1, <2>2, <2>3, ElementOfSeq DEF Base, WalkOK
<1>2. ASSUME decode(code, stack[1].at) = Instruction("exit", 0, 0)
      PROVE  stack' = stack /\ code' = code /\ lib' = lib /\ todo' = todo /\ exit' = "1"
  <2>1. ins.op = "exit"
    BY <1>2 DEF ins, top, Instruction
  <2>2. GiveUp
    BY <2>1 DEF Next, NextFunction, AccessVar, Call, JmpToAddr, MaybeJmp, Ret, Ignore, GiveUp, Finish, Stopped, Walks
  <2> QED
    BY <2>2 DEF GiveUp
<1>4. CASE Spot(lib, stack[1].at)
  <2>0. PICK n \in DOMAIN lib.source : \E i \in 1..Len(lib.source[n]) : stack[1].at = lib.at[n][i]
    BY <1>4 DEF Spot
  <2>1. PICK i \in 1..Len(lib.source[n]) : stack[1].at = lib.at[n][i]
    BY <2>0
  <2>2. CASE Crashed(lib, code, n, i)
    <3>1. /\ lib.at[n][i] \in DOMAIN code /\ lib.at[n][i] \in Nat
          /\ code[lib.at[n][i]] \in {204, 205, 0}
      BY <2>2, LibFacts DEF Crashed
    <3>2. decode(code, lib.at[n][i]) = Instruction("exit", 0, 0)
      BY <3>1, DecodeOne
    <3> QED
      BY <1>2, <2>1, <3>2
  <2>3. CASE Intact(lib, code, n, i)
    <3>1. PICK s \in 0..1 : s = stack[1].status
      BY <1>1 DEF Frames
    <3>2. Turn(n, i, s)
      BY <2>1, <2>3, <3>1, TurnOf
    <3>3. stack[1] = [at |-> lib.at[n][i], status |-> s]
      BY <1>1, <2>1, <3>1 DEF Frames
    <3> QED
      BY <2>3, <3>2, <3>3
  <2> QED
    BY <2>2, <2>3 DEF Base, CodeOK
<1> QED
  BY <1>1, <1>4

LEMMA SourceFacts ==
    ASSUME NEW l, Linked(l)
    PROVE  /\ Len(l.source) \in Nat /\ DOMAIN l.source = 1..Len(l.source)
           /\ \A n \in DOMAIN l.source : l.at[n][1] \in Nat /\ 1 \in 1..Len(l.source[n])
<1>1. Len(l.source) \in Nat /\ DOMAIN l.source = 1..Len(l.source)
  BY LenProperties DEF Linked
<1>2. \A n \in DOMAIN l.source : Len(l.source[n]) \in Nat \ {0} /\ \A i \in 1..Len(l.source[n]) + 1 : l.at[n][i] \in Nat
  BY FunctionFacts
<1> QED
  BY <1>1, <1>2

LEMMA FunsOf ==
    ASSUME NEW l, Linked(l)
    PROVE  l.funs \in Seq(Nat) /\ Len(l.funs) = Len(l.source) /\ \A n \in 1..Len(l.source) : l.funs[n] = l.at[n][1]
<1>1. /\ Len(l.source) \in Nat /\ DOMAIN l.source = 1..Len(l.source)
      /\ \A n \in DOMAIN l.source : l.at[n][1] \in Nat
  BY SourceFacts
<1>2. l.funs = [n \in 1..Len(l.source) |-> l.at[n][1]]
  BY <1>1 DEF Linked
<1>3. l.funs \in [1..Len(l.source) -> Nat]
  BY <1>1, <1>2
<1>4. l.funs \in Seq(Nat)
  BY <1>1, <1>3, SeqDef
<1>5. DOMAIN l.funs = 1..Len(l.funs) /\ Len(l.funs) \in Nat /\ DOMAIN l.funs = 1..Len(l.source)
  BY <1>3, <1>4, LenProperties
<1> QED
  BY <1>1, <1>2, <1>4, <1>5

LEMMA BaseInit == Init => Base
<1> SUFFICES ASSUME Init PROVE Base
  OBVIOUS
<1>1. Linked(lib) /\ lib \in Libraries
  BY LibrariesAssumption DEF Init
<1>2. TodoOK
  <2>1. todo \in Seq(Nat) /\ Len(todo) = Len(lib.source) /\ \A n \in 1..Len(lib.source) : todo[n] = lib.at[n][1]
    BY <1>1, FunsOf DEF Init
  <2>2. Len(lib.source) \in Nat
    BY <1>1, SourceFacts
  <2>3. \A j \in 1..Len(todo) : Len(lib.source) - Len(todo) + j = j
    BY <2>1, <2>2
  <2> QED
    BY <2>1, <2>2, <2>3 DEF TodoOK
<1>3. WalkOK
  BY EmptySeq, CallsOf DEF Init, WalkOK
<1>4. CodeOK(lib, lib.code)
  <2>1. ASSUME NEW n \in DOMAIN lib.source, NEW i \in 1..Len(lib.source[n]) PROVE Intact(lib, lib.code, n, i)
    <3>1. StandsAt(lib.source[n], lib.at[n], lib.code) /\ i \in DOMAIN lib.source[n]
      BY <1>1, FunctionFacts DEF Linked
    <3> QED
      BY <3>1 DEF StandsAt, Intact, Width, Kind
  <2>2. JumpsThrough(lib.code, 16, 48) /\ JumpsThrough(lib.code, 32, 56)
    BY <1>1 DEF Linked, PltOpen, PltClose
  <2>3. \A a \in Stubs : a \in DOMAIN lib.code
    BY <2>2, SMT DEF JumpsThrough, Stubs
  <2> QED
    BY <2>1, <2>3 DEF CodeOK
<1> QED
  BY <1>1, <1>2, <1>3, <1>4 DEF Init, Base

\* Where the walk goes on from an instruction, it is at one again.
LEMMA OnwardOf ==
    ASSUME NEW l, Linked(l), NEW n \in DOMAIN l.source, NEW i \in 1..Len(l.source[n]), NEW s \in 0..1
    PROVE  /\ Onward(l, n, i, s) \in Seq(Frames)
           /\ \A c \in Calls(Onward(l, n, i, s)) : Spot(l, c.at)
<1> DEFINE k == Kind(l, n, i)
           a == l.at[n][i]
           t == l.at[n][Target(l, n, i)]
           h == Width(l, n, i)
           d == Next1(k, s)
           Fine(c) == c \in Frames /\ (Spot(l, c.at))
<1>1. /\ Len(l.source[n]) \in Nat \ {0} /\ k \in Kinds /\ a \in Nat /\ Width(l, n, i) \in 1..7
      /\ k = "jcc" => Target(l, n, i) \in i + 1..Len(l.source[n])
      /\ Leaves(Kind(l, n, Len(l.source[n])))
      /\ \A j \in 1..Len(l.source[n]) + 1 : l.at[n][j] \in Nat
      /\ l.at[n][i + 1] = a + Width(l, n, i)
  BY FunctionFacts DEF Leaves
<1>2. d \in 0..1 /\ h \in 1..7
  BY <1>1 DEF Next1
<1>3. ~Leaves(k) => i + 1 \in 1..Len(l.source[n])
  BY <1>1
<1>4. ASSUME NEW v \in 0..1, ~Leaves(k) PROVE Fine([at |-> a + h, status |-> v])
  <2>1. [at |-> a + h, status |-> v] \in Frames
    <3>1. PICK p, q \in Nat : p = a /\ q = h
      BY <1>1, <1>2
    <3>2. p + q \in Nat
      OBVIOUS
    <3> QED
      BY <3>1, <3>2 DEF Frames
  <2>2. a + h = l.at[n][i + 1]
    BY <1>1
  <2> QED
    BY <1>3, <1>4, <2>1, <2>2 DEF Spot
<1>5. ASSUME k = "jcc" PROVE Fine([at |-> t, status |-> s])
  <2>1. Target(l, n, i) \in 1..Len(l.source[n])
    BY <1>1, <1>5
  <2>2. t \in Nat
    BY <1>1, <2>1
  <2> QED
    BY <2>1, <2>2 DEF Spot, Frames
<1>6. CASE Leaves(k)
  <2>1. Onward(l, n, i, s) = <<>>
    BY <1>6 DEF Onward, Leaves
  <2> QED
    BY <2>1, EmptySeq, CallsOf
<1>7. CASE ~Leaves(k) /\ k = "jcc"
  <2>1. PICK x, y : x = [at |-> t, status |-> s] /\ y = [at |-> a + 2, status |-> s]
    OBVIOUS
  <2>2. Onward(l, n, i, s) = <<x, y>>
    BY <1>7, <2>1 DEF Onward
  <2>3. h = 2
    BY <1>7, SizeOf DEF Width
  <2>4. Fine(x) /\ Fine(y)
    BY <1>4, <1>5, <1>7, <2>1, <2>3
  <2> HIDE DEF Fine
  <2>5. <<x, y>> \in Seq(Frames)
    BY <2>4 DEF Fine
  <2>6. Calls(<<x, y>>) = {x, y}
    BY CallsOf
  <2> QED
    BY <2>2, <2>4, <2>5, <2>6 DEF Fine
<1>8. CASE ~Leaves(k) /\ k # "jcc"
  <2>1. PICK x : x = [at |-> a + h, status |-> d]
    OBVIOUS
  <2>2. Onward(l, n, i, s) = <<x>>
    BY <1>8, <2>1 DEF Onward
  <2>4. Fine(x)
    BY <1>2, <1>4, <1>8, <2>1
  <2> HIDE DEF Fine
  <2>5. <<x>> \in Seq(Frames)
    BY <2>4 DEF Fine
  <2>6. Calls(<<x>>) = {x}
    BY CallsOf
  <2> QED
    BY <2>2, <2>4, <2>5, <2>6 DEF Fine
<1> QED
  BY <1>6, <1>7, <1>8

LEMMA StackFacts ==
    ASSUME Base, stack # <<>>
    PROVE  /\ Tail(stack) \in Seq(Frames) /\ stack \in Seq(Frames)
           /\ Calls(stack) = {stack[1]} \cup Calls(Tail(stack))
BY HeadTailProperties, CallsOf DEF Base, WalkOK

LEMMA TurnCalls ==
    ASSUME Base, stack # <<>>, NEW o \in Seq(Frames)
    PROVE  o \o Tail(stack) \in Seq(Frames) /\ Calls(o \o Tail(stack)) = Calls(o) \cup Calls(Tail(stack))
<1>1. PICK r \in Seq(Frames) : r = Tail(stack)
  BY StackFacts
<1>2. o \o r \in Seq(Frames)
  BY ConcatProperties
<1>3. Calls(o \o r) = Calls(o) \cup Calls(r)
  BY CallsConcat
<1> QED
  BY ONLY <1>1, <1>2, <1>3

LEMMA TodoFacts ==
    ASSUME Base, todo # <<>>
    PROVE  /\ Tail(todo) \in Seq(Nat) /\ Len(Tail(todo)) = Len(todo) - 1 /\ Len(todo) \in 1..Len(lib.source)
           /\ Len(lib.source) \in Nat /\ DOMAIN lib.source = 1..Len(lib.source)
           /\ Len(lib.source) - Len(todo) + 1 \in DOMAIN lib.source
           /\ Head(todo) = lib.at[Len(lib.source) - Len(todo) + 1][1]
           /\ \A j \in 1..Len(todo) - 1 : Tail(todo)[j] = lib.at[Len(lib.source) - (Len(todo) - 1) + j][1]
<1>1. todo \in Seq(Nat) /\ Len(todo) <= Len(lib.source)
      /\ \A j \in 1..Len(todo) : todo[j] = lib.at[Len(lib.source) - Len(todo) + j][1]
  BY DEF Base, TodoOK
<1>2. Len(todo) \in Nat \ {0} /\ Tail(todo) \in Seq(Nat) /\ Len(Tail(todo)) = Len(todo) - 1
      /\ \A j \in 1..Len(todo) - 1 : Tail(todo)[j] = todo[j + 1]
  BY <1>1, EmptySeq, HeadTailProperties
<1>3. Len(lib.source) \in Nat /\ DOMAIN lib.source = 1..Len(lib.source)
  BY LinkedLib, SourceFacts
<1>4. Head(todo) = todo[1] /\ 1 \in 1..Len(todo)
  BY <1>1, <1>2
<1>5. Head(todo) = lib.at[Len(lib.source) - Len(todo) + 1][1]
  BY <1>1, <1>4
<1>6. ASSUME NEW j \in 1..Len(todo) - 1 PROVE Tail(todo)[j] = lib.at[Len(lib.source) - (Len(todo) - 1) + j][1]
  <2>1. j + 1 \in 1..Len(todo) /\ Len(lib.source) - (Len(todo) - 1) + j = Len(lib.source) - Len(todo) + (j + 1)
    <3>1. PICK p, q \in Nat : p = Len(lib.source) /\ q = Len(todo)
      BY <1>2, <1>3
    <3>2. j \in 1..q - 1 => j + 1 \in 1..q /\ p - (q - 1) + j = p - q + (j + 1)
      OBVIOUS
    <3> QED
      BY <3>1, <3>2
  <2> QED
    BY <1>1, <1>2, <2>1
<1> QED
  BY <1>1, <1>2, <1>3, <1>5, <1>6

LEMMA BaseNext == Base /\ [Next]_vars => Base'
<1> SUFFICES ASSUME Base, [Next]_vars PROVE Base'
  OBVIOUS
<1>1. CASE UNCHANGED vars \/ Stopped
  BY <1>1 DEF Base, TodoOK, WalkOK, Stopped, vars
<1>2. CASE NextFunction
  <2>1. PICK n \in DOMAIN lib.source : n = Len(lib.source) - Len(todo) + 1 /\ Head(todo) = lib.at[n][1]
    BY <1>2, TodoFacts DEF NextFunction
  <2>2. WalkOK'
    <3>1. PICK c : c = [at |-> Head(todo), status |-> 0]
      OBVIOUS
    <3>2. lib.at[n][1] \in Nat /\ 1 \in 1..Len(lib.source[n])
      BY LinkedLib, SourceFacts
    <3>3. c \in Frames /\ Spot(lib, c.at)
      BY <2>1, <3>1, <3>2 DEF Frames, Spot
    <3>4. stack' = <<c>> /\ lib' = lib
      BY <1>2, <3>1 DEF NextFunction
    <3>5. <<c>> \in Seq(Frames)
      BY <3>3
    <3>6. Calls(<<c>>) = {c}
      BY CallsOf
    <3> QED
      BY <3>3, <3>4, <3>5, <3>6 DEF WalkOK
  <2>3. TodoOK'
    <3>1. todo' = Tail(todo) /\ lib' = lib /\ todo # <<>>
      BY <1>2 DEF NextFunction
    <3>2. /\ Tail(todo) \in Seq(Nat) /\ Len(Tail(todo)) = Len(todo) - 1 /\ Len(todo) \in 1..Len(lib.source)
          /\ Len(lib.source) \in Nat
          /\ \A j \in 1..Len(todo) - 1 : Tail(todo)[j] = lib.at[Len(lib.source) - (Len(todo) - 1) + j][1]
      BY <3>1, TodoFacts
    <3>3. Len(todo) - 1 <= Len(lib.source)
      BY <3>2
    <3> QED
      BY <3>1, <3>2, <3>3 DEF TodoOK
  <2> QED
    BY <1>2, <2>2, <2>3 DEF Base, NextFunction
<1>3. CASE Finish
  BY <1>3 DEF Base, TodoOK, WalkOK, Finish
<1>4. CASE Next /\ exit = "none" /\ stack # <<>>
  <2>1. CASE stack' = stack /\ code' = code /\ lib' = lib /\ todo' = todo /\ exit' = "1"
    BY <2>1 DEF Base, TodoOK, WalkOK
  <2>2. ASSUME NEW n \in DOMAIN lib.source, NEW i \in 1..Len(lib.source[n]), NEW s \in 0..1,
               Intact(lib, code, n, i), Turn(n, i, s)
        PROVE  Base'
    <3>1. lib' = lib /\ todo' = todo /\ exit' = "none" /\ stack' = Onward(lib, n, i, s) \o Tail(stack)
      BY <2>2 DEF Turn
    <3>2. CodeOK(lib, code')
      BY <2>2, CodeStays
    <3>3. /\ Onward(lib, n, i, s) \in Seq(Frames)
          /\ \A c \in Calls(Onward(lib, n, i, s)) : Spot(lib, c.at)
      BY LinkedLib, OnwardOf
    <3>4. Tail(stack) \in Seq(Frames) /\ Calls(Tail(stack)) \subseteq Calls(stack)
      BY <1>4, StackFacts
    <3>5. stack' \in Seq(Frames) /\ Calls(stack') = Calls(Onward(lib, n, i, s)) \cup Calls(Tail(stack))
      <4>1. PICK o : o = Onward(lib, n, i, s)
        OBVIOUS
      <4>2. o \in Seq(Frames) /\ stack' = o \o Tail(stack)
        BY <3>1, <3>3, <4>1
      <4>3. o \o Tail(stack) \in Seq(Frames) /\ Calls(o \o Tail(stack)) = Calls(o) \cup Calls(Tail(stack))
        BY <1>4, <4>2, TurnCalls
      <4> QED
        BY <4>1, <4>2, <4>3
    <3>6. WalkOK'
      BY <3>1, <3>3, <3>4, <3>5 DEF Base, WalkOK
    <3> QED
      BY <3>1, <3>2, <3>6 DEF Base, TodoOK
  <2> QED
    BY <1>4, <2>1, <2>2, Turns
<1> QED
  BY <1>1, <1>2, <1>3, <1>4 DEF Next, NextFunction, AccessVar, Call, JmpToAddr, MaybeJmp, Ret, Ignore, GiveUp, Finish, Walks

\* The walk can follow the function to its ends: it has no jump but the
\* conditional ones and the one to close_it through its slot.
Followed(f) == \A i \in DOMAIN f : f[i].k \notin {"jmp", "tail_open", "tail_close", "got_open"}

\* T holds the instructions and statuses from where every execution ends well,
\* if it holds those they lead to.
Closed(l, text, T) ==
    \A n \in DOMAIN l.source : \A i \in 1..Len(l.source[n]) : \A s \in 0..1 :
       \/ text[l.at[n][i]] # l.code[l.at[n][i]]
       \/ /\ ~Misused(Kind(l, n, i), s)
          /\ \/ Kind(l, n, i) \in {"ret", "got_close"}
             \/ Kind(l, n, i) = "jcc" /\ <<n, Target(l, n, i), s>> \in T /\ <<n, i + 1, s>> \in T
             \/ ~Leaves(Kind(l, n, i)) /\ Kind(l, n, i) # "jcc" /\ <<n, i + 1, Next1(Kind(l, n, i), s)>> \in T
       => <<n, i, s>> \in T

\* What is left to walk is all that is left to show of the functions begun.
Under(l, T, c) == \E n \in DOMAIN l.source : \E i \in 1..Len(l.source[n]) : c.at = l.at[n][i] /\ <<n, i, c.status>> \in T
Walked ==
    \A T \in SUBSET (Nat \X Nat \X (0..1)) :
       Closed(lib, code, T) /\ (\A c \in Calls(stack) : Under(lib, T, c)) =>
          \A n \in DOMAIN lib.source : n <= Len(lib.source) - Len(todo) => <<n, 1, 0>> \in T

LEMMA OnePlace ==
    ASSUME NEW l, Linked(l), NEW n \in DOMAIN l.source, NEW m \in DOMAIN l.source,
           NEW i \in 1..Len(l.source[n]), NEW j \in 1..Len(l.source[m])
    PROVE  l.at[n][i] = l.at[m][j] => n = m /\ i = j
<1>1. l.at[n][i] \in Nat /\ Width(l, n, i) \in 1..7 /\ l.at[m][j] \in Nat /\ Width(l, m, j) \in 1..7
  <2>1. Len(l.source[n]) \in Nat /\ Len(l.source[m]) \in Nat
    BY FunctionFacts
  <2>2. i \in 1..Len(l.source[n]) + 1 /\ j \in 1..Len(l.source[m]) + 1
    BY <2>1
  <2>3. l.at[n][i] \in Nat /\ Width(l, n, i) \in 1..7
    BY <2>2, FunctionFacts
  <2>4. l.at[m][j] \in Nat /\ Width(l, m, j) \in 1..7
    BY <2>2, FunctionFacts
  <2> QED
    BY <2>3, <2>4
<1>3. PICK p, q, v, w : p = l.at[n][i] /\ q = l.at[m][j] /\ v = Width(l, n, i) /\ w = Width(l, m, j)
  BY <1>1
<1>4. <<n, i>> # <<m, j>> => p + v <= q \/ q + w <= p
  BY <1>3, Apart
<1>5. p \in Nat /\ q \in Nat /\ v \in 1..7 /\ w \in 1..7
  BY <1>1, <1>3
<1>6. p + v <= q \/ q + w <= p => p # q
  BY <1>5
<1> QED
  BY <1>3, <1>4, <1>6

\* No instruction of a library begins like a crash.
LEMMA FirstByte ==
    ASSUME NEW l, Linked(l), NEW n \in DOMAIN l.source, NEW i \in 1..Len(l.source[n])
    PROVE  l.code[l.at[n][i]] \notin {204, 205}
<1>1. Intact(l, l.code, n, i)
  <2>1. StandsAt(l.source[n], l.at[n], l.code) /\ i \in DOMAIN l.source[n]
    BY FunctionFacts DEF Linked
  <2> QED
    BY <2>1 DEF StandsAt, Intact, Width, Kind
<1>2. Width(l, n, i) \in 1..7 /\ l.at[n][i] \in Nat
  BY FunctionFacts
<1>3. 1 \in 1..Width(l, n, i) /\ l.at[n][i] + 1 - 1 = l.at[n][i]
  BY <1>2
<1>4. l.at[n][i] \in DOMAIN l.code
  BY <1>1, <1>3 DEF Intact
<1>5. SUFFICES ASSUME l.code[l.at[n][i]] \in {204, 205, 0} PROVE FALSE
  OBVIOUS
<1>6. decode(l.code, l.at[n][i]) = Instruction("exit", 0, 0)
  BY <1>2, <1>4, <1>5, DecodeOne
<1>7. decode(l.code, l.at[n][i]) = Instruction(Op(Kind(l, n, i)), Width(l, n, i), Goal(l, n, i))
  BY <1>1, DecodeIntact
<1>8. Op(Kind(l, n, i)) = "exit"
  BY <1>6, <1>7 DEF Instruction
<1> QED
  BY <1>8 DEF Op

\* A crash is never undone.
LEMMA Replacing ==
    ASSUME Base, NEW n \in DOMAIN lib.source, NEW i \in 1..Len(lib.source[n]), NEW s \in 0..1,
           Intact(lib, code, n, i), Turn(n, i, s),
           NEW m \in DOMAIN lib.source, NEW j \in 1..Len(lib.source[m])
    PROVE  /\ code[lib.at[m][j]] # lib.code[lib.at[m][j]] => code'[lib.at[m][j]] # lib.code[lib.at[m][j]]
           /\ Misused(Kind(lib, n, i), s) => code'[lib.at[n][i]] # lib.code[lib.at[n][i]]
<1>1. lib.at[m][j] \in Nat /\ Width(lib, m, j) \in 1..7 /\ Linked(lib)
  BY LibFacts
<1>2. lib.code[lib.at[n][i]] \notin {204, 205}
  BY <1>1, FirstByte
<1>3. ASSUME Misused(Kind(lib, n, i), s) PROVE code'[lib.at[n][i]] # lib.code[lib.at[n][i]]
  BY <1>2, <1>3, CrashOf
<1>4. ASSUME code[lib.at[m][j]] # lib.code[lib.at[m][j]] PROVE code'[lib.at[m][j]] # lib.code[lib.at[m][j]]
  <2>1. CASE ~Misused(Kind(lib, n, i), s)
    BY <1>4, <2>1 DEF Turn
  <2>2. CASE Misused(Kind(lib, n, i), s) /\ <<m, j>> = <<n, i>>
    BY <1>3, <2>2
  <2>3. CASE Misused(Kind(lib, n, i), s) /\ <<m, j>> # <<n, i>>
    <3>1. \A b \in 1..Width(lib, m, j) :
             lib.at[m][j] + b - 1 \in DOMAIN code => code'[lib.at[m][j] + b - 1] = code[lib.at[m][j] + b - 1]
      BY <2>3, CrashOf
    <3>2. 1 \in 1..Width(lib, m, j) /\ lib.at[m][j] + 1 - 1 = lib.at[m][j]
      BY <1>1
    <3>3. lib.at[m][j] \in DOMAIN code
      <4>1. Intact(lib, code, m, j) \/ Crashed(lib, code, m, j)
        BY DEF Base, CodeOK
      <4> QED
        BY <3>2, <4>1 DEF Intact, Crashed
    <3>4. code'[lib.at[m][j]] = code[lib.at[m][j]]
      BY <3>1, <3>2, <3>3
    <3> QED
      BY <1>4, <3>4
  <2> QED
    BY <2>1, <2>2, <2>3
<1> QED
  BY <1>3, <1>4

LEMMA UnderAt ==
    ASSUME NEW l, Linked(l), NEW n \in DOMAIN l.source, NEW i \in 1..Len(l.source[n]), NEW s, NEW T, NEW c,
           c.at = l.at[n][i], c.status = s, Under(l, T, c)
    PROVE  <<n, i, s>> \in T
<1>1. PICK m \in DOMAIN l.source : \E j \in 1..Len(l.source[m]) : c.at = l.at[m][j] /\ <<m, j, c.status>> \in T
  BY DEF Under
<1>2. PICK j \in 1..Len(l.source[m]) : c.at = l.at[m][j] /\ <<m, j, c.status>> \in T
  BY <1>1
<1>3. n = m /\ i = j
  <2>1. l.at[n][i] = l.at[m][j] => n = m /\ i = j
    BY OnePlace
  <2> QED
    BY <1>2, <2>1
<1> QED
  BY <1>2, <1>3

LEMMA TurnUnder ==
    ASSUME Base, NEW n \in DOMAIN lib.source, NEW i \in 1..Len(lib.source[n]), NEW s \in 0..1,
           Followed(lib.source[n]), stack # <<>>,
           Intact(lib, code, n, i), Turn(n, i, s), NEW T,
           Closed(lib, code', T), \A c \in Calls(stack') : Under(lib, T, c)
    PROVE  <<n, i, s>> \in T
<1> DEFINE k == Kind(lib, n, i)
           a == lib.at[n][i]
           t == Target(lib, n, i)
           d == Next1(k, s)
           h == Width(lib, n, i)
<1>1. /\ Linked(lib) /\ Len(lib.source[n]) \in Nat \ {0} /\ k \in Kinds
      /\ k = "jcc" => t \in i + 1..Len(lib.source[n])
      /\ Leaves(Kind(lib, n, Len(lib.source[n])))
      /\ lib.at[n][i + 1] = a + Width(lib, n, i)
      /\ i \in DOMAIN lib.source[n]
  BY LinkedLib, FunctionFacts DEF Leaves
<1>2. ~Leaves(k) => i + 1 \in 1..Len(lib.source[n])
  BY <1>1
<1>3. Calls(Onward(lib, n, i, s)) \subseteq Calls(stack')
  <2>1. Onward(lib, n, i, s) \in Seq(Frames)
    BY <1>1, OnwardOf
  <2>2. PICK o : o = Onward(lib, n, i, s)
    OBVIOUS
  <2>3. Calls(o \o Tail(stack)) = Calls(o) \cup Calls(Tail(stack))
    BY <2>1, <2>2, TurnCalls
  <2> QED
    BY <2>2, <2>3 DEF Turn
<1>4. CASE Misused(k, s)
  <2>1. code'[a] # lib.code[a]
    BY <1>4, Replacing
  <2> QED
    BY <2>1 DEF Closed
<1>5. CASE ~Misused(k, s) /\ Leaves(k)
  <2>1. k \in {"ret", "got_close"}
    BY <1>1, <1>5 DEF Followed, Leaves, Kind
  <2> QED
    BY <1>5, <2>1 DEF Closed
<1>6. CASE ~Misused(k, s) /\ ~Leaves(k) /\ k = "jcc"
  <2>1. PICK x, y : x = [at |-> lib.at[n][t], status |-> s] /\ y = [at |-> a + 2, status |-> s]
    OBVIOUS
  <2>2. Onward(lib, n, i, s) = <<x, y>>
    BY <1>6, <2>1 DEF Onward
  <2>3. Calls(<<x, y>>) = {x, y}
    BY CallsOf
  <2>4. Under(lib, T, x) /\ Under(lib, T, y)
    BY <1>3, <2>2, <2>3
  <2>5. a + 2 = lib.at[n][i + 1]
    BY <1>1, <1>6, SizeOf DEF Width
  <2>6. x.at = lib.at[n][t] /\ x.status = s /\ y.at = lib.at[n][i + 1] /\ y.status = s
    BY <2>1, <2>5
  <2>7. t \in 1..Len(lib.source[n]) /\ i + 1 \in 1..Len(lib.source[n])
    BY <1>1, <1>2, <1>6
  <2>8. <<n, t, s>> \in T
    BY <1>1, <2>4, <2>6, <2>7, UnderAt
  <2>9. <<n, i + 1, s>> \in T
    BY <1>1, <2>4, <2>6, <2>7, UnderAt
  <2> QED
    BY <1>6, <2>8, <2>9 DEF Closed
<1>7. CASE ~Misused(k, s) /\ ~Leaves(k) /\ k # "jcc"
  <2>1. PICK x : x = [at |-> a + h, status |-> d]
    OBVIOUS
  <2>2. Onward(lib, n, i, s) = <<x>>
    BY <1>7, <2>1 DEF Onward
  <2>3. Calls(<<x>>) = {x}
    BY CallsOf
  <2>4. Under(lib, T, x) /\ x.at = a + h /\ x.status = d
    BY <1>3, <2>1, <2>2, <2>3
  <2>6. x.at = lib.at[n][i + 1]
    BY <1>1, <2>4
  <2>7. <<n, i + 1, d>> \in T
    BY <1>1, <1>2, <1>7, <2>4, <2>6, UnderAt
  <2> QED
    BY <1>7, <2>7 DEF Closed
<1> QED
  BY <1>4, <1>5, <1>6, <1>7

LEMMA TurnClosed ==
    ASSUME Base, NEW n \in DOMAIN lib.source, NEW i \in 1..Len(lib.source[n]), NEW s \in 0..1,
           Intact(lib, code, n, i), Turn(n, i, s), NEW T, Closed(lib, code', T)
    PROVE  Closed(lib, code, T)
<1>1. \A m \in DOMAIN lib.source : \A j \in 1..Len(lib.source[m]) :
         code[lib.at[m][j]] # lib.code[lib.at[m][j]] => code'[lib.at[m][j]] # lib.code[lib.at[m][j]]
  BY Replacing
<1> QED
  BY <1>1 DEF Closed

LEMMA WalkedInit == Init => Walked
<1> SUFFICES ASSUME Init PROVE Walked
  OBVIOUS
<1>1. Linked(lib)
  BY LibrariesAssumption DEF Init
<1>2. Len(todo) = Len(lib.source)
  BY <1>1, FunsOf DEF Init
<1>3. Len(lib.source) \in Nat /\ DOMAIN lib.source = 1..Len(lib.source)
  BY <1>1, SourceFacts
<1>4. \A n \in DOMAIN lib.source : ~(n <= Len(lib.source) - Len(todo))
  BY <1>2, <1>3
<1> QED
  BY <1>4 DEF Walked

LEMMA WalkedNext ==
    ASSUME \A l \in Libraries : \A n \in DOMAIN l.source : Followed(l.source[n])
    PROVE  Base /\ Walked /\ [Next]_vars => Walked'
<1> SUFFICES ASSUME Base, Walked, [Next]_vars PROVE Walked'
  OBVIOUS
<1>1. CASE UNCHANGED vars \/ Stopped \/ Finish
  BY <1>1 DEF Walked, Stopped, Finish, vars
<1>2. CASE NextFunction
  <2>1. todo # <<>> /\ stack = <<>> /\ lib' = lib /\ code' = code /\ todo' = Tail(todo)
        /\ stack' = <<[at |-> Head(todo), status |-> 0]>>
    BY <1>2 DEF NextFunction
  <2>2. PICK n \in DOMAIN lib.source : n = Len(lib.source) - Len(todo) + 1 /\ Head(todo) = lib.at[n][1]
    BY <2>1, TodoFacts
  <2>3. Linked(lib) /\ 1 \in 1..Len(lib.source[n])
    BY LinkedLib, SourceFacts
  <2>4. PICK c : c = [at |-> Head(todo), status |-> 0]
    OBVIOUS
  <2>5. stack' = <<c>> /\ c.at = lib.at[n][1] /\ c.status = 0
    BY <2>1, <2>2, <2>4
  <2>6. Calls(<<c>>) = {c} /\ Calls(stack) = {}
    BY <2>1, CallsOf
  <2>7. ASSUME NEW m \in DOMAIN lib.source, m <= Len(lib.source) - Len(todo'), m # n
        PROVE  m <= Len(lib.source) - Len(todo)
    <3>1. Len(Tail(todo)) = Len(todo) - 1 /\ Len(todo) \in 1..Len(lib.source) /\ Len(lib.source) \in Nat
          /\ DOMAIN lib.source = 1..Len(lib.source)
      BY <2>1, TodoFacts
    <3>2. PICK p, q \in Nat : p = Len(lib.source) /\ q = Len(todo)
      BY <3>1
    <3>3. m \in Nat /\ m <= p - (q - 1) /\ m # p - q + 1
      BY <2>1, <2>2, <2>7, <3>1, <3>2
    <3>4. m <= p - q
      BY <3>2, <3>3
    <3> QED
      BY <3>2, <3>4
  <2>8. ASSUME NEW T \in SUBSET (Nat \X Nat \X (0..1)), Closed(lib', code', T), \A x \in Calls(stack') : Under(lib', T, x)
        PROVE  \A m \in DOMAIN lib'.source : m <= Len(lib'.source) - Len(todo') => <<m, 1, 0>> \in T
    <3>1. Under(lib, T, c)
      BY <2>1, <2>5, <2>6, <2>8
    <3>2. <<n, 1, 0>> \in T
      BY <2>3, <2>5, <3>1, UnderAt
    <3>3. \A m \in DOMAIN lib.source : m <= Len(lib.source) - Len(todo) => <<m, 1, 0>> \in T
      BY <2>1, <2>6, <2>8 DEF Walked
    <3> QED
      BY <2>1, <2>7, <3>2, <3>3
  <2> QED
    BY <2>8 DEF Walked
<1>3. CASE Next /\ exit = "none" /\ stack # <<>>
  <2>1. CASE stack' = stack /\ code' = code /\ lib' = lib /\ todo' = todo /\ exit' = "1"
    BY <2>1 DEF Walked
  <2>2. ASSUME NEW n \in DOMAIN lib.source, NEW i \in 1..Len(lib.source[n]), NEW s \in 0..1,
               Intact(lib, code, n, i), stack[1] = [at |-> lib.at[n][i], status |-> s], Turn(n, i, s)
        PROVE  Walked'
    <3>1. lib' = lib /\ todo' = todo /\ stack' = Onward(lib, n, i, s) \o Tail(stack)
      BY <2>2 DEF Turn
    <3>2. Followed(lib.source[n])
      BY DEF Base
    <3>3. ASSUME NEW T \in SUBSET (Nat \X Nat \X (0..1)), Closed(lib', code', T), \A x \in Calls(stack') : Under(lib', T, x)
          PROVE  \A m \in DOMAIN lib'.source : m <= Len(lib'.source) - Len(todo') => <<m, 1, 0>> \in T
      <4>1. Closed(lib, code', T) /\ \A x \in Calls(stack') : Under(lib, T, x)
        BY <3>1, <3>3
      <4>2. <<n, i, s>> \in T
        BY <1>3, <2>2, <3>2, <4>1, TurnUnder
      <4>3. Closed(lib, code, T)
        BY <2>2, <4>1, TurnClosed
      <4>4. Under(lib, T, stack[1])
        BY <2>2, <4>2 DEF Under
      <4>5. Calls(stack) = {stack[1]} \cup Calls(Tail(stack)) /\ Calls(Tail(stack)) \subseteq Calls(stack')
        <5>1. Onward(lib, n, i, s) \in Seq(Frames)
          BY LinkedLib, OnwardOf
        <5>2. PICK o : o = Onward(lib, n, i, s)
          OBVIOUS
        <5>3. Calls(o \o Tail(stack)) = Calls(o) \cup Calls(Tail(stack))
          BY <1>3, <5>1, <5>2, TurnCalls
        <5> QED
          BY <1>3, <3>1, <5>2, <5>3, StackFacts
      <4>6. \A c \in Calls(stack) : Under(lib, T, c)
        BY <4>1, <4>4, <4>5
      <4> QED
        BY <3>1, <4>3, <4>6 DEF Walked
    <3> QED
      BY <3>3 DEF Walked
  <2> QED
    BY <1>3, <2>1, <2>2, Turns
<1> QED
  BY <1>1, <1>2, <1>3 DEF Next, NextFunction, AccessVar, Call, JmpToAddr, MaybeJmp, Ret, Ignore, GiveUp, Finish, Walks

LEMMA FunFacts ==
    ASSUME Base, NEW n \in DOMAIN lib.source
    PROVE  /\ Fun(n) = lib.source[n] /\ Len(Fun(n)) \in Nat \ {0} /\ DOMAIN Fun(n) = 1..Len(Fun(n))
           /\ \A i \in 1..Len(Fun(n)) :
                 /\ Fun(n)[i].k = Kind(lib, n, i) /\ Fun(n)[i].k \in Kinds
                 /\ Fun(n)[i].k \in {"jcc", "jmp"} => Fun(n)[i].to \in i + 1..Len(Fun(n))
                 /\ Fun(n)[i].to = Target(lib, n, i)
           /\ Fun(n)[Len(Fun(n))].k \in {"ret"} \cup TailOpen \cup TailClose
<1>1. Fun(n) = lib.source[n]
  BY DEF Fun
<1>2. Linked(lib)
  BY LinkedLib
<1>3. Kind(lib, n, Len(Fun(n))) \in {"ret", "tail_open", "got_open", "tail_close", "got_close"}
  BY <1>1, <1>2, FunctionFacts
<1> QED
  BY <1>1, <1>2, <1>3, FunctionFacts DEF Kind, Target, TailOpen, TailClose

\* The verdict on an instruction is about those behind it.
LEMMA VerdictAhead ==
    ASSUME Base, NEW n \in DOMAIN lib.source, NEW i \in 1..Len(Fun(n)) + 1, NEW s, NEW V, NEW W,
           \A j \in i + 1..Len(Fun(n)) + 1 : V[j] = W[j]
    PROVE  Verdict(n, AllBranches(n), V, i, s) = Verdict(n, AllBranches(n), W, i, s)
<1> DEFINE x == Fun(n)[i]
           L == Len(Fun(n))
<1>1. CASE i = L + 1
  BY <1>1 DEF Verdict
<1>2. CASE i # L + 1
  <2>1. i \in 1..L /\ i + 1 \in i + 1..L + 1 /\ L \in Nat
    BY <1>2, FunFacts
  <2>2. x.k \in {"jcc", "jmp"} => x.to \in i + 1..L + 1
    BY <2>1, FunFacts
  <2>3. V[i + 1] = W[i + 1] /\ (x.k \in {"jcc", "jmp"} => V[x.to] = W[x.to])
    BY <2>1, <2>2
  <2>4. AllBranches(n)[i] = BOOLEAN
    BY <2>1, FunFacts DEF AllBranches
  <2>5. x.k = "jcc" => UNION {V[IF t THEN x.to ELSE i + 1][s] : t \in BOOLEAN} = UNION {W[IF t THEN x.to ELSE i + 1][s] : t \in BOOLEAN}
    <3>1. SUFFICES ASSUME x.k = "jcc", NEW t \in BOOLEAN
                   PROVE  V[IF t THEN x.to ELSE i + 1][s] = W[IF t THEN x.to ELSE i + 1][s]
      OBVIOUS
    <3>2. CASE t
      BY <2>3, <3>1, <3>2
    <3>3. CASE ~t
      BY <2>3, <3>1, <3>3
    <3> QED
      BY <3>2, <3>3
  <2> QED
    BY <2>3, <2>4, <2>5 DEF Verdict
<1> QED
  BY <1>1, <1>2

\* The verdicts on a function exist, from its end on.
Judged(n, V, m) ==
    V = [i \in m..Len(Fun(n)) + 1 |-> [s \in 0..1 |-> Verdict(n, AllBranches(n), V, i, s)]]

LEMMA VerdictsExist ==
    ASSUME Base, NEW n \in DOMAIN lib.source
    PROVE  \E V : Judged(n, V, 1)
<1> DEFINE L == Len(Fun(n))
           R(V, i) == [s \in 0..1 |-> Verdict(n, AllBranches(n), V, i, s)]
           M == {m \in Nat : m \in 1..L + 1 /\ \E V : Judged(n, V, m)}
<1>1. L \in Nat \ {0}
  BY FunFacts
<1>2. L + 1 \in M
  <2>1. PICK V : V = [i \in L + 1..L + 1 |-> [s \in 0..1 |-> {"lost"}]]
    OBVIOUS
  <2>2. \A s : Verdict(n, AllBranches(n), V, L + 1, s) = {"lost"}
    BY DEF Verdict
  <2>3. Judged(n, V, L + 1)
    BY <1>1, <2>1, <2>2 DEF Judged
  <2> QED
    BY <1>1, <2>3
<1>3. PICK m \in M : \A o \in M : m <= o
  <2>1. M \in SUBSET Nat
    OBVIOUS
  <2> HIDE DEF M
  <2> QED
    BY <1>2, <2>1, LeastOf
<1>4. PICK V : Judged(n, V, m)
  BY <1>3
<1>5. CASE m = 1
  BY <1>4, <1>5
<1>6. CASE m # 1
  <2>1. m \in 2..L + 1 /\ m - 1 \in 1..L /\ m - 1 \in Nat
    BY <1>1, <1>3, <1>6
  <2>2. PICK W : W = [i \in m - 1..L + 1 |-> IF i = m - 1 THEN R(V, m - 1) ELSE V[i]]
    OBVIOUS
  <2>3. \A i \in m..L + 1 : W[i] = V[i] /\ V[i] = R(V, i) /\ i \in m - 1..L + 1
    <3>1. TAKE i \in m..L + 1
    <3>2. i \in m - 1..L + 1 /\ i # m - 1
      BY <1>1, <2>1
    <3>3. W[i] = V[i]
      BY <2>2, <3>2
    <3>4. V[i] = R(V, i)
      BY <1>4 DEF Judged
    <3> QED
      BY <3>2, <3>3, <3>4
  <2>4. ASSUME NEW i \in m - 1..L + 1 PROVE R(W, i) = R(V, i)
    <3>1. i \in 1..L + 1 /\ \A j \in i + 1..L + 1 : j \in m..L + 1
      BY <1>1, <2>1
    <3>2. \A j \in i + 1..L + 1 : W[j] = V[j]
      BY <2>3, <3>1
    <3>3. \A s : Verdict(n, AllBranches(n), W, i, s) = Verdict(n, AllBranches(n), V, i, s)
      BY <3>1, <3>2, VerdictAhead
    <3> QED
      BY <3>3
  <2>5. \A i \in m - 1..L + 1 : W[i] = R(W, i)
    <3>1. TAKE i \in m - 1..L + 1
    <3>2. R(W, i) = R(V, i)
      BY <2>4
    <3>3. CASE i = m - 1
      BY <2>2, <3>2, <3>3
    <3>4. CASE i # m - 1
      <4>1. i \in m..L + 1
        BY <1>1, <2>1, <3>4
      <4> QED
        BY <2>3, <3>2, <4>1
    <3> QED
      BY <3>3, <3>4
  <2> HIDE DEF R
  <2>6. W = [i \in m - 1..L + 1 |-> R(W, i)]
    BY <2>2, <2>5
  <2>7. Judged(n, W, m - 1)
    BY <2>6 DEF Judged, R
  <2>8. m - 1 \in M
    BY <2>1, <2>7
  <2> QED
    BY <1>3, <2>1, <2>8
<1> QED
  BY <1>5, <1>6

LEMMA VerdictsOf ==
    ASSUME Base, NEW n \in DOMAIN lib.source, NEW i \in 1..Len(Fun(n)), NEW s \in 0..1
    PROVE  Verdicts(n, AllBranches(n))[i][s] = Verdict(n, AllBranches(n), Verdicts(n, AllBranches(n)), i, s)
<1>1. Judged(n, Verdicts(n, AllBranches(n)), 1)
  BY VerdictsExist DEF Verdicts, Judged
<1>2. i \in 1..Len(Fun(n)) + 1
  BY FunFacts
<1> QED
  BY <1>1, <1>2 DEF Judged

Harmless(n, i, s) == Verdicts(n, AllBranches(n))[i][s] \cap {"misuse", "left_open"} = {}

LEMMA HarmlessBy ==
    ASSUME Base, NEW n \in DOMAIN lib.source, NEW i \in 1..Len(lib.source[n]), NEW s \in 0..1, Followed(lib.source[n])
    PROVE  /\ code[lib.at[n][i]] # lib.code[lib.at[n][i]] => Harmless(n, i, s)
           /\ ~Misused(Kind(lib, n, i), s) /\ Kind(lib, n, i) \in {"ret", "got_close"} => Harmless(n, i, s)
           /\ /\ ~Misused(Kind(lib, n, i), s) /\ Kind(lib, n, i) = "jcc"
              /\ Harmless(n, Target(lib, n, i), s) /\ Harmless(n, i + 1, s)
              => Harmless(n, i, s)
           /\ /\ ~Misused(Kind(lib, n, i), s) /\ ~Leaves(Kind(lib, n, i)) /\ Kind(lib, n, i) # "jcc"
              /\ Harmless(n, i + 1, Next1(Kind(lib, n, i), s))
              => Harmless(n, i, s)
<1> DEFINE V == Verdicts(n, AllBranches(n))
           x == Fun(n)[i]
           k == Kind(lib, n, i)
<1>1. /\ x.k = k /\ x.to = Target(lib, n, i) /\ Len(Fun(n)) \in Nat /\ Len(Fun(n)) = Len(lib.source[n])
      /\ i # Len(Fun(n)) + 1 /\ k \in Kinds /\ i \in DOMAIN Fun(n)
  BY FunFacts
<1>2. V[i][s] = Verdict(n, AllBranches(n), V, i, s)
  BY <1>1, VerdictsOf
<1>3. k \notin {"jmp", "tail_open", "tail_close", "got_open"}
  BY <1>1 DEF Followed, Fun, Kind
<1>4. Misuse(k, s) <=> Misused(k, s)
  BY <1>3 DEF Misuse, Misused, TailOpen, TailClose
<1>5. AllBranches(n)[i] = BOOLEAN
  BY <1>1 DEF AllBranches
<1> HIDE DEF V, k
<1>6. ASSUME i \in Replaced(n) PROVE Harmless(n, i, s)
  BY <1>1, <1>2, <1>6 DEF Harmless, Verdict, V
<1>7. ASSUME ~Misused(k, s), k \in {"ret", "got_close"} PROVE Harmless(n, i, s)
  <2>1. V[i][s] = IF i \in Replaced(n) THEN {"spoiled"} ELSE {"good"}
    BY <1>1, <1>2, <1>4, <1>7 DEF Verdict, TailClose, TailOpen
  <2> QED
    BY <2>1 DEF Harmless, V
<1>8. ASSUME ~Misused(k, s), k = "jcc", Harmless(n, Target(lib, n, i), s), Harmless(n, i + 1, s) PROVE Harmless(n, i, s)
  <2>1. V[i][s] = IF i \in Replaced(n) THEN {"spoiled"} ELSE UNION {V[IF t THEN x.to ELSE i + 1][s] : t \in BOOLEAN}
    BY <1>1, <1>2, <1>4, <1>5, <1>8 DEF Verdict, TailClose, TailOpen
  <2>2. \A t \in BOOLEAN : V[IF t THEN x.to ELSE i + 1][s] \cap {"misuse", "left_open"} = {}
    <3>1. V[x.to][s] \cap {"misuse", "left_open"} = {} /\ V[i + 1][s] \cap {"misuse", "left_open"} = {}
      BY <1>1, <1>8 DEF Harmless, V
    <3> QED
      BY <3>1
  <2> QED
    BY <2>1, <2>2 DEF Harmless, V
<1>9. ASSUME ~Misused(k, s), ~Leaves(k), k # "jcc", Harmless(n, i + 1, Next1(k, s)) PROVE Harmless(n, i, s)
  <2>1. V[i][s] = IF i \in Replaced(n) THEN {"spoiled"} ELSE V[i + 1][Next1(k, s)]
    BY <1>1, <1>2, <1>4, <1>9 DEF Verdict, TailClose, TailOpen, Leaves, Next1
  <2> QED
    BY <1>9, <2>1 DEF Harmless, V
<1>10. code[lib.at[n][i]] # lib.code[lib.at[n][i]] => i \in Replaced(n)
  BY <1>1 DEF Replaced
<1> QED
  BY <1>6, <1>7, <1>8, <1>9, <1>10 DEF k

LEMMA WalkedHarmless ==
    ASSUME Base, Walked, stack = <<>>, todo = <<>>, \A n \in DOMAIN lib.source : Followed(lib.source[n])
    PROVE  \A n \in DOMAIN lib.source : Harmless(n, 1, 0)
<1> DEFINE Fine(n, i, s) == n \in DOMAIN lib.source /\ i \in 1..Len(lib.source[n]) /\ Harmless(n, i, s)
           T == {t \in Nat \X Nat \X (0..1) : Fine(t[1], t[2], t[3])}
<1>1. /\ Len(lib.source) \in Nat /\ DOMAIN lib.source = 1..Len(lib.source)
      /\ \A n \in DOMAIN lib.source : 1 \in 1..Len(lib.source[n])
  BY LinkedLib, SourceFacts
<1>2. \A n \in Nat, i \in Nat, s \in 0..1 : <<n, i, s>> \in T <=> Fine(n, i, s)
  OBVIOUS
<1>3. \A n \in DOMAIN lib.source : \A i \in 1..Len(lib.source[n]) : n \in Nat /\ i \in Nat
  BY <1>1
<1>4. \A n, i, s : <<n, i, s>> \in T => Harmless(n, i, s)
  OBVIOUS
<1>5. T \in SUBSET (Nat \X Nat \X (0..1))
  OBVIOUS
<1> HIDE DEF T
<1>6. Closed(lib, code, T)
  <2>1. SUFFICES ASSUME NEW n \in DOMAIN lib.source, NEW i \in 1..Len(lib.source[n]), NEW s \in 0..1,
                        \/ code[lib.at[n][i]] # lib.code[lib.at[n][i]]
                        \/ /\ ~Misused(Kind(lib, n, i), s)
                           /\ \/ Kind(lib, n, i) \in {"ret", "got_close"}
                              \/ Kind(lib, n, i) = "jcc" /\ <<n, Target(lib, n, i), s>> \in T /\ <<n, i + 1, s>> \in T
                              \/ ~Leaves(Kind(lib, n, i)) /\ Kind(lib, n, i) # "jcc" /\ <<n, i + 1, Next1(Kind(lib, n, i), s)>> \in T
                 PROVE  <<n, i, s>> \in T
    BY DEF Closed
  <2>2. Harmless(n, i, s)
    BY <1>4, <2>1, HarmlessBy
  <2> QED
    BY <1>2, <1>3, <2>2
<1>7. \A c \in Calls(stack) : Under(lib, T, c)
  BY CallsOf
<1>8. \A n \in DOMAIN lib.source : n <= Len(lib.source) - Len(todo) => <<n, 1, 0>> \in T
  BY <1>5, <1>6, <1>7 DEF Walked
<1>9. Len(todo) = 0
  BY EmptySeq
<1>10. \A n \in DOMAIN lib.source : n <= Len(lib.source) - Len(todo)
  BY <1>1, <1>9
<1> QED
  BY <1>4, <1>8, <1>10

\* Once enforce has ended well, every execution of its output crashes in place
\* of its first misuse, and none leaves the library open: for all functions
\* that the walk can follow to their ends, however long and however branched.
THEOREM EnforcerEnforces ==
    ASSUME \A l \in Libraries : \A n \in DOMAIN l.source : Followed(l.source[n])
    PROVE  Spec => []Enforced
<1>1. Init => Base /\ Walked
  BY BaseInit, WalkedInit
<1>2. Base /\ Walked /\ [Next]_vars => (Base /\ Walked)'
  BY BaseNext, WalkedNext
<1>3. Base /\ Walked => Enforced
  <2> SUFFICES ASSUME Base, Walked, exit = "0" PROVE \A n \in DOMAIN lib.source : AllVerdicts(n) \cap {"misuse", "left_open"} = {}
    BY DEF Enforced
  <2>1. stack = <<>> /\ todo = <<>> /\ \A n \in DOMAIN lib.source : Followed(lib.source[n])
    BY DEF Base
  <2>2. \A n \in DOMAIN lib.source : Harmless(n, 1, 0)
    BY <2>1, WalkedHarmless
  <2> QED
    BY <2>2 DEF Harmless, AllVerdicts
<1> QED
  BY <1>1, <1>2, <1>3, PTL DEF Spec

\* L gives every instruction the one status it is reached with.
Labelled(l, n, L) ==
    /\ L[1] = 0
    /\ \A i \in 1..Len(l.source[n]) :
          /\ Kind(l, n, i) \in {"jcc", "jmp"} => L[Target(l, n, i)] = L[i]
          /\ ~Leaves(Kind(l, n, i)) => L[i + 1] = Next1(Kind(l, n, i), L[i])

\* The walk meets an instruction with this status, and replaces it for that.
MetAs(l, text, st, n, i, s) ==
    /\ text[l.at[n][i]] # l.code[l.at[n][i]] => Misused(Kind(l, n, i), s)
    /\ \A c \in Calls(st) : c.at = l.at[n][i] => c.status = s

AsLabelled ==
    \A n \in DOMAIN lib.source : \A L \in [1..Len(lib.source[n]) -> 0..1] : Labelled(lib, n, L) =>
       \A i \in 1..Len(lib.source[n]) : MetAs(lib, code, stack, n, i, L[i])

\* What a turn replaces it replaces for its own status.
LEMMA OnlyMisused ==
    ASSUME Base, NEW n \in DOMAIN lib.source, NEW i \in 1..Len(lib.source[n]), NEW s \in 0..1,
           Intact(lib, code, n, i), Turn(n, i, s),
           NEW m \in DOMAIN lib.source, NEW j \in 1..Len(lib.source[m])
    PROVE  code'[lib.at[m][j]] = code[lib.at[m][j]] \/ (m = n /\ j = i /\ Misused(Kind(lib, n, i), s))
<1>1. CASE ~Misused(Kind(lib, n, i), s)
  <2>1. code' = code
    BY <1>1 DEF Turn
  <2> QED
    BY <2>1
<1>2. CASE Misused(Kind(lib, n, i), s) /\ <<m, j>> # <<n, i>>
  <2>1. \A b \in 1..Width(lib, m, j) :
           lib.at[m][j] + b - 1 \in DOMAIN code => code'[lib.at[m][j] + b - 1] = code[lib.at[m][j] + b - 1]
    BY <1>2, CrashOf
  <2>2. lib.at[m][j] \in Nat /\ Width(lib, m, j) \in 1..7
    BY LibFacts
  <2>3. 1 \in 1..Width(lib, m, j) /\ lib.at[m][j] + 1 - 1 = lib.at[m][j]
    BY <2>2
  <2>4. Intact(lib, code, m, j) \/ Crashed(lib, code, m, j)
    BY DEF Base, CodeOK
  <2>5. lib.at[m][j] \in DOMAIN code
    BY <2>3, <2>4 DEF Intact, Crashed
  <2>6. code'[lib.at[m][j] + 1 - 1] = code[lib.at[m][j] + 1 - 1]
    BY <2>1, <2>3, <2>5
  <2> QED
    BY <2>3, <2>6
<1> QED
  BY <1>1, <1>2

\* Where the walk goes on: at the instructions that follow in the function.
Follows(l, n, i, j) ==
    \/ Kind(l, n, i) = "jcc" /\ j = Target(l, n, i)
    \/ ~Leaves(Kind(l, n, i)) /\ j = i + 1

LEMMA OnwardPlaces ==
    ASSUME NEW l, Linked(l), NEW n \in DOMAIN l.source, NEW i \in 1..Len(l.source[n]), NEW s \in 0..1,
           NEW c \in Calls(Onward(l, n, i, s)), NEW m \in DOMAIN l.source, NEW j \in 1..Len(l.source[m]),
           c.at = l.at[m][j]
    PROVE  m = n /\ Follows(l, n, i, j) /\ c.status = Next1(Kind(l, n, i), s)
<1> DEFINE k == Kind(l, n, i)
           a == l.at[n][i]
           t == Target(l, n, i)
           h == Width(l, n, i)
<1>1. /\ Len(l.source[n]) \in Nat \ {0} /\ k \in Kinds
      /\ k = "jcc" => t \in i + 1..Len(l.source[n])
      /\ Leaves(Kind(l, n, Len(l.source[n])))
      /\ l.at[n][i + 1] = a + Width(l, n, i)
  BY FunctionFacts DEF Leaves
<1>2. ~Leaves(k) => i + 1 \in 1..Len(l.source[n])
  BY <1>1
<1>3. CASE Leaves(k)
  <2>1. Onward(l, n, i, s) = <<>>
    BY <1>3 DEF Onward, Leaves
  <2> QED
    BY <2>1, CallsOf
<1>4. CASE ~Leaves(k) /\ k = "jcc"
  <2>1. PICK x, y : x = [at |-> l.at[n][t], status |-> s] /\ y = [at |-> a + 2, status |-> s]
    OBVIOUS
  <2>2. Onward(l, n, i, s) = <<x, y>>
    BY <1>4, <2>1 DEF Onward
  <2>3. Calls(<<x, y>>) = {x, y}
    BY CallsOf
  <2>4. a + 2 = l.at[n][i + 1]
    BY <1>1, <1>4, SizeOf DEF Width
  <2>5. t \in 1..Len(l.source[n]) /\ i + 1 \in 1..Len(l.source[n]) /\ Next1(k, s) = s
    BY <1>1, <1>2, <1>4 DEF Next1
  <2>6. CASE c = x
    <3>1. l.at[n][t] = l.at[m][j] => n = m /\ t = j
      BY <2>5, OnePlace
    <3> QED
      BY <1>4, <2>1, <2>5, <2>6, <3>1 DEF Follows
  <2>7. CASE c = y
    <3>1. l.at[n][i + 1] = l.at[m][j] => n = m /\ i + 1 = j
      BY <2>5, OnePlace
    <3> QED
      BY <1>4, <2>1, <2>4, <2>5, <2>7, <3>1 DEF Follows
  <2> QED
    BY <2>2, <2>3, <2>6, <2>7
<1>5. CASE ~Leaves(k) /\ k # "jcc"
  <2>1. PICK x : x = [at |-> a + h, status |-> Next1(k, s)]
    OBVIOUS
  <2>2. Onward(l, n, i, s) = <<x>>
    BY <1>5, <2>1 DEF Onward
  <2>3. Calls(<<x>>) = {x}
    BY CallsOf
  <2>4. c.at = a + h /\ c.status = Next1(k, s)
    BY <2>1, <2>2, <2>3
  <2>6. c.at = l.at[n][i + 1]
    BY <1>1, <2>4
  <2>7. i + 1 \in 1..Len(l.source[n])
    BY <1>2, <1>5
  <2>8. l.at[n][i + 1] = l.at[m][j] => n = m /\ i + 1 = j
    BY <2>7, OnePlace
  <2> QED
    BY <1>5, <2>4, <2>6, <2>7, <2>8 DEF Follows
<1> QED
  BY <1>3, <1>4, <1>5

LEMMA LabelledInit == Init => AsLabelled
<1> SUFFICES ASSUME Init PROVE AsLabelled
  OBVIOUS
<1>1. code = lib.code /\ stack = <<>>
  BY DEF Init
<1>2. Calls(stack) = {}
  BY <1>1, CallsOf
<1> QED
  BY <1>1, <1>2 DEF AsLabelled, MetAs

LEMMA LabelledNext == Base /\ AsLabelled /\ [Next]_vars => AsLabelled'
<1> SUFFICES ASSUME Base, AsLabelled, [Next]_vars PROVE AsLabelled'
  OBVIOUS
<1>0. Linked(lib)
  BY LinkedLib
<1>1. CASE UNCHANGED vars \/ Stopped \/ Finish
  BY <1>1 DEF AsLabelled, Stopped, Finish, vars
<1>2. CASE NextFunction
  <2>1. todo # <<>> /\ stack = <<>> /\ lib' = lib /\ code' = code
        /\ stack' = <<[at |-> Head(todo), status |-> 0]>>
    BY <1>2 DEF NextFunction
  <2>2. PICK m \in DOMAIN lib.source : Head(todo) = lib.at[m][1]
    BY <2>1, TodoFacts
  <2>3. 1 \in 1..Len(lib.source[m])
    BY <1>0, SourceFacts
  <2>4. PICK x : x = [at |-> Head(todo), status |-> 0]
    OBVIOUS
  <2>5. Calls(<<x>>) = {x}
    BY CallsOf
  <2>6. Calls(stack') = {x} /\ x.at = lib.at[m][1] /\ x.status = 0
    BY <2>1, <2>2, <2>4, <2>5
  <2>7. ASSUME NEW n \in DOMAIN lib.source, NEW L \in [1..Len(lib.source[n]) -> 0..1], Labelled(lib, n, L),
               NEW i \in 1..Len(lib.source[n])
        PROVE  MetAs(lib, code', stack', n, i, L[i])
    <3>1. code[lib.at[n][i]] # lib.code[lib.at[n][i]] => Misused(Kind(lib, n, i), L[i])
      BY <2>7 DEF AsLabelled, MetAs
    <3>2. lib.at[m][1] = lib.at[n][i] => m = n /\ 1 = i
      BY <1>0, <2>3, OnePlace
    <3>3. L[1] = 0
      BY <2>7 DEF Labelled
    <3> QED
      BY <2>1, <2>6, <3>1, <3>2, <3>3 DEF MetAs
  <2> QED
    BY <2>1, <2>7 DEF AsLabelled
<1>3. CASE Next /\ exit = "none" /\ stack # <<>>
  <2>1. CASE stack' = stack /\ code' = code /\ lib' = lib /\ todo' = todo /\ exit' = "1"
    BY <2>1 DEF AsLabelled
  <2>2. ASSUME NEW m \in DOMAIN lib.source, NEW j \in 1..Len(lib.source[m]), NEW s \in 0..1,
               Intact(lib, code, m, j), stack[1] = [at |-> lib.at[m][j], status |-> s], Turn(m, j, s)
        PROVE  AsLabelled'
    <3>1. lib' = lib /\ stack' = Onward(lib, m, j, s) \o Tail(stack)
      BY <2>2 DEF Turn
    <3>2. Calls(stack') = Calls(Onward(lib, m, j, s)) \cup Calls(Tail(stack))
      <4>1. Onward(lib, m, j, s) \in Seq(Frames)
        BY <1>0, OnwardOf
      <4>2. PICK o : o = Onward(lib, m, j, s)
        OBVIOUS
      <4>3. Calls(o \o Tail(stack)) = Calls(o) \cup Calls(Tail(stack))
        BY <1>3, <4>1, <4>2, TurnCalls
      <4> QED
        BY <3>1, <4>2, <4>3
    <3>3. Calls(stack) = {stack[1]} \cup Calls(Tail(stack))
      BY <1>3, StackFacts
    <3>4. stack[1].at = lib.at[m][j] /\ stack[1].status = s
      BY <2>2
    <3>5. ASSUME NEW n \in DOMAIN lib.source, NEW L \in [1..Len(lib.source[n]) -> 0..1], Labelled(lib, n, L),
                 NEW i \in 1..Len(lib.source[n])
          PROVE  MetAs(lib, code', stack', n, i, L[i])
      <4>1. /\ code[lib.at[n][i]] # lib.code[lib.at[n][i]] => Misused(Kind(lib, n, i), L[i])
            /\ \A c \in Calls(stack) : c.at = lib.at[n][i] => c.status = L[i]
        BY <3>5 DEF AsLabelled, MetAs
      <4>2. m = n => L[j] = s
        <5>1. SUFFICES ASSUME m = n PROVE L[j] = s
          OBVIOUS
        <5>2. \A c \in Calls(stack) : c.at = lib.at[n][j] => c.status = L[j]
          BY <3>5, <5>1 DEF AsLabelled, MetAs
        <5> QED
          BY <3>3, <3>4, <5>1, <5>2
      <4>3. code'[lib.at[n][i]] = code[lib.at[n][i]] \/ (n = m /\ i = j /\ Misused(Kind(lib, m, j), s))
        BY <2>2, OnlyMisused
      <4>4. code'[lib.at[n][i]] # lib.code[lib.at[n][i]] => Misused(Kind(lib, n, i), L[i])
        BY <4>1, <4>2, <4>3
      <4>5. ASSUME NEW c \in Calls(Onward(lib, m, j, s)), c.at = lib.at[n][i] PROVE c.status = L[i]
        <5>1. m = n /\ Follows(lib, m, j, i) /\ c.status = Next1(Kind(lib, m, j), s)
          BY <1>0, <4>5, OnwardPlaces
        <5>2. L[i] = Next1(Kind(lib, n, j), L[j])
          BY <3>5, <5>1 DEF Labelled, Follows, Next1
        <5> QED
          BY <4>2, <5>1, <5>2
      <4> QED
        BY <3>2, <3>3, <4>1, <4>4, <4>5 DEF MetAs
    <3> QED
      BY <3>1, <3>5 DEF AsLabelled
  <2> QED
    BY <1>3, <2>1, <2>2, Turns
<1> QED
  BY <1>1, <1>2, <1>3 DEF Next, NextFunction, AccessVar, Call, JmpToAddr, MaybeJmp, Ret, Ignore, GiveUp, Finish, Walks

\* An execution may go from instruction j to instruction i.
Edge(l, n, j, i) ==
    \/ Kind(l, n, j) \in {"jcc", "jmp"} /\ Target(l, n, j) = i
    \/ ~Leaves(Kind(l, n, j)) /\ i = j + 1

LEMMA EdgeFacts ==
    ASSUME NEW l, Linked(l), NEW n \in DOMAIN l.source
    PROVE  \A j \in 1..Len(l.source[n]) :
              /\ \A i : Edge(l, n, j, i) => i \in j + 1..Len(l.source[n])
              /\ \A i : Follows(l, n, j, i) => Edge(l, n, j, i)
              /\ Kind(l, n, j) \in {"jcc", "jmp"} => Edge(l, n, j, Target(l, n, j))
              /\ ~Leaves(Kind(l, n, j)) => Edge(l, n, j, j + 1)
<1> TAKE j \in 1..Len(l.source[n])
<1>1. /\ Len(l.source[n]) \in Nat \ {0} /\ Leaves(Kind(l, n, Len(l.source[n])))
      /\ Kind(l, n, j) \in {"jcc", "jmp"} => Target(l, n, j) \in j + 1..Len(l.source[n])
  BY FunctionFacts DEF Leaves
<1>2. ~Leaves(Kind(l, n, j)) => j # Len(l.source[n]) /\ j + 1 \in j + 1..Len(l.source[n])
  BY <1>1
<1> QED
  BY <1>1, <1>2 DEF Edge, Follows

\* No branches join: an instruction is reached from one other.
LEMMA OneWay ==
    ASSUME NEW l, Linked(l), NEW n \in DOMAIN l.source, TreeShaped(l.source[n]),
           NEW j \in 1..Len(l.source[n])
    PROVE  /\ \A m \in 1..Len(l.source[n]) : \A i : Edge(l, n, j, i) /\ Edge(l, n, m, i) => j = m
           /\ Kind(l, n, j) = "jcc" => Target(l, n, j) # j + 1
<1> DEFINE f == l.source[n]
           N == Len(l.source[n])
           J(i) == {m \in DOMAIN f : f[m].to = i}
<1>1. N \in Nat /\ DOMAIN f = 1..N /\ \A m \in 1..N : f[m].to = Target(l, n, m) /\ f[m].k = Kind(l, n, m)
  BY FunctionFacts DEF Target, Kind
<1>2. ASSUME NEW i \in 2..N, NEW m \in J(i) PROVE ~FallsInto(f, i) /\ \A o \in J(i) : o = m
  <2>1. ~FallsInto(f, i) /\ Cardinality(J(i)) = 1
    BY <1>1, <1>2 DEF TreeShaped
  <2>2. IsFiniteSet(J(i))
    <3>1. IsFiniteSet(1..N)
      BY <1>1, FS_Interval
    <3>2. J(i) \in SUBSET DOMAIN f
      OBVIOUS
    <3>3. DOMAIN f = 1..N
      BY <1>1
    <3> QED
      BY <3>1, <3>2, <3>3, FS_Subset
  <2>3. PICK x : J(i) = {x}
    BY <2>1, <2>2, FS_Singleton
  <2> QED
    BY <1>2, <2>1, <2>3
<1>3. ASSUME NEW m \in 1..N, NEW i, Edge(l, n, m, i) PROVE i \in 2..N
  BY <1>1, <1>3, EdgeFacts
<1>4. ASSUME NEW m \in 1..N, ~Leaves(Kind(l, n, m)) PROVE FallsInto(f, m + 1)
  <2>1. (m + 1) - 1 = m
    OBVIOUS
  <2>2. f[m].k = Kind(l, n, m)
    BY <1>1
  <2>3. Kind(l, n, m) \notin {"ret", "jmp"} \cup TailOpen \cup TailClose
    BY <1>4 DEF Leaves, TailOpen, TailClose
  <2> QED
    BY <2>1, <2>2, <2>3 DEF FallsInto
<1>5. ASSUME NEW m \in 1..N, NEW i, Edge(l, n, j, i), Edge(l, n, m, i) PROVE j = m
  <2>1. i \in 2..N
    BY <1>3, <1>5
  <2>2. ~Leaves(Kind(l, n, j)) /\ i = j + 1 => FallsInto(f, i)
    BY <1>4
  <2>3. ~Leaves(Kind(l, n, m)) /\ i = m + 1 => FallsInto(f, i)
    BY <1>4
  <2>4. (Target(l, n, j) = i => j \in J(i)) /\ (Target(l, n, m) = i => m \in J(i))
    BY <1>1
  <2>5. \A x, y \in J(i) : ~FallsInto(f, i) /\ x = y
    BY <1>2, <2>1
  <2>6. i = j + 1 /\ i = m + 1 => j = m
    BY <2>1
  <2> HIDE DEF J, N, f
  <2> QED
    BY <1>5, <2>2, <2>3, <2>4, <2>5, <2>6 DEF Edge
<1>6. ASSUME Kind(l, n, j) = "jcc" PROVE Target(l, n, j) # j + 1
  <2>1. FallsInto(f, j + 1)
    BY <1>4, <1>6 DEF Leaves
  <2>2. Target(l, n, j) \in 2..N /\ j \in J(Target(l, n, j))
    BY <1>1, <1>3, <1>6, EdgeFacts
  <2>3. ~FallsInto(f, Target(l, n, j))
    BY <1>2, <2>2
  <2> QED
    BY <2>1, <2>3
<1> QED
  BY <1>5, <1>6

LEMMA LabelsExist ==
    ASSUME NEW l, Linked(l), NEW n \in DOMAIN l.source, TreeShaped(l.source[n])
    PROVE  \E L \in [1..Len(l.source[n]) -> 0..1] : Labelled(l, n, L)
<1> DEFINE N == Len(l.source[n])
           UpTo(m, L) == L[1] = 0 /\ \A i, j \in 1..m : Edge(l, n, j, i) => L[i] = Next1(Kind(l, n, j), L[j])
           D == {d \in Nat : d \in 0..N - 1 /\ \E L \in [1..N -> 0..1] : UpTo(N - d, L)}
<1>1. N \in Nat \ {0} /\ \A i, j \in 1..N : Edge(l, n, j, i) => j < i
  BY FunctionFacts, EdgeFacts
<1>2. N - 1 \in D
  <2>1. PICK L : L = [i \in 1..N |-> 0]
    OBVIOUS
  <2>2. L \in [1..N -> 0..1] /\ L[1] = 0 /\ N - (N - 1) = 1
    BY <1>1, <2>1
  <2>3. \A i, j \in 1..1 : ~Edge(l, n, j, i)
    BY <1>1
  <2>4. UpTo(1, L)
    BY <2>2, <2>3
  <2> QED
    BY <1>1, <2>2, <2>4
<1>3. PICK d \in D : \A e \in D : d <= e
  <2>1. D \in SUBSET Nat
    OBVIOUS
  <2> HIDE DEF D
  <2> QED
    BY <1>2, <2>1, LeastOf
<1>4. PICK L \in [1..N -> 0..1] : UpTo(N - d, L)
  BY <1>3
<1>5. PICK m : m = N - d
  OBVIOUS
<1>6. m \in 1..N /\ UpTo(m, L) /\ d \in Nat
  BY <1>1, <1>3, <1>4, <1>5
<1>7. CASE m # N
  <2>1. m + 1 \in 1..N /\ d - 1 \in 0..N - 1 /\ d - 1 \in Nat /\ N - (d - 1) = m + 1 /\ m \in Nat
    BY <1>1, <1>3, <1>5, <1>6, <1>7
  <2>2. PICK v \in 0..1 : \A j \in 1..m : Edge(l, n, j, m + 1) => v = Next1(Kind(l, n, j), L[j])
    <3>1. CASE \E j \in 1..m : Edge(l, n, j, m + 1)
      <4>1. PICK o \in 1..m : Edge(l, n, o, m + 1)
        BY <3>1
      <4>2. o \in 1..N /\ L[o] \in 0..1
        BY <1>1, <1>6, <4>1
      <4>3. Next1(Kind(l, n, o), L[o]) \in 0..1
        BY <4>2 DEF Next1
      <4>4. \A j \in 1..m : Edge(l, n, j, m + 1) => j = o
        <5>1. TAKE j \in 1..m
        <5>2. j \in 1..N
          BY <1>1, <1>6
        <5> QED
          BY <4>1, <4>2, <5>2, OneWay
      <4> QED
        BY <4>3, <4>4
    <3>2. CASE ~\E j \in 1..m : Edge(l, n, j, m + 1)
      BY <3>2
    <3> QED
      BY <3>1, <3>2
  <2>3. PICK M : M = [L EXCEPT ![m + 1] = v]
    OBVIOUS
  <2>4. M \in [1..N -> 0..1] /\ M[m + 1] = v /\ \A i \in 1..N : i # m + 1 => M[i] = L[i]
    BY <2>1, <2>2, <2>3
  <2>5. M[1] = 0
    BY <1>1, <1>6, <2>1, <2>4
  <2>6. ASSUME NEW i \in 1..m + 1, NEW j \in 1..m + 1, Edge(l, n, j, i) PROVE M[i] = Next1(Kind(l, n, j), M[j])
    <3>1. i \in 1..N /\ j \in 1..N
      BY <1>1, <2>1
    <3>2. j < i /\ j \in 1..m /\ j # m + 1
      BY <1>1, <2>1, <2>6, <3>1
    <3>3. M[j] = L[j]
      BY <2>4, <3>1, <3>2
    <3>4. CASE i = m + 1
      BY <2>2, <2>4, <2>6, <3>2, <3>3, <3>4
    <3>5. CASE i # m + 1
      <4>1. i \in 1..m /\ M[i] = L[i]
        BY <2>1, <2>4, <3>1, <3>5
      <4> QED
        BY <1>6, <2>6, <3>2, <3>3, <4>1
    <3> QED
      BY <3>4, <3>5
  <2>7. UpTo(m + 1, M)
    BY <2>5, <2>6
  <2>8. d - 1 \in D
    <3>1. M \in [1..N -> 0..1] /\ UpTo(N - (d - 1), M)
      BY <2>1, <2>4, <2>7
    <3> HIDE DEF UpTo
    <3>2. \E K \in [1..N -> 0..1] : UpTo(N - (d - 1), K)
      BY <3>1
    <3> QED
      BY <2>1, <3>2
  <2>9. ~(d <= d - 1)
    BY <1>6
  <2> QED
    BY <1>3, <2>8, <2>9
<1>8. CASE m = N
  <2>1. \A i \in 1..N : /\ Kind(l, n, i) \in {"jcc", "jmp"} => Target(l, n, i) \in 1..N /\ Edge(l, n, i, Target(l, n, i))
                        /\ ~Leaves(Kind(l, n, i)) => i + 1 \in 1..N /\ Edge(l, n, i, i + 1)
    BY <1>1, EdgeFacts
  <2>2. \A i \in 1..N : Kind(l, n, i) \in {"jcc", "jmp"} => L[Target(l, n, i)] = L[i]
    BY <1>6, <1>8, <2>1 DEF Next1
  <2>3. \A i \in 1..N : ~Leaves(Kind(l, n, i)) => L[i + 1] = Next1(Kind(l, n, i), L[i])
    BY <1>6, <1>8, <2>1
  <2> QED
    BY <1>6, <2>2, <2>3 DEF Labelled
<1> QED
  BY <1>7, <1>8

\* One instruction of a labelled function, its successors being fine.
LEMMA SpoiltBy ==
    ASSUME Base, AsLabelled, NEW n \in DOMAIN lib.source, NEW L \in [1..Len(lib.source[n]) -> 0..1], Labelled(lib, n, L),
           NEW i \in 1..Len(lib.source[n]), "spoiled" \in Verdicts(n, AllBranches(n))[i][L[i]]
    PROVE  \E j \in i + 1..Len(lib.source[n]) : "spoiled" \in Verdicts(n, AllBranches(n))[j][L[j]]
<1> DEFINE V == Verdicts(n, AllBranches(n))
           x == Fun(n)[i]
           k == Kind(lib, n, i)
           N == Len(lib.source[n])
           s == L[i]
<1>1. /\ x.k = k /\ x.to = Target(lib, n, i) /\ Len(Fun(n)) = N /\ N \in Nat
      /\ i # Len(Fun(n)) + 1 /\ i \in DOMAIN Fun(n) /\ s \in 0..1 /\ k \in Kinds
  BY FunFacts
<1>2. V[i][s] = Verdict(n, AllBranches(n), V, i, s)
  BY <1>1, VerdictsOf
<1>3. AllBranches(n)[i] = BOOLEAN
  BY <1>1 DEF AllBranches
<1>4. i \in Replaced(n) => Misuse(k, s)
  BY DEF AsLabelled, MetAs, Replaced, Misused, Misuse, TailOpen, TailClose
<1>5. /\ k \in {"jcc", "jmp"} => Target(lib, n, i) \in i + 1..N /\ L[Target(lib, n, i)] = s
      /\ ~Leaves(k) => i + 1 \in i + 1..N /\ L[i + 1] = Next1(k, s)
  BY LinkedLib, EdgeFacts DEF Labelled
<1> HIDE DEF V, k, s
<1>6. "spoiled" \in V[i][s]
  BY DEF V, s
<1>7. ~Misuse(k, s) /\ i \notin Replaced(n)
  BY <1>1, <1>2, <1>4, <1>6 DEF Verdict
<1>8. k \notin {"ret", "tail_open", "tail_close", "got_open", "got_close"}
  <2>1. SUFFICES ASSUME k \in {"ret", "tail_open", "tail_close", "got_open", "got_close"} PROVE FALSE
    OBVIOUS
  <2>2. V[i][s] = {"good"} \/ V[i][s] = {"left_open"}
    BY <1>1, <1>2, <1>7, <2>1 DEF Verdict, TailOpen, TailClose
  <2> QED
    BY <1>6, <2>2
<1>9. CASE k = "jmp"
  <2>1. V[i][s] = V[x.to][s]
    BY <1>1, <1>2, <1>7, <1>9 DEF Verdict, TailOpen, TailClose
  <2> QED
    BY <1>1, <1>5, <1>6, <1>9, <2>1 DEF V
<1>10. CASE k = "jcc"
  <2>1. V[i][s] = UNION {V[IF t THEN x.to ELSE i + 1][s] : t \in BOOLEAN}
    BY <1>1, <1>2, <1>3, <1>7, <1>10 DEF Verdict, TailOpen, TailClose
  <2>2. "spoiled" \in V[x.to][s] \/ "spoiled" \in V[i + 1][s]
    BY <1>6, <2>1
  <2>3. ~Leaves(k) /\ Next1(k, s) = s
    BY <1>10 DEF Leaves, Next1
  <2> QED
    BY <1>1, <1>5, <1>10, <2>2, <2>3 DEF V
<1>11. CASE k \notin {"jmp", "jcc"}
  <2>1. ~Leaves(k)
    BY <1>8, <1>11 DEF Leaves
  <2>2. V[i][s] = V[i + 1][Next1(k, s)]
    BY <1>1, <1>2, <1>7, <1>8, <1>11 DEF Verdict, TailOpen, TailClose, Next1
  <2> QED
    BY <1>5, <1>6, <2>1, <2>2 DEF V
<1> QED
  BY <1>9, <1>10, <1>11

LEMMA NotSpoiled ==
    ASSUME Base, AsLabelled, NEW n \in DOMAIN lib.source, TreeShaped(lib.source[n])
    PROVE  "spoiled" \notin Verdicts(n, AllBranches(n))[1][0]
<1> DEFINE N == Len(lib.source[n])
           V == Verdicts(n, AllBranches(n))
<1>1. PICK L \in [1..N -> 0..1] : Labelled(lib, n, L)
  BY LinkedLib, LabelsExist
<1> DEFINE D == {d \in Nat : d \in 0..N /\ "spoiled" \in V[N - d][L[N - d]] /\ N - d \in 1..N}
<1>2. N \in Nat \ {0} /\ 1 \in 1..N
  BY LinkedLib, FunctionFacts
<1>3. CASE D = {}
  <2>1. N - (N - 1) = 1 /\ N - 1 \in Nat /\ N - 1 \in 0..N /\ N - (N - 1) \in 1..N
    BY <1>2
  <2>2. "spoiled" \notin V[1][L[1]]
    BY <1>3, <2>1
  <2> QED
    BY <1>1, <2>2 DEF Labelled
<1>4. CASE D # {}
  <2>1. PICK d \in D : \A e \in D : d <= e
    <3>1. D \in SUBSET Nat
      OBVIOUS
    <3> HIDE DEF D
    <3> QED
      BY <1>4, <3>1, LeastOf
  <2>2. PICK i \in 1..N : i = N - d /\ "spoiled" \in V[i][L[i]]
    BY <2>1
  <2>3. PICK j \in i + 1..N : "spoiled" \in V[j][L[j]]
    BY <1>1, <2>2, SpoiltBy
  <2>4. N - j \in Nat /\ N - j \in 0..N /\ N - (N - j) = j /\ j \in 1..N
    BY <1>2, <2>2
  <2>5. N - j \in D
    BY <2>3, <2>4
  <2>6. ~(d <= N - j)
    BY <1>2, <2>1, <2>2
  <2> QED
    BY <2>1, <2>5, <2>6
<1> QED
  BY <1>3, <1>4

Distinct(st) == \A j, k \in 1..Len(st) : j # k => st[j].at # st[k].at

LEMMA TailDistinct ==
    ASSUME NEW S, NEW s \in Seq(S), s # <<>>, Distinct(s)
    PROVE  Distinct(Tail(s)) /\ \A d \in Calls(Tail(s)) : d.at # s[1].at
<1>1. Len(s) \in Nat \ {0} /\ Len(Tail(s)) = Len(s) - 1 /\ \A i \in 1..Len(Tail(s)) : Tail(s)[i] = s[i + 1]
  BY EmptySeq, HeadTailProperties
<1>2. ASSUME NEW j \in 1..Len(Tail(s)), NEW k \in 1..Len(Tail(s)), j # k PROVE Tail(s)[j].at # Tail(s)[k].at
  <2>1. j + 1 \in 1..Len(s) /\ k + 1 \in 1..Len(s) /\ j + 1 # k + 1
    BY <1>1, <1>2
  <2> QED
    BY <1>1, <2>1 DEF Distinct
<1>3. ASSUME NEW d \in Calls(Tail(s)) PROVE d.at # s[1].at
  <2>1. PICK j \in 1..Len(Tail(s)) : d = Tail(s)[j]
    BY <1>3 DEF Calls
  <2>2. j + 1 \in 1..Len(s) /\ 1 \in 1..Len(s) /\ j + 1 # 1
    BY <1>1
  <2> QED
    BY <1>1, <2>1, <2>2 DEF Distinct
<1> QED
  BY <1>2, <1>3 DEF Distinct

LEMMA ConcatDistinct ==
    ASSUME NEW S, NEW s \in Seq(S), NEW t \in Seq(S), Distinct(s), Distinct(t),
           \A c \in Calls(s) : \A d \in Calls(t) : c.at # d.at
    PROVE  Distinct(s \o t)
<1>1. /\ Len(s) \in Nat /\ Len(t) \in Nat /\ Len(s \o t) = Len(s) + Len(t)
      /\ \A i \in 1 .. Len(s) + Len(t) : (s \o t)[i] = IF i <= Len(s) THEN s[i] ELSE t[i - Len(s)]
  BY LenProperties, ConcatProperties
<1>2. PICK u : u = s \o t
  OBVIOUS
<1>3. ASSUME NEW j \in 1..Len(u) PROVE \/ j <= Len(s) /\ j \in 1..Len(s) /\ u[j] = s[j] /\ u[j] \in Calls(s)
                                       \/ /\ ~(j <= Len(s)) /\ j - Len(s) \in 1..Len(t)
                                          /\ u[j] = t[j - Len(s)] /\ u[j] \in Calls(t)
  <2>1. CASE j <= Len(s)
    <3>1. j \in 1..Len(s) /\ u[j] = s[j]
      BY <1>1, <1>2, <2>1
    <3> QED
      BY <2>1, <3>1 DEF Calls
  <2>2. CASE ~(j <= Len(s))
    <3>1. j - Len(s) \in 1..Len(t) /\ u[j] = t[j - Len(s)]
      BY <1>1, <1>2, <2>2
    <3> QED
      BY <2>2, <3>1 DEF Calls
  <2> QED
    BY <2>1, <2>2
<1>4. ASSUME NEW j \in 1..Len(u), NEW k \in 1..Len(u), j # k PROVE u[j].at # u[k].at
  <2>1. CASE j <= Len(s) /\ k <= Len(s)
    <3>1. j \in 1..Len(s) /\ k \in 1..Len(s) /\ u[j] = s[j] /\ u[k] = s[k]
      BY <1>3, <2>1
    <3> QED
      BY <1>4, <3>1 DEF Distinct
  <2>2. CASE ~(j <= Len(s)) /\ ~(k <= Len(s))
    <3>1. j - Len(s) \in 1..Len(t) /\ k - Len(s) \in 1..Len(t) /\ u[j] = t[j - Len(s)] /\ u[k] = t[k - Len(s)]
      BY <1>3, <2>2
    <3>2. j - Len(s) # k - Len(s)
      BY <1>1, <1>2, <1>4
    <3> QED
      BY <3>1, <3>2 DEF Distinct
  <2>3. CASE j <= Len(s) /\ ~(k <= Len(s))
    <3>1. u[j] \in Calls(s) /\ u[k] \in Calls(t)
      BY <1>3, <2>3
    <3> QED
      BY <3>1
  <2>4. CASE ~(j <= Len(s)) /\ k <= Len(s)
    <3>1. u[k] \in Calls(s) /\ u[j] \in Calls(t)
      BY <1>3, <2>4
    <3>2. u[k].at # u[j].at
      BY <3>1
    <3> QED
      BY <3>2
  <2> QED
    BY <2>1, <2>2, <2>3, <2>4
<1> QED
  BY <1>2, <1>4 DEF Distinct

LEMMA OnwardDistinct ==
    ASSUME NEW l, Linked(l), NEW n \in DOMAIN l.source, TreeShaped(l.source[n]), NEW i \in 1..Len(l.source[n]), NEW s
    PROVE  Distinct(Onward(l, n, i, s))
<1> DEFINE k == Kind(l, n, i)
           t == Target(l, n, i)
           o == Onward(l, n, i, s)
<1>1. CASE Leaves(k)
  <2>1. o = <<>>
    BY <1>1 DEF Onward, Leaves
  <2>2. Len(o) = 0
    BY <2>1, EmptySeq
  <2> QED
    BY <2>2 DEF Distinct
<1>2. CASE ~Leaves(k) /\ k # "jcc"
  <2>1. \E x : o = <<x>>
    BY <1>2 DEF Onward
  <2> QED
    BY <2>1 DEF Distinct
<1>3. CASE ~Leaves(k) /\ k = "jcc"
  <2>1. PICK x, y : x = [at |-> l.at[n][t], status |-> s] /\ y = [at |-> l.at[n][i] + 2, status |-> s]
    OBVIOUS
  <2>2. o = <<x, y>>
    BY <1>3, <2>1 DEF Onward
  <2>3. l.at[n][i] + 2 = l.at[n][i + 1]
    BY <1>3, SizeOf, FunctionFacts DEF Width
  <2>4. t # i + 1 /\ t \in 1..Len(l.source[n]) /\ i + 1 \in 1..Len(l.source[n])
    <3>1. t # i + 1
      BY <1>3, OneWay
    <3>2. t \in i + 1..Len(l.source[n]) /\ i + 1 \in i + 1..Len(l.source[n])
      BY <1>3, EdgeFacts
    <3> QED
      BY <3>1, <3>2
  <2>5. l.at[n][t] # l.at[n][i + 1]
    <3>1. l.at[n][t] = l.at[n][i + 1] => n = n /\ t = i + 1
      BY <2>4, OnePlace
    <3> QED
      BY <2>4, <3>1
  <2>6. x.at # y.at
    BY <2>1, <2>3, <2>5
  <2>7. Len(<<x, y>>) = 2 /\ <<x, y>>[1] = x /\ <<x, y>>[2] = y
    OBVIOUS
  <2> QED
    BY <2>2, <2>6, <2>7 DEF Distinct
<1> QED
  BY <1>1, <1>2, <1>3

\* One function, whose branches do not join.
Lone(l) == Len(l.source) = 1 /\ TreeShaped(l.source[1])

\* U holds what is ahead of the walk: whole, and reached from what it stands at.
Ahead(U) ==
    /\ \A i \in U : code[lib.at[1][i]] = lib.code[lib.at[1][i]]
    /\ \A i \in U : \A j \in 1..Len(lib.source[1]) : Follows(lib, 1, i, j) => j \in U
    /\ \A c \in Calls(stack) : \E i \in U : c.at = lib.at[1][i] /\ \A j \in U : ~Follows(lib, 1, j, i)
    /\ Distinct(stack)

GoesThrough ==
    Lone(lib) =>
       /\ exit # "1"
       /\ todo # <<>> => stack = <<>> /\ \A i \in 1..Len(lib.source[1]) : code[lib.at[1][i]] = lib.code[lib.at[1][i]]
       /\ \E U \in SUBSET (1..Len(lib.source[1])) : Ahead(U)

LEMMA GoesInit == Init => GoesThrough
<1> SUFFICES ASSUME Init PROVE GoesThrough
  OBVIOUS
<1>1. code = lib.code /\ stack = <<>> /\ exit = "none"
  BY DEF Init
<1>2. Calls(<<>>) = {} /\ Len(<<>>) = 0
  BY CallsOf, EmptySeq
<1>3. Ahead({})
  BY <1>1, <1>2 DEF Ahead, Distinct
<1> QED
  BY <1>1, <1>3 DEF GoesThrough

LEMMA GoesNextFunction == Base /\ GoesThrough /\ NextFunction => GoesThrough'
<1> SUFFICES ASSUME Base, GoesThrough, NextFunction, Lone(lib)
             PROVE  /\ exit' # "1" /\ todo' = <<>>
                    /\ \E U \in SUBSET (1..Len(lib'.source[1])) : Ahead(U)'
  BY DEF GoesThrough, NextFunction
<1>1. todo # <<>> /\ lib' = lib /\ code' = code /\ todo' = Tail(todo) /\ exit' = exit
      /\ stack' = <<[at |-> Head(todo), status |-> 0]>>
  BY DEF NextFunction
<1>2. Linked(lib) /\ Len(lib.source) = 1 /\ 1 \in DOMAIN lib.source /\ 1 \in 1..Len(lib.source[1])
  BY LinkedLib, SourceFacts DEF Lone
<1>3. todo' = <<>> /\ Head(todo) = lib.at[1][1]
  <2>1. /\ Tail(todo) \in Seq(Nat) /\ Len(Tail(todo)) = Len(todo) - 1 /\ Len(todo) \in 1..1
        /\ Head(todo) = lib.at[1 - Len(todo) + 1][1]
    BY <1>1, <1>2, TodoFacts
  <2>2. Len(todo) = 1
    BY <2>1
  <2>3. Len(Tail(todo)) = 0 /\ Head(todo) = lib.at[1][1]
    BY <2>1, <2>2
  <2> QED
    BY <1>1, <2>1, <2>3, EmptySeq
<1>4. PICK c : c = [at |-> Head(todo), status |-> 0]
  OBVIOUS
<1>5. stack' = <<c>> /\ Calls(stack') = {c} /\ Len(stack') = 1 /\ c.at = lib.at[1][1]
  <2>1. Calls(<<c>>) = {c} /\ Len(<<c>>) = 1
    BY CallsOf
  <2> QED
    BY <1>1, <1>3, <1>4, <2>1
<1>6. PICK U : U = 1..Len(lib.source[1])
  OBVIOUS
<1>7. \A i \in U : code'[lib'.at[1][i]] = lib'.code[lib'.at[1][i]]
  BY <1>1, <1>6 DEF GoesThrough
<1>8. \A i \in U : \A j \in 1..Len(lib'.source[1]) : Follows(lib', 1, i, j) => j \in U
  BY <1>1, <1>6
<1>9. \A j \in U : ~Follows(lib, 1, j, 1)
  <2>1. TAKE j \in U
  <2>2. 1 \notin j + 1..Len(lib.source[1])
    BY <1>6
  <2> QED
    BY <1>2, <1>6, <2>2, EdgeFacts
<1>10. \A x \in Calls(stack') : \E i \in U : x.at = lib'.at[1][i] /\ \A j \in U : ~Follows(lib', 1, j, i)
  BY <1>1, <1>2, <1>5, <1>6, <1>9
<1>11. Distinct(stack')
  BY <1>5 DEF Distinct
<1>12. Ahead(U)'
  BY <1>7, <1>8, <1>10, <1>11 DEF Ahead
<1> QED
  BY <1>1, <1>3, <1>6, <1>12 DEF GoesThrough

LEMMA GoesOn ==
    ASSUME Base, GoesThrough, Next, exit = "none", stack # <<>>
    PROVE  GoesThrough'
<1>1. lib' = lib
  BY DEF Next, NextFunction, AccessVar, Call, JmpToAddr, MaybeJmp, Ret, Ignore, GiveUp, Finish, Stopped, vars
<1>2. SUFFICES ASSUME Lone(lib) PROVE GoesThrough'
  BY <1>1 DEF GoesThrough
<1>3. /\ Linked(lib) /\ DOMAIN lib.source = {1} /\ Len(lib.source[1]) \in Nat
      /\ TreeShaped(lib.source[1])
  <2>1. DOMAIN lib.source = 1..1
    BY <1>2, LinkedLib, SourceFacts DEF Lone
  <2> QED
    BY <1>2, <2>1, LinkedLib, FunctionFacts DEF Lone
<1>4. PICK U \in SUBSET (1..Len(lib.source[1])) : Ahead(U)
  BY <1>2 DEF GoesThrough
<1>5. /\ stack \in Seq(Frames) /\ Tail(stack) \in Seq(Frames) /\ stack[1] \in Frames
      /\ Calls(stack) = {stack[1]} \cup Calls(Tail(stack))
  <2>1. 1 \in 1..Len(stack)
    BY StackFacts, EmptySeq
  <2> QED
    BY <2>1, StackFacts, ElementOfSeq
<1>6. PICK i \in U : stack[1].at = lib.at[1][i] /\ \A j \in U : ~Follows(lib, 1, j, i)
  BY <1>4, <1>5 DEF Ahead
<1>7. i \in 1..Len(lib.source[1]) /\ 1 \in DOMAIN lib.source
  BY <1>3
<1>8. Intact(lib, code, 1, i)
  <2>1. code[lib.at[1][i]] = lib.code[lib.at[1][i]]
    BY <1>4 DEF Ahead
  <2>2. ~Crashed(lib, code, 1, i)
    BY <1>3, <1>7, <2>1, FirstByte DEF Crashed
  <2> QED
    BY <1>7, <2>2 DEF Base, CodeOK
<1>9. PICK s \in 0..1 : s = stack[1].status
  BY <1>5 DEF Frames
<1>10. Turn(1, i, s)
  BY <1>6, <1>7, <1>8, <1>9, TurnOf
<1>11. PICK o : o = Onward(lib, 1, i, s)
  OBVIOUS
<1>12. /\ stack' = o \o Tail(stack) /\ o \in Seq(Frames) /\ Distinct(o)
       /\ Calls(stack') = Calls(o) \cup Calls(Tail(stack))
  <2>1. stack' = o \o Tail(stack) /\ o \in Seq(Frames) /\ Distinct(o)
    BY <1>3, <1>7, <1>10, <1>11, OnwardOf, OnwardDistinct DEF Turn
  <2>2. Calls(o \o Tail(stack)) = Calls(o) \cup Calls(Tail(stack))
    <3>1. o \in Seq(Frames) /\ Tail(stack) \in Seq(Frames)
      BY <1>5, <2>1
    <3> QED
      BY <1>5, <3>1, TurnCalls
  <2> QED
    BY <2>1, <2>2
<1>13. PICK W : W = U \ {i}
  OBVIOUS
<1>14. ASSUME NEW c \in Calls(o)
       PROVE  \E j \in W : c.at = lib.at[1][j] /\ Follows(lib, 1, i, j)
  <2>1. Spot(lib, c.at)
    BY <1>3, <1>7, <1>11, <1>14, OnwardOf
  <2>3. PICK j \in 1..Len(lib.source[1]) : c.at = lib.at[1][j]
    BY <1>3, <2>1 DEF Spot
  <2>4. Follows(lib, 1, i, j)
    BY <1>3, <1>7, <1>11, <1>14, <2>3, OnwardPlaces
  <2>5. j \in U
    BY <1>4, <2>4 DEF Ahead
  <2>6. j # i
    BY <1>6, <2>4
  <2> QED
    BY <1>13, <2>3, <2>4, <2>5, <2>6
<1>15. ASSUME NEW c \in Calls(Tail(stack))
       PROVE  \E j \in W : c.at = lib.at[1][j] /\ \A p \in U : ~Follows(lib, 1, p, j)
  <2>1. PICK j \in U : c.at = lib.at[1][j] /\ \A p \in U : ~Follows(lib, 1, p, j)
    BY <1>4, <1>5, <1>15 DEF Ahead
  <2>2. c.at # stack[1].at
    BY <1>4, <1>5, <1>15, TailDistinct DEF Ahead
  <2> QED
    BY <1>6, <1>13, <2>1, <2>2
<1>16. \A x \in W : code'[lib.at[1][x]] = lib.code[lib.at[1][x]]
  <2>1. TAKE x \in W
  <2>2. x \in U /\ x # i /\ x \in 1..Len(lib.source[1])
    BY <1>13
  <2>3. code'[lib.at[1][x]] = code[lib.at[1][x]] \/ (1 = 1 /\ x = i /\ Misused(Kind(lib, 1, i), s))
    BY <1>7, <1>8, <1>10, <2>2, OnlyMisused
  <2> QED
    BY <1>4, <2>2, <2>3 DEF Ahead
<1>17. \A x \in W : \A j \in 1..Len(lib.source[1]) : Follows(lib, 1, x, j) => j \in W
  BY <1>4, <1>6, <1>13 DEF Ahead
<1>18. \A c \in Calls(stack') : \E j \in W : c.at = lib.at[1][j] /\ \A p \in W : ~Follows(lib, 1, p, j)
  <2>1. ASSUME NEW c \in Calls(o) PROVE \E j \in W : c.at = lib.at[1][j] /\ \A p \in W : ~Follows(lib, 1, p, j)
    <3>1. PICK j \in W : c.at = lib.at[1][j] /\ Follows(lib, 1, i, j)
      BY <1>14, <2>1
    <3>2. \A p \in W : ~Follows(lib, 1, p, j)
      <4>1. TAKE p \in W
      <4>2. p \in 1..Len(lib.source[1]) /\ p # i
        BY <1>13
      <4>3. Edge(lib, 1, i, j)
        BY <1>3, <1>7, <3>1, EdgeFacts
      <4>4. Follows(lib, 1, p, j) => Edge(lib, 1, p, j)
        BY <1>3, <1>7, <4>2, EdgeFacts
      <4>5. Edge(lib, 1, i, j) /\ Edge(lib, 1, p, j) => i = p
        BY <1>3, <1>7, <4>2, OneWay
      <4> QED
        BY <4>2, <4>3, <4>4, <4>5
    <3> QED
      BY <3>1, <3>2
  <2>2. ASSUME NEW c \in Calls(Tail(stack)) PROVE \E j \in W : c.at = lib.at[1][j] /\ \A p \in W : ~Follows(lib, 1, p, j)
    BY <1>13, <1>15, <2>2
  <2> QED
    BY <1>12, <2>1, <2>2
<1>19. Distinct(stack')
  <2>1. Distinct(Tail(stack))
    BY <1>4, <1>5, TailDistinct DEF Ahead
  <2>2. ASSUME NEW c \in Calls(o), NEW d \in Calls(Tail(stack)) PROVE c.at # d.at
    <3>1. PICK j \in W : c.at = lib.at[1][j] /\ Follows(lib, 1, i, j)
      BY <1>14, <2>2
    <3>2. PICK p \in W : d.at = lib.at[1][p] /\ \A q \in U : ~Follows(lib, 1, q, p)
      BY <1>15, <2>2
    <3>3. j # p
      BY <3>1, <3>2
    <3>4. j \in 1..Len(lib.source[1]) /\ p \in 1..Len(lib.source[1])
      BY <1>13
    <3>5. lib.at[1][j] = lib.at[1][p] => 1 = 1 /\ j = p
      BY <1>3, <1>7, <3>4, OnePlace
    <3> QED
      BY <3>1, <3>2, <3>3, <3>5
  <2>3. Distinct(o \o Tail(stack))
    BY <1>5, <1>12, <2>1, <2>2, ConcatDistinct
  <2> QED
    BY <1>12, <2>3
<1>20. Ahead(W)'
  BY <1>1, <1>16, <1>17, <1>18, <1>19 DEF Ahead
<1>21. todo' = todo /\ exit' = "none" /\ todo = <<>>
  BY <1>2, <1>10 DEF Turn, GoesThrough
<1> QED
  BY <1>1, <1>13, <1>20, <1>21 DEF GoesThrough

LEMMA GoesNext == Base /\ GoesThrough /\ [Next]_vars => GoesThrough'
<1> SUFFICES ASSUME Base, GoesThrough, [Next]_vars PROVE GoesThrough'
  OBVIOUS
<1>1. CASE UNCHANGED vars \/ Stopped
  <2>1. lib' = lib /\ code' = code /\ todo' = todo /\ stack' = stack /\ exit' = exit
    BY <1>1 DEF Stopped, vars
  <2> QED
    BY <2>1 DEF GoesThrough, Ahead
<1>2. CASE Finish
  BY <1>2 DEF GoesThrough, Ahead, Finish
<1>3. CASE NextFunction
  BY <1>3, GoesNextFunction
<1>4. CASE Next /\ exit = "none" /\ stack # <<>>
  BY <1>4, GoesOn
<1> QED
  BY <1>1, <1>2, <1>3, <1>4 DEF Next, NextFunction, AccessVar, Call, JmpToAddr, MaybeJmp, Ret, Ignore, GiveUp, Finish, Walks

\* Nothing else crashes: in a function without joins, jumps and tail calls or
\* not, an instruction is replaced only for the one status it is reached with;
\* and the walk over such a function alone never comes to a crash of its own
\* making.
THEOREM EnforcerSpares == Spec => []Spared
<1>1. Init => Base /\ AsLabelled /\ GoesThrough
  BY BaseInit, LabelledInit, GoesInit
<1>2. Base /\ AsLabelled /\ GoesThrough /\ [Next]_vars => (Base /\ AsLabelled /\ GoesThrough)'
  BY BaseNext, LabelledNext, GoesNext
<1>3. Base /\ AsLabelled /\ GoesThrough => Spared
  <2> SUFFICES ASSUME Base, AsLabelled, GoesThrough, NEW n \in DOMAIN lib.source, TreeShaped(Fun(n))
               PROVE  "spoiled" \notin AllVerdicts(n) /\ (Len(lib.source) = 1 => exit # "1")
    BY DEF Spared
  <2>1. "spoiled" \notin AllVerdicts(n)
    BY NotSpoiled DEF AllVerdicts, Fun
  <2>2. ASSUME Len(lib.source) = 1 PROVE exit # "1"
    <3>1. n = 1
      BY <2>2, LinkedLib, SourceFacts DEF Base
    <3>2. DOMAIN lib.source[1] = 1..Len(lib.source[1])
      BY <3>1, LinkedLib, FunctionFacts
    <3>3. Lone(lib)
      BY <2>2, <3>1, <3>2 DEF Lone, Kind, Fun
    <3> QED
      BY <3>3 DEF GoesThrough
  <2> QED
    BY <2>1, <2>2
<1> QED
  BY <1>1, <1>2, <1>3, PTL DEF Spec

-----------------------------------------------------------------------------
(***************************************************************************)
(* The matcher.  Matching is scanning: for every mode the code is          *)
(* restated for given counts (CodeB, CodeC), a word of the language is     *)
(* spelled out place by place (SpellsA, SpellsB, SpellsC), and each is     *)
(* shown to be the other.  Then the loop over the arguments: the flags and *)
(* the strings seen so far, and what was told of the strings judged.       *)
(***************************************************************************)
\* Induction over a sequence, for a set instead of a property.
LEMMA EverySeq ==
    ASSUME NEW T, NEW Q, <<>> \in Q, \A t \in Seq(T) : \A x \in T : t \in Q => Append(t, x) \in Q
    PROVE  Seq(T) \subseteq Q
<1> SUFFICES ASSUME NEW s0 \in Seq(T), s0 \notin Q PROVE FALSE
  OBVIOUS
<1> DEFINE M == {n \in Nat : \E s \in Seq(T) : Len(s) = n /\ s \notin Q}
<1>1. Len(s0) \in M
  BY LenProperties
<1>2. PICK n \in M : \A o \in M : n <= o
  <2>1. M \in SUBSET Nat
    OBVIOUS
  <2> HIDE DEF M
  <2> QED
    BY <1>1, <2>1, LeastOf
<1>3. PICK s \in Seq(T) : Len(s) = n /\ s \notin Q
  BY <1>2
<1>4. n # 0
  BY <1>3, EmptySeq
<1>5. PICK t : t = SubSeq(s, 1, n - 1)
  OBVIOUS
<1>6. t \in Seq(T) /\ Len(t) = n - 1 /\ \A i \in 1..n - 1 : t[i] = s[i]
  BY <1>2, <1>3, <1>4, <1>5, SubSeqProperties
<1>7. s[n] \in T
  BY <1>2, <1>3, <1>4, ElementOfSeq
<1>8. s = Append(t, s[n])
  <2>1. Append(t, s[n]) \in Seq(T) /\ Len(Append(t, s[n])) = n /\ Append(t, s[n])[n] = s[n]
        /\ \A i \in 1..n - 1 : Append(t, s[n])[i] = s[i]
    BY <1>2, <1>4, <1>6, <1>7, AppendProperties
  <2>2. \A i \in 1..n : Append(t, s[n])[i] = s[i]
    BY <1>2, <2>1
  <2> QED
    BY <1>3, <2>1, <2>2, SeqEqual
<1>9. t \in Q
  <2>1. n - 1 \notin M
    BY <1>2
  <2>2. n - 1 \in Nat
    BY <1>2, <1>4
  <2> QED
    BY <1>6, <2>1, <2>2
<1> QED
  BY <1>3, <1>6, <1>7, <1>8, <1>9

\* g says what is kept of every beginning of s.
Keeps(g, s, S) ==
    g = [k \in 0..Len(s) |-> IF k = 0 THEN <<>> ELSE IF s[k] \in S THEN g[k - 1] ELSE Append(g[k - 1], s[k])]

LEMMA KeepsOne ==
    ASSUME NEW T, NEW s \in Seq(T), NEW S, NEW x \in T, NEW g, Keeps(g, s, S), NEW h, Keeps(h, Append(s, x), S)
    PROVE  \A k \in 0..Len(s) : h[k] = g[k]
<1> DEFINE Q == {k \in Nat : k <= Len(s) /\ h[k] # g[k]}
<1> SUFFICES ASSUME NEW k0 \in Q PROVE FALSE
  BY LenProperties
<1>1. PICK k \in Q : \A j \in Q : k <= j
  <2>1. Q \in SUBSET Nat
    OBVIOUS
  <2> HIDE DEF Q
  <2> QED
    BY <2>1, LeastOf
<1>2. Len(s) \in Nat /\ Len(Append(s, x)) = Len(s) + 1 /\ \A i \in 1..Len(s) : Append(s, x)[i] = s[i]
  BY LenProperties, AppendProperties
<1>3. k \in 0..Len(s) /\ k \in 0..Len(Append(s, x))
  BY <1>1, <1>2
<1>4. h[k] = IF k = 0 THEN <<>> ELSE IF Append(s, x)[k] \in S THEN h[k - 1] ELSE Append(h[k - 1], Append(s, x)[k])
  BY <1>3 DEF Keeps
<1>5. g[k] = IF k = 0 THEN <<>> ELSE IF s[k] \in S THEN g[k - 1] ELSE Append(g[k - 1], s[k])
  BY <1>3 DEF Keeps
<1>6. CASE k = 0
  BY <1>1, <1>4, <1>5, <1>6
<1>7. CASE k # 0
  <2>1. k - 1 \in Nat /\ k \in 1..Len(s) /\ ~(k <= k - 1)
    BY <1>3, <1>7
  <2>2. h[k - 1] = g[k - 1]
    BY <1>1, <1>3, <2>1
  <2> QED
    BY <1>1, <1>2, <1>4, <1>5, <2>1, <2>2
<1> QED
  BY <1>6, <1>7

LEMMA KeepsMore ==
    ASSUME NEW T, NEW s \in Seq(T), NEW S, NEW x \in T, NEW g, Keeps(g, s, S)
    PROVE  \E h : Keeps(h, Append(s, x), S)
<1>1. Len(s) \in Nat /\ Len(Append(s, x)) = Len(s) + 1 /\ \A i \in 1..Len(s) : Append(s, x)[i] = s[i]
  BY LenProperties, AppendProperties
<1>2. PICK y : y = Append(s, x)
  OBVIOUS
<1>3. PICK e : e = IF y[Len(s) + 1] \in S THEN g[Len(s)] ELSE Append(g[Len(s)], y[Len(s) + 1])
  OBVIOUS
<1>4. PICK h : h = [k \in 0..Len(s) + 1 |-> IF k = Len(s) + 1 THEN e ELSE g[k]]
  OBVIOUS
<1>5. ASSUME NEW k \in 0..Len(s) + 1
      PROVE  h[k] = IF k = 0 THEN <<>> ELSE IF y[k] \in S THEN h[k - 1] ELSE Append(h[k - 1], y[k])
  <2>1. CASE k = Len(s) + 1
    <3>1. h[k] = e /\ k - 1 \in 0..Len(s) + 1 /\ k - 1 # Len(s) + 1 /\ k - 1 = Len(s) /\ k # 0
      BY <1>1, <1>4, <2>1
    <3>2. h[k - 1] = g[Len(s)]
      BY <1>4, <3>1
    <3> QED
      BY <1>3, <2>1, <3>1, <3>2
  <2>2. CASE k # Len(s) + 1
    <3>1. k \in 0..Len(s) /\ h[k] = g[k]
      BY <1>1, <1>4, <2>2
    <3>2. g[k] = IF k = 0 THEN <<>> ELSE IF s[k] \in S THEN g[k - 1] ELSE Append(g[k - 1], s[k])
      BY <3>1 DEF Keeps
    <3>3. CASE k = 0
      BY <3>1, <3>2, <3>3
    <3>4. CASE k # 0
      <4>1. k \in 1..Len(s) /\ k - 1 \in 0..Len(s) + 1 /\ k - 1 # Len(s) + 1
        BY <1>1, <3>1, <3>4
      <4>2. h[k - 1] = g[k - 1] /\ y[k] = s[k]
        BY <1>1, <1>2, <1>4, <4>1
      <4> QED
        BY <3>1, <3>2, <3>4, <4>2
    <3> QED
      BY <3>3, <3>4
  <2> QED
    BY <2>1, <2>2
<1>6. h = [k \in 0..Len(s) + 1 |-> IF k = 0 THEN <<>> ELSE IF y[k] \in S THEN h[k - 1] ELSE Append(h[k - 1], y[k])]
  <2>1. PICK N : N = 0..Len(s) + 1
    OBVIOUS
  <2>2. h = [k \in N |-> h[k]]
    BY <1>4, <2>1
  <2>3. \A k \in N : h[k] = IF k = 0 THEN <<>> ELSE IF y[k] \in S THEN h[k - 1] ELSE Append(h[k - 1], y[k])
    BY <1>5, <2>1
  <2>4. h = [k \in N |-> IF k = 0 THEN <<>> ELSE IF y[k] \in S THEN h[k - 1] ELSE Append(h[k - 1], y[k])]
    BY ONLY <2>2, <2>3
  <2> QED
    BY <2>1, <2>4, Zenon
<1> QED
  BY <1>1, <1>2, <1>6, Zenon DEF Keeps

LEMMA KeepsExist == ASSUME NEW T, NEW s \in Seq(T), NEW S PROVE \E g : Keeps(g, s, S)
<1> DEFINE Q == {t \in Seq(T) : \E g : Keeps(g, t, S)}
<1>1. <<>> \in Q
  <2>1. PICK g : g = [k \in 0..0 |-> <<>>]
    OBVIOUS
  <2>2. g = [k \in 0..0 |-> IF k = 0 THEN <<>> ELSE IF <<>>[k] \in S THEN g[k - 1] ELSE Append(g[k - 1], <<>>[k])]
    BY <2>1
  <2>3. Len(<<>>) = 0 /\ <<>> \in Seq(T)
    BY EmptySeq
  <2> QED
    BY <2>2, <2>3 DEF Keeps
<1>2. ASSUME NEW t \in Seq(T), NEW x \in T, t \in Q PROVE Append(t, x) \in Q
  BY <1>2, KeepsMore, AppendProperties
<1> HIDE DEF Q
<1>3. Seq(T) \subseteq Q
  BY <1>1, <1>2, EverySeq
<1> QED
  BY <1>3 DEF Q

LEMMA WithoutEmpty == \A S : Without(<<>>, S) = <<>>
<1> SUFFICES ASSUME NEW S PROVE Without(<<>>, S) = <<>>
  OBVIOUS
<1>1. <<>> \in Seq({}) /\ Len(<<>>) = 0
  BY EmptySeq
<1>2. PICK g : g = CHOOSE o : Keeps(o, <<>>, S)
  OBVIOUS
<1>3. Keeps(g, <<>>, S)
  BY <1>1, <1>2, KeepsExist
<1>4. Without(<<>>, S) = g[0]
  BY <1>1, <1>2 DEF Without, Keeps
<1> QED
  BY <1>1, <1>3, <1>4 DEF Keeps

LEMMA WithoutAppend ==
    ASSUME NEW T, NEW s \in Seq(T), NEW S, NEW x \in T
    PROVE  Without(Append(s, x), S) = IF x \in S THEN Without(s, S) ELSE Append(Without(s, S), x)
<1>1. Len(s) \in Nat /\ Append(s, x) \in Seq(T) /\ Len(Append(s, x)) = Len(s) + 1 /\ Append(s, x)[Len(s) + 1] = x
  BY LenProperties, AppendProperties
<1>2. PICK g : g = CHOOSE o : Keeps(o, s, S)
  OBVIOUS
<1>3. PICK h : h = CHOOSE o : Keeps(o, Append(s, x), S)
  OBVIOUS
<1>4. Keeps(g, s, S) /\ Keeps(h, Append(s, x), S)
  BY <1>1, <1>2, <1>3, KeepsExist
<1>5. Without(s, S) = g[Len(s)] /\ Without(Append(s, x), S) = h[Len(Append(s, x))]
  BY <1>2, <1>3 DEF Without, Keeps
<1>6. h[Len(s)] = g[Len(s)]
  <2>1. \A k \in 0..Len(s) : h[k] = g[k]
    BY <1>4, KeepsOne
  <2> QED
    BY <1>1, <2>1
<1>7. PICK y : y = Append(s, x)
  OBVIOUS
<1>8. h[Len(s) + 1] = IF x \in S THEN h[Len(s)] ELSE Append(h[Len(s)], x)
  <2>1. h = [k \in 0..Len(s) + 1 |-> IF k = 0 THEN <<>> ELSE IF y[k] \in S THEN h[k - 1] ELSE Append(h[k - 1], y[k])]
    BY <1>1, <1>4, <1>7 DEF Keeps
  <2>2. PICK m \in 0..Len(s) + 1 : m = Len(s) + 1 /\ m # 0 /\ m - 1 = Len(s)
    BY <1>1
  <2>3. h[m] = IF m = 0 THEN <<>> ELSE IF y[m] \in S THEN h[m - 1] ELSE Append(h[m - 1], y[m])
    BY <2>1
  <2>4. y[m] = x
    BY <1>1, <1>7, <2>2
  <2> QED
    BY <2>2, <2>3, <2>4
<1> QED
  BY <1>1, <1>5, <1>6, <1>8

LEMMA ConcatAppend ==
    ASSUME NEW T, NEW s \in Seq(T), NEW t \in Seq(T), NEW x \in T
    PROVE  s \o Append(t, x) = Append(s \o t, x)
<1>1. <<x>> \in Seq(T) /\ s \o t \in Seq(T)
  BY ConcatProperties
<1>2. Append(t, x) = t \o <<x>> /\ Append(s \o t, x) = (s \o t) \o <<x>>
  BY <1>1, AppendIsConcat
<1> QED
  BY <1>1, <1>2, ConcatAssociative

LEMMA WithoutType ==
    ASSUME NEW T, NEW S
    PROVE  \A s \in Seq(T) : Without(s, S) \in Seq(T \ S)
<1> DEFINE Q == {t \in Seq(T) : Without(t, S) \in Seq(T \ S)}
<1>1. <<>> \in Q
  BY WithoutEmpty, EmptySeq
<1>2. ASSUME NEW t \in Seq(T), NEW x \in T, t \in Q PROVE Append(t, x) \in Q
  <2>1. PICK a \in Seq(T \ S) : a = Without(t, S)
    BY <1>2
  <2>2. Without(Append(t, x), S) = IF x \in S THEN a ELSE Append(a, x)
    BY <2>1, WithoutAppend
  <2>3. x \notin S => Append(a, x) \in Seq(T \ S)
    OBVIOUS
  <2>4. Append(t, x) \in Seq(T)
    BY AppendProperties
  <2> QED
    BY <2>2, <2>3, <2>4
<1> HIDE DEF Q
<1>3. Seq(T) \subseteq Q
  BY <1>1, <1>2, EverySeq
<1> QED
  BY <1>3 DEF Q

LEMMA WithoutConcat ==
    ASSUME NEW T, NEW S, NEW s \in Seq(T)
    PROVE  \A t \in Seq(T) : Without(s \o t, S) = Without(s, S) \o Without(t, S)
<1> DEFINE Q == {t \in Seq(T) : Without(s \o t, S) = Without(s, S) \o Without(t, S)}
<1>0. PICK a \in Seq(T \ S) : a = Without(s, S)
  BY WithoutType
<1>1. <<>> \in Q
  <2>1. s \o <<>> = s /\ a \o <<>> = a /\ <<>> \in Seq(T)
    BY EmptySeq, ConcatEmptySeq
  <2> QED
    BY <1>0, <2>1, WithoutEmpty
<1>2. ASSUME NEW t \in Seq(T), NEW x \in T, t \in Q PROVE Append(t, x) \in Q
  <2>1. PICK b \in Seq(T \ S) : b = Without(t, S)
    BY WithoutType
  <2>2. s \o Append(t, x) = Append(s \o t, x) /\ s \o t \in Seq(T)
    BY ConcatAppend, ConcatProperties
  <2>3. Without(s \o Append(t, x), S) = IF x \in S THEN Without(s \o t, S) ELSE Append(Without(s \o t, S), x)
    <3>1. PICK u \in Seq(T) : u = s \o t
      BY <2>2
    <3>2. Without(Append(u, x), S) = IF x \in S THEN Without(u, S) ELSE Append(Without(u, S), x)
      BY WithoutAppend
    <3> QED
      BY <2>2, <3>1, <3>2
  <2>4. Without(Append(t, x), S) = IF x \in S THEN b ELSE Append(b, x)
    BY <2>1, WithoutAppend
  <2>5. x \notin S => a \o Append(b, x) = Append(a \o b, x)
    BY ConcatAppend
  <2>6. Without(s \o t, S) = a \o b
    BY <1>0, <1>2, <2>1
  <2> QED
    BY <1>0, <2>3, <2>4, <2>5, <2>6, AppendProperties
<1> HIDE DEF Q
<1>3. Seq(T) \subseteq Q
  BY <1>1, <1>2, EverySeq
<1> QED
  BY <1>3 DEF Q

\* What has nothing of S stays, what has nothing else goes.
LEMMA WithoutAll ==
    ASSUME NEW T, NEW S
    PROVE  /\ T \cap S = {} => \A s \in Seq(T) : Without(s, S) = s
           /\ T \subseteq S => \A s \in Seq(T) : Without(s, S) = <<>>
<1>1. ASSUME T \cap S = {} PROVE \A s \in Seq(T) : Without(s, S) = s
  <2> DEFINE Q == {t \in Seq(T) : Without(t, S) = t}
  <2>1. <<>> \in Q
    BY WithoutEmpty, EmptySeq
  <2>2. ASSUME NEW t \in Seq(T), NEW x \in T, t \in Q PROVE Append(t, x) \in Q
    BY <1>1, <2>2, WithoutAppend, AppendProperties
  <2> HIDE DEF Q
  <2>3. Seq(T) \subseteq Q
    BY <2>1, <2>2, EverySeq
  <2> QED
    BY <2>3 DEF Q
<1>2. ASSUME T \subseteq S PROVE \A s \in Seq(T) : Without(s, S) = <<>>
  <2> DEFINE Q == {t \in Seq(T) : Without(t, S) = <<>>}
  <2>1. <<>> \in Q
    BY WithoutEmpty, EmptySeq
  <2>2. ASSUME NEW t \in Seq(T), NEW x \in T, t \in Q PROVE Append(t, x) \in Q
    BY <1>2, <2>2, WithoutAppend, AppendProperties
  <2> HIDE DEF Q
  <2>3. Seq(T) \subseteq Q
    BY <2>1, <2>2, EverySeq
  <2> QED
    BY <2>3 DEF Q
<1> QED
  BY <1>1, <1>2

LEMMA WithoutSame ==
    ASSUME NEW T, NEW S, NEW R, T \cap S = T \cap R
    PROVE  \A s \in Seq(T) : Without(s, S) = Without(s, R)
<1> DEFINE Q == {t \in Seq(T) : Without(t, S) = Without(t, R)}
<1>1. <<>> \in Q
  BY WithoutEmpty, EmptySeq
<1>2. ASSUME NEW t \in Seq(T), NEW x \in T, t \in Q PROVE Append(t, x) \in Q
  <2>1. x \in S <=> x \in R
    OBVIOUS
  <2> QED
    BY <1>2, <2>1, WithoutAppend, AppendProperties
<1> HIDE DEF Q
<1>3. Seq(T) \subseteq Q
  BY <1>1, <1>2, EverySeq
<1> QED
  BY <1>3 DEF Q

LEMMA WithoutBoth ==
    ASSUME NEW T, NEW S, NEW R
    PROVE  \A s \in Seq(T) : Without(Without(s, S), R) = Without(s, S \cup R)
<1> DEFINE Q == {t \in Seq(T) : Without(Without(t, S), R) = Without(t, S \cup R)}
<1>1. <<>> \in Q
  BY WithoutEmpty, EmptySeq
<1>2. ASSUME NEW t \in Seq(T), NEW x \in T, t \in Q PROVE Append(t, x) \in Q
  <2>1. PICK a \in Seq(T) : a = Without(t, S)
    <3>1. Seq(T \ S) \subseteq Seq(T)
      OBVIOUS
    <3> QED
      BY <3>1, WithoutType
  <2>2. Without(Append(a, x), R) = IF x \in R THEN Without(a, R) ELSE Append(Without(a, R), x)
    BY WithoutAppend
  <2>3. Without(Append(t, x), S) = IF x \in S THEN a ELSE Append(a, x)
    BY <2>1, WithoutAppend
  <2>4. Without(Append(t, x), S \cup R) = IF x \in S \cup R THEN Without(t, S \cup R) ELSE Append(Without(t, S \cup R), x)
    BY WithoutAppend
  <2>5. Without(a, R) = Without(t, S \cup R)
    BY <1>2, <2>1
  <2> QED
    BY <2>2, <2>3, <2>4, <2>5, AppendProperties
<1> HIDE DEF Q
<1>3. Seq(T) \subseteq Q
  BY <1>1, <1>2, EverySeq
<1> QED
  BY <1>3 DEF Q

\* The sequence a stands in w behind its first p places.
Stands(w, p, a) == \A k \in 1..Len(a) : w[p + k] = a[k]

LEMMA IsConcat ==
    ASSUME NEW T, NEW w \in Seq(T), NEW u \in Seq(T), NEW v \in Seq(T)
    PROVE  w = u \o v <=> Len(w) = Len(u) + Len(v) /\ Stands(w, 0, u) /\ Stands(w, Len(u), v)
<1>1. /\ u \o v \in Seq(T) /\ Len(u \o v) = Len(u) + Len(v) /\ Len(u) \in Nat /\ Len(v) \in Nat
      /\ \A k \in 1..Len(u) + Len(v) : (u \o v)[k] = IF k <= Len(u) THEN u[k] ELSE v[k - Len(u)]
  BY ConcatProperties, LenProperties
<1>2. PICK m, n \in Nat : m = Len(u) /\ n = Len(v)
  BY <1>1
<1>3. PICK x \in Seq(T) : x = u \o v
  BY <1>1
<1>4. ASSUME w = x PROVE Len(w) = m + n /\ Stands(w, 0, u) /\ Stands(w, m, v)
  <2>1. \A k \in 1..m : w[0 + k] = u[k]
    BY <1>1, <1>2, <1>3, <1>4
  <2>2. \A k \in 1..n : w[m + k] = v[k]
    <3> TAKE k \in 1..n
    <3>1. m + k \in 1..m + n /\ ~(m + k <= m) /\ m + k - m = k
      BY <1>2
    <3> QED
      BY <1>1, <1>2, <1>3, <1>4, <3>1
  <2> QED
    BY <1>1, <1>2, <1>3, <1>4, <2>1, <2>2 DEF Stands
<1>5. ASSUME Len(w) = m + n, Stands(w, 0, u), Stands(w, m, v) PROVE w = x
  <2>1. ASSUME NEW k \in 1..m + n PROVE w[k] = x[k]
    <3>1. CASE k <= m
      <4>1. k \in 1..m /\ 0 + k = k
        BY <1>2, <3>1
      <4> QED
        BY <1>1, <1>2, <1>3, <1>5, <3>1, <4>1 DEF Stands
    <3>2. CASE ~(k <= m)
      <4>1. k - m \in 1..n /\ m + (k - m) = k
        BY <1>2, <3>2
      <4>2. w[m + (k - m)] = v[k - m]
        BY <1>2, <1>5, <4>1 DEF Stands
      <4> QED
        BY <1>1, <1>2, <1>3, <3>2, <4>1, <4>2
    <3> QED
      BY <3>1, <3>2
  <2> QED
    BY <1>1, <1>2, <1>3, <1>5, <2>1, SeqEqual
<1> QED
  BY <1>2, <1>3, <1>4, <1>5

LEMMA StandsConcat ==
    ASSUME NEW T, NEW w, NEW p \in Nat, NEW u \in Seq(T), NEW v \in Seq(T)
    PROVE  Stands(w, p, u \o v) <=> Stands(w, p, u) /\ Stands(w, p + Len(u), v)
<1>1. /\ Len(u \o v) = Len(u) + Len(v) /\ Len(u) \in Nat /\ Len(v) \in Nat
      /\ \A k \in 1..Len(u) + Len(v) : (u \o v)[k] = IF k <= Len(u) THEN u[k] ELSE v[k - Len(u)]
  BY ConcatProperties, LenProperties
<1>2. PICK m, n \in Nat : m = Len(u) /\ n = Len(v)
  BY <1>1
<1>3. PICK x : x = u \o v
  OBVIOUS
<1>4. ASSUME Stands(w, p, x) PROVE Stands(w, p, u) /\ Stands(w, p + m, v)
  <2>1. \A k \in 1..m + n : w[p + k] = x[k]
    BY <1>1, <1>2, <1>3, <1>4 DEF Stands
  <2>2. \A k \in 1..m : k \in 1..m + n /\ x[k] = u[k]
    BY <1>1, <1>2, <1>3
  <2>3. ASSUME NEW k \in 1..n PROVE w[p + m + k] = v[k]
    <3>1. m + k \in 1..m + n /\ ~(m + k <= m) /\ m + k - m = k /\ p + (m + k) = p + m + k
      BY <1>2
    <3>2. x[m + k] = v[k]
      BY <1>1, <1>2, <1>3, <3>1
    <3> QED
      BY <2>1, <3>1, <3>2
  <2> QED
    BY <1>2, <2>1, <2>2, <2>3 DEF Stands
<1>5. ASSUME Stands(w, p, u), Stands(w, p + m, v) PROVE Stands(w, p, x)
  <2>1. ASSUME NEW k \in 1..m + n PROVE w[p + k] = x[k]
    <3>1. CASE k <= m
      BY <1>1, <1>2, <1>3, <1>5, <3>1 DEF Stands
    <3>2. CASE ~(k <= m)
      <4>1. k - m \in 1..n /\ p + m + (k - m) = p + k
        BY <1>2, <3>2
      <4>2. w[p + m + (k - m)] = v[k - m]
        BY <1>2, <1>5, <4>1 DEF Stands
      <4> QED
        BY <1>1, <1>2, <1>3, <3>2, <4>1, <4>2
    <3> QED
      BY <3>1, <3>2
  <2> QED
    BY <1>1, <1>2, <1>3, <2>1 DEF Stands
<1> QED
  BY <1>2, <1>3, <1>4, <1>5

LEMMA ConcatLength ==
    ASSUME NEW T, NEW u \in Seq(T), NEW v \in Seq(T)
    PROVE  u \o v \in Seq(T) /\ Len(u \o v) = Len(u) + Len(v)
BY ConcatProperties

LEMMA RepOf ==
    ASSUME NEW T, NEW c \in T, NEW n \in Nat
    PROVE  /\ Rep(c, n) \in Seq(T) /\ Len(Rep(c, n)) = n
           /\ \A w, p : Stands(w, p, Rep(c, n)) <=> \A k \in 1..n : w[p + k] = c
<1>1. Rep(c, n) \in Seq(T) /\ Len(Rep(c, n)) = n
  BY DEF Rep
<1>2. \A k \in 1..n : Rep(c, n)[k] = c
  BY DEF Rep
<1> QED
  BY <1>1, <1>2 DEF Stands

\* n times c behind the first p places.
Times(w, p, n, c) == \A k \in 1..n : w[p + k] = c

LEMMA RepStands ==
    ASSUME NEW w, NEW c, NEW n \in Nat, NEW p \in Nat
    PROVE  Stands(w, p, Rep(c, n)) <=> Times(w, p, n, c)
<1>1. Len(Rep(c, n)) = n /\ \A k \in 1..n : Rep(c, n)[k] = c
  BY DEF Rep
<1> QED
  BY <1>1 DEF Stands, Times

\* The rest of s without its last n elements.
LEMMA LastOff ==
    ASSUME NEW T, NEW s \in Seq(T), NEW n \in Nat, n <= Len(s)
    PROVE  /\ WithoutLast(s, n) \in Seq(T) /\ Len(WithoutLast(s, n)) = Len(s) - n
           /\ \A k \in 1..Len(s) - n : WithoutLast(s, n)[k] = s[k]
<1>1. Len(s) \in Nat /\ \A k \in 1..Len(s) - n : s[k] \in T
  BY LenProperties, ElementOfSeq
<1>2. PICK m \in Nat : m = Len(s) - n
  BY <1>1
<1> QED
  BY <1>1, <1>2, SubSeqProperties DEF WithoutLast

LEMMA StandsInRest ==
    ASSUME NEW T, NEW s \in Seq(T), NEW n \in Nat, n <= Len(s), NEW p \in Nat, NEW a \in Seq(T),
           p + Len(a) <= Len(s) - n
    PROVE  Stands(WithoutLast(s, n), p, a) <=> Stands(s, p, a)
<1>1. \A k \in 1..Len(s) - n : WithoutLast(s, n)[k] = s[k]
  BY LastOff
<1>2. Len(a) \in Nat /\ Len(s) \in Nat
  BY LenProperties
<1>3. \A k \in 1..Len(a) : p + k \in 1..Len(s) - n
  BY <1>2
<1> QED
  BY <1>1, <1>3 DEF Stands

LEMMA Characters ==
    /\ Digit \subseteq Char /\ Upper \subseteq Char
    /\ {"d", Bar, "u", "=", "x", "v", "j"} \subseteq Char /\ {"d", Bar, "u", "=", "x", "v", "j"} \cap Upper = {}
    /\ "NUL" \notin Char /\ "NUL" \notin Upper /\ "NUL" \notin Digit /\ Digit \cap Upper = {}
    /\ "j" \notin Digit /\ {"A", "E", "G"} \subseteq Upper
    /\ Bar \notin {"d", "u", "=", "x", "v", "j", "NUL"}
<1>1. Bar \in Small
  BY Zenon DEF Small, Bar
<1>2. Bar \notin Upper
  BY Zenon DEF Upper, Bar
<1>3. Bar \notin {"d", "u", "=", "x", "v", "j", "NUL"}
  BY Zenon DEF Bar
<1> QED
  BY <1>1, <1>2, <1>3 DEF Char, Digit, Upper, Small

LEMMA AtOf ==
    ASSUME NEW s \in Seq(Char), NEW k \in Nat
    PROVE  /\ k < Len(s) => At(s, k) = s[k + 1]
           /\ ~(k < Len(s)) => At(s, k) = "NUL"
BY DEF At

\* The end of a match: one to three digits.
LEMMA NumberedOf ==
    ASSUME NEW s \in Seq(Char), NEW k \in Nat, NEW n \in Int, n = Len(s) - k
    PROVE  Numbered(s, k) <=> n \in 1..3 /\ Digits(s, n)
<1>1. Len(s) \in Nat
  BY LenProperties
<1>2. PICK l \in Nat : l = Len(s)
  BY <1>1
<1>3. ASSUME n \in 1..3, NEW i \in k..l - 1 PROVE i + 1 \in l - n + 1..l /\ At(s, i) = s[i + 1]
  <2>1. i \in Nat /\ i < Len(s) /\ i + 1 \in l - n + 1..l
    BY <1>2, <1>3
  <2> QED
    BY <2>1, AtOf
<1>4. ASSUME n \in 1..3, NEW i \in l - n + 1..l PROVE i - 1 \in k..l - 1 /\ At(s, i - 1) = s[i]
  <2>1. i - 1 \in Nat /\ i - 1 < Len(s) /\ i - 1 \in k..l - 1 /\ i - 1 + 1 = i
    BY <1>2, <1>4
  <2>2. At(s, i - 1) = s[i - 1 + 1]
    BY <2>1, AtOf
  <2> QED
    BY <2>1, <2>2
<1>5. l \in k + 1..k + 3 <=> n \in 1..3
  BY <1>2
<1>6. ASSUME n \in 1..3, \A i \in k..l - 1 : At(s, i) \in Digit PROVE Digits(s, n)
  <2>1. \A i \in l - n + 1..l : s[i] \in Digit
    BY <1>4, <1>6
  <2> QED
    BY <1>2, <1>6, <2>1 DEF Digits
<1>7. ASSUME n \in 1..3, Digits(s, n) PROVE \A i \in k..l - 1 : At(s, i) \in Digit
  <2>1. \A i \in l - n + 1..l : s[i] \in Digit
    BY <1>2, <1>7 DEF Digits
  <2> QED
    BY <1>3, <1>7, <2>1
<1> QED
  BY <1>2, <1>5, <1>6, <1>7 DEF Numbered

SpellsA(s, d, u, n) ==
    /\ Len(s) = d + 2 + u + 2 + n
    /\ Times(s, 0, d, "d") /\ Times(s, d, 2, Bar) /\ Times(s, d + 2, u, "u") /\ Times(s, d + 2 + u, 2, Bar)

LEMMA FormA ==
    ASSUME NEW s \in Seq(Char), NEW d \in Nat, NEW u \in Nat, NEW n \in Nat, n <= Len(s)
    PROVE  WithoutLast(s, n) = Rep("d", d) \o Rep(Bar, 2) \o Rep("u", u) \o Rep(Bar, 2) <=> SpellsA(s, d, u, n)
<1>1. PICK a, b, c, w : a = Rep("d", d) /\ b = Rep(Bar, 2) /\ c = Rep("u", u) /\ w = WithoutLast(s, n)
  OBVIOUS
<1>0. "d" \in Char /\ Bar \in Char /\ "u" \in Char
  BY Characters
<1>2. /\ a \in Seq(Char) /\ b \in Seq(Char) /\ c \in Seq(Char) /\ w \in Seq(Char)
      /\ Len(a) = d /\ Len(b) = 2 /\ Len(c) = u /\ Len(w) = Len(s) - n
  <2>1. a \in Seq(Char) /\ Len(a) = d
    BY <1>0, <1>1, RepOf
  <2>2. b \in Seq(Char) /\ Len(b) = 2
    BY <1>0, <1>1, RepOf
  <2>3. c \in Seq(Char) /\ Len(c) = u
    BY <1>0, <1>1, RepOf
  <2>4. w \in Seq(Char) /\ Len(w) = Len(s) - n
    BY <1>1, LastOff
  <2> QED
    BY <2>1, <2>2, <2>3, <2>4
<1>3. PICK ab, abc : ab = a \o b /\ abc = ab \o c
  OBVIOUS
<1>4. ab \in Seq(Char) /\ abc \in Seq(Char) /\ Len(ab) = d + 2 /\ Len(abc) = d + 2 + u
  <2>1. ab \in Seq(Char) /\ Len(ab) = d + 2
    BY <1>2, <1>3, ConcatLength
  <2>2. abc \in Seq(Char) /\ Len(abc) = d + 2 + u
    BY <1>2, <1>3, <2>1, ConcatLength
  <2> QED
    BY <2>1, <2>2
<1>5. w = abc \o b <=> Len(w) = d + 2 + u + 2 /\ Stands(w, 0, abc) /\ Stands(w, d + 2 + u, b)
  <2>1. w = abc \o b <=> Len(w) = Len(abc) + Len(b) /\ Stands(w, 0, abc) /\ Stands(w, Len(abc), b)
    BY <1>2, <1>4, IsConcat
  <2> QED
    BY <1>2, <1>4, <2>1
<1>6. Stands(w, 0, abc) <=> Stands(w, 0, a) /\ Stands(w, d, b) /\ Stands(w, d + 2, c)
  <2>1. Stands(w, 0, abc) <=> Stands(w, 0, ab) /\ Stands(w, 0 + Len(ab), c)
    BY <1>2, <1>3, <1>4, StandsConcat
  <2>2. Stands(w, 0, ab) <=> Stands(w, 0, a) /\ Stands(w, 0 + Len(a), b)
    BY <1>2, <1>3, StandsConcat
  <2> QED
    BY <1>2, <1>4, <2>1, <2>2
<1>7. Len(s) \in Nat
  BY LenProperties
<1>8. ASSUME Len(s) - n = d + 2 + u + 2
      PROVE  /\ Stands(w, 0, a) <=> Stands(s, 0, a)
             /\ Stands(w, d, b) <=> Stands(s, d, b)
             /\ Stands(w, d + 2, c) <=> Stands(s, d + 2, c)
             /\ Stands(w, d + 2 + u, b) <=> Stands(s, d + 2 + u, b)
  <2>1. 0 + Len(a) <= Len(s) - n /\ d + Len(b) <= Len(s) - n
        /\ d + 2 + Len(c) <= Len(s) - n /\ d + 2 + u + Len(b) <= Len(s) - n
    BY <1>2, <1>7, <1>8
  <2>2. Stands(w, 0, a) <=> Stands(s, 0, a)
    BY <1>1, <1>2, <2>1, StandsInRest
  <2>3. Stands(w, d, b) <=> Stands(s, d, b)
    BY <1>1, <1>2, <2>1, StandsInRest
  <2>4. Stands(w, d + 2, c) <=> Stands(s, d + 2, c)
    <3>1. PICK p \in Nat : p = d + 2
      OBVIOUS
    <3>2. Stands(w, p, c) <=> Stands(s, p, c)
      BY <1>1, <1>2, <2>1, <3>1, StandsInRest
    <3> QED
      BY <3>1, <3>2
  <2>5. Stands(w, d + 2 + u, b) <=> Stands(s, d + 2 + u, b)
    <3>1. PICK p \in Nat : p = d + 2 + u
      OBVIOUS
    <3>2. Stands(w, p, b) <=> Stands(s, p, b)
      BY <1>1, <1>2, <2>1, <3>1, StandsInRest
    <3> QED
      BY <3>1, <3>2
  <2> QED
    BY <2>2, <2>3, <2>4, <2>5
<1>9. /\ Stands(s, 0, a) <=> Times(s, 0, d, "d")
      /\ Stands(s, d, b) <=> Times(s, d, 2, Bar)
      /\ Stands(s, d + 2, c) <=> Times(s, d + 2, u, "u")
      /\ Stands(s, d + 2 + u, b) <=> Times(s, d + 2 + u, 2, Bar)
  <2>1. \A p \in Nat : Stands(s, p, a) <=> Times(s, p, d, "d")
    BY <1>1, RepStands
  <2>2. \A p \in Nat : Stands(s, p, b) <=> Times(s, p, 2, Bar)
    BY <1>1, RepStands
  <2>3. \A p \in Nat : Stands(s, p, c) <=> Times(s, p, u, "u")
    BY <1>1, RepStands
  <2>4. 0 \in Nat /\ d + 2 \in Nat /\ d + 2 + u \in Nat
    OBVIOUS
  <2> QED
    BY <2>1, <2>2, <2>3, <2>4
<1>10. Len(s) - n = d + 2 + u + 2 <=> Len(s) = d + 2 + u + 2 + n
  BY <1>7
<1> QED
  BY <1>1, <1>2, <1>3, <1>5, <1>6, <1>8, <1>9, <1>10 DEF SpellsA

LEMMA RightA == ASSUME NEW s \in Seq(Char) PROVE matchA(s) <=> PatternA(s)
<1>1. Len(s) \in Nat
  BY LenProperties
<1>2. ASSUME NEW d \in 4..5, NEW u \in 2..3, NEW n \in 1..3, Digits(s, n), SpellsA(s, d, u, n) PROVE matchA(s)
  <2>a. /\ Len(s) = d + 2 + u + 2 + n
        /\ \A k \in 1..d : s[0 + k] = "d"
        /\ \A k \in 1..2 : s[d + k] = Bar
        /\ \A k \in 1..u : s[d + 2 + k] = "u"
        /\ \A k \in 1..2 : s[d + 2 + u + k] = Bar
    BY <1>2 DEF SpellsA, Times
  <2>0. d \in Nat /\ u \in Nat /\ n \in Nat /\ Len(s) = d + u + 4 + n
    BY <2>a
  <2>b. Bar # "d" /\ Bar # "u"
    BY Characters
  <2>1. \A i \in 0..d - 1 : At(s, i) = "d"
    <3> TAKE i \in 0..d - 1
    <3>1. i \in Nat /\ i < Len(s) /\ i + 1 \in 1..d /\ 0 + (i + 1) = i + 1
      BY <2>0
    <3> QED
      BY <2>a, <3>1, AtOf
  <2>2. At(s, d) = Bar /\ At(s, d + 1) = Bar
    <3>1. s[d + 1] = Bar /\ s[d + 2] = Bar /\ d < Len(s) /\ d + 1 < Len(s) /\ d + 1 \in Nat /\ d + 1 + 1 = d + 2
      BY <2>a, <2>0
    <3> QED
      BY <2>0, <3>1, AtOf
  <2>3. \A i \in d + 2..d + u + 1 : At(s, i) = "u"
    <3> TAKE i \in d + 2..d + u + 1
    <3>1. i \in Nat /\ i < Len(s) /\ i + 1 - d - 2 \in 1..u /\ d + 2 + (i + 1 - d - 2) = i + 1
      BY <2>0
    <3>2. s[i + 1] = "u"
      BY <2>a, <3>1
    <3> QED
      BY <3>1, <3>2, AtOf
  <2>4. At(s, d + u + 2) = Bar /\ At(s, d + u + 3) = Bar
    <3>1. s[d + 2 + u + 1] = Bar /\ s[d + 2 + u + 2] = Bar
      BY <2>a
    <3>2. /\ d + u + 2 < Len(s) /\ d + u + 3 < Len(s) /\ d + u + 2 \in Nat /\ d + u + 3 \in Nat
          /\ d + u + 2 + 1 = d + 2 + u + 1 /\ d + u + 3 + 1 = d + 2 + u + 2
      BY <2>0
    <3> QED
      BY <3>1, <3>2, AtOf
  <2>5. Numbered(s, d + u + 4)
    <3>1. d + u + 4 \in Nat /\ n = Len(s) - (d + u + 4)
      BY <2>0
    <3> QED
      BY <1>2, <3>1, NumberedOf
  <2>6. At(s, 4) = "d" <=> d = 5
    <3>1. d = 5 => At(s, 4) = "d"
      BY <2>1
    <3>2. d = 4 => At(s, 4) = Bar
      BY <2>2
    <3> QED
      BY <2>b, <3>1, <3>2, SMT
  <2>7. At(s, d + 4) = "u" <=> u = 3
    <3>1. u = 3 => At(s, d + 4) = "u"
      <4>1. u = 3 => d + 4 \in d + 2..d + u + 1
        BY <2>0
      <4> QED
        BY <2>3, <4>1
    <3>2. u = 2 => At(s, d + 4) = Bar
      <4>1. u = 2 => d + u + 2 = d + 4
        BY <2>0
      <4> QED
        BY <2>4, <4>1
    <3> QED
      BY <2>b, <3>1, <3>2, SMT
  <2>8. Len(s) \in 11..15
    BY <2>0, <1>2
  <2>9. \A i \in 0..3 : At(s, i) = "d"
    BY <2>1
  <2>10. At(s, d + 2) = "u" /\ At(s, d + 3) = "u"
    <3>1. d + 2 \in d + 2..d + u + 1 /\ d + 3 \in d + 2..d + u + 1
      BY <2>0
    <3> QED
      BY <2>3, <3>1
  <2>11. d = (IF At(s, 4) = "d" THEN 5 ELSE 4) /\ u = (IF At(s, d + 4) = "u" THEN 3 ELSE 2)
    BY <1>2, <2>6, <2>7
  <2> QED
    BY <2>2, <2>4, <2>5, <2>8, <2>9, <2>10, <2>11 DEF matchA
<1>3. ASSUME matchA(s)
      PROVE  \E d \in 4..5, u \in 2..3, n \in 1..3 : Digits(s, n) /\ SpellsA(s, d, u, n)
  <2>1. PICK d \in 4..5 : d = IF At(s, 4) = "d" THEN 5 ELSE 4
    OBVIOUS
  <2>2. PICK u \in 2..3 : u = IF At(s, d + 4) = "u" THEN 3 ELSE 2
    OBVIOUS
  <2>3. /\ \A i \in 0..3 : At(s, i) = "d"
        /\ At(s, d) = Bar /\ At(s, d + 1) = Bar
        /\ At(s, d + 2) = "u" /\ At(s, d + 3) = "u"
        /\ At(s, d + u + 2) = Bar /\ At(s, d + u + 3) = Bar
        /\ Numbered(s, d + u + 4)
    BY <1>3, <2>1, <2>2 DEF matchA
  <2>5. d + u + 4 \in Nat
    OBVIOUS
  <2>a. Len(s) - (d + u + 4) \in Int
    BY <1>1, <2>5
  <2>4. PICK n \in Int : n = Len(s) - (d + u + 4)
    BY <2>a
  <2>6. n \in 1..3 /\ Digits(s, n)
    BY <2>3, <2>4, <2>5, NumberedOf
  <2>7. Len(s) = d + 2 + u + 2 + n /\ d \in Nat /\ u \in Nat
    BY <1>1, <2>4, <2>6
  <2>8. \A k \in 1..d : s[0 + k] = "d"
    <3> TAKE k \in 1..d
    <3>1. k - 1 \in Nat /\ k - 1 < Len(s) /\ k - 1 + 1 = 0 + k
      BY <2>6, <2>7
    <3>2. CASE k - 1 \in 0..3
      BY <2>3, <3>1, <3>2, AtOf
    <3>3. CASE ~(k - 1 \in 0..3)
      <4>1. d = 5 /\ k = 5
        BY <3>3
      <4>2. At(s, 4) = "d"
        BY <2>1, <4>1
      <4> QED
        BY <3>1, <4>1, <4>2, AtOf
    <3> QED
      BY <3>2, <3>3
  <2>9. \A k \in 1..2 : s[d + k] = Bar
    <3> TAKE k \in 1..2
    <3>1. d + k - 1 \in Nat /\ d + k - 1 < Len(s) /\ d + k - 1 + 1 = d + k /\ (d + k - 1 = d \/ d + k - 1 = d + 1)
      BY <2>6, <2>7
    <3> QED
      BY <2>3, <3>1, AtOf
  <2>10. \A k \in 1..u : s[d + 2 + k] = "u"
    <3> TAKE k \in 1..u
    <3>1. /\ d + 1 + k \in Nat /\ d + 1 + k < Len(s) /\ d + 1 + k + 1 = d + 2 + k
          /\ d + 1 + k = d + 2 \/ d + 1 + k = d + 3 \/ (d + 1 + k = d + 4 /\ u = 3)
      BY <2>6, <2>7
    <3>2. At(s, d + 1 + k) = "u"
      BY <2>2, <2>3, <3>1
    <3> QED
      BY <3>1, <3>2, AtOf
  <2>11. \A k \in 1..2 : s[d + 2 + u + k] = Bar
    <3> TAKE k \in 1..2
    <3>1. /\ d + 1 + u + k \in Nat /\ d + 1 + u + k < Len(s) /\ d + 1 + u + k + 1 = d + 2 + u + k
          /\ d + 1 + u + k = d + u + 2 \/ d + 1 + u + k = d + u + 3
      BY <2>6, <2>7
    <3>2. At(s, d + 1 + u + k) = Bar
      BY <2>3, <3>1
    <3> QED
      BY <3>1, <3>2, AtOf
  <2>12. SpellsA(s, d, u, n)
    BY <2>7, <2>8, <2>9, <2>10, <2>11 DEF SpellsA, Times
  <2> QED
    BY <2>6, <2>12
<1>4. PatternA(s) <=> \E d \in 4..5, u \in 2..3, n \in 1..3 : Digits(s, n) /\ SpellsA(s, d, u, n)
  <2>1. ASSUME NEW d \in 4..5, NEW u \in 2..3, NEW n \in 1..3, Digits(s, n)
        PROVE  WithoutLast(s, n) = Rep("d", d) \o Rep(Bar, 2) \o Rep("u", u) \o Rep(Bar, 2) <=> SpellsA(s, d, u, n)
    <3>1. d \in Nat /\ u \in Nat /\ n \in Nat /\ n <= Len(s)
      BY <1>1, <2>1 DEF Digits
    <3> QED
      BY <3>1, FormA
  <2> QED
    BY <2>1 DEF PatternA
<1> QED
  BY <1>2, <1>3, <1>4

\* Six pieces with the places where they end.
Pieces(a, b, c, d, e, f, p1, p2, p3, p4, p5, p6) ==
    /\ {a, b, c, d, e, f} \subseteq Seq(Char) /\ {p1, p2, p3, p4, p5, p6} \subseteq Nat
    /\ p1 = Len(a) /\ p2 = p1 + Len(b) /\ p3 = p2 + Len(c)
    /\ p4 = p3 + Len(d) /\ p5 = p4 + Len(e) /\ p6 = p5 + Len(f)
InARow(s, n, a, b, c, d, e, f, p1, p2, p3, p4, p5, p6) ==
    WithoutLast(s, n) = a \o b \o c \o d \o e \o f <=>
       /\ Len(s) = p6 + n
       /\ Stands(s, 0, a) /\ Stands(s, p1, b) /\ Stands(s, p2, c)
       /\ Stands(s, p3, d) /\ Stands(s, p4, e) /\ Stands(s, p5, f)

LEMMA SixPieces ==
    ASSUME NEW s \in Seq(Char), NEW n \in Nat, n <= Len(s), NEW a, NEW b, NEW c, NEW d, NEW e, NEW f,
           NEW p1, NEW p2, NEW p3, NEW p4, NEW p5, NEW p6, Pieces(a, b, c, d, e, f, p1, p2, p3, p4, p5, p6)
    PROVE  InARow(s, n, a, b, c, d, e, f, p1, p2, p3, p4, p5, p6)
<1> SUFFICES ASSUME a \in Seq(Char), b \in Seq(Char), c \in Seq(Char), d \in Seq(Char), e \in Seq(Char), f \in Seq(Char),
                    p1 \in Nat, p2 \in Nat, p3 \in Nat, p4 \in Nat, p5 \in Nat, p6 \in Nat,
                    p1 = Len(a), p2 = p1 + Len(b), p3 = p2 + Len(c), p4 = p3 + Len(d), p5 = p4 + Len(e), p6 = p5 + Len(f)
             PROVE  InARow(s, n, a, b, c, d, e, f, p1, p2, p3, p4, p5, p6)
  BY DEF Pieces
<1>1. PICK w \in Seq(Char) : w = WithoutLast(s, n)
  BY LastOff
<1>2. Len(w) = Len(s) - n /\ Len(s) \in Nat
  BY <1>1, LastOff, LenProperties
<1>3. PICK ab \in Seq(Char) : ab = a \o b
  BY ConcatLength
<1>4. PICK abc \in Seq(Char) : abc = ab \o c
  BY ConcatLength
<1>5. PICK abcd \in Seq(Char) : abcd = abc \o d
  BY ConcatLength
<1>6. PICK abcde \in Seq(Char) : abcde = abcd \o e
  BY ConcatLength
<1>7. Len(ab) = p2
  BY <1>3, ConcatLength
<1>8. Len(abc) = p3
  <2>1. Len(ab \o c) = Len(ab) + Len(c)
    BY ConcatLength
  <2> QED
    BY <1>4, <1>7, <2>1
<1>9. Len(abcd) = p4
  BY <1>5, <1>8, ConcatLength
<1>10. Len(abcde) = p5
  BY <1>6, <1>9, ConcatLength
<1>11. w = abcde \o f <=> Len(w) = p6 /\ Stands(w, 0, abcde) /\ Stands(w, p5, f)
  <2>1. w = abcde \o f <=> Len(w) = Len(abcde) + Len(f) /\ Stands(w, 0, abcde) /\ Stands(w, Len(abcde), f)
    BY IsConcat
  <2> QED
    BY <1>10, <2>1
<1>12. Stands(w, 0, abcde) <=> Stands(w, 0, abcd) /\ Stands(w, p4, e)
  <2>1. Stands(w, 0, abcd \o e) <=> Stands(w, 0, abcd) /\ Stands(w, 0 + Len(abcd), e)
    BY StandsConcat
  <2>2. 0 + Len(abcd) = p4
    BY <1>9
  <2> QED
    BY <1>6, <2>1, <2>2
<1>13. Stands(w, 0, abcd) <=> Stands(w, 0, abc) /\ Stands(w, p3, d)
  <2>1. Stands(w, 0, abc \o d) <=> Stands(w, 0, abc) /\ Stands(w, 0 + Len(abc), d)
    BY StandsConcat
  <2>2. 0 + Len(abc) = p3
    BY <1>8
  <2> QED
    BY <1>5, <2>1, <2>2
<1>14. Stands(w, 0, abc) <=> Stands(w, 0, ab) /\ Stands(w, p2, c)
  <2>1. Stands(w, 0, ab \o c) <=> Stands(w, 0, ab) /\ Stands(w, 0 + Len(ab), c)
    BY StandsConcat
  <2>2. 0 + Len(ab) = p2
    BY <1>7
  <2> QED
    BY <1>4, <2>1, <2>2
<1>15. Stands(w, 0, ab) <=> Stands(w, 0, a) /\ Stands(w, p1, b)
  <2>1. Stands(w, 0, a \o b) <=> Stands(w, 0, a) /\ Stands(w, 0 + Len(a), b)
    BY StandsConcat
  <2>2. 0 + Len(a) = p1
    OBVIOUS
  <2> QED
    BY <1>3, <2>1, <2>2
<1>16. ASSUME Len(w) = p6
       PROVE  /\ Stands(w, 0, a) <=> Stands(s, 0, a)
              /\ Stands(w, p1, b) <=> Stands(s, p1, b)
              /\ Stands(w, p2, c) <=> Stands(s, p2, c)
              /\ Stands(w, p3, d) <=> Stands(s, p3, d)
              /\ Stands(w, p4, e) <=> Stands(s, p4, e)
              /\ Stands(w, p5, f) <=> Stands(s, p5, f)
  <2>1. /\ Len(a) \in Nat /\ Len(b) \in Nat /\ Len(c) \in Nat /\ Len(d) \in Nat /\ Len(e) \in Nat /\ Len(f) \in Nat
    BY LenProperties
  <2>2. /\ 0 + Len(a) <= Len(s) - n /\ p1 + Len(b) <= Len(s) - n /\ p2 + Len(c) <= Len(s) - n
        /\ p3 + Len(d) <= Len(s) - n /\ p4 + Len(e) <= Len(s) - n /\ p5 + Len(f) <= Len(s) - n
    <3>1. Len(s) - n = p6
      BY <1>2, <1>16
    <3>2. p5 <= p6
      BY <2>1
    <3>3. p4 <= p5
      BY <2>1
    <3>4. p3 <= p4
      BY <2>1
    <3>5. p2 <= p3
      BY <2>1
    <3>6. p1 <= p2
      BY <2>1
    <3>7. p4 <= p6 /\ p3 <= p6 /\ p2 <= p6 /\ p1 <= p6
      BY ONLY <3>2, <3>3, <3>4, <3>5, <3>6, p1 \in Nat, p2 \in Nat, p3 \in Nat, p4 \in Nat, p5 \in Nat, p6 \in Nat
    <3>8. 0 + Len(a) = p1
      BY <2>1
    <3>9. p1 + Len(b) = p2 /\ p2 + Len(c) = p3
      BY <2>1
    <3>10. p3 + Len(d) = p4 /\ p4 + Len(e) = p5 /\ p5 + Len(f) = p6 /\ p6 <= p6
      BY <2>1
    <3> QED
      BY ONLY <3>1, <3>2, <3>7, <3>8, <3>9, <3>10, Zenon
  <2>3. Stands(w, 0, a) <=> Stands(s, 0, a)
    BY <1>1, <2>2, StandsInRest
  <2>4. Stands(w, p1, b) <=> Stands(s, p1, b)
    BY <1>1, <2>2, StandsInRest
  <2>5. Stands(w, p2, c) <=> Stands(s, p2, c)
    BY <1>1, <2>2, StandsInRest
  <2>6. Stands(w, p3, d) <=> Stands(s, p3, d)
    BY <1>1, <2>2, StandsInRest
  <2>7. Stands(w, p4, e) <=> Stands(s, p4, e)
    BY <1>1, <2>2, StandsInRest
  <2>8. Stands(w, p5, f) <=> Stands(s, p5, f)
    BY <1>1, <2>2, StandsInRest
  <2> QED
    BY <2>3, <2>4, <2>5, <2>6, <2>7, <2>8
<1>17. Len(w) = p6 <=> Len(s) = p6 + n
  BY <1>2
<1>18. a \o b \o c \o d \o e \o f = abcde \o f
  BY <1>3, <1>4, <1>5, <1>6
<1> QED
  BY <1>1, <1>11, <1>12, <1>13, <1>14, <1>15, <1>16, <1>17, <1>18 DEF InARow

\* Up to where the letters of C go from i on.
LEMMA RunIs ==
    ASSUME NEW s \in Seq(Char), NEW i \in Nat, i <= Len(s), NEW C, "NUL" \notin C
    PROVE  \A r : Run(s, i, C) = r <=>
              /\ r \in Nat /\ i + r <= Len(s) /\ At(s, i + r) \notin C
              /\ \A j \in i..i + r - 1 : At(s, j) \in C
<1>1. PICK l \in Nat : l = Len(s)
  BY LenProperties
<1> DEFINE M == {j \in i..l : At(s, j) \notin C}
<1>2. l \in M
  BY <1>1, AtOf
<1>3. \E m \in M : \A j \in M : m <= j
  <2>1. M \in SUBSET Nat /\ M # {}
    BY <1>2
  <2> HIDE DEF M
  <2> QED
    BY <2>1, LeastOf
<1>4. PICK m : m = Min(M)
  OBVIOUS
<1>5. m \in M /\ \A j \in M : m <= j
  <2> HIDE DEF M
  <2> QED
    BY <1>3, <1>4 DEF Min
<1>6. Run(s, i, C) = m - i
  BY <1>1, <1>4 DEF Run
<1>7. \A j \in i..m - 1 : At(s, j) \in C
  <2> TAKE j \in i..m - 1
  <2>1. j \in i..l /\ ~(m <= j)
    BY <1>5
  <2> QED
    BY <1>5, <2>1
<1>8. m \in i..l /\ At(s, m) \notin C
  BY <1>5
<1>9. ASSUME NEW r \in Nat, i + r <= l, At(s, i + r) \notin C, \A j \in i..i + r - 1 : At(s, j) \in C PROVE r = m - i
  <2>1. i + r \in M
    BY <1>9
  <2>2. m <= i + r
    BY <1>5, <2>1
  <2>3. ~(m \in i..i + r - 1)
    BY <1>8, <1>9
  <2> QED
    BY <1>8, <2>2, <2>3
<1>10. m - i \in Nat /\ i + (m - i) = m
  BY <1>8
<1> HIDE DEF M
<1> QED
  BY <1>1, <1>6, <1>7, <1>8, <1>9, <1>10

\* What modes b and c share: d places before it two =, then capital letters,
\* then the letter f, then the bar.
Letters(s, p, a) == \A k \in 1..a : s[p + k] \in Upper
Middle(s, d, f, a, v) ==
    /\ Times(s, d, 2, "=") /\ Letters(s, d + 2, a) /\ Times(s, d + 2 + a, v, f)
    /\ d + 2 + a + v + 1 <= Len(s) /\ s[d + 2 + a + v + 1] = Bar

MiddleCode(s, d, f, a, v) ==
    /\ At(s, d) = "=" /\ At(s, d + 1) = "="
    /\ a = Run(s, d + 2, Upper) /\ v = Run(s, d + 2 + a, {f})
    /\ At(s, d + 2 + a + v) = Bar

LEMMA MiddleOf ==
    ASSUME NEW s \in Seq(Char), NEW d \in Nat, d + 2 <= Len(s), NEW f \in Char \ Upper, f # Bar,
           NEW a \in Nat, NEW v \in Nat, v # 0
    PROVE  Middle(s, d, f, a, v) <=> MiddleCode(s, d, f, a, v)
<1>1. PICK l \in Nat : l = Len(s)
  BY LenProperties
<1>0. Bar # "NUL" /\ "NUL" \notin Upper /\ Bar \notin Upper /\ f # "NUL" /\ "NUL" \notin Char
  BY Characters
<1>2. At(s, d) = s[d + 1] /\ At(s, d + 1) = s[d + 2]
  <2>1. d < l /\ d + 1 < l /\ d + 1 \in Nat /\ d + 1 + 1 = d + 2
    BY <1>1
  <2> QED
    BY <1>1, <2>1, AtOf
<1>3. Times(s, d, 2, "=") <=> At(s, d) = "=" /\ At(s, d + 1) = "="
  <2>1. \A k \in 1..2 : k = 1 \/ k = 2
    OBVIOUS
  <2>2. Times(s, d, 2, "=") <=> s[d + 1] = "=" /\ s[d + 2] = "="
    BY <2>1 DEF Times
  <2> QED
    BY <1>2, <2>2
<1>4. \A r : Run(s, d + 2, Upper) = r <=>
              /\ r \in Nat /\ d + 2 + r <= Len(s) /\ At(s, d + 2 + r) \notin Upper
              /\ \A j \in d + 2..d + 2 + r - 1 : At(s, j) \in Upper
  <2>1. d + 2 \in Nat
    OBVIOUS
  <2> QED
    BY <1>0, <2>1, RunIs
<1>5. d + 2 + a <= Len(s) =>
         \A r : Run(s, d + 2 + a, {f}) = r <=>
              /\ r \in Nat /\ d + 2 + a + r <= Len(s) /\ At(s, d + 2 + a + r) \notin {f}
              /\ \A j \in d + 2 + a..d + 2 + a + r - 1 : At(s, j) \in {f}
  <2>1. d + 2 + a \in Nat /\ "NUL" \notin {f}
    BY <1>0
  <2> QED
    BY <2>1, RunIs
<1>6. ASSUME Middle(s, d, f, a, v)
      PROVE  a = Run(s, d + 2, Upper) /\ v = Run(s, d + 2 + a, {f}) /\ At(s, d + 2 + a + v) = Bar
  <2>1. d + 2 + a + v < l /\ d + 2 + a <= l /\ d + 2 + a + v \in Nat /\ d + 2 + a < l /\ d + 2 + a \in Nat
    BY <1>1, <1>6 DEF Middle
  <2>2. At(s, d + 2 + a + v) = Bar
    BY <1>1, <1>6, <2>1, AtOf DEF Middle
  <2>3. \A j \in d + 2..d + 2 + a - 1 : At(s, j) \in Upper
    <3> TAKE j \in d + 2..d + 2 + a - 1
    <3>1. j \in Nat /\ j < l /\ j - d - 1 \in 1..a /\ d + 2 + (j - d - 1) = j + 1
      BY <2>1
    <3>2. s[j + 1] \in Upper
      BY <1>6, <3>1 DEF Middle, Letters
    <3> QED
      BY <1>1, <3>1, <3>2, AtOf
  <2>4. \A j \in d + 2 + a..d + 2 + a + v - 1 : At(s, j) = f
    <3> TAKE j \in d + 2 + a..d + 2 + a + v - 1
    <3>1. j \in Nat /\ j < l /\ j - d - 1 - a \in 1..v /\ d + 2 + a + (j - d - 1 - a) = j + 1
      BY <2>1
    <3>2. s[j + 1] = f
      BY <1>6, <3>1 DEF Middle, Times
    <3> QED
      BY <1>1, <3>1, <3>2, AtOf
  <2>5. At(s, d + 2 + a) = f
    BY <2>4, <2>1
  <2>6. a = Run(s, d + 2, Upper)
    BY <1>1, <1>4, <2>1, <2>3, <2>5
  <2>7. v = Run(s, d + 2 + a, {f})
    <3>1. At(s, d + 2 + a + v) \notin {f} /\ d + 2 + a + v <= Len(s) /\ d + 2 + a <= Len(s)
      BY <1>1, <2>1, <2>2
    <3>2. \A j \in d + 2 + a..d + 2 + a + v - 1 : At(s, j) \in {f}
      BY <2>4
    <3> QED
      BY <1>5, <3>1, <3>2
  <2> QED
    BY <2>2, <2>6, <2>7
<1>7. ASSUME At(s, d) = "=", At(s, d + 1) = "=", a = Run(s, d + 2, Upper), v = Run(s, d + 2 + a, {f}),
             At(s, d + 2 + a + v) = Bar
      PROVE  Middle(s, d, f, a, v)
  <2>1. d + 2 + a <= l /\ \A j \in d + 2..d + 2 + a - 1 : At(s, j) \in Upper
    BY <1>1, <1>4, <1>7
  <2>2. d + 2 + a + v <= l /\ \A j \in d + 2 + a..d + 2 + a + v - 1 : At(s, j) \in {f}
    BY <1>1, <1>5, <1>7, <2>1
  <2>3. d + 2 + a + v < l /\ s[d + 2 + a + v + 1] = Bar
    <3>1. PICK p \in Nat : p = d + 2 + a + v
      OBVIOUS
    <3> QED
      BY <1>0, <1>1, <1>7, <3>1, AtOf
  <2>4. Letters(s, d + 2, a)
    <3> SUFFICES ASSUME NEW k \in 1..a PROVE s[d + 2 + k] \in Upper
      BY DEF Letters
    <3>1. d + 1 + k \in d + 2..d + 2 + a - 1 /\ d + 1 + k \in Nat /\ d + 1 + k < l /\ d + 1 + k + 1 = d + 2 + k
      BY <2>1
    <3> QED
      BY <1>1, <2>1, <3>1, AtOf
  <2>5. Times(s, d + 2 + a, v, f)
    <3> SUFFICES ASSUME NEW k \in 1..v PROVE s[d + 2 + a + k] = f
      BY DEF Times
    <3>1. /\ d + 1 + a + k \in d + 2 + a..d + 2 + a + v - 1 /\ d + 1 + a + k \in Nat
          /\ d + 1 + a + k < l /\ d + 1 + a + k + 1 = d + 2 + a + k
      BY <2>2
    <3>2. At(s, d + 1 + a + k) = f
      BY <2>2, <3>1
    <3> QED
      BY <1>1, <3>1, <3>2, AtOf
  <2>6. d + 2 + a + v + 1 <= l
    BY <2>3
  <2> QED
    BY <1>1, <1>3, <1>7, <2>3, <2>4, <2>5, <2>6 DEF Middle
<1> QED
  BY <1>3, <1>6, <1>7 DEF Middle, MiddleCode

LEMMA OddHalf ==
    ASSUME NEW a \in Nat, Odd(a)
    PROVE  a # 0 /\ a \div 2 \in Nat /\ (a + 1) \div 2 = a \div 2 + 1 /\ a = 2 * (a \div 2) + 1
BY DEF Odd

\* How the strings of modes b and c are put together, and where the parts
\* stand then.
Written(s, n, c, f, d, a, v, z, X, Z) ==
    WithoutLast(s, n) = Rep(c, d) \o Rep("=", 2) \o X \o Rep(f, v) \o <<Bar>> \o Z <=>
       /\ Len(s) = d + 2 + a + v + 1 + z + n
       /\ Times(s, 0, d, c) /\ Times(s, d, 2, "=") /\ Stands(s, d + 2, X) /\ Times(s, d + 2 + a, v, f)
       /\ s[d + 2 + a + v + 1] = Bar /\ Stands(s, d + 2 + a + v + 1, Z)

LEMMA FormBC ==
    ASSUME NEW s \in Seq(Char), NEW n \in Nat, n <= Len(s), NEW c \in Char, NEW f \in Char,
           NEW d \in Nat, NEW a \in Nat, NEW v \in Nat, NEW z \in Nat,
           NEW X \in Seq(Char), Len(X) = a, NEW Z \in Seq(Char), Len(Z) = z
    PROVE  Written(s, n, c, f, d, a, v, z, X, Z)
<1>1. PICK C, E, F, B : C = Rep(c, d) /\ E = Rep("=", 2) /\ F = Rep(f, v) /\ B = <<Bar>>
  OBVIOUS
<1>2. C \in Seq(Char) /\ Len(C) = d
  BY <1>1, RepOf
<1>3. E \in Seq(Char) /\ Len(E) = 2
  BY <1>1, RepOf, Characters
<1>4. F \in Seq(Char) /\ Len(F) = v
  BY <1>1, RepOf
<1>5. B \in Seq(Char) /\ Len(B) = 1 /\ B[1] = Bar
  BY <1>1, Characters
<1>6. PICK p1, p2, p3, p4, p5, p6 \in Nat :
         p1 = d /\ p2 = d + 2 /\ p3 = d + 2 + a /\ p4 = d + 2 + a + v /\ p5 = d + 2 + a + v + 1 /\ p6 = d + 2 + a + v + 1 + z
  OBVIOUS
<1>7. WithoutLast(s, n) = C \o E \o X \o F \o B \o Z <=>
         /\ Len(s) = p6 + n
         /\ Stands(s, 0, C) /\ Stands(s, p1, E) /\ Stands(s, p2, X)
         /\ Stands(s, p3, F) /\ Stands(s, p4, B) /\ Stands(s, p5, Z)
  <2>1. p1 = Len(C) /\ p2 = p1 + Len(E) /\ p3 = p2 + Len(X) /\ p4 = p3 + Len(F) /\ p5 = p4 + Len(B) /\ p6 = p5 + Len(Z)
    BY <1>2, <1>3, <1>4, <1>5, <1>6
  <2> QED
    <3>1. Pieces(C, E, X, F, B, Z, p1, p2, p3, p4, p5, p6)
      BY <1>2, <1>3, <1>4, <1>5, <2>1 DEF Pieces
    <3>2. InARow(s, n, C, E, X, F, B, Z, p1, p2, p3, p4, p5, p6)
      BY <3>1, SixPieces
    <3> QED
      BY <3>2 DEF InARow
<1>8. Stands(s, 0, C) <=> Times(s, 0, d, c)
  BY <1>1, RepStands
<1>9. Stands(s, p1, E) <=> Times(s, p1, 2, "=")
  BY <1>1, RepStands
<1>10. Stands(s, p3, F) <=> Times(s, p3, v, f)
  BY <1>1, RepStands
<1>11. Stands(s, p4, B) <=> s[p4 + 1] = Bar
  BY <1>5 DEF Stands
<1> QED
  BY <1>1, <1>6, <1>7, <1>8, <1>9, <1>10, <1>11 DEF Written

LEMMA SubSeqOf ==
    ASSUME NEW T, NEW s \in Seq(T), NEW p \in Nat, NEW a \in Nat, p + a <= Len(s), a # 0, NEW y, y = SubSeq(s, p + 1, p + a)
    PROVE  y \in Seq(T) /\ Len(y) = a /\ \A k \in 1..a : y[k] = s[p + k]
<1>1. PICK m, e \in Nat : m = p + 1 /\ e = p + a
  OBVIOUS
<1>2. \A k \in m..e : s[k] \in T
  <2>1. \A k \in m..e : k \in 1..Len(s)
    BY <1>1, LenProperties
  <2> QED
    BY <2>1, ElementOfSeq
<1>3. y = SubSeq(s, m, e)
  BY <1>1
<1>4. y \in Seq(T)
  BY <1>2, <1>3, SubSeqProperties
<1>5. Len(y) = IF m <= e THEN e - m + 1 ELSE 0
  BY <1>2, <1>3, SubSeqProperties
<1>6. \A k \in 1..e - m + 1 : y[k] = s[m + k - 1]
  <2>1. \A k \in 1..e - m + 1 : SubSeq(s, m, e)[k] = s[m + k - 1]
    BY <1>2, SubSeqProperties
  <2> QED
    BY <1>3, <2>1
<1>7. m <= e /\ e - m + 1 = a /\ \A k \in 1..a : m + k - 1 = p + k
  BY <1>1
<1> QED
  BY <1>4, <1>5, <1>6, <1>7

\* An odd run of capital letters behind p places, as a sequence.
LEMMA LettersOf ==
    ASSUME NEW s \in Seq(Char), NEW p \in Nat
    PROVE  \A X : X \in LettersFrom(s, p + 1) <=>
              /\ X \in Seq(Char) /\ Odd(Len(X)) /\ p + Len(X) <= Len(s)
              /\ Stands(s, p, X) /\ Letters(s, p, Len(X))
<1>1. PICK l \in Nat : l = Len(s)
  BY LenProperties
<1>2. ASSUME NEW a \in Nat, Odd(a), p + a <= l, NEW Y, Y = SubSeq(s, p + 1, p + 1 + a - 1)
      PROVE  Y \in Seq(Char) /\ Len(Y) = a /\ \A k \in 1..a : Y[k] = s[p + k]
  <2>1. p + 1 + a - 1 = p + a /\ a # 0
    BY <1>2, OddHalf
  <2>2. Y = SubSeq(s, p + 1, p + a)
    BY <1>2, <2>1
  <2> QED
    BY <1>1, <1>2, <2>1, <2>2, SubSeqOf
<1>3. ASSUME NEW X \in LettersFrom(s, p + 1)
      PROVE  /\ X \in Seq(Char) /\ Odd(Len(X)) /\ p + Len(X) <= Len(s)
             /\ Stands(s, p, X) /\ Letters(s, p, Len(X))
  <2>1. PICK a : /\ a \in 1..l /\ Odd(a) /\ p + 1 + a - 1 <= l
                 /\ X = SubSeq(s, p + 1, p + 1 + a - 1) /\ ToSet(X) \subseteq Upper
    BY <1>1 DEF LettersFrom, OddUpTo
  <2>2. a \in Nat /\ p + a <= l
    BY <2>1
  <2>3. X \in Seq(Char) /\ Len(X) = a /\ \A k \in 1..a : X[k] = s[p + k]
    BY <1>2, <2>1, <2>2
  <2>4. \A k \in 1..a : X[k] \in Upper
    <3>1. DOMAIN X = 1..a
      BY <2>3
    <3> QED
      BY <2>1, <3>1 DEF ToSet
  <2> QED
    BY <1>1, <2>1, <2>2, <2>3, <2>4 DEF Stands, Letters
<1>4. ASSUME NEW X \in Seq(Char), Odd(Len(X)), p + Len(X) <= Len(s), Stands(s, p, X), Letters(s, p, Len(X))
      PROVE  X \in LettersFrom(s, p + 1)
  <2>1. PICK a \in Nat : a = Len(X)
    BY LenProperties
  <2>2. PICK Y : Y = SubSeq(s, p + 1, p + 1 + a - 1)
    OBVIOUS
  <2>3. Y \in Seq(Char) /\ Len(Y) = a /\ \A k \in 1..a : Y[k] = s[p + k]
    BY <1>1, <1>2, <1>4, <2>1, <2>2
  <2>4. \A k \in 1..a : X[k] = s[p + k]
    BY <1>4, <2>1 DEF Stands
  <2>5. X = Y
    BY <2>1, <2>3, <2>4, SeqEqual
  <2>6. ToSet(X) \subseteq Upper
    <3>1. \A k \in 1..a : X[k] \in Upper
      BY <1>4, <2>1, <2>4 DEF Letters
    <3> QED
      BY <2>1, <3>1 DEF ToSet
  <2>7. a \in OddUpTo(s) /\ p + 1 + a - 1 <= Len(s)
    BY <1>1, <1>4, <2>1, OddHalf DEF OddUpTo
  <2> QED
    BY <2>2, <2>5, <2>6, <2>7 DEF LettersFrom
<1> QED
  BY <1>3, <1>4

\* And every such run is one.
LEMMA LettersThere ==
    ASSUME NEW s \in Seq(Char), NEW p \in Nat, NEW a \in Nat, p + a <= Len(s), Odd(a), Letters(s, p, a)
    PROVE  \E X \in LettersFrom(s, p + 1) : X \in Seq(Char) /\ Len(X) = a /\ \A k \in 1..a : X[k] = s[p + k]
<1>1. PICK X : X = [k \in 1..a |-> s[p + k]]
  OBVIOUS
<1>2. \A k \in 1..a : s[p + k] \in Char
  <2>1. \A k \in 1..a : p + k \in 1..Len(s)
    BY LenProperties
  <2> QED
    BY <2>1, ElementOfSeq
<1>3. X \in Seq(Char) /\ Len(X) = a /\ \A k \in 1..a : X[k] = s[p + k]
  BY <1>1, <1>2
<1>4. Stands(s, p, X)
  BY <1>3 DEF Stands
<1>5. X \in LettersFrom(s, p + 1)
  BY <1>3, <1>4, LettersOf
<1> QED
  BY <1>3, <1>5

\* As many as there is room for are all that there is room for.
LEMMA FullInterval ==
    ASSUME NEW p \in Nat, NEW d \in Nat, NEW D \in SUBSET (p..p + d - 1)
    PROVE  /\ Cardinality(D) = d <=> D = p..p + d - 1
           /\ Cardinality(D) \in 0..d
<1>1. PICK b, e \in Int : b = p /\ e = p + d - 1
  OBVIOUS
<1>2. IsFiniteSet(b..e) /\ Cardinality(b..e) = d
  <2>1. IsFiniteSet(b..e) /\ Cardinality(b..e) = IF b > e THEN 0 ELSE e - b + 1
    BY FS_Interval
  <2>2. (IF b > e THEN 0 ELSE e - b + 1) = d
    BY <1>1
  <2> QED
    BY <2>1, <2>2
<1>3. PICK P : P = b..e
  OBVIOUS
<1>4. /\ IsFiniteSet(D) /\ Cardinality(D) <= Cardinality(P)
      /\ Cardinality(P) = Cardinality(D) => P = D
  <2>1. D \in SUBSET P /\ IsFiniteSet(P)
    BY <1>1, <1>2, <1>3
  <2> QED
    BY <2>1, FS_Subset
<1>5. Cardinality(D) \in Nat
  BY <1>4, FS_CardinalityType
<1> QED
  BY <1>1, <1>2, <1>3, <1>4, <1>5

\* What is in the middle is not the letter in front.
LEMMA MiddleHas ==
    ASSUME NEW s \in Seq(Char), NEW d \in Nat, NEW f, NEW a \in Nat, NEW v \in Nat, Middle(s, d, f, a, v),
           NEW c, c \notin Upper, c # "=", c # f, c # Bar
    PROVE  \A k \in d + 1..d + 2 + a + v + 1 : s[k] # c
<1> TAKE k \in d + 1..d + 2 + a + v + 1
<1>1. CASE k \in d + 1..d + 2
  <2>1. k - d \in 1..2 /\ d + (k - d) = k
    BY <1>1
  <2>2. s[k] = "="
    BY <2>1 DEF Middle, Times
  <2> QED
    BY <2>2
<1>2. CASE k \in d + 2 + 1..d + 2 + a
  <2>1. k - d - 2 \in 1..a /\ d + 2 + (k - d - 2) = k
    BY <1>2
  <2>2. s[k] \in Upper
    BY <2>1 DEF Middle, Letters
  <2> QED
    BY <2>2
<1>3. CASE k \in d + 2 + a + 1..d + 2 + a + v
  <2>1. k - d - 2 - a \in 1..v /\ d + 2 + a + (k - d - 2 - a) = k
    BY <1>3
  <2>2. s[k] = f
    BY <2>1 DEF Middle, Times
  <2> QED
    BY <2>2
<1>4. CASE k = d + 2 + a + v + 1
  BY <1>4 DEF Middle
<1>5. k \in d + 1..d + 2 \/ k \in d + 2 + 1..d + 2 + a \/ k \in d + 2 + a + 1..d + 2 + a + v \/ k = d + 2 + a + v + 1
  OBVIOUS
<1> QED
  BY <1>1, <1>2, <1>3, <1>4, <1>5

\* The d among the first three characters are those in front.
LEMMA CountB ==
    ASSUME NEW s \in Seq(Char), NEW d \in Nat, NEW a \in Nat, a # 0, NEW v \in Nat, v # 0, Middle(s, d, "x", a, v)
    PROVE  d = Cardinality({i \in 0..2 : At(s, i) = "d"}) <=> d \in 0..3 /\ Times(s, 0, d, "d")
<1>1. PICK l \in Nat : l = Len(s)
  BY LenProperties
<1> DEFINE D == {i \in 0..2 : At(s, i) = "d"}
<1>2. d + 2 + a + v + 1 <= l
  BY <1>1 DEF Middle
<1>3. \A i \in d..2 : At(s, i) # "d"
  <2> TAKE i \in d..2
  <2>1. i \in Nat /\ i < l /\ i + 1 \in d + 1..d + 2 + a + v + 1
    BY <1>2
  <2>2. s[i + 1] # "d"
    <3>1. "d" \notin Upper /\ "d" # "=" /\ "d" # "x" /\ "d" # Bar
      BY Characters
    <3> QED
      BY <2>1, <3>1, MiddleHas
  <2> QED
    BY <1>1, <2>1, <2>2, AtOf
<1>4. D \in SUBSET (0..0 + d - 1)
  <2> SUFFICES ASSUME NEW i \in D PROVE i \in 0..0 + d - 1
    OBVIOUS
  <2>1. i \in 0..2 /\ ~(i \in d..2)
    BY <1>3
  <2> QED
    BY <2>1
<1>5. Cardinality(D) = d <=> D = 0..0 + d - 1
  <2> HIDE DEF D
  <2> QED
    BY <1>4, FullInterval
<1>6. Cardinality(D) \in 0..3
  <2>1. D \in SUBSET (0..0 + 3 - 1)
    OBVIOUS
  <2> HIDE DEF D
  <2> QED
    BY <2>1, FullInterval
<1>7. ASSUME D = 0..0 + d - 1 PROVE Times(s, 0, d, "d")
  <2> SUFFICES ASSUME NEW k \in 1..d PROVE s[0 + k] = "d"
    BY DEF Times
  <2>1. k - 1 \in 0..0 + d - 1 /\ k - 1 \in Nat /\ k - 1 < l /\ k - 1 + 1 = 0 + k
    BY <1>2
  <2>2. At(s, k - 1) = "d"
    BY <1>7, <2>1
  <2> QED
    BY <1>1, <2>1, <2>2, AtOf
<1>8. ASSUME d \in 0..3, Times(s, 0, d, "d") PROVE D = 0..0 + d - 1
  <2> SUFFICES ASSUME NEW i \in 0..0 + d - 1 PROVE i \in D
    BY <1>4
  <2>1. i \in Nat /\ i \in 0..2 /\ i < l /\ i + 1 \in 1..d /\ 0 + (i + 1) = i + 1
    BY <1>2, <1>8
  <2>2. s[i + 1] = "d"
    BY <1>8, <2>1 DEF Times
  <2> QED
    BY <1>1, <2>1, <2>2, AtOf
<1> HIDE DEF D
<1>9. d = Cardinality(D) <=> d \in 0..3 /\ Times(s, 0, d, "d")
  BY <1>5, <1>6, <1>7, <1>8
<1> QED
  BY <1>9 DEF D

LEMMA RunsThere ==
    ASSUME NEW s \in Seq(Char), NEW d \in Nat, d + 2 <= Len(s), NEW f \in Char
    PROVE  \E a, v \in Nat : a = Run(s, d + 2, Upper) /\ v = Run(s, d + 2 + a, {f})
<1>1. "NUL" \notin Upper /\ "NUL" \notin {f}
  BY Characters
<1>2. PICK a : a = Run(s, d + 2, Upper)
  OBVIOUS
<1>3. a \in Nat /\ d + 2 + a <= Len(s)
  <2>1. d + 2 \in Nat
    OBVIOUS
  <2> QED
    BY <1>1, <1>2, <2>1, RunIs
<1>4. PICK v : v = Run(s, d + 2 + a, {f})
  OBVIOUS
<1>5. v \in Nat
  <2>1. d + 2 + a \in Nat
    BY <1>3
  <2> QED
    BY <1>1, <1>3, <1>4, <2>1, RunIs
<1> QED
  BY <1>2, <1>3, <1>4, <1>5

SpellsB(s, d, a, v, n) ==
    /\ Times(s, 0, d, "d") /\ Middle(s, d, "x", a, v)
    /\ Len(s) = d + 2 + a + v + 1 + (a \div 2 + 1) + n
    /\ \A k \in 1..a \div 2 + 1 : s[d + 2 + a + v + 1 + k] = s[d + 2 + (2 * k - 1)]

LEMMA BSpelled ==
    ASSUME NEW s \in Seq(Char), NEW d \in 0..3, NEW n \in 1..3, Digits(s, n)
    PROVE  (\E X \in LettersFrom(s, d + 3), x \in OddUpTo(s) :
              WithoutLast(s, n) = Rep("d", d) \o Rep("=", 2) \o X \o Rep("x", x) \o <<Bar>> \o Every2nd(X))
           <=> \E a, v \in Nat : Odd(a) /\ Odd(v) /\ SpellsB(s, d, a, v, n)
<1>0. d \in Nat /\ n \in Nat /\ n <= Len(s) /\ Len(s) \in Nat /\ d + 3 = d + 2 + 1 /\ d + 2 \in Nat
  BY LenProperties DEF Digits
<1>1. PICK l \in Nat : l = Len(s)
  BY <1>0
<1>2. "d" \in Char /\ "x" \in Char
  BY Characters
<1>3. ASSUME NEW X \in Seq(Char), NEW a \in Nat, Len(X) = a, Odd(a), \A k \in 1..a : X[k] = s[d + 2 + k], NEW v \in Nat, Odd(v)
      PROVE  WithoutLast(s, n) = Rep("d", d) \o Rep("=", 2) \o X \o Rep("x", v) \o <<Bar>> \o Every2nd(X) <=>
             /\ Len(s) = d + 2 + a + v + 1 + (a \div 2 + 1) + n
             /\ Times(s, 0, d, "d") /\ Times(s, d, 2, "=") /\ Times(s, d + 2 + a, v, "x")
             /\ s[d + 2 + a + v + 1] = Bar
             /\ \A k \in 1..a \div 2 + 1 : s[d + 2 + a + v + 1 + k] = s[d + 2 + (2 * k - 1)]
  <2>1. a \div 2 \in Nat /\ (a + 1) \div 2 = a \div 2 + 1 /\ a = 2 * (a \div 2) + 1
    BY <1>3, OddHalf
  <2>2. PICK z \in Nat : z = a \div 2 + 1
    BY <2>1
  <2>3. \A k \in 1..z : 2 * k - 1 \in 1..a
    BY <2>1, <2>2
  <2>4. PICK Z : Z = Every2nd(X)
    OBVIOUS
  <2>5. Z = [k \in 1..z |-> X[2 * k - 1]]
    BY <1>3, <2>1, <2>2, <2>4 DEF Every2nd
  <2>6. Z \in Seq(Char) /\ Len(Z) = z /\ \A k \in 1..z : Z[k] = s[d + 2 + (2 * k - 1)]
    <3>1. \A k \in 1..z : X[2 * k - 1] \in Char /\ X[2 * k - 1] = s[d + 2 + (2 * k - 1)]
      BY <1>3, <2>3
    <3>2. Z \in [1..z -> Char]
      BY <2>5, <3>1
    <3>3. Z \in Seq(Char) /\ Len(Z) = z
      BY <2>2, <3>2
    <3>4. \A k \in 1..z : Z[k] = X[2 * k - 1]
      BY <2>5
    <3> QED
      BY <3>1, <3>3, <3>4
  <2>7. WithoutLast(s, n) = Rep("d", d) \o Rep("=", 2) \o X \o Rep("x", v) \o <<Bar>> \o Z <=>
              /\ Len(s) = d + 2 + a + v + 1 + z + n
              /\ Times(s, 0, d, "d") /\ Times(s, d, 2, "=") /\ Stands(s, d + 2, X) /\ Times(s, d + 2 + a, v, "x")
              /\ s[d + 2 + a + v + 1] = Bar /\ Stands(s, d + 2 + a + v + 1, Z)
    <3>1. Written(s, n, "d", "x", d, a, v, z, X, Z)
      BY <1>0, <1>2, <1>3, <2>6, FormBC
    <3> QED
      BY <3>1 DEF Written
  <2>8. Stands(s, d + 2, X)
    BY <1>3 DEF Stands
  <2>9. Stands(s, d + 2 + a + v + 1, Z) <=> \A k \in 1..z : s[d + 2 + a + v + 1 + k] = s[d + 2 + (2 * k - 1)]
    BY <2>6 DEF Stands
  <2> QED
    BY <2>2, <2>4, <2>7, <2>8, <2>9
<1>4. ASSUME NEW X \in LettersFrom(s, d + 3), NEW v \in OddUpTo(s),
             WithoutLast(s, n) = Rep("d", d) \o Rep("=", 2) \o X \o Rep("x", v) \o <<Bar>> \o Every2nd(X)
      PROVE  \E a \in Nat : Odd(a) /\ Odd(v) /\ v \in Nat /\ SpellsB(s, d, a, v, n)
  <2>1. PICK a \in Nat : a = Len(X)
    <3>1. X \in Seq(Char)
      BY <1>0, LettersOf
    <3> QED
      BY <3>1, LenProperties
  <2>2. X \in Seq(Char) /\ Odd(a) /\ d + 2 + a <= Len(s) /\ Stands(s, d + 2, X) /\ Letters(s, d + 2, a)
    BY <1>0, <2>1, LettersOf
  <2>3. \A k \in 1..a : X[k] = s[d + 2 + k]
    BY <2>1, <2>2 DEF Stands
  <2>4. v \in Nat /\ Odd(v)
    BY DEF OddUpTo
  <2>5. /\ Len(s) = d + 2 + a + v + 1 + (a \div 2 + 1) + n
        /\ Times(s, 0, d, "d") /\ Times(s, d, 2, "=") /\ Times(s, d + 2 + a, v, "x")
        /\ s[d + 2 + a + v + 1] = Bar
        /\ \A k \in 1..a \div 2 + 1 : s[d + 2 + a + v + 1 + k] = s[d + 2 + (2 * k - 1)]
    BY <1>3, <1>4, <2>1, <2>2, <2>3, <2>4, ZenonT(30)
  <2>6. d + 2 + a + v + 1 <= Len(s)
    <3>1. a \div 2 \in Nat
      BY <2>2, OddHalf
    <3> QED
      BY <1>0, <2>4, <2>5, <3>1
  <2> QED
    BY <2>2, <2>4, <2>5, <2>6 DEF SpellsB, Middle
<1>5. ASSUME NEW a \in Nat, NEW v \in Nat, Odd(a), Odd(v), SpellsB(s, d, a, v, n)
      PROVE  \E X \in LettersFrom(s, d + 3), x \in OddUpTo(s) :
              WithoutLast(s, n) = Rep("d", d) \o Rep("=", 2) \o X \o Rep("x", x) \o <<Bar>> \o Every2nd(X)
  <2>1. /\ Len(s) = d + 2 + a + v + 1 + (a \div 2 + 1) + n
        /\ Times(s, 0, d, "d") /\ Times(s, d, 2, "=") /\ Times(s, d + 2 + a, v, "x")
        /\ s[d + 2 + a + v + 1] = Bar /\ Letters(s, d + 2, a) /\ d + 2 + a + v + 1 <= Len(s)
        /\ \A k \in 1..a \div 2 + 1 : s[d + 2 + a + v + 1 + k] = s[d + 2 + (2 * k - 1)]
    BY <1>5 DEF SpellsB, Middle
  <2>2. d + 2 + a <= Len(s) /\ v <= l
    BY <1>0, <1>1, <2>1
  <2>3. PICK X \in LettersFrom(s, d + 3) : X \in Seq(Char) /\ Len(X) = a /\ \A k \in 1..a : X[k] = s[d + 2 + k]
    <3>1. PICK p \in Nat : p = d + 2
      OBVIOUS
    <3>2. PICK X \in LettersFrom(s, p + 1) : X \in Seq(Char) /\ Len(X) = a /\ \A k \in 1..a : X[k] = s[p + k]
      BY <1>5, <2>1, <2>2, <3>1, LettersThere
    <3>3. p + 1 = d + 3
      BY <3>1
    <3>4. X \in LettersFrom(s, d + 3)
      BY ONLY <3>2, <3>3
    <3>5. \A k \in 1..a : X[k] = s[d + 2 + k]
      BY ONLY <3>1, <3>2
    <3> QED
      BY <3>2, <3>4, <3>5, Zenon
  <2>4. v \in OddUpTo(s)
    <3>1. v \in 1..l
      BY <1>5, <2>2, OddHalf
    <3> QED
      BY <1>1, <1>5, <3>1 DEF OddUpTo
  <2> QED
    BY <1>3, <1>5, <2>1, <2>3, <2>4, ZenonT(30)
<1> QED
  BY <1>4, <1>5

\* The code of mode b, for what it has counted.
CodeB(s, d, a, v) ==
    /\ Len(s) >= 6
    /\ At(s, d) = "=" /\ At(s, d + 1) = "="
    /\ Odd(a) /\ Odd(v)
    /\ At(s, (d + 2 + a + v + 1) - 1) = Bar
    /\ \A n \in 0..a \div 2 : At(s, d + 2 + a + v + 1 + n) = At(s, d + 2 + 2 * n)
    /\ Numbered(s, d + 2 + a + v + 1 + a \div 2 + 1)

LEMMA CodeBOf ==
    ASSUME NEW s, NEW d, d = Cardinality({i \in 0..2 : At(s, i) = "d"}),
           NEW a, a = Run(s, d + 2, Upper), NEW v, v = Run(s, d + 2 + a, {"x"})
    PROVE  matchB(s) <=> CodeB(s, d, a, v)
<1> DEFINE D == Cardinality({i \in 0..2 : At(s, i) = "d"})
           A == Run(s, D + 2, Upper)
           V == Run(s, D + 2 + A, {"x"})
<1>1. d = D /\ a = A /\ v = V
  OBVIOUS
<1>2. matchB(s) <=> CodeB(s, D, A, V)
  BY Zenon DEF matchB, CodeB
<1> HIDE DEF D, A, V
<1> QED
  BY <1>1, <1>2

LEMMA BMatched ==
    ASSUME NEW s \in Seq(Char)
    PROVE  matchB(s) <=> \E d \in 0..3, n \in 1..3 : Digits(s, n) /\ \E a, v \in Nat : Odd(a) /\ Odd(v) /\ SpellsB(s, d, a, v, n)
<1>1. PICK l \in Nat : l = Len(s)
  BY LenProperties
<1>0. "x" \in Char \ Upper /\ "x" # Bar
  BY Characters
<1>2. ASSUME matchB(s)
      PROVE  \E d \in 0..3, n \in 1..3 : Digits(s, n) /\ \E a, v \in Nat : Odd(a) /\ Odd(v) /\ SpellsB(s, d, a, v, n)
  <2>1. PICK d : d = Cardinality({i \in 0..2 : At(s, i) = "d"})
    OBVIOUS
  <2>2. d \in 0..3
    <3>1. PICK D : D = {i \in 0..2 : At(s, i) = "d"}
      OBVIOUS
    <3>2. D \in SUBSET (0..0 + 3 - 1)
      BY <3>1
    <3> QED
      BY <2>1, <3>1, <3>2, FullInterval
  <2>3. 6 <= l
    BY <1>1, <1>2 DEF matchB
  <2>4. PICK a, v \in Nat : a = Run(s, d + 2, Upper) /\ v = Run(s, d + 2 + a, {"x"})
    <3>1. d \in Nat /\ d + 2 <= Len(s)
      BY <1>1, <2>2, <2>3
    <3> QED
      BY <1>0, <3>1, RunsThere
  <2>5. /\ At(s, d) = "=" /\ At(s, d + 1) = "=" /\ Odd(a) /\ Odd(v)
        /\ At(s, (d + 2 + a + v + 1) - 1) = Bar
        /\ \A k \in 0..a \div 2 : At(s, d + 2 + a + v + 1 + k) = At(s, d + 2 + 2 * k)
        /\ Numbered(s, d + 2 + a + v + 1 + a \div 2 + 1)
    <3>1. CodeB(s, d, a, v)
      BY <1>2, <2>1, <2>2, <2>4, CodeBOf
    <3> QED
      BY <3>1 DEF CodeB
  <2>6. a # 0 /\ v # 0 /\ a \div 2 \in Nat /\ a = 2 * (a \div 2) + 1
    BY <2>5, OddHalf
  <2>7. PICK h \in Nat : h = a \div 2
    BY <2>6
  <2>8. Middle(s, d, "x", a, v)
    <3>1. d \in Nat /\ d + 2 <= Len(s) /\ (d + 2 + a + v + 1) - 1 = d + 2 + a + v
      BY <1>1, <2>2, <2>3
    <3>2. At(s, d + 2 + a + v) = Bar
      BY <2>5, <3>1
    <3>3. MiddleCode(s, d, "x", a, v)
      BY <2>4, <2>5, <3>2 DEF MiddleCode
    <3> QED
      BY <1>0, <2>6, <3>1, <3>3, MiddleOf
  <2>9. Times(s, 0, d, "d")
    BY <2>1, <2>2, <2>6, <2>8, CountB
  <2>10. PICK q \in Nat : q = d + 2 + a + v + 1
    BY <2>2
  <2>11. PICK n \in Int : n = l - (q + h + 1)
    OBVIOUS
  <2>12. n \in 1..3 /\ Digits(s, n)
    <3>1. q + h + 1 \in Nat /\ n = Len(s) - (q + h + 1) /\ Numbered(s, q + h + 1)
      BY <1>1, <2>5, <2>7, <2>10, <2>11
    <3> QED
      BY <3>1, NumberedOf
  <2>13. \A k \in 1..h + 1 : s[q + k] = s[d + 2 + (2 * k - 1)]
    <3> TAKE k \in 1..h + 1
    <3>1. PICK i \in 0..h : i = k - 1
      OBVIOUS
    <3>2. At(s, q + i) = At(s, d + 2 + 2 * i)
      BY <2>5, <2>7, <2>10
    <3>3. PICK x, y \in Nat : x = q + i /\ y = d + 2 + 2 * i
      BY <2>2
    <3>4. x < l /\ x + 1 = q + k
      BY <2>11, <2>12, <3>1, <3>3
    <3>5. y < l /\ y + 1 = d + 2 + (2 * k - 1)
      <4>1. 2 * i <= a
        BY <2>6, <2>7
      <4>2. d + 2 + a < q /\ q <= l
        BY <2>2, <2>10, <2>11, <2>12
      <4> QED
        BY <2>2, <3>1, <3>3, <4>1, <4>2
    <3>6. At(s, x) = s[x + 1] /\ At(s, y) = s[y + 1]
      BY <1>1, <3>4, <3>5, AtOf
    <3> QED
      BY <3>2, <3>3, <3>4, <3>5, <3>6
  <2>14. Len(s) = d + 2 + a + v + 1 + (h + 1) + n
    BY <1>1, <2>2, <2>10, <2>11
  <2>15. SpellsB(s, d, a, v, n)
    BY <2>7, <2>8, <2>9, <2>10, <2>13, <2>14 DEF SpellsB
  <2> QED
    BY <2>2, <2>5, <2>12, <2>15
<1>3. ASSUME NEW d \in 0..3, NEW n \in 1..3, Digits(s, n), NEW a \in Nat, NEW v \in Nat, Odd(a), Odd(v), SpellsB(s, d, a, v, n)
      PROVE  matchB(s)
  <2>1. a # 0 /\ v # 0 /\ a \div 2 \in Nat /\ a = 2 * (a \div 2) + 1
    BY <1>3, OddHalf
  <2>2. PICK h \in Nat : h = a \div 2
    BY <2>1
  <2>3. PICK q \in Nat : q = d + 2 + a + v + 1
    OBVIOUS
  <2>4. Times(s, 0, d, "d") /\ Middle(s, d, "x", a, v) /\ l = q + (h + 1) + n
        /\ \A k \in 1..h + 1 : s[q + k] = s[d + 2 + (2 * k - 1)]
    BY <1>1, <1>3, <2>2, <2>3 DEF SpellsB
  <2>5. d \in Nat /\ d + 2 <= Len(s)
    BY <1>1, <2>3, <2>4
  <2>6. /\ At(s, d) = "=" /\ At(s, d + 1) = "="
        /\ a = Run(s, d + 2, Upper) /\ v = Run(s, d + 2 + a, {"x"})
        /\ At(s, d + 2 + a + v) = Bar
    <3>1. MiddleCode(s, d, "x", a, v)
      BY <1>0, <2>1, <2>4, <2>5, MiddleOf
    <3> QED
      BY <3>1 DEF MiddleCode
  <2>7. d = Cardinality({i \in 0..2 : At(s, i) = "d"})
    BY <2>1, <2>4, <2>5, CountB
  <2>8. Numbered(s, q + h + 1)
    <3>1. q + h + 1 \in Nat /\ n \in Int /\ n = Len(s) - (q + h + 1)
      BY <1>1, <2>4
    <3> QED
      BY <1>3, <3>1, NumberedOf
  <2>9. \A k \in 0..h : At(s, q + k) = At(s, d + 2 + 2 * k)
    <3> TAKE i \in 0..h
    <3>1. PICK k \in 1..h + 1 : k = i + 1
      OBVIOUS
    <3>2. s[q + k] = s[d + 2 + (2 * k - 1)]
      BY <2>4
    <3>3. PICK x, y \in Nat : x = q + i /\ y = d + 2 + 2 * i
      OBVIOUS
    <3>4. x < l /\ x + 1 = q + k
      BY <2>4, <3>1, <3>3
    <3>5. y < l /\ y + 1 = d + 2 + (2 * k - 1)
      <4>1. 2 * i <= a
        BY <2>1, <2>2
      <4>2. d + 2 + a < q /\ q <= l
        BY <2>3, <2>4
      <4> QED
        BY <3>1, <3>3, <4>1, <4>2
    <3>6. At(s, x) = s[x + 1] /\ At(s, y) = s[y + 1]
      BY <1>1, <3>4, <3>5, AtOf
    <3> QED
      BY <3>2, <3>3, <3>4, <3>5, <3>6
  <2>10. 6 <= l
    <3>1. 1 <= a /\ 1 <= v
      BY <2>1
    <3> QED
      BY <2>3, <2>4, <3>1
  <2>11. /\ Len(s) >= 6
         /\ At(s, (d + 2 + a + v + 1) - 1) = Bar
         /\ \A k \in 0..a \div 2 : At(s, d + 2 + a + v + 1 + k) = At(s, d + 2 + 2 * k)
         /\ Numbered(s, d + 2 + a + v + 1 + a \div 2 + 1)
    <3>1. (d + 2 + a + v + 1) - 1 = d + 2 + a + v
      BY <2>5
    <3> QED
      BY <1>1, <2>2, <2>3, <2>6, <2>8, <2>9, <2>10, <3>1
  <2> QED
    <3>1. CodeB(s, d, a, v)
      BY <1>3, <2>6, <2>11 DEF CodeB
    <3>2. a = Run(s, d + 2, Upper) /\ v = Run(s, d + 2 + a, {"x"})
      BY <2>6
    <3> QED
      BY <2>5, <3>2, <2>7, <3>1, CodeBOf
<1> QED
  BY <1>2, <1>3

LEMMA RightB == ASSUME NEW s \in Seq(Char) PROVE matchB(s) <=> PatternB(s)
<1>1. PatternB(s) <=> \E d \in 0..3, n \in 1..3 : Digits(s, n) /\ \E a, v \in Nat : Odd(a) /\ Odd(v) /\ SpellsB(s, d, a, v, n)
  BY BSpelled DEF PatternB
<1> QED
  BY <1>1, BMatched

\* The j of the whole string are those in front.
LEMMA CountC ==
    ASSUME NEW s \in Seq(Char), NEW d \in Nat, d <= Len(s), \A k \in d + 1..Len(s) : s[k] # "j"
    PROVE  d = Cardinality({k \in DOMAIN s : s[k] = "j"}) <=> Times(s, 0, d, "j")
<1>1. PICK l \in Nat : l = Len(s) /\ DOMAIN s = 1..l
  BY LenProperties
<1> DEFINE D == {k \in DOMAIN s : s[k] = "j"}
<1>2. D \in SUBSET (1..1 + d - 1)
  <2> SUFFICES ASSUME NEW k \in D PROVE k \in 1..1 + d - 1
    OBVIOUS
  <2>1. k \in 1..l /\ ~(k \in d + 1..l)
    BY <1>1
  <2> QED
    BY <2>1
<1>3. Cardinality(D) = d <=> D = 1..1 + d - 1
  <2> HIDE DEF D
  <2> QED
    BY <1>2, FullInterval
<1>4. ASSUME D = 1..1 + d - 1 PROVE Times(s, 0, d, "j")
  BY <1>4 DEF Times
<1>5. ASSUME Times(s, 0, d, "j") PROVE D = 1..1 + d - 1
  <2> SUFFICES ASSUME NEW k \in 1..1 + d - 1 PROVE k \in D
    BY <1>2
  <2>1. k \in 1..d /\ 0 + k = k /\ k \in 1..l
    BY <1>1
  <2>2. s[k] = "j"
    BY <1>5, <2>1 DEF Times
  <2> QED
    BY <1>1, <2>1, <2>2
<1> HIDE DEF D
<1>6. d = Cardinality(D) <=> Times(s, 0, d, "j")
  BY <1>3, <1>4, <1>5
<1> QED
  BY <1>6 DEF D

BehindJ(s, d, a, v, n) ==
    /\ Middle(s, d, "v", a, v)
    /\ Len(s) = d + 2 + a + v + 1 + 2 * a + n
    /\ \A k \in 1..a : s[d + 2 + a + v + 1 + k] = s[d + 2 + k] /\ s[d + 2 + a + v + 1 + a + k] = s[d + 2 + k]
SpellsC(s, d, a, v, n) == Times(s, 0, d, "j") /\ BehindJ(s, d, a, v, n)

WrittenC(s, n, d, a, v, X) ==
    WithoutLast(s, n) = Rep("j", d) \o Rep("=", 2) \o X \o Rep("v", v) \o <<Bar>> \o X \o X <=>
       /\ Len(s) = d + 2 + a + v + 1 + 2 * a + n
       /\ Times(s, 0, d, "j") /\ Times(s, d, 2, "=") /\ Times(s, d + 2 + a, v, "v")
       /\ s[d + 2 + a + v + 1] = Bar
       /\ \A k \in 1..a : s[d + 2 + a + v + 1 + k] = s[d + 2 + k] /\ s[d + 2 + a + v + 1 + a + k] = s[d + 2 + k]

LEMMA CWritten ==
    ASSUME NEW s \in Seq(Char), NEW d \in Nat, NEW n \in Nat, n <= Len(s),
           NEW X \in Seq(Char), NEW a \in Nat, Len(X) = a, \A k \in 1..a : X[k] = s[d + 2 + k], NEW v \in Nat
    PROVE  WrittenC(s, n, d, a, v, X)
<1>1. "j" \in Char /\ "v" \in Char /\ "=" \in Char /\ Bar \in Char
  BY Characters
<1>2. PICK Z : Z = X \o X
  OBVIOUS
<1>3. Z \in Seq(Char) /\ Len(Z) = 2 * a
  <2>1. X \o X \in Seq(Char) /\ Len(X \o X) = Len(X) + Len(X)
    BY ConcatLength
  <2> QED
    BY <1>2, <2>1
<1>4. PICK z \in Nat : z = 2 * a
  OBVIOUS
<1>5. Written(s, n, "j", "v", d, a, v, z, X, Z)
  BY <1>1, <1>3, <1>4, FormBC
<1>6. Stands(s, d + 2, X)
  BY DEF Stands
<1>7. PICK q \in Nat : q = d + 2 + a + v + 1
  OBVIOUS
<1>8. Stands(s, q, Z) <=> Stands(s, q, X) /\ Stands(s, q + a, X)
  BY <1>2, StandsConcat
<1>9. Stands(s, q, X) <=> \A k \in 1..a : s[q + k] = s[d + 2 + k]
  BY DEF Stands
<1>10. Stands(s, q + a, X) <=> \A k \in 1..a : s[q + a + k] = s[d + 2 + k]
  BY DEF Stands
<1>11. PICK W : W = Rep("j", d) \o Rep("=", 2) \o X \o Rep("v", v) \o <<Bar>>
  OBVIOUS
<1>12. W \in Seq(Char)
  <2>1. PICK C \in Seq(Char) : C = Rep("j", d)
    BY <1>1, RepOf
  <2>2. PICK E \in Seq(Char) : E = Rep("=", 2)
    BY <1>1, RepOf
  <2>3. PICK F \in Seq(Char) : F = Rep("v", v)
    BY <1>1, RepOf
  <2>4. PICK B \in Seq(Char) : B = <<Bar>>
    <3>1. PICK e \in Char : e = Bar
      BY <1>1
    <3>2. <<e>> \in Seq(Char)
      OBVIOUS
    <3> QED
      BY <3>1, <3>2
  <2>5. PICK ce \in Seq(Char) : ce = C \o E
    BY ConcatLength
  <2>6. PICK cex \in Seq(Char) : cex = ce \o X
    BY ConcatLength
  <2>7. PICK cexf \in Seq(Char) : cexf = cex \o F
    BY ConcatLength
  <2>8. cexf \o B \in Seq(Char)
    BY ConcatLength
  <2> QED
    BY <1>11, <2>1, <2>2, <2>3, <2>4, <2>5, <2>6, <2>7, <2>8
<1>13. W \o X \o X = W \o Z
  <2>1. PICK w \in Seq(Char) : w = W
    BY <1>12
  <2>2. (w \o X) \o X = w \o (X \o X)
    BY ONLY w \in Seq(Char), X \in Seq(Char), ConcatAssociative
  <2> QED
    BY <1>2, <2>1, <2>2
<1>14. WithoutLast(s, n) = W \o Z <=>
       /\ Len(s) = q + z + n
       /\ Times(s, 0, d, "j") /\ Times(s, d, 2, "=") /\ Stands(s, d + 2, X) /\ Times(s, d + 2 + a, v, "v")
       /\ s[d + 2 + a + v + 1] = Bar /\ Stands(s, q, Z)
  BY <1>5, <1>7, <1>11 DEF Written
<1> QED
  BY <1>4, <1>6, <1>7, <1>8, <1>9, <1>10, <1>11, <1>13, <1>14 DEF WrittenC

LEMMA CSpelled ==
    ASSUME NEW s \in Seq(Char), NEW d \in Nat, NEW n \in 1..3, Digits(s, n)
    PROVE  (\E X \in LettersFrom(s, d + 3), v \in OddUpTo(s) :
              WithoutLast(s, n) = Rep("j", d) \o Rep("=", 2) \o X \o Rep("v", v) \o <<Bar>> \o X \o X)
           <=> \E a, v \in Nat : Odd(a) /\ Odd(v) /\ SpellsC(s, d, a, v, n)
<1>0. n \in Nat /\ n <= Len(s) /\ Len(s) \in Nat /\ d + 3 = d + 2 + 1 /\ d + 2 \in Nat
  BY LenProperties DEF Digits
<1>1. PICK l \in Nat : l = Len(s)
  BY <1>0
<1>2. ASSUME NEW X \in LettersFrom(s, d + 3), NEW v \in OddUpTo(s),
             WithoutLast(s, n) = Rep("j", d) \o Rep("=", 2) \o X \o Rep("v", v) \o <<Bar>> \o X \o X
      PROVE  \E a \in Nat : Odd(a) /\ Odd(v) /\ v \in Nat /\ SpellsC(s, d, a, v, n)
  <2>1. PICK a \in Nat : a = Len(X)
    <3>1. X \in Seq(Char)
      BY <1>0, LettersOf
    <3> QED
      BY <3>1, LenProperties
  <2>2. X \in Seq(Char) /\ Odd(a) /\ d + 2 + a <= Len(s) /\ Stands(s, d + 2, X) /\ Letters(s, d + 2, a)
    BY <1>0, <2>1, LettersOf
  <2>3. \A k \in 1..a : X[k] = s[d + 2 + k]
    BY <2>1, <2>2 DEF Stands
  <2>4. v \in Nat /\ Odd(v)
    BY DEF OddUpTo
  <2>5. /\ Len(s) = d + 2 + a + v + 1 + 2 * a + n
        /\ Times(s, 0, d, "j") /\ Times(s, d, 2, "=") /\ Times(s, d + 2 + a, v, "v")
        /\ s[d + 2 + a + v + 1] = Bar
        /\ \A k \in 1..a : s[d + 2 + a + v + 1 + k] = s[d + 2 + k] /\ s[d + 2 + a + v + 1 + a + k] = s[d + 2 + k]
    <3>1. WrittenC(s, n, d, a, v, X)
      BY <1>0, <2>1, <2>2, <2>3, <2>4, CWritten
    <3> QED
      BY <1>2, <3>1 DEF WrittenC
  <2>6. d + 2 + a + v + 1 <= Len(s)
    BY <1>0, <2>4, <2>5
  <2> QED
    BY <2>2, <2>4, <2>5, <2>6 DEF SpellsC, BehindJ, Middle
<1>3. ASSUME NEW a \in Nat, NEW v \in Nat, Odd(a), Odd(v), SpellsC(s, d, a, v, n)
      PROVE  \E X \in LettersFrom(s, d + 3), x \in OddUpTo(s) :
              WithoutLast(s, n) = Rep("j", d) \o Rep("=", 2) \o X \o Rep("v", x) \o <<Bar>> \o X \o X
  <2>1. /\ Len(s) = d + 2 + a + v + 1 + 2 * a + n
        /\ Times(s, 0, d, "j") /\ Times(s, d, 2, "=") /\ Times(s, d + 2 + a, v, "v")
        /\ s[d + 2 + a + v + 1] = Bar /\ Letters(s, d + 2, a) /\ d + 2 + a + v + 1 <= Len(s)
        /\ \A k \in 1..a : s[d + 2 + a + v + 1 + k] = s[d + 2 + k] /\ s[d + 2 + a + v + 1 + a + k] = s[d + 2 + k]
    BY <1>3 DEF SpellsC, BehindJ, Middle
  <2>2. d + 2 + a <= Len(s) /\ v <= l
    BY <1>0, <1>1, <2>1
  <2>3. PICK X \in LettersFrom(s, d + 3) : X \in Seq(Char) /\ Len(X) = a /\ \A k \in 1..a : X[k] = s[d + 2 + k]
    <3>1. PICK p \in Nat : p = d + 2
      OBVIOUS
    <3>2. \E X \in LettersFrom(s, p + 1) : X \in Seq(Char) /\ Len(X) = a /\ \A k \in 1..a : X[k] = s[p + k]
      BY <1>3, <2>1, <2>2, <3>1, LettersThere
    <3>3. p + 1 = d + 3
      BY <3>1
    <3> QED
      BY <3>1, <3>2, <3>3
  <2>4. v \in OddUpTo(s)
    <3>1. v \in 1..l
      BY <1>3, <2>2, OddHalf
    <3> QED
      BY <1>1, <1>3, <3>1 DEF OddUpTo
  <2>5. WithoutLast(s, n) = Rep("j", d) \o Rep("=", 2) \o X \o Rep("v", v) \o <<Bar>> \o X \o X
    <3>1. WrittenC(s, n, d, a, v, X)
      BY <1>0, <2>3, CWritten
    <3> QED
      BY <2>1, <3>1 DEF WrittenC
  <2> QED
    BY <2>4, <2>5
<1> QED
  BY <1>2, <1>3

\* The code of mode c, for what it has counted.
CodeC(s, d, a, v) ==
    /\ Len(s) >= 9
    /\ Odd(d) /\ d + 1 < Len(s)
    /\ At(s, d) = "=" /\ At(s, d + 1) = "="
    /\ Odd(a) /\ Odd(v)
    /\ At(s, (d + 2 + a + v + 1) - 1) = Bar
    /\ \A n \in 0..a - 1 :
          At(s, d + 2 + a + v + 1 + n) = At(s, d + 2 + n) /\ At(s, d + 2 + a + v + 1 + a + n) = At(s, d + 2 + n)
    /\ Numbered(s, d + 2 + a + v + 1 + 2 * a)

LEMMA CodeCOf ==
    ASSUME NEW s, NEW d, d = Cardinality({n \in DOMAIN s : s[n] = "j"}),
           NEW a, a = Run(s, d + 2, Upper), NEW v, v = Run(s, d + 2 + a, {"v"})
    PROVE  matchC(s) <=> CodeC(s, d, a, v)
<1> DEFINE D == Cardinality({n \in DOMAIN s : s[n] = "j"})
           A == Run(s, D + 2, Upper)
           V == Run(s, D + 2 + A, {"v"})
<1>1. d = D /\ a = A /\ v = V
  OBVIOUS
<1>2. matchC(s) <=> CodeC(s, D, A, V)
  BY Zenon DEF matchC, CodeC
<1> HIDE DEF D, A, V
<1> QED
  BY <1>1, <1>2

\* Behind the j in front there is none.
LEMMA NoMoreJ ==
    ASSUME NEW s \in Seq(Char), NEW d \in Nat, NEW a \in Nat, NEW v \in Nat, NEW n \in 1..3, Digits(s, n),
           BehindJ(s, d, a, v, n)
    PROVE  \A k \in d + 1..Len(s) : s[k] # "j"
<1>1. PICK l \in Nat : l = Len(s)
  BY LenProperties
<1>0. PICK q \in Nat : q = d + 2 + a + v + 1
  OBVIOUS
<1>q. /\ Middle(s, d, "v", a, v) /\ Len(s) = q + 2 * a + n
      /\ \A k \in 1..a : s[q + k] = s[d + 2 + k] /\ s[q + a + k] = s[d + 2 + k]
  BY <1>0 DEF BehindJ
<1>2. "j" \notin Upper /\ "j" # "=" /\ "j" # "v" /\ "j" # Bar /\ "j" \notin Digit
  BY Characters
<1>3. \A k \in 1..a : s[d + 2 + k] # "j"
  BY <1>2, <1>q DEF Middle, Letters
<1> SUFFICES ASSUME NEW k \in d + 1..l PROVE s[k] # "j"
  BY <1>1
<1>4. CASE k \in d + 1..q
  BY <1>0, <1>2, <1>q, <1>4, MiddleHas
<1>5. CASE k \in q + 1..q + a
  <2>1. k - q \in 1..a /\ q + (k - q) = k
    BY <1>5
  <2> QED
    BY <1>q, <1>3, <2>1
<1>6. CASE k \in q + a + 1..q + 2 * a
  <2>1. k - q - a \in 1..a /\ q + a + (k - q - a) = k
    BY <1>6
  <2> QED
    BY <1>q, <1>3, <2>1
<1>7. CASE k \in q + 2 * a + 1..l
  <2>1. k \in l - n + 1..l
    BY <1>1, <1>q, <1>7
  <2> QED
    BY <1>1, <1>2, <2>1 DEF Digits
<1> QED
  BY <1>0, <1>q, <1>1, <1>4, <1>5, <1>6, <1>7

LEMMA CMatched ==
    ASSUME NEW s \in Seq(Char)
    PROVE  matchC(s) <=> \E d \in OddUpTo(s), n \in 1..3 : Digits(s, n) /\ \E a, v \in Nat : Odd(a) /\ Odd(v) /\ SpellsC(s, d, a, v, n)
<1>1. PICK l \in Nat : l = Len(s) /\ DOMAIN s = 1..l
  BY LenProperties
<1>0. "v" \in Char \ Upper /\ "v" # Bar
  BY Characters
<1>2. ASSUME matchC(s)
      PROVE  \E d \in OddUpTo(s), n \in 1..3 : Digits(s, n) /\ \E a, v \in Nat : Odd(a) /\ Odd(v) /\ SpellsC(s, d, a, v, n)
  <2>1. PICK d : d = Cardinality({n \in DOMAIN s : s[n] = "j"})
    OBVIOUS
  <2>2. d \in Nat
    <3>1. PICK D : D = {k \in DOMAIN s : s[k] = "j"}
      OBVIOUS
    <3>2. D \in SUBSET (1..1 + l - 1)
      BY <1>1, <3>1
    <3>3. Cardinality(D) \in 0..l
      BY <3>2, FullInterval
    <3> QED
      BY <2>1, <3>1, <3>3
  <2>3. Odd(d) /\ d + 1 < l
    BY <1>1, <1>2, <2>1 DEF matchC
  <2>4. PICK a, v \in Nat : a = Run(s, d + 2, Upper) /\ v = Run(s, d + 2 + a, {"v"})
    <3>1. d + 2 <= Len(s)
      BY <1>1, <2>2, <2>3
    <3> QED
      BY <1>0, <2>2, <3>1, RunsThere
  <2>5. /\ At(s, d) = "=" /\ At(s, d + 1) = "=" /\ Odd(a) /\ Odd(v)
        /\ At(s, (d + 2 + a + v + 1) - 1) = Bar
        /\ \A n \in 0..a - 1 :
             At(s, d + 2 + a + v + 1 + n) = At(s, d + 2 + n) /\ At(s, d + 2 + a + v + 1 + a + n) = At(s, d + 2 + n)
        /\ Numbered(s, d + 2 + a + v + 1 + 2 * a)
    <3>1. CodeC(s, d, a, v)
      BY <1>2, <2>1, <2>4, CodeCOf
    <3> QED
      BY <3>1 DEF CodeC
  <2>6. a # 0 /\ v # 0 /\ d # 0
    BY <2>2, <2>3, <2>5, OddHalf
  <2>7. Middle(s, d, "v", a, v)
    <3>1. d + 2 <= Len(s) /\ (d + 2 + a + v + 1) - 1 = d + 2 + a + v
      BY <1>1, <2>2, <2>3
    <3>2. At(s, d + 2 + a + v) = Bar
      BY <2>5, <3>1
    <3>3. MiddleCode(s, d, "v", a, v)
      BY <2>4, <2>5, <3>2 DEF MiddleCode
    <3> QED
      BY <1>0, <2>2, <2>6, <3>1, <3>3, MiddleOf
  <2>8. PICK q \in Nat : q = d + 2 + a + v + 1
    BY <2>2
  <2>9. PICK n \in Int : n = l - (q + 2 * a)
    OBVIOUS
  <2>10. n \in 1..3 /\ Digits(s, n)
    <3>1. q + 2 * a \in Nat /\ n = Len(s) - (q + 2 * a) /\ Numbered(s, q + 2 * a)
      BY <1>1, <2>5, <2>8, <2>9
    <3> QED
      BY <3>1, NumberedOf
  <2>11. \A k \in 1..a : s[q + k] = s[d + 2 + k] /\ s[q + a + k] = s[d + 2 + k]
    <3> TAKE k \in 1..a
    <3>1. PICK i \in 0..a - 1 : i = k - 1
      OBVIOUS
    <3>2. At(s, q + i) = At(s, d + 2 + i) /\ At(s, q + a + i) = At(s, d + 2 + i)
      BY <2>5, <2>8
    <3>3. PICK x, y, z \in Nat : x = q + i /\ y = d + 2 + i /\ z = q + a + i
      BY <2>2
    <3>4. x < l /\ x + 1 = q + k /\ z < l /\ z + 1 = q + a + k
      BY <2>9, <2>10, <3>1, <3>3
    <3>5. y < l /\ y + 1 = d + 2 + k
      BY <2>2, <2>8, <2>9, <2>10, <3>1, <3>3
    <3>6. At(s, x) = s[x + 1] /\ At(s, y) = s[y + 1] /\ At(s, z) = s[z + 1]
      BY <1>1, <3>4, <3>5, AtOf
    <3> QED
      BY <3>2, <3>3, <3>4, <3>5, <3>6
  <2>12. Len(s) = q + 2 * a + n
    BY <1>1, <2>9
  <2>b. BehindJ(s, d, a, v, n)
    BY <2>7, <2>8, <2>11, <2>12 DEF BehindJ
  <2>13. Times(s, 0, d, "j")
    <3>1. d <= Len(s)
      BY <1>1, <2>2, <2>3
    <3>2. \A k \in d + 1..Len(s) : s[k] # "j"
      BY <2>2, <2>10, <2>b, NoMoreJ
    <3> QED
      BY <2>1, <2>2, <3>1, <3>2, CountC
  <2>14. SpellsC(s, d, a, v, n)
    BY <2>b, <2>13 DEF SpellsC
  <2>15. d \in OddUpTo(s)
    BY <1>1, <2>2, <2>3, <2>6 DEF OddUpTo
  <2> QED
    BY <2>5, <2>10, <2>14, <2>15
<1>3. ASSUME NEW d \in OddUpTo(s), NEW n \in 1..3, Digits(s, n), NEW a \in Nat, NEW v \in Nat, Odd(a), Odd(v), SpellsC(s, d, a, v, n)
      PROVE  matchC(s)
  <2>1. d \in Nat /\ d # 0 /\ Odd(d) /\ a # 0 /\ v # 0
    BY <1>1, <1>3, OddHalf DEF OddUpTo
  <2>2. PICK q \in Nat : q = d + 2 + a + v + 1
    BY <2>1
  <2>3. Times(s, 0, d, "j") /\ Middle(s, d, "v", a, v) /\ l = q + 2 * a + n
        /\ \A k \in 1..a : s[q + k] = s[d + 2 + k] /\ s[q + a + k] = s[d + 2 + k]
    BY <1>1, <1>3, <2>2 DEF SpellsC, BehindJ
  <2>4. d + 2 <= l /\ d <= l
    BY <2>1, <2>2, <2>3
  <2>5. /\ At(s, d) = "=" /\ At(s, d + 1) = "="
        /\ a = Run(s, d + 2, Upper) /\ v = Run(s, d + 2 + a, {"v"})
        /\ At(s, d + 2 + a + v) = Bar
    <3>1. MiddleCode(s, d, "v", a, v)
      BY <1>0, <1>1, <2>1, <2>3, <2>4, MiddleOf
    <3> QED
      BY <3>1 DEF MiddleCode
  <2>6. d = Cardinality({k \in DOMAIN s : s[k] = "j"})
    <3>0. BehindJ(s, d, a, v, n)
      BY <1>3 DEF SpellsC
    <3>1. \A k \in d + 1..Len(s) : s[k] # "j"
      BY <1>3, <2>1, <3>0, NoMoreJ
    <3> QED
      BY <1>1, <2>1, <2>3, <2>4, <3>1, CountC
  <2>7. Numbered(s, q + 2 * a)
    <3>1. q + 2 * a \in Nat /\ n \in Int /\ n = Len(s) - (q + 2 * a)
      BY <1>1, <2>3
    <3> QED
      BY <1>3, <3>1, NumberedOf
  <2>8. \A i \in 0..a - 1 : At(s, q + i) = At(s, d + 2 + i) /\ At(s, q + a + i) = At(s, d + 2 + i)
    <3> TAKE i \in 0..a - 1
    <3>1. PICK k \in 1..a : k = i + 1
      OBVIOUS
    <3>2. s[q + k] = s[d + 2 + k] /\ s[q + a + k] = s[d + 2 + k]
      BY <2>3
    <3>3. PICK x, y, z \in Nat : x = q + i /\ y = d + 2 + i /\ z = q + a + i
      BY <2>1
    <3>4. x < l /\ x + 1 = q + k /\ z < l /\ z + 1 = q + a + k
      BY <2>3, <3>1, <3>3
    <3>5. y < l /\ y + 1 = d + 2 + k
      BY <2>1, <2>2, <2>3, <3>1, <3>3
    <3>6. At(s, x) = s[x + 1] /\ At(s, y) = s[y + 1] /\ At(s, z) = s[z + 1]
      BY <1>1, <3>4, <3>5, AtOf
    <3> QED
      BY <3>2, <3>3, <3>4, <3>5, <3>6
  <2>9. 9 <= l /\ d + 1 < l
    <3>1. 1 <= a /\ 1 <= v /\ 1 <= d
      BY <2>1
    <3> QED
      BY <2>1, <2>2, <2>3, <3>1
  <2>10. CodeC(s, d, a, v)
    <3>1. (d + 2 + a + v + 1) - 1 = d + 2 + a + v
      BY <2>1
    <3>2. At(s, (d + 2 + a + v + 1) - 1) = Bar
      BY <2>5, <3>1
    <3>3. Len(s) >= 9 /\ d + 1 < Len(s)
      BY <1>1, <2>9
    <3> QED
      BY <1>3, <2>1, <2>2, <2>5, <2>7, <2>8, <3>2, <3>3 DEF CodeC
  <2> QED
    BY <2>5, <2>6, <2>10, CodeCOf
<1> QED
  BY <1>2, <1>3

LEMMA RightC == ASSUME NEW s \in Seq(Char) PROVE matchC(s) <=> PatternC(s)
<1>1. ASSUME NEW d \in OddUpTo(s), NEW n \in 1..3, Digits(s, n)
      PROVE  (\E X \in LettersFrom(s, d + 3), v \in OddUpTo(s) :
                WithoutLast(s, n) = Rep("j", d) \o Rep("=", 2) \o X \o Rep("v", v) \o <<Bar>> \o X \o X)
             <=> \E a, v \in Nat : Odd(a) /\ Odd(v) /\ SpellsC(s, d, a, v, n)
  <2>1. d \in Nat
    BY DEF OddUpTo
  <2> QED
    BY <1>1, <2>1, CSpelled
<1>2. PatternC(s) <=> \E d \in OddUpTo(s), n \in 1..3 : Digits(s, n) /\ \E a, v \in Nat : Odd(a) /\ Odd(v) /\ SpellsC(s, d, a, v, n)
  BY <1>1 DEF PatternC
<1> QED
  BY <1>2, CMatched

\* matchA, matchB and matchC, with their counting of letters that may stand
\* anywhere, accept exactly the strings of the language of the mode, of every
\* length: no string is taken for a match by a miscount, and none is missed.
THEOREM RightMode == ASSUME NEW m \in 1..3, NEW s \in Seq(Char) PROVE matches(m, s) <=> Pattern(m, s)
<1>1. CASE m = 1
  BY <1>1, RightA DEF matches, Pattern
<1>2. CASE m = 2
  BY <1>2, RightB DEF matches, Pattern
<1>3. CASE m = 3
  BY <1>3, RightC DEF matches, Pattern
<1> QED
  BY <1>1, <1>2, <1>3

-----------------------------------------------------------------------------
(* What -t prints can be undone. *)

\* The rotation.
LEMMA RotationUndone == ASSUME NEW s \in Seq(Char), s # <<>> PROVE Undone(1, converted(1, s)) = s
<1>1. PICK l \in Nat : l = Len(s) /\ l # 0
  BY LenProperties, EmptySeq
<1>2. PICK h \in Char : h = Head(s) /\ h = s[1]
  BY <1>1, ElementOfSeq
<1>3. PICK t \in Seq(Char) : t = Tail(s)
  BY HeadTailProperties
<1>4. Len(t) = l - 1 /\ \A k \in 1..l - 1 : t[k] = s[k + 1]
  BY <1>1, <1>3, HeadTailProperties
<1>5. PICK c \in Seq(Char) : c = Append(t, h)
  BY AppendProperties
<1>6. Len(c) = l /\ c[l] = h /\ \A k \in 1..l - 1 : c[k] = s[k + 1]
  BY <1>1, <1>4, <1>5, AppendProperties
<1>7. converted(1, s) = c
  BY <1>2, <1>3, <1>5 DEF converted
<1>8. PICK f : f = SubSeq(c, 1, l - 1)
  OBVIOUS
<1>9. f \in Seq(Char) /\ Len(f) = l - 1 /\ \A k \in 1..l - 1 : f[k] = c[k]
  BY <1>1, <1>6, <1>8, SubSeqProperties
<1>10. Undone(1, c) = <<h>> \o f
  BY <1>6, <1>8 DEF Undone, Last, Front
<1>11. PICK y \in Seq(Char) : y = <<h>> \o f
  <2>1. <<h>> \in Seq(Char)
    OBVIOUS
  <2> QED
    BY <1>9, <2>1, ConcatLength
<1>12. Len(y) = l /\ \A k \in 1..l : y[k] = IF k <= 1 THEN h ELSE f[k - 1]
  BY <1>1, <1>9, <1>11, ConcatProperties
<1>13. \A k \in 1..l : y[k] = s[k]
  <2> TAKE k \in 1..l
  <2>1. CASE k = 1
    BY <1>2, <1>12, <2>1
  <2>2. CASE k # 1
    <3>1. k - 1 \in 1..l - 1 /\ k - 1 + 1 = k /\ ~(k <= 1)
      BY <2>2
    <3> QED
      BY <1>6, <1>9, <1>12, <3>1
  <2> QED
    BY <2>1, <2>2
<1> QED
  BY <1>1, <1>7, <1>10, <1>11, <1>12, <1>13, SeqEqual

\* The letters that are left out.
LEMMA ThreeTimes ==
    ASSUME NEW y \in Seq(Char), NEW w, w = y \o y \o y
    PROVE  Len(w) % 3 = 0 /\ \A k \in 1..Len(w) \div 3 : w[k] = w[Len(w) \div 3 + k] /\ w[k] = w[2 * (Len(w) \div 3) + k]
<1>1. PICK n \in Nat : n = Len(y)
  BY LenProperties
<1>2. PICK x \in Seq(Char) : x = y \o y
  BY ConcatLength
<1>3. Len(x) = 2 * n
  <2>1. Len(y \o y) = Len(y) + Len(y)
    BY ConcatLength
  <2> QED
    BY <1>1, <1>2, <2>1
<1>4. w \in Seq(Char) /\ Len(w) = 3 * n
  <2>1. x \o y \in Seq(Char) /\ Len(x \o y) = Len(x) + Len(y)
    BY ConcatLength
  <2> QED
    BY <1>1, <1>2, <1>3, <2>1
<1>5. Stands(w, 0, x) /\ Stands(w, 2 * n, y)
  <2>1. w = x \o y <=> Len(w) = Len(x) + Len(y) /\ Stands(w, 0, x) /\ Stands(w, Len(x), y)
    BY ONLY <1>4, x \in Seq(Char), y \in Seq(Char), IsConcat
  <2> QED
    BY <1>2, <1>3, <2>1
<1>6. Stands(w, 0, y) /\ Stands(w, 0 + n, y)
  BY <1>1, <1>2, <1>5, StandsConcat
<1>7. \A k \in 1..n : w[0 + k] = y[k] /\ w[0 + n + k] = y[k] /\ w[2 * n + k] = y[k]
  BY <1>1, <1>5, <1>6 DEF Stands
<1>8. Len(w) % 3 = 0 /\ Len(w) \div 3 = n
  BY <1>4
<1>9. \A k \in 1..n : 0 + k = k /\ 0 + n + k = n + k
  OBVIOUS
<1> QED
  BY <1>7, <1>8, <1>9

LEMMA WithoutRep ==
    ASSUME NEW c, NEW S, c \in S
    PROVE  \A n \in Nat : Without(Rep(c, n), S) = <<>>
<1> TAKE n \in Nat
<1>1. Rep(c, n) \in Seq({c})
  BY DEF Rep
<1> QED
  BY <1>1, WithoutAll

LEMMA WithoutTail ==
    ASSUME NEW T, NEW S
    PROVE  \A u \in Seq(T), z \in Seq(T) : Without(z, S) = <<>> => Without(u \o z, S) = Without(u, S)
<1> TAKE u \in Seq(T), z \in Seq(T)
<1> HAVE Without(z, S) = <<>>
<1>1. PICK y \in Seq(T \ S) : y = Without(u, S)
  BY WithoutType
<1>2. Without(u \o z, S) = Without(u, S) \o Without(z, S)
  BY WithoutConcat
<1>3. y \o <<>> = y
  BY ConcatEmptySeq
<1> QED
  BY <1>1, <1>2, <1>3

\* Of a match of mode c, only its letters are capital, and they stand three
\* times.
LEMMA LettersLeft ==
    ASSUME NEW s \in Seq(Char), PatternC(s), NEW S, Char \ Upper \subseteq S
    PROVE  \E y \in Seq(Char) : Without(s, S) = y \o y \o y
<1>1. PICK d \in OddUpTo(s), n \in 1..3 :
        /\ Digits(s, n)
        /\ \E X \in LettersFrom(s, d + 3), v \in OddUpTo(s) :
              WithoutLast(s, n) = Rep("j", d) \o Rep("=", 2) \o X \o Rep("v", v) \o <<Bar>> \o X \o X
  BY DEF PatternC
<1>2. PICK X \in LettersFrom(s, d + 3), v \in OddUpTo(s) :
              WithoutLast(s, n) = Rep("j", d) \o Rep("=", 2) \o X \o Rep("v", v) \o <<Bar>> \o X \o X
  BY <1>1
<1>3. d \in Nat /\ v \in Nat /\ n \in Nat /\ n <= Len(s) /\ Len(s) \in Nat
  BY <1>1, LenProperties DEF OddUpTo, Digits
<1>4. X \in Seq(Char)
  <2>1. d + 3 = d + 2 + 1 /\ d + 2 \in Nat
    BY <1>3
  <2> QED
    BY <2>1, LettersOf
<1>5. "j" \in S /\ "=" \in S /\ "v" \in S /\ Bar \in S
  BY Characters
<1>6. PICK C, E, F, B : C = Rep("j", d) /\ E = Rep("=", 2) /\ F = Rep("v", v) /\ B = <<Bar>>
  OBVIOUS
<1>7. C \in Seq(Char) /\ E \in Seq(Char) /\ F \in Seq(Char) /\ B \in Seq(Char)
  <2>1. C \in Seq(Char)
    BY <1>3, <1>6, RepOf, Characters
  <2>2. E \in Seq(Char)
    BY <1>3, <1>6, RepOf, Characters
  <2>3. F \in Seq(Char)
    BY <1>3, <1>6, RepOf, Characters
  <2>4. PICK e \in Char : e = Bar
    BY Characters
  <2>5. <<e>> \in Seq(Char)
    OBVIOUS
  <2> QED
    BY <1>6, <2>1, <2>2, <2>3, <2>4, <2>5
<1>8. Without(C, S) = <<>> /\ Without(E, S) = <<>> /\ Without(F, S) = <<>>
  BY <1>3, <1>5, <1>6, WithoutRep
<1>9. Without(B, S) = <<>>
  <2>1. B \in Seq({Bar}) /\ {Bar} \subseteq S
    BY <1>5, <1>6
  <2> QED
    BY <2>1, WithoutAll
<1>10. PICK y \in Seq(Char) : y = Without(X, S)
  <2>1. Without(X, S) \in Seq(Char \ S)
    BY <1>4, WithoutType
  <2>2. Seq(Char \ S) \subseteq Seq(Char)
    OBVIOUS
  <2> QED
    BY <2>1, <2>2
<1>11. PICK w \in Seq(Char) : w = WithoutLast(s, n)
  BY <1>3, LastOff
<1>12. PICK t \in Seq(Digit) : s = w \o t
  <2>1. PICK p \in Nat : p = Len(s) - n
    BY <1>3
  <2>2. PICK t : t = SubSeq(s, p + 1, p + n)
    OBVIOUS
  <2>3. t \in Seq(Char) /\ Len(t) = n /\ \A k \in 1..n : t[k] = s[p + k]
    <3>1. p + n <= Len(s) /\ n # 0 /\ n \in Nat
      BY <1>3, <2>1
    <3> QED
      BY ONLY s \in Seq(Char), p \in Nat, <2>2, <3>1, SubSeqOf
  <2>4. \A k \in 1..n : t[k] \in Digit
    <3> TAKE k \in 1..n
    <3>1. p + k \in Len(s) - n + 1..Len(s)
      BY <1>3, <2>1
    <3> QED
      BY <1>1, <2>3, <3>1 DEF Digits
  <2>5. t \in Seq(Digit)
    BY <2>3, <2>4
  <2>6. Len(w) = p /\ \A k \in 1..p : w[k] = s[k]
    BY <1>3, <1>11, <2>1, LastOff
  <2>7. Stands(s, 0, w) /\ Stands(s, Len(w), t) /\ Len(s) = Len(w) + Len(t)
    <3>1. \A k \in 1..p : 0 + k = k
      OBVIOUS
    <3> QED
      BY <1>3, <2>1, <2>3, <2>6, <3>1 DEF Stands
  <2>8. s = w \o t
    <3>1. s = w \o t <=> Len(s) = Len(w) + Len(t) /\ Stands(s, 0, w) /\ Stands(s, Len(w), t)
      BY ONLY <2>3, s \in Seq(Char), w \in Seq(Char), IsConcat
    <3> QED
      BY <2>7, <3>1
  <2> QED
    BY <2>5, <2>8
<1>13. Without(t, S) = <<>>
  <2>1. Digit \subseteq S
    BY Characters
  <2> QED
    BY <2>1, WithoutAll
<1>14. PICK ce \in Seq(Char) : ce = C \o E
  BY <1>7, ConcatLength
<1>15. PICK cex \in Seq(Char) : cex = ce \o X
  BY <1>4, ConcatLength
<1>16. PICK cexf \in Seq(Char) : cexf = cex \o F
  BY <1>7, ConcatLength
<1>17. PICK cexfb \in Seq(Char) : cexfb = cexf \o B
  BY <1>7, ConcatLength
<1>18. PICK cexfbx \in Seq(Char) : cexfbx = cexfb \o X
  BY <1>4, ConcatLength
<1>19. w = cexfbx \o X
  BY <1>2, <1>6, <1>11, <1>14, <1>15, <1>16, <1>17, <1>18
<1>20. \A u \in Seq(Char), z \in Seq(Char) : Without(z, S) = <<>> => Without(u \o z, S) = Without(u, S)
  BY WithoutTail
<1>21. Without(ce, S) = <<>>
  BY <1>7, <1>8, <1>14, <1>20
<1>22. Without(cex, S) = y
  <2>1. Without(cex, S) = Without(ce, S) \o Without(X, S)
    BY <1>4, <1>15, WithoutConcat
  <2>2. <<>> \o y = y
    BY ConcatEmptySeq
  <2> QED
    BY <1>10, <1>21, <2>1, <2>2
<1>23. Without(cexf, S) = y
  BY <1>7, <1>8, <1>16, <1>20, <1>22
<1>24. Without(cexfb, S) = y
  BY <1>7, <1>9, <1>17, <1>20, <1>23
<1>25. Without(cexfbx, S) = y \o y
  <2>1. Without(cexfbx, S) = Without(cexfb, S) \o Without(X, S)
    BY <1>4, <1>18, WithoutConcat
  <2> QED
    BY <1>10, <1>24, <2>1
<1>26. Without(w, S) = y \o y \o y
  <2>1. Without(w, S) = Without(cexfbx, S) \o Without(X, S)
    BY <1>4, <1>19, WithoutConcat
  <2> QED
    BY <1>10, <1>25, <2>1
<1>27. Without(s, S) = Without(w, S)
  <2>1. t \in Seq(Char)
    <3>1. Seq(Digit) \subseteq Seq(Char)
      BY Characters
    <3> QED
      BY <3>1
  <2> QED
    BY <1>12, <1>13, <1>20, <2>1
<1> QED
  BY <1>26, <1>27

\* g is what FlattenSeq puts together of every beginning of q.
Flattens(g, q) == g = [i \in 1..Len(q) |-> IF i = 1 THEN q[i] ELSE g[i - 1] \o q[i]]

LEMMA FlattensOne ==
    ASSUME NEW T, NEW q \in Seq(T), NEW y \in T, NEW g, Flattens(g, q), NEW h, Flattens(h, Append(q, y))
    PROVE  \A k \in 1..Len(q) : h[k] = g[k]
<1> DEFINE Q == {k \in Nat : k \in 1..Len(q) /\ h[k] # g[k]}
<1> SUFFICES ASSUME NEW k0 \in Q PROVE FALSE
  BY LenProperties
<1>1. PICK k \in Q : \A j \in Q : k <= j
  <2>1. Q \in SUBSET Nat
    OBVIOUS
  <2> HIDE DEF Q
  <2> QED
    BY <2>1, LeastOf
<1>2. Len(q) \in Nat /\ Len(Append(q, y)) = Len(q) + 1 /\ \A i \in 1..Len(q) : Append(q, y)[i] = q[i]
  BY LenProperties, AppendProperties
<1>3. k \in 1..Len(q) /\ k \in 1..Len(Append(q, y)) /\ Append(q, y)[k] = q[k]
  BY <1>1, <1>2
<1>4. h[k] = IF k = 1 THEN q[k] ELSE h[k - 1] \o q[k]
  BY <1>3 DEF Flattens
<1>5. g[k] = IF k = 1 THEN q[k] ELSE g[k - 1] \o q[k]
  BY <1>3 DEF Flattens
<1>6. CASE k = 1
  BY <1>1, <1>4, <1>5, <1>6
<1>7. CASE k # 1
  <2>1. k - 1 \in Nat /\ k - 1 \in 1..Len(q) /\ ~(k <= k - 1)
    BY <1>3, <1>7
  <2>2. h[k - 1] = g[k - 1]
    BY <1>1, <2>1
  <2> QED
    BY <1>1, <1>4, <1>5, <1>7, <2>2
<1> QED
  BY <1>6, <1>7

LEMMA FlattensMore ==
    ASSUME NEW T, NEW q \in Seq(T), NEW y \in T, NEW g, Flattens(g, q)
    PROVE  \E h : Flattens(h, Append(q, y))
<1>1. Len(q) \in Nat /\ Len(Append(q, y)) = Len(q) + 1 /\ \A i \in 1..Len(q) : Append(q, y)[i] = q[i]
  BY LenProperties, AppendProperties
<1>2. PICK r : r = Append(q, y)
  OBVIOUS
<1>3. PICK e : e = IF Len(q) + 1 = 1 THEN r[Len(q) + 1] ELSE g[Len(q)] \o r[Len(q) + 1]
  OBVIOUS
<1>4. PICK h : h = [k \in 1..Len(q) + 1 |-> IF k = Len(q) + 1 THEN e ELSE g[k]]
  OBVIOUS
<1>5. ASSUME NEW k \in 1..Len(q) + 1
      PROVE  h[k] = IF k = 1 THEN r[k] ELSE h[k - 1] \o r[k]
  <2>1. CASE k = Len(q) + 1
    <3>1. h[k] = e
      BY <1>4, <2>1
    <3>2. k # 1 => k - 1 \in 1..Len(q) + 1 /\ k - 1 # Len(q) + 1 /\ k - 1 = Len(q)
      BY <1>1, <2>1
    <3>3. k # 1 => h[k - 1] = g[Len(q)]
      BY <1>4, <3>2
    <3> QED
      BY <1>3, <2>1, <3>1, <3>3
  <2>2. CASE k # Len(q) + 1
    <3>1. k \in 1..Len(q) /\ h[k] = g[k]
      BY <1>1, <1>4, <2>2
    <3>2. g[k] = IF k = 1 THEN q[k] ELSE g[k - 1] \o q[k]
      BY <3>1 DEF Flattens
    <3>3. CASE k = 1
      BY <1>1, <1>2, <3>1, <3>2, <3>3
    <3>4. CASE k # 1
      <4>1. k - 1 \in 1..Len(q) + 1 /\ k - 1 # Len(q) + 1
        BY <1>1, <3>1, <3>4
      <4>2. h[k - 1] = g[k - 1] /\ r[k] = q[k]
        BY <1>1, <1>2, <1>4, <3>1, <4>1
      <4> QED
        BY <3>1, <3>2, <3>4, <4>2
    <3> QED
      BY <3>3, <3>4
  <2> QED
    BY <2>1, <2>2
<1>6. h = [k \in 1..Len(q) + 1 |-> IF k = 1 THEN r[k] ELSE h[k - 1] \o r[k]]
  BY <1>4, <1>5
<1> QED
  BY <1>1, <1>2, <1>6 DEF Flattens

LEMMA FlattensExist == ASSUME NEW T, NEW q \in Seq(T) PROVE \E g : Flattens(g, q)
<1> DEFINE Q == {t \in Seq(T) : \E g : Flattens(g, t)}
<1>1. <<>> \in Q
  <2>1. PICK z \in Seq(T) : z = <<>> /\ Len(z) = 0
    BY EmptySeq
  <2>2. PICK g : g = [i \in 1..0 |-> z]
    OBVIOUS
  <2>3. 1..Len(z) = {} /\ 1..0 = {}
    BY <2>1
  <2>4. g = [i \in 1..Len(z) |-> IF i = 1 THEN z[i] ELSE g[i - 1] \o z[i]]
    BY <2>2, <2>3
  <2>5. Flattens(g, z)
    BY <2>4 DEF Flattens
  <2> QED
    BY <2>1, <2>5
<1>2. ASSUME NEW t \in Seq(T), NEW x \in T, t \in Q PROVE Append(t, x) \in Q
  BY <1>2, FlattensMore, AppendProperties
<1> HIDE DEF Q
<1>3. Seq(T) \subseteq Q
  BY <1>1, <1>2, EverySeq
<1> QED
  BY <1>3 DEF Q

LEMMA FlattenAppend ==
    ASSUME NEW T, NEW q \in Seq(Seq(T)), NEW y \in Seq(T)
    PROVE  FlattenSeq(Append(q, y)) = FlattenSeq(q) \o y
<1>1. PICK r : r = Append(q, y)
  OBVIOUS
<1>2. PICK n \in Nat : n = Len(q)
  BY LenProperties
<1>3. r \in Seq(Seq(T)) /\ Len(r) = n + 1 /\ r[n + 1] = y
  BY <1>1, <1>2, AppendProperties
<1>4. PICK h : h = CHOOSE o : Flattens(o, r)
  OBVIOUS
<1>5. Flattens(h, r)
  BY <1>3, <1>4, FlattensExist
<1>6. FlattenSeq(r) = h[n + 1]
  <2>1. Len(r) # 0
    BY <1>3
  <2> QED
    BY <1>3, <1>4, <2>1 DEF FlattenSeq, Flattens
<1>7. h[n + 1] = IF n + 1 = 1 THEN y ELSE h[n] \o y
  <2>1. h = [k \in 1..n + 1 |-> IF k = 1 THEN r[k] ELSE h[k - 1] \o r[k]]
    BY <1>3, <1>5 DEF Flattens
  <2>2. PICK m \in 1..n + 1 : m = n + 1 /\ m - 1 = n
    OBVIOUS
  <2>3. h[m] = IF m = 1 THEN r[m] ELSE h[m - 1] \o r[m]
    BY <2>1
  <2> QED
    BY <1>3, <2>2, <2>3
<1>8. CASE n = 0
  <2>1. q = <<>> /\ FlattenSeq(q) = q
    BY <1>2, <1>8, EmptySeq DEF FlattenSeq
  <2>2. <<>> \o y = y
    BY ConcatEmptySeq
  <2> QED
    BY <1>1, <1>6, <1>7, <1>8, <2>1, <2>2
<1>9. CASE n # 0
  <2>1. PICK g : g = CHOOSE o : Flattens(o, q)
    OBVIOUS
  <2>2. Flattens(g, q)
    BY <2>1, FlattensExist
  <2>3. FlattenSeq(q) = g[n]
    BY <1>2, <1>9, <2>1 DEF FlattenSeq, Flattens
  <2>4. h[n] = g[n]
    <3>1. \A k \in 1..Len(q) : h[k] = g[k]
      BY <1>1, <1>5, <2>2, FlattensOne
    <3> QED
      BY <1>2, <1>9, <3>1
  <2>5. n + 1 # 1
    BY <1>9
  <2> QED
    BY <1>1, <1>6, <1>7, <2>3, <2>4, <2>5
<1> QED
  BY <1>8, <1>9

Places(c) == [k \in DOMAIN c |-> k]
Twins(c) == {k \in 2..Len(c) : c[k - 1] = "A"}
Kept(c) == Without(Places(c), Twins(c))

LEMMA KeptType == ASSUME NEW c \in Seq(Char) PROVE Places(c) \in Seq(1..Len(c)) /\ Kept(c) \in Seq(1..Len(c))
<1>1. PICK n \in Nat : n = Len(c) /\ DOMAIN c = 1..n
  BY LenProperties
<1>2. Places(c) \in Seq(1..n)
  BY <1>1 DEF Places
<1>3. Kept(c) \in Seq((1..n) \ Twins(c))
  BY <1>2, WithoutType DEF Kept
<1>4. Seq((1..n) \ Twins(c)) \subseteq Seq(1..n)
  OBVIOUS
<1> QED
  BY <1>1, <1>2, <1>3, <1>4

LEMMA UndoneIs ==
    ASSUME NEW c \in Seq(Char)
    PROVE  /\ Undone(2, c) \in Seq(Char) /\ Len(Undone(2, c)) = Len(Kept(c))
           /\ \A k \in 1..Len(Kept(c)) : Undone(2, c)[k] = c[Kept(c)[k]]
<1>1. PICK K \in Seq(1..Len(c)) : K = Kept(c)
  BY KeptType
<1>2. PICK n \in Nat : n = Len(K) /\ DOMAIN K = 1..n
  BY LenProperties
<1>3. Undone(2, c) = [k \in DOMAIN K |-> c[K[k]]]
  BY <1>1 DEF Undone, Kept, Places, Twins
<1>4. \A k \in 1..n : c[K[k]] \in Char
  <2>1. \A k \in 1..n : K[k] \in 1..Len(c)
    BY <1>2, ElementOfSeq
  <2> QED
    BY <2>1, ElementOfSeq
<1>5. PICK u : u = [k \in 1..n |-> c[K[k]]]
  OBVIOUS
<1>6. u \in Seq(Char) /\ Len(u) = n /\ \A k \in 1..n : u[k] = c[K[k]]
  BY <1>4, <1>5
<1> QED
  BY <1>1, <1>2, <1>3, <1>5, <1>6

LEMMA KeptAppend ==
    ASSUME NEW c \in Seq(Char), NEW x \in Char, NEW n \in Nat, n = Len(c)
    PROVE  Kept(Append(c, x)) = IF n # 0 /\ c[n] = "A" THEN Kept(c) ELSE Append(Kept(c), n + 1)
<1>1. DOMAIN c = 1..n
  BY LenProperties
<1>2. PICK y \in Seq(Char) : y = Append(c, x)
  BY AppendProperties
<1>3. Len(y) = n + 1 /\ DOMAIN y = 1..n + 1 /\ \A i \in 1..n : y[i] = c[i]
  BY <1>2, AppendProperties, LenProperties
<1>4. PICK p \in Seq(1..n) : p = Places(c) /\ Len(p) = n /\ \A k \in 1..n : p[k] = k
  <2>1. Places(c) = [k \in 1..n |-> k]
    BY <1>1 DEF Places
  <2> QED
    BY <2>1
<1>5. p \in Seq(1..n + 1) /\ n + 1 \in 1..n + 1
  <2>1. 1..n \subseteq 1..n + 1
    OBVIOUS
  <2>2. Seq(1..n) \subseteq Seq(1..n + 1)
    BY <2>1
  <2> QED
    BY <2>2
<1>6. Places(y) = Append(p, n + 1)
  <2>1. PICK q : q = Append(p, n + 1)
    OBVIOUS
  <2>2. q \in Seq(1..n + 1) /\ Len(q) = n + 1 /\ q[n + 1] = n + 1 /\ \A k \in 1..n : q[k] = p[k]
    BY <1>4, <1>5, <2>1, AppendProperties
  <2>3. \A k \in 1..n + 1 : q[k] = k
    <3> TAKE k \in 1..n + 1
    <3>1. CASE k = n + 1
      BY <2>2, <3>1
    <3>2. CASE k # n + 1
      <4>1. k \in 1..n
        BY <3>2
      <4> QED
        BY <1>4, <2>2, <4>1
    <3> QED
      BY <3>1, <3>2
  <2>4. PICK r : r = Places(y)
    OBVIOUS
  <2>5. r = [k \in 1..n + 1 |-> k]
    BY <1>3, <2>4 DEF Places
  <2>6. r \in Seq(1..n + 1) /\ Len(r) = n + 1 /\ \A k \in 1..n + 1 : r[k] = k
    BY <2>5
  <2>7. r = q
    BY <2>2, <2>3, <2>6, SeqEqual
  <2> QED
    BY <2>1, <2>4, <2>7
<1>7. Without(p, Twins(y)) = Without(p, Twins(c))
  <2>1. \A k \in 1..n : k \in Twins(y) <=> k \in Twins(c)
    <3> TAKE k \in 1..n
    <3>1. k \in 2..n + 1 <=> k \in 2..n
      OBVIOUS
    <3>2. k \in 2..n => k - 1 \in 1..n
      OBVIOUS
    <3> QED
      BY <1>3, <3>1, <3>2 DEF Twins
  <2>2. (1..n) \cap Twins(y) = (1..n) \cap Twins(c)
    BY <2>1
  <2> QED
    BY <2>2, WithoutSame
<1>8. n + 1 \in Twins(y) <=> n # 0 /\ c[n] = "A"
  <2>1. n + 1 \in 2..n + 1 <=> n # 0
    OBVIOUS
  <2>2. n # 0 => n \in 1..n /\ n + 1 - 1 = n
    OBVIOUS
  <2> QED
    BY <1>3, <2>1, <2>2 DEF Twins
<1>9. Without(Append(p, n + 1), Twins(y)) = IF n + 1 \in Twins(y) THEN Without(p, Twins(y)) ELSE Append(Without(p, Twins(y)), n + 1)
  <2>1. PICK T : T = 1..n + 1
    OBVIOUS
  <2>2. PICK z, W : z = n + 1 /\ W = Twins(y)
    OBVIOUS
  <2>3. p \in Seq(T) /\ z \in T
    BY <1>5, <2>1, <2>2
  <2>4. Without(Append(p, z), W) = IF z \in W THEN Without(p, W) ELSE Append(Without(p, W), z)
    BY ONLY <2>3, WithoutAppend
  <2> QED
    BY <2>2, <2>4
<1> QED
  BY <1>2, <1>4, <1>6, <1>7, <1>8, <1>9 DEF Kept

LEMMA UndoneAppend ==
    ASSUME NEW c \in Seq(Char), NEW x \in Char, NEW n \in Nat, n = Len(c)
    PROVE  Undone(2, Append(c, x)) = IF n # 0 /\ c[n] = "A" THEN Undone(2, c) ELSE Append(Undone(2, c), x)
<1>1. PICK y \in Seq(Char) : y = Append(c, x)
  BY AppendProperties
<1>2. Len(y) = n + 1 /\ y[n + 1] = x /\ \A i \in 1..n : y[i] = c[i]
  BY <1>1, AppendProperties
<1>3. PICK K \in Seq(1..n) : K = Kept(c)
  BY KeptType
<1>4. PICK L \in Seq(1..n + 1) : L = Kept(y)
  BY <1>2, KeptType
<1>5. PICK u \in Seq(Char) : u = Undone(2, c)
  BY UndoneIs
<1>6. PICK v \in Seq(Char) : v = Undone(2, y)
  BY UndoneIs
<1>7. PICK m \in Nat : m = Len(K) /\ Len(u) = m /\ \A k \in 1..m : u[k] = c[K[k]]
  <2>1. Len(K) \in Nat
    BY LenProperties
  <2>2. Len(u) = Len(K) /\ \A k \in 1..Len(K) : u[k] = c[K[k]]
    BY <1>3, <1>5, UndoneIs
  <2> QED
    BY <2>1, <2>2
<1>8. PICK l \in Nat : l = Len(L) /\ Len(v) = l /\ \A k \in 1..l : v[k] = y[L[k]]
  <2>1. Len(L) \in Nat
    BY LenProperties
  <2>2. Len(v) = Len(L) /\ \A k \in 1..Len(L) : v[k] = y[L[k]]
    BY <1>4, <1>6, UndoneIs
  <2> QED
    BY <2>1, <2>2
<1>9. \A k \in 1..m : K[k] \in 1..n
  BY <1>7, ElementOfSeq
<1>10. CASE n # 0 /\ c[n] = "A"
  <2>1. L = K
    BY <1>1, <1>3, <1>4, <1>10, KeptAppend
  <2>2. l = m /\ \A k \in 1..m : v[k] = u[k]
    BY <1>2, <1>7, <1>8, <1>9, <2>1
  <2>3. v = u
    BY <1>7, <1>8, <2>2, SeqEqual
  <2> QED
    BY <1>1, <1>5, <1>6, <1>10, <2>3
<1>11. CASE ~(n # 0 /\ c[n] = "A")
  <2>1. L = Append(K, n + 1)
    BY <1>1, <1>3, <1>4, <1>11, KeptAppend
  <2>2. l = m + 1 /\ L[m + 1] = n + 1 /\ \A k \in 1..m : L[k] = K[k]
    <3>1. Append(K, n + 1) \in Seq(Nat) /\ Len(Append(K, n + 1)) = Len(K) + 1
          /\ Append(K, n + 1)[Len(K) + 1] = n + 1 /\ \A k \in 1..Len(K) : Append(K, n + 1)[k] = K[k]
      <4>1. Seq(1..n) \subseteq Seq(Nat)
        OBVIOUS
      <4>2. K \in Seq(Nat) /\ n + 1 \in Nat
        BY <4>1
      <4> QED
        BY <4>2, AppendProperties
    <3> QED
      BY <1>7, <1>8, <2>1, <3>1
  <2>3. PICK w \in Seq(Char) : w = Append(u, x)
    BY AppendProperties
  <2>4. Len(w) = m + 1 /\ w[m + 1] = x /\ \A k \in 1..m : w[k] = u[k]
    BY <1>7, <2>3, AppendProperties
  <2>5. \A k \in 1..m + 1 : v[k] = w[k]
    <3> TAKE k \in 1..m + 1
    <3>1. CASE k = m + 1
      BY <1>2, <1>8, <2>2, <2>4, <3>1
    <3>2. CASE k # m + 1
      <4>1. k \in 1..m /\ k \in 1..l
        BY <2>2, <3>2
      <4>2. v[k] = y[K[k]] /\ w[k] = c[K[k]]
        BY <1>7, <1>8, <2>2, <2>4, <4>1
      <4> QED
        BY <1>2, <1>9, <4>1, <4>2
    <3> QED
      BY <3>1, <3>2
  <2>6. v = w
    BY <1>8, <2>2, <2>4, <2>5, SeqEqual
  <2> QED
    BY <1>1, <1>5, <1>6, <1>11, <2>3, <2>6
<1> QED
  BY <1>10, <1>11

Doubled(s) == [k \in DOMAIN s |-> IF s[k] = "A" THEN <<"A", "C">> ELSE <<s[k]>>]

LEMMA DoubledAppend ==
    ASSUME NEW s \in Seq(Char), NEW x \in Char
    PROVE  /\ Doubled(s) \in Seq(Seq(Char))
           /\ Doubled(Append(s, x)) = Append(Doubled(s), IF x = "A" THEN <<"A", "C">> ELSE <<x>>)
<1>1. PICK n \in Nat : n = Len(s) /\ DOMAIN s = 1..n
  BY LenProperties
<1>2. "A" \in Char /\ "C" \in Char
  BY DEF Char, Upper
<1>3. PICK AC \in Seq(Char) : AC = <<"A", "C">>
  <2>1. PICK e, f \in Char : e = "A" /\ f = "C"
    BY <1>2
  <2>2. <<e, f>> \in Seq(Char)
    OBVIOUS
  <2> QED
    BY <2>1, <2>2
<1>4. PICK p : p = Doubled(s)
  OBVIOUS
<1>5. p = [k \in 1..n |-> IF s[k] = "A" THEN AC ELSE <<s[k]>>]
  BY <1>1, <1>3, <1>4 DEF Doubled
<1>6. p \in Seq(Seq(Char)) /\ Len(p) = n
  <2>1. \A k \in 1..n : s[k] \in Char
    BY <1>1, ElementOfSeq
  <2>2. \A e \in Char : <<e>> \in Seq(Char)
    OBVIOUS
  <2>3. \A k \in 1..n : (IF s[k] = "A" THEN AC ELSE <<s[k]>>) \in Seq(Char)
    BY <2>1, <2>2
  <2> QED
    BY <1>5, <2>3
<1>7. PICK y \in Seq(Char) : y = Append(s, x)
  BY AppendProperties
<1>8. DOMAIN y = 1..n + 1 /\ y[n + 1] = x /\ \A i \in 1..n : y[i] = s[i]
  BY <1>1, <1>7, AppendProperties, LenProperties
<1>9. PICK e \in Seq(Char) : e = IF x = "A" THEN AC ELSE <<x>>
  <2>1. <<x>> \in Seq(Char)
    OBVIOUS
  <2> QED
    BY <2>1
<1>10. PICK q : q = Append(p, e)
  OBVIOUS
<1>11. q \in Seq(Seq(Char)) /\ Len(q) = n + 1 /\ q[n + 1] = e /\ \A k \in 1..n : q[k] = p[k]
  BY <1>6, <1>10, AppendProperties
<1>12. PICK r : r = Doubled(y)
  OBVIOUS
<1>13. r = [k \in 1..n + 1 |-> IF y[k] = "A" THEN AC ELSE <<y[k]>>]
  BY <1>3, <1>8, <1>12 DEF Doubled
<1>14. \A k \in 1..n + 1 : r[k] = q[k]
  <2> TAKE k \in 1..n + 1
  <2>1. CASE k = n + 1
    BY <1>8, <1>9, <1>11, <1>13, <2>1
  <2>2. CASE k # n + 1
    <3>1. k \in 1..n
      BY <2>2
    <3>2. r[k] = IF s[k] = "A" THEN AC ELSE <<s[k]>>
      BY <1>8, <1>13, <3>1
    <3>3. q[k] = IF s[k] = "A" THEN AC ELSE <<s[k]>>
      BY <1>5, <1>11, <3>1
    <3> QED
      BY <3>2, <3>3
  <2> QED
    BY <2>1, <2>2
<1>15. r = q
  <2>1. DOMAIN q = 1..n + 1
    BY <1>11, LenProperties
  <2>2. q = [k \in 1..n + 1 |-> q[k]]
    BY <1>11, <2>1
  <2> QED
    BY <1>13, <1>14, <2>2
<1> QED
  BY <1>3, <1>4, <1>6, <1>7, <1>9, <1>10, <1>12, <1>15

\* A C behind an A tells nothing but that there is one, and it never ends in A.
LEMMA DoublingUndone ==
    \A s \in Seq(Char) : converted(2, s) \in Seq(Char) /\ Undone(2, converted(2, s)) = s
<1> DEFINE Q == {t \in Seq(Char) : LET c == FlattenSeq(Doubled(t))
                                  IN  /\ c \in Seq(Char) /\ Undone(2, c) = t
                                      /\ Len(c) # 0 => c[Len(c)] # "A"}
<1>1. <<>> \in Q
  <2>1. PICK z \in Seq(Char) : z = <<>> /\ Len(z) = 0 /\ DOMAIN z = {}
    <3>1. DOMAIN <<>> = {} /\ <<>> \in Seq(Char) /\ Len(<<>>) = 0
      BY EmptySeq
    <3> QED
      BY <3>1
  <2>2. Doubled(z) = z
    <3>1. Doubled(z) = [k \in {} |-> z]
      BY <2>1 DEF Doubled
    <3>2. z = [k \in {} |-> z]
      BY <2>1
    <3> QED
      BY <3>1, <3>2
  <2>3. FlattenSeq(z) = z
    BY <2>1 DEF FlattenSeq
  <2>4. Undone(2, z) = z
    <3>1. Places(z) = z
      <4>1. Places(z) = [k \in {} |-> k]
        BY <2>1 DEF Places
      <4>2. z = [k \in {} |-> k]
        BY <2>1
      <4> QED
        BY <4>1, <4>2
    <3>2. Kept(z) = z
      BY <2>1, <3>1, WithoutEmpty DEF Kept
    <3>3. Undone(2, z) \in Seq(Char) /\ Len(Undone(2, z)) = 0
      BY <2>1, <3>2, UndoneIs
    <3> QED
      BY <2>1, <3>3, EmptySeq
  <2> QED
    BY <2>1, <2>2, <2>3, <2>4
<1>2. ASSUME NEW t \in Seq(Char), NEW x \in Char, t \in Q PROVE Append(t, x) \in Q
  <2>1. PICK c \in Seq(Char) : c = FlattenSeq(Doubled(t)) /\ Undone(2, c) = t /\ (Len(c) # 0 => c[Len(c)] # "A")
    BY <1>2
  <2>2. PICK n \in Nat : n = Len(c)
    BY LenProperties
  <2>3. ~(n # 0 /\ c[n] = "A")
    BY <2>1, <2>2
  <2>4. Undone(2, Append(c, x)) = Append(t, x)
    BY <2>1, <2>2, <2>3, UndoneAppend
  <2>5. PICK y \in Seq(Char) : y = Append(c, x)
    BY AppendProperties
  <2>6. Len(y) = n + 1 /\ y[n + 1] = x
    BY <2>2, <2>5, AppendProperties
  <2>7. y = c \o <<x>>
    BY <2>5, AppendIsConcat
  <2>8. CASE x # "A"
    <3>1. <<x>> \in Seq(Char)
      OBVIOUS
    <3>2. PICK e \in Seq(Char) : e = <<x>>
      BY <3>1
    <3>3. FlattenSeq(Doubled(Append(t, x))) = FlattenSeq(Append(Doubled(t), e)) /\ Doubled(t) \in Seq(Seq(Char))
      BY <2>8, <3>2, DoubledAppend
    <3>4. FlattenSeq(Doubled(Append(t, x))) = y
      BY <2>1, <2>7, <3>2, <3>3, FlattenAppend
    <3> QED
      BY <2>4, <2>5, <2>6, <2>8, <3>4, AppendProperties
  <2>9. CASE x = "A"
    <3>1. PICK g \in Char : g = "C" /\ g # "A"
      BY DEF Char, Upper
    <3>2. PICK e \in Seq(Char) : e = <<x, g>>
      <4>1. <<x, g>> \in Seq(Char)
        OBVIOUS
      <4> QED
        BY <4>1
    <3>3. FlattenSeq(Doubled(Append(t, x))) = FlattenSeq(Append(Doubled(t), e)) /\ Doubled(t) \in Seq(Seq(Char))
      BY <2>9, <3>1, <3>2, DoubledAppend
    <3>4. FlattenSeq(Doubled(Append(t, x))) = c \o e
      BY <2>1, <3>3, FlattenAppend
    <3>5. PICK z \in Seq(Char) : z = Append(y, g)
      BY AppendProperties
    <3>6. c \o e = z
      <4>1. PICK u \in Seq(Char) : u = <<x>>
        <5>1. <<x>> \in Seq(Char)
          OBVIOUS
        <5> QED
          BY <5>1
      <4>2. e = Append(u, g)
        BY <3>2, <4>1
      <4>3. c \o Append(u, g) = Append(c \o u, g)
        BY ConcatAppend
      <4> QED
        BY <2>7, <3>5, <4>1, <4>2, <4>3
    <3>7. Len(z) = n + 2 /\ z[n + 2] = g
      BY <2>6, <3>5, AppendProperties
    <3>8. Undone(2, z) = Append(t, x)
      <4>1. PICK m \in Nat : m = n + 1 /\ m = Len(y) /\ m # 0 /\ y[m] = "A"
        BY <2>6, <2>9
      <4>2. Undone(2, Append(y, g)) = Undone(2, y)
        BY <4>1, UndoneAppend
      <4> QED
        BY <2>4, <2>5, <3>5, <4>2
    <3> QED
      BY <3>1, <3>4, <3>6, <3>7, <3>8, AppendProperties
  <2> QED
    BY <2>8, <2>9
<1> HIDE DEF Q
<1>3. Seq(Char) \subseteq Q
  BY <1>1, <1>2, EverySeq
<1>4. \A s : converted(2, s) = FlattenSeq(Doubled(s))
  BY DEF converted, Doubled
<1> QED
  BY <1>3, <1>4 DEF Q

\* Without its E and G a match of mode c still has its text, and its letters
\* still stand three times.
LEMMA ShorteningKeeps ==
    ASSUME NEW s \in Seq(Char), PatternC(s), NEW c, c = converted(3, s)
    PROVE  Shortened(c)[1] = Shortened(s)[1] /\ Shortened(c)[3] /\ ToSet(c) \cap {"E", "G"} = {}
<1>1. c = Without(s, {"E", "G"})
  BY DEF converted
<1>2. c \in Seq(Char \ {"E", "G"})
  BY <1>1, WithoutType
<1>3. {"E", "G"} \cup Upper = Upper
  BY Characters
<1>4. Without(c, Upper) = Without(s, Upper)
  <2>1. PICK E : E = {"E", "G"}
    OBVIOUS
  <2>2. Without(Without(s, E), Upper) = Without(s, E \cup Upper)
    BY WithoutBoth
  <2> QED
    BY <1>1, <1>3, <2>1, <2>2
<1>5. PICK w : w = Without(c, Char \ Upper)
  OBVIOUS
<1>6. w = Without(s, {"E", "G"} \cup (Char \ Upper))
  <2>1. PICK E, R : E = {"E", "G"} /\ R = Char \ Upper
    OBVIOUS
  <2>2. Without(Without(s, E), R) = Without(s, E \cup R)
    BY WithoutBoth
  <2> QED
    BY <1>1, <1>5, <2>1, <2>2
<1>7. PICK y \in Seq(Char) : w = y \o y \o y
  <2>1. Char \ Upper \subseteq {"E", "G"} \cup (Char \ Upper)
    OBVIOUS
  <2> QED
    BY <1>6, <2>1, LettersLeft
<1>8. Len(w) % 3 = 0 /\ \A k \in 1..Len(w) \div 3 : w[k] = w[Len(w) \div 3 + k] /\ w[k] = w[2 * (Len(w) \div 3) + k]
  BY <1>7, ThreeTimes
<1>9. Shortened(c)[3]
  BY <1>5, <1>8 DEF Shortened
<1>10. Shortened(c)[1] = Without(c, Upper) /\ Shortened(s)[1] = Without(s, Upper)
  BY DEF Shortened
<1>11. ToSet(c) \cap {"E", "G"} = {}
  <2>1. PICK n \in Nat : DOMAIN c = 1..n /\ n = Len(c)
    BY <1>2, LenProperties
  <2>2. \A k \in 1..n : c[k] \in Char \ {"E", "G"}
    BY <1>2, <2>1, ElementOfSeq
  <2> QED
    BY <2>1, <2>2 DEF ToSet
<1> QED
  BY <1>4, <1>9, <1>10, <1>11

-----------------------------------------------------------------------------
(* The command line, one argument after the other. *)

LEMMA FlagIs == \A x \in Seq(Char) : IsFlag(x) <=> x \in {<<"-", c>> : c \in Char}
<1> TAKE x \in Seq(Char)
<1>1. ASSUME IsFlag(x) PROVE x \in {<<"-", c>> : c \in Char}
  <2>1. Len(x) = 2 /\ x[1] = "-"
    <3>1. Len(x) = 2 /\ At(x, 0) = "-"
      BY <1>1 DEF IsFlag
    <3>2. 0 < Len(x) /\ 0 + 1 = 1
      BY <3>1
    <3> QED
      BY <3>1, <3>2 DEF At
  <2>a. 1 \in 1..Len(x) /\ 2 \in 1..Len(x)
    BY <2>1
  <2>b. x[1] \in Char /\ x[2] \in Char
    BY ONLY x \in Seq(Char), <2>a, ElementOfSeq
  <2>2. PICK c \in Char : c = x[2]
    BY <2>b
  <2>3. PICK h \in Char : h = "-" /\ h = x[1]
    BY <2>1, <2>b
  <2>4. PICK y : y = <<h, c>>
    OBVIOUS
  <2>5. y \in Seq(Char) /\ Len(y) = 2 /\ y[1] = h /\ y[2] = c
    BY <2>4
  <2>6. \A k \in 1..2 : x[k] = y[k]
    BY <2>2, <2>3, <2>5
  <2>7. x = y
    BY <2>1, <2>5, <2>6, SeqEqual
  <2> QED
    BY <2>3, <2>4, <2>7
<1>2. ASSUME NEW c \in Char, x = <<"-", c>> PROVE IsFlag(x)
  BY <1>2 DEF IsFlag, At
<1> QED
  BY <1>1, <1>2

LEMMA StringsAppend ==
    ASSUME NEW L \in Seq(Seq(Char)), NEW x \in Seq(Char)
    PROVE  StringsOf(Append(L, x)) = IF IsFlag(x) THEN StringsOf(L) ELSE Append(StringsOf(L), x)
<1>1. PICK F : F = {<<"-", c>> : c \in Char}
  OBVIOUS
<1>2. PICK T : T = Seq(Char)
  OBVIOUS
<1>3. L \in Seq(T) /\ x \in T
  BY <1>2
<1>4. Without(Append(L, x), F) = IF x \in F THEN Without(L, F) ELSE Append(Without(L, F), x)
  BY ONLY <1>3, WithoutAppend
<1>5. IsFlag(x) <=> x \in F
  BY <1>1, FlagIs
<1> QED
  BY <1>1, <1>4, <1>5 DEF StringsOf

LEMMA StringsType == \A L \in Seq(Seq(Char)) : StringsOf(L) \in Seq(Seq(Char))
<1> TAKE L \in Seq(Seq(Char))
<1>1. PICK F : F = {<<"-", c>> : c \in Char}
  OBVIOUS
<1>2. Without(L, F) \in Seq(Seq(Char) \ F)
  BY WithoutType
<1>3. Seq(Seq(Char) \ F) \subseteq Seq(Seq(Char))
  OBVIOUS
<1> QED
  BY <1>1, <1>2, <1>3 DEF StringsOf

LEMMA ConvertsAppend ==
    ASSUME NEW L \in Seq(Seq(Char)), NEW x \in Seq(Char)
    PROVE  Converts(Append(L, x)) <=> Converts(L) \/ (IsFlag(x) /\ x[2] = "t")
<1>1. PICK n \in Nat : n = Len(L) /\ DOMAIN L = 1..n
  BY LenProperties
<1>2. PICK y \in Seq(Seq(Char)) : y = Append(L, x)
  BY AppendProperties
<1>3. DOMAIN y = 1..n + 1 /\ y[n + 1] = x /\ \A k \in 1..n : y[k] = L[k]
  BY <1>1, <1>2, AppendProperties, LenProperties
<1>4. PICK f : f = <<"-", "t">>
  OBVIOUS
<1>5. x = f <=> IsFlag(x) /\ x[2] = "t"
  <2>1. ASSUME IsFlag(x), x[2] = "t" PROVE x = f
    <3>1. PICK c \in Char : x = <<"-", c>>
      BY <2>1, FlagIs
    <3>2. c = "t"
      BY <2>1, <3>1
    <3> QED
      BY <1>4, <3>1, <3>2
  <2>2. ASSUME x = f PROVE IsFlag(x) /\ x[2] = "t"
    <3>1. "t" \in Char
      BY DEF Char, Small
    <3>2. IsFlag(x)
      BY <1>4, <2>2, <3>1, FlagIs
    <3> QED
      BY <1>4, <2>2, <3>2
  <2> QED
    BY <2>1, <2>2
<1>6. f \in ToSet(y) <=> f \in ToSet(L) \/ x = f
  <2>1. f \in ToSet(L) <=> \E k \in 1..n : L[k] = f
    BY <1>1 DEF ToSet
  <2>2. f \in ToSet(y) <=> \E k \in 1..n + 1 : y[k] = f
    BY <1>3 DEF ToSet
  <2>3. \A k \in 1..n + 1 : k \in 1..n \/ k = n + 1
    OBVIOUS
  <2>4. \A k \in 1..n : k \in 1..n + 1
    OBVIOUS
  <2> QED
    BY <1>3, <2>1, <2>2, <2>3, <2>4
<1> QED
  BY <1>2, <1>4, <1>5, <1>6 DEF Converts

\* Where a mode is named.
Named(L) == {k \in DOMAIN L : IsFlag(L[k]) /\ L[k][2] \in ToSet(Modes)}

LEMMA ModesAre ==
    /\ DOMAIN Modes = 1..3 /\ Modes[1] = "a" /\ Modes[2] = "b" /\ Modes[3] = "c"
    /\ ToSet(Modes) = {"a", "b", "c"}
<1>1. DOMAIN Modes = 1..3 /\ Modes[1] = "a" /\ Modes[2] = "b" /\ Modes[3] = "c"
  BY DEF Modes
<1>2. \A k \in 1..3 : k = 1 \/ k = 2 \/ k = 3
  OBVIOUS
<1>3. ToSet(Modes) = {Modes[k] : k \in 1..3}
  BY <1>1 DEF ToSet
<1> QED
  BY <1>1, <1>2, <1>3

LEMMA LastNamed ==
    ASSUME NEW L \in Seq(Seq(Char)), Named(L) # {}
    PROVE  Max(Named(L)) \in Named(L)
<1>1. PICK n \in Nat : n = Len(L) /\ DOMAIN L = 1..n
  BY LenProperties
<1>2. PICK N : N = Named(L) /\ N \in SUBSET (1..n)
  BY <1>1 DEF Named
<1>3. PICK R : R = {n - k : k \in N}
  OBVIOUS
<1>4. PICK r \in R : \A o \in R : r <= o
  <2>1. R \in SUBSET Nat /\ R # {}
    BY <1>2, <1>3
  <2> QED
    BY <2>1, LeastOf
<1>5. PICK k \in N : r = n - k
  BY <1>3
<1>6. \A o \in N : k >= o
  <2> TAKE o \in N
  <2>1. n - o \in R
    BY <1>3
  <2>2. r <= n - o
    BY <1>4, <2>1
  <2> QED
    BY <1>2, <1>5, <2>2
<1>7. Max(N) \in N
  BY <1>5, <1>6 DEF Max
<1> QED
  BY <1>2, <1>7

\* What mode a letter names.
ModeNamed(c) == CHOOSE m \in DOMAIN Modes : Modes[m] = c

LEMMA ModeNamedIs == ModeNamed("a") = 1 /\ ModeNamed("b") = 2 /\ ModeNamed("c") = 3
BY ModesAre DEF ModeNamed

LEMMA ModeOfIs ==
    ASSUME NEW L \in Seq(Seq(Char))
    PROVE  /\ ModeOf(L) = IF Named(L) = {} THEN 1 ELSE ModeNamed(L[Max(Named(L))][2])
           /\ ModeOf(L) \in 1..3
<1>1. ModeOf(L) = IF Named(L) = {} THEN 1 ELSE ModeNamed(L[Max(Named(L))][2])
  BY DEF ModeOf, Named, ModeNamed
<1>2. CASE Named(L) = {}
  BY <1>1, <1>2
<1>3. CASE Named(L) # {}
  <2>1. L[Max(Named(L))][2] \in {"a", "b", "c"}
    BY <1>3, LastNamed, ModesAre DEF Named
  <2>2. ModeNamed(L[Max(Named(L))][2]) \in 1..3
    BY <2>1, ModeNamedIs
  <2> QED
    BY <1>1, <1>3, <2>2
<1> QED
  BY <1>2, <1>3

LEMMA ModeAppend ==
    ASSUME NEW L \in Seq(Seq(Char)), NEW x \in Seq(Char)
    PROVE  ModeOf(Append(L, x)) = IF IsFlag(x) /\ x[2] \in {"a", "b", "c"} THEN ModeNamed(x[2]) ELSE ModeOf(L)
<1>1. PICK n \in Nat : n = Len(L) /\ DOMAIN L = 1..n
  BY LenProperties
<1>2. PICK y \in Seq(Seq(Char)) : y = Append(L, x)
  BY AppendProperties
<1>3. DOMAIN y = 1..n + 1 /\ y[n + 1] = x /\ \A k \in 1..n : y[k] = L[k]
  BY <1>1, <1>2, AppendProperties, LenProperties
<1>4. \A k \in 1..n : k \in Named(y) <=> k \in Named(L)
  BY <1>1, <1>3 DEF Named
<1>5. n + 1 \in Named(y) <=> IsFlag(x) /\ x[2] \in {"a", "b", "c"}
  BY <1>3, ModesAre DEF Named
<1>6. Named(y) \in SUBSET (1..n + 1) /\ Named(L) \in SUBSET (1..n)
  BY <1>1, <1>3 DEF Named
<1>7. CASE IsFlag(x) /\ x[2] \in {"a", "b", "c"}
  <2>1. n + 1 \in Named(y)
    BY <1>5, <1>7
  <2>2. Max(Named(y)) = n + 1
    <3>1. \A k \in Named(y) : n + 1 >= k
      BY <1>6
    <3>2. PICK m : m = Max(Named(y))
      OBVIOUS
    <3>3. m \in Named(y) /\ m >= n + 1
      BY <2>1, <3>1, <3>2 DEF Max
    <3> QED
      BY <1>6, <3>1, <3>2, <3>3
  <2>3. ModeOf(y) = ModeNamed(y[n + 1][2])
    BY <2>1, <2>2, ModeOfIs
  <2> QED
    BY <1>2, <1>3, <1>7, <2>3
<1>8. CASE ~(IsFlag(x) /\ x[2] \in {"a", "b", "c"})
  <2>1. Named(y) = Named(L)
    <3>1. n + 1 \notin Named(y)
      BY <1>5, <1>8
    <3>2. \A k \in 1..n + 1 : k \in 1..n \/ k = n + 1
      OBVIOUS
    <3> QED
      BY <1>4, <1>6, <3>1, <3>2
  <2>2. Named(L) # {} => y[Max(Named(L))] = L[Max(Named(L))]
    BY <1>3, <1>6, LastNamed
  <2>3. ModeOf(y) = IF Named(y) = {} THEN 1 ELSE ModeNamed(y[Max(Named(y))][2])
    BY ModeOfIs
  <2>4. ModeOf(L) = IF Named(L) = {} THEN 1 ELSE ModeNamed(L[Max(Named(L))][2])
    BY ModeOfIs
  <2>5. ModeOf(y) = ModeOf(L)
    BY <2>1, <2>2, <2>3, <2>4
  <2> QED
    BY <1>2, <1>8, <2>5
<1> QED
  BY <1>7, <1>8

\* The matches among some strings, in their order, as the code finds them.
Matched(m, s) == Without(s, {x \in Seq(Char) : ~matches(m, x)})
Lines(m) == {converted(m, x) : x \in Seq(Char)} \cup {Yes, No}

\* What is printed when the first j strings of s were judged.
Told(p, m, t, j, s) ==
    /\ p \in Seq(Lines(m))
    /\ t => LET M == Matched(m, SubSeq(s, 1, j))
            IN  Len(p) = Len(M) /\ \A k \in 1..Len(M) : p[k] = converted(m, M[k])
    /\ ~t => Len(p) = j /\ \A k \in 1..j : p[k] = IF matches(m, s[k]) THEN Yes ELSE No

Seen == SubSeq(argv, 1, argi)
MatcherIInv ==
    /\ argv \in Argv /\ argi \in 0..Len(argv)
    /\ str = StringsOf(Seen) /\ mode = ModeOf(Seen)
    /\ tMode \in BOOLEAN /\ (tMode <=> Converts(Seen))
    /\ strj \in 0..Len(str) /\ (strj # 0 => argi = Len(argv))
    /\ Told(printed, mode, tMode, strj, str)

LEMMA NothingTold == ASSUME NEW m, NEW t, NEW s PROVE \A p : Told(p, m, t, 0, s) <=> p = <<>>
<1>1. PICK z : z = SubSeq(s, 1, 0)
  OBVIOUS
<1>2. z = <<>>
  BY <1>1, SubSeqEmpty
<1>3. Matched(m, z) = <<>>
  BY <1>2, WithoutEmpty DEF Matched
<1>4. ASSUME NEW p, Told(p, m, t, 0, s) PROVE p = <<>>
  <2>1. p \in Seq(Lines(m))
    BY <1>4 DEF Told
  <2>2. Len(p) = 0
    <3>1. CASE t
      <4>1. Len(p) = Len(Matched(m, z))
        BY <1>1, <1>4, <3>1 DEF Told
      <4> QED
        BY <1>3, <4>1, EmptySeq
    <3>2. CASE ~t
      BY <1>4, <3>2 DEF Told
    <3> QED
      BY <3>1, <3>2
  <2> QED
    BY <2>1, <2>2, EmptySeq
<1>5. ASSUME NEW p, p = <<>> PROVE Told(p, m, t, 0, s)
  <2>1. p \in Seq(Lines(m)) /\ Len(p) = 0
    BY <1>5, EmptySeq
  <2>2. Len(Matched(m, SubSeq(s, 1, 0))) = 0
    BY <1>1, <1>3, EmptySeq
  <2>3. \A k \in 1..0 : FALSE
    OBVIOUS
  <2> QED
    BY <2>1, <2>2, <2>3 DEF Told
<1> QED
  BY <1>4, <1>5

\* A beginning with one more element.
LEMMA OneMore ==
    ASSUME NEW T, NEW s \in Seq(T), NEW j \in Nat, j < Len(s)
    PROVE  /\ SubSeq(s, 1, j) \in Seq(T) /\ s[j + 1] \in T
           /\ SubSeq(s, 1, j + 1) = Append(SubSeq(s, 1, j), s[j + 1])
<1>1. PICK n \in Nat : n = Len(s)
  BY LenProperties
<1>2. PICK m \in Nat : m = j + 1 /\ m \in 1..n
  BY <1>1
<1>3. \A i \in 1..n : s[i] \in T
  BY <1>1, ElementOfSeq
<1>4. PICK a, b : a = SubSeq(s, 1, j) /\ b = SubSeq(s, 1, m)
  OBVIOUS
<1>5. a \in Seq(T) /\ Len(a) = j /\ \A i \in 1..j : a[i] = s[i]
  <2>1. \A i \in 1..j : s[i] \in T
    BY <1>2, <1>3
  <2> QED
    BY <1>4, <2>1, SubSeqProperties
<1>6. b \in Seq(T) /\ Len(b) = m /\ \A i \in 1..m : b[i] = s[i]
  <2>1. \A i \in 1..m : s[i] \in T
    BY <1>2, <1>3
  <2> QED
    BY <1>4, <2>1, SubSeqProperties
<1>7. PICK c : c = Append(a, s[m])
  OBVIOUS
<1>8. c \in Seq(T) /\ Len(c) = m /\ c[m] = s[m] /\ \A i \in 1..j : c[i] = a[i]
  <2>1. s[m] \in T
    BY <1>2, <1>3
  <2> QED
    BY <1>2, <1>5, <1>7, <2>1, AppendProperties
<1>9. \A i \in 1..m : b[i] = c[i]
  <2> TAKE i \in 1..m
  <2>1. i = m \/ i \in 1..j
    BY <1>2
  <2> QED
    BY <1>5, <1>6, <1>8, <2>1
<1>10. b = c
  BY <1>6, <1>8, <1>9, SeqEqual
<1> QED
  BY <1>2, <1>3, <1>4, <1>5, <1>7, <1>10

LEMMA MatchedOneMore ==
    ASSUME NEW s \in Seq(Seq(Char)), NEW j \in Nat, j < Len(s), NEW m
    PROVE  /\ Matched(m, SubSeq(s, 1, j)) \in Seq(Seq(Char))
           /\ Matched(m, SubSeq(s, 1, j + 1)) =
                 IF matches(m, s[j + 1]) THEN Append(Matched(m, SubSeq(s, 1, j)), s[j + 1]) ELSE Matched(m, SubSeq(s, 1, j))
<1>1. PICK S : S = {x \in Seq(Char) : ~matches(m, x)}
  OBVIOUS
<1>2. PICK T : T = Seq(Char)
  OBVIOUS
<1>3. PICK a \in Seq(T) : a = SubSeq(s, 1, j)
  BY <1>2, OneMore
<1>4. PICK x \in T : x = s[j + 1]
  BY <1>2, OneMore
<1>5. SubSeq(s, 1, j + 1) = Append(a, x)
  BY <1>2, <1>3, <1>4, OneMore
<1>6. Without(Append(a, x), S) = IF x \in S THEN Without(a, S) ELSE Append(Without(a, S), x)
  BY ONLY a \in Seq(T), x \in T, WithoutAppend
<1>7. Without(a, S) \in Seq(T)
  <2>1. Without(a, S) \in Seq(T \ S)
    BY WithoutType
  <2>2. Seq(T \ S) \subseteq Seq(T)
    OBVIOUS
  <2> QED
    BY <2>1, <2>2
<1>8. x \in S <=> ~matches(m, x)
  BY <1>1, <1>2
<1> QED
  BY <1>1, <1>2, <1>3, <1>4, <1>5, <1>6, <1>7, <1>8 DEF Matched

LEMMA ToldMore ==
    ASSUME NEW s \in Seq(Seq(Char)), NEW j \in Nat, j < Len(s), NEW m, NEW t \in BOOLEAN, NEW p, Told(p, m, t, j, s), NEW q,
           matches(m, s[j + 1]) /\ t => q = Append(p, converted(m, s[j + 1])),
           matches(m, s[j + 1]) /\ ~t => q = Append(p, Yes),
           ~matches(m, s[j + 1]) /\ t => q = p,
           ~matches(m, s[j + 1]) /\ ~t => q = Append(p, No)
    PROVE  Told(q, m, t, j + 1, s)
<1>1. p \in Seq(Lines(m))
  BY DEF Told
<1>2. PICK x \in Seq(Char) : x = s[j + 1]
  BY OneMore
<1>3. converted(m, x) \in Lines(m) /\ Yes \in Lines(m) /\ No \in Lines(m)
  BY DEF Lines
<1>4. PICK M : M = Matched(m, SubSeq(s, 1, j)) /\ M \in Seq(Seq(Char))
  BY MatchedOneMore
<1>5. Matched(m, SubSeq(s, 1, j + 1)) = IF matches(m, x) THEN Append(M, x) ELSE M
  BY <1>2, <1>4, MatchedOneMore
<1>6. CASE t
  <2>1. Len(p) = Len(M) /\ \A k \in 1..Len(M) : p[k] = converted(m, M[k])
    BY <1>4, <1>6 DEF Told
  <2>2. CASE matches(m, x)
    <3>1. PICK n \in Nat : n = Len(M)
      BY <1>4, LenProperties
    <3>2. q = Append(p, converted(m, x))
      BY <1>2, <1>6, <2>2
    <3>3. q \in Seq(Lines(m)) /\ Len(q) = n + 1 /\ q[n + 1] = converted(m, x) /\ \A k \in 1..n : q[k] = p[k]
      BY <1>1, <1>3, <2>1, <3>1, <3>2, AppendProperties
    <3>4. PICK K : K = Append(M, x)
      OBVIOUS
    <3>5. Len(K) = n + 1 /\ K[n + 1] = x /\ \A k \in 1..n : K[k] = M[k]
      BY <1>4, <3>1, <3>4, AppendProperties
    <3>6. \A k \in 1..n + 1 : q[k] = converted(m, K[k])
      <4> TAKE k \in 1..n + 1
      <4>1. CASE k = n + 1
        BY <3>3, <3>5, <4>1
      <4>2. CASE k # n + 1
        <5>1. k \in 1..n
          BY <4>2
        <5> QED
          BY <2>1, <3>1, <3>3, <3>5, <5>1
      <4> QED
        BY <4>1, <4>2
    <3>7. Matched(m, SubSeq(s, 1, j + 1)) = K
      BY <1>5, <2>2, <3>4
    <3> QED
      BY <1>6, <3>3, <3>5, <3>6, <3>7 DEF Told
  <2>3. CASE ~matches(m, x)
    <3>1. q = p
      BY <1>2, <1>6, <2>3
    <3>2. Matched(m, SubSeq(s, 1, j + 1)) = M
      BY <1>5, <2>3
    <3> QED
      BY <1>1, <1>6, <2>1, <3>1, <3>2 DEF Told
  <2> QED
    BY <2>2, <2>3
<1>7. CASE ~t
  <2>1. Len(p) = j /\ \A k \in 1..j : p[k] = IF matches(m, s[k]) THEN Yes ELSE No
    BY <1>7 DEF Told
  <2>2. PICK y \in {Yes, No} : y = IF matches(m, x) THEN Yes ELSE No
    OBVIOUS
  <2>3. q = Append(p, y)
    BY <1>2, <1>7, <2>2
  <2>4. q \in Seq(Lines(m)) /\ Len(q) = j + 1 /\ q[j + 1] = y /\ \A k \in 1..j : q[k] = p[k]
    <3>1. y \in Lines(m)
      BY <1>3, <2>2
    <3> QED
      BY <1>1, <2>1, <2>3, <3>1, AppendProperties
  <2>5. \A k \in 1..j + 1 : q[k] = IF matches(m, s[k]) THEN Yes ELSE No
    <3> TAKE k \in 1..j + 1
    <3>1. CASE k = j + 1
      BY <1>2, <2>2, <2>4, <3>1
    <3>2. CASE k # j + 1
      <4>1. k \in 1..j
        BY <3>2
      <4> QED
        BY <2>1, <2>4, <4>1
    <3> QED
      BY <3>1, <3>2
  <2> QED
    BY <1>7, <2>4, <2>5 DEF Told
<1> QED
  BY <1>6, <1>7

LEMMA MatcherStarts == MatcherInit => MatcherIInv
<1> SUFFICES ASSUME MatcherInit PROVE MatcherIInv
  OBVIOUS
<1>1. /\ argv \in Argv /\ argi = 0 /\ mode = 1 /\ tMode = FALSE
      /\ str = <<>> /\ strj = 0 /\ printed = <<>>
  BY DEF MatcherInit, MatcherFresh
<1>2. argv \in Seq(Seq(Char)) /\ Len(argv) \in Nat
  BY <1>1, ArgvAssumption, LenProperties
<1>3. Seen = <<>>
  BY <1>1, SubSeqEmpty DEF Seen
<1>4. StringsOf(<<>>) = <<>>
  BY WithoutEmpty DEF StringsOf
<1>5. Named(<<>>) = {}
  BY DEF Named
<1>6. ModeOf(<<>>) = 1
  <2>1. <<>> \in Seq(Seq(Char))
    BY EmptySeq
  <2> QED
    BY <1>5, <2>1, ModeOfIs
<1>7. ~Converts(<<>>)
  BY DEF Converts, ToSet
<1>8. Told(printed, mode, tMode, 0, str)
  BY <1>1, NothingTold
<1>9. strj \in 0..Len(str) /\ argi \in 0..Len(argv)
  BY <1>1, <1>2, EmptySeq
<1>10. str = StringsOf(Seen) /\ mode = ModeOf(Seen)
  BY <1>1, <1>3, <1>4, <1>6
<1>11. tMode \in BOOLEAN /\ (tMode <=> Converts(Seen))
  BY <1>1, <1>3, <1>7
<1>12. strj = 0 /\ Told(printed, mode, tMode, strj, str)
  BY <1>1, <1>8
<1> QED
  BY <1>1, <1>9, <1>10, <1>11, <1>12 DEF MatcherIInv

\* What every state of a run knows of the command line.
LEMMA MatcherTypes ==
    MatcherIInv => /\ argv \in Seq(Seq(Char)) /\ Len(argv) \in Nat /\ argi \in Nat
                   /\ Seen \in Seq(Seq(Char)) /\ str \in Seq(Seq(Char)) /\ Len(str) \in Nat
                   /\ mode \in 1..3
<1> SUFFICES ASSUME MatcherIInv
             PROVE  /\ argv \in Seq(Seq(Char)) /\ Len(argv) \in Nat /\ argi \in Nat
                    /\ Seen \in Seq(Seq(Char)) /\ str \in Seq(Seq(Char)) /\ Len(str) \in Nat
                    /\ mode \in 1..3
  OBVIOUS
<1>1. argv \in Argv /\ argi \in 0..Len(argv) /\ str = StringsOf(Seen) /\ mode = ModeOf(Seen)
  BY DEF MatcherIInv
<1>2. argv \in Seq(Seq(Char)) /\ Len(argv) \in Nat
  BY <1>1, ArgvAssumption, LenProperties
<1>3. argi \in Nat /\ \A i \in 1..argi : i \in 1..Len(argv)
  BY <1>1, <1>2
<1>4. \A i \in 1..argi : argv[i] \in Seq(Char)
  BY <1>2, <1>3, ElementOfSeq
<1>5. Seen \in Seq(Seq(Char))
  BY <1>3, <1>4, SubSeqProperties DEF Seen
<1>6. str \in Seq(Seq(Char)) /\ Len(str) \in Nat
  BY <1>1, <1>5, StringsType, LenProperties
<1>7. mode \in 1..3
  BY <1>1, <1>5, ModeOfIs
<1> QED
  BY <1>2, <1>3, <1>5, <1>6, <1>7

\* The next argument, that no string was judged yet when there is one.
LEMMA NextArgument ==
    ASSUME MatcherIInv, argi < Len(argv)
    PROVE  /\ argv[argi + 1] \in Seq(Char) /\ strj = 0 /\ printed = <<>>
           /\ SubSeq(argv, 1, argi + 1) = Append(Seen, argv[argi + 1])
<1>1. argv \in Seq(Seq(Char)) /\ Len(argv) \in Nat /\ argi \in Nat
  BY MatcherTypes
<1>2. argv[argi + 1] \in Seq(Char) /\ SubSeq(argv, 1, argi + 1) = Append(SubSeq(argv, 1, argi), argv[argi + 1])
  BY <1>1, OneMore
<1>3. strj = 0
  BY <1>1 DEF MatcherIInv
<1>4. Told(printed, mode, tMode, 0, str)
  BY <1>3 DEF MatcherIInv
<1>5. printed = <<>>
  BY <1>4, NothingTold
<1> QED
  BY <1>2, <1>3, <1>5 DEF Seen

LEMMA MatcherGoesOn == MatcherIInv /\ [MatcherNext]_matcherVars => MatcherIInv'
<1> SUFFICES ASSUME MatcherIInv, [MatcherNext]_matcherVars PROVE MatcherIInv'
  OBVIOUS
<1>0. /\ argv \in Seq(Seq(Char)) /\ Len(argv) \in Nat /\ argi \in Nat
      /\ Seen \in Seq(Seq(Char)) /\ str \in Seq(Seq(Char)) /\ Len(str) \in Nat
  BY MatcherTypes
<1>i. /\ argv \in Argv /\ argi \in 0..Len(argv)
      /\ str = StringsOf(Seen) /\ mode = ModeOf(Seen)
      /\ tMode \in BOOLEAN /\ (tMode <=> Converts(Seen))
      /\ strj \in 0..Len(str) /\ (strj # 0 => argi = Len(argv))
      /\ Told(printed, mode, tMode, strj, str)
  BY DEF MatcherIInv
<1>1. ASSUME Flag PROVE MatcherIInv'
  <2>1. /\ argi < Len(argv) /\ IsFlag(argv[argi + 1]) /\ argi' = argi + 1
        /\ argv' = argv /\ str' = str /\ strj' = strj /\ printed' = printed
    BY <1>1 DEF Flag
  <2>2. PICK x \in Seq(Char) : x = argv[argi + 1]
    BY <2>1, NextArgument
  <2>3. mode' = (CASE x[2] = "a" -> 1 [] x[2] = "b" -> 2 [] x[2] = "c" -> 3 [] OTHER -> mode)
    BY <1>1, <2>2 DEF Flag
  <2>4. tMode' = (tMode \/ x[2] = "t")
    BY <1>1, <2>2 DEF Flag
  <2>5. Seen' = Append(Seen, x)
    BY <2>1, <2>2, NextArgument DEF Seen
  <2>6. str' = StringsOf(Seen')
    <3>1. StringsOf(Append(Seen, x)) = StringsOf(Seen)
      BY <1>0, <2>1, <2>2, StringsAppend
    <3> QED
      BY <1>i, <2>1, <2>5, <3>1
  <2>7. mode' = ModeOf(Seen')
    <3>1. ModeOf(Append(Seen, x)) = IF IsFlag(x) /\ x[2] \in {"a", "b", "c"} THEN ModeNamed(x[2]) ELSE ModeOf(Seen)
      BY <1>0, <2>2, ModeAppend
    <3>2. ModeOf(Append(Seen, x)) = IF x[2] \in {"a", "b", "c"} THEN ModeNamed(x[2]) ELSE mode
      BY <1>i, <2>1, <2>2, <3>1
    <3>3. mode' = IF x[2] \in {"a", "b", "c"} THEN ModeNamed(x[2]) ELSE mode
      BY <2>3, ModeNamedIs
    <3> QED
      BY <2>5, <3>2, <3>3
  <2>8. tMode' \in BOOLEAN /\ (tMode' <=> Converts(Seen'))
    <3>1. Converts(Append(Seen, x)) <=> Converts(Seen) \/ (IsFlag(x) /\ x[2] = "t")
      BY <1>0, <2>2, ConvertsAppend
    <3> QED
      BY <1>i, <2>1, <2>2, <2>4, <2>5, <3>1
  <2>9. strj' = 0 /\ argi' \in 0..Len(argv')
    BY <1>0, <2>1, NextArgument
  <2>10. Told(printed', mode', tMode', strj', str')
    <3>1. printed' = <<>>
      BY <2>1, NextArgument
    <3> QED
      BY <2>9, <3>1, NothingTold
  <2> QED
    BY <1>0, <1>i, <2>1, <2>6, <2>7, <2>8, <2>9, <2>10 DEF MatcherIInv
<1>2. ASSUME String PROVE MatcherIInv'
  <2>1. /\ argi < Len(argv) /\ ~IsFlag(argv[argi + 1]) /\ argi' = argi + 1
        /\ argv' = argv /\ mode' = mode /\ tMode' = tMode /\ strj' = strj /\ printed' = printed
    BY <1>2 DEF String
  <2>2. PICK x \in Seq(Char) : x = argv[argi + 1]
    BY <2>1, NextArgument
  <2>3. str' = Append(str, x)
    BY <1>2, <2>2 DEF String
  <2>5. Seen' = Append(Seen, x)
    BY <2>1, <2>2, NextArgument DEF Seen
  <2>6. str' = StringsOf(Seen')
    <3>1. StringsOf(Append(Seen, x)) = Append(StringsOf(Seen), x)
      BY <1>0, <2>1, <2>2, StringsAppend
    <3> QED
      BY <1>i, <2>3, <2>5, <3>1
  <2>7. mode' = ModeOf(Seen')
    <3>1. ModeOf(Append(Seen, x)) = IF IsFlag(x) /\ x[2] \in {"a", "b", "c"} THEN ModeNamed(x[2]) ELSE ModeOf(Seen)
      BY <1>0, <2>2, ModeAppend
    <3> QED
      BY <1>i, <2>1, <2>2, <2>5, <3>1
  <2>8. tMode' \in BOOLEAN /\ (tMode' <=> Converts(Seen'))
    <3>1. Converts(Append(Seen, x)) <=> Converts(Seen) \/ (IsFlag(x) /\ x[2] = "t")
      BY <1>0, <2>2, ConvertsAppend
    <3> QED
      BY <1>i, <2>1, <2>2, <2>5, <3>1
  <2>9. strj' = 0 /\ argi' \in 0..Len(argv')
    BY <1>0, <2>1, NextArgument
  <2>10. Told(printed', mode', tMode', strj', str')
    <3>1. printed' = <<>>
      BY <2>1, NextArgument
    <3> QED
      BY <2>9, <3>1, NothingTold
  <2>11. Len(str') \in Nat
    BY <1>0, <2>2, <2>3, AppendProperties, LenProperties
  <2> QED
    BY <1>0, <1>i, <2>1, <2>6, <2>7, <2>8, <2>9, <2>10, <2>11 DEF MatcherIInv
<1>3. ASSUME Judge PROVE MatcherIInv'
  <2>1. /\ argi = Len(argv) /\ strj < Len(str) /\ strj' = strj + 1
        /\ argv' = argv /\ argi' = argi /\ mode' = mode /\ tMode' = tMode /\ str' = str
    BY <1>3 DEF Judge
  <2>2. PICK y : y = str[strj + 1]
    OBVIOUS
  <2>3. PICK b \in BOOLEAN : b <=> matches(mode, y)
    OBVIOUS
  <2>4. PICK c : c = converted(mode, y)
    OBVIOUS
  <2>5. printed' = (CASE matches(mode, y) /\ tMode  -> Append(printed, c)
                      [] matches(mode, y) /\ ~tMode -> Append(printed, Yes)
                      [] ~matches(mode, y) /\ tMode -> printed
                      [] OTHER -> Append(printed, No))
    BY <1>3, <2>2, <2>4 DEF Judge
  <2>6. /\ matches(mode, y) /\ tMode => printed' = Append(printed, c)
        /\ matches(mode, y) /\ ~tMode => printed' = Append(printed, Yes)
        /\ ~matches(mode, y) /\ tMode => printed' = printed
        /\ ~matches(mode, y) /\ ~tMode => printed' = Append(printed, No)
    BY ONLY <2>5
  <2>7. strj \in Nat
    BY <1>0, <1>i
  <2>8. PICK q : q = printed'
    OBVIOUS
  <2>9. Told(q, mode, tMode, strj + 1, str)
    BY <1>0, <1>i, <2>1, <2>2, <2>4, <2>6, <2>7, <2>8, ToldMore
  <2>10. Seen' = Seen
    BY <2>1 DEF Seen
  <2>11. strj' \in 0..Len(str')
    BY <1>0, <2>1, <2>7
  <2> QED
    BY <1>i, <2>1, <2>8, <2>9, <2>10, <2>11 DEF MatcherIInv
<1>4. ASSUME UNCHANGED matcherVars PROVE MatcherIInv'
  <2>1. /\ argv' = argv /\ argi' = argi /\ mode' = mode /\ tMode' = tMode /\ str' = str
        /\ strj' = strj /\ printed' = printed
    BY <1>4 DEF matcherVars
  <2>2. Seen' = Seen
    BY <2>1 DEF Seen
  <2> QED
    BY <1>i, <2>1, <2>2 DEF MatcherIInv
<1> QED
  BY <1>1, <1>2, <1>3, <1>4 DEF MatcherNext

-----------------------------------------------------------------------------
(* When it ends. *)

LEMMA MatchNotEmpty == ASSUME NEW s \in Seq(Char), PatternA(s) PROVE s # <<>>
<1>1. Len(s) \in 11..15
  BY RightA DEF matchA
<1>2. ASSUME s = <<>> PROVE FALSE
  <2>1. Len(s) = 0
    BY <1>2, EmptySeq
  <2> QED
    BY <1>1, <2>1, SMT
<1> QED
  BY <1>2

\* What one line of a conversion tells.
Tells(m, c, x) ==
    IF m # 3 THEN Undone(m, c) = x
    ELSE /\ Shortened(c)[1] = Shortened(x)[1]
         /\ Shortened(c)[3]
         /\ ToSet(c) \cap {"E", "G"} = {}

LEMMA LineTells == ASSUME NEW m \in 1..3, NEW x \in Seq(Char), Pattern(m, x) PROVE Tells(m, converted(m, x), x)
<1>1. CASE m = 1
  <2>1. PatternA(x)
    BY <1>1 DEF Pattern
  <2>2. Undone(1, converted(1, x)) = x
    BY <2>1, MatchNotEmpty, RotationUndone
  <2> QED
    BY <1>1, <2>2 DEF Tells
<1>2. CASE m = 2
  <2>1. Undone(2, converted(2, x)) = x
    BY DoublingUndone
  <2> QED
    BY <1>2, <2>1 DEF Tells
<1>3. CASE m = 3
  <2>1. PatternC(x)
    BY <1>3 DEF Pattern
  <2>2. PICK c : c = converted(3, x)
    OBVIOUS
  <2>3. Shortened(c)[1] = Shortened(x)[1] /\ Shortened(c)[3] /\ ToSet(c) \cap {"E", "G"} = {}
    BY <2>1, <2>2, ShorteningKeeps
  <2> QED
    BY <1>3, <2>2, <2>3 DEF Tells
<1> QED
  BY <1>1, <1>2, <1>3

LEMMA MatchedAre ==
    ASSUME NEW m \in 1..3, NEW s \in Seq(Seq(Char))
    PROVE  /\ Matched(m, s) = Without(s, {x \in ToSet(s) : ~Pattern(m, x)})
           /\ DOMAIN Matched(m, s) = 1..Len(Matched(m, s))
           /\ \A k \in 1..Len(Matched(m, s)) : Matched(m, s)[k] \in Seq(Char) /\ Pattern(m, Matched(m, s)[k])
<1>1. PICK T : T = ToSet(s)
  OBVIOUS
<1>2. PICK S : S = {x \in Seq(Char) : ~matches(m, x)}
  OBVIOUS
<1>3. PICK R : R = {x \in ToSet(s) : ~Pattern(m, x)}
  OBVIOUS
<1>4. s \in Seq(T)
  BY <1>1, LenProperties DEF ToSet
<1>5. T \subseteq Seq(Char)
  BY <1>1, ElementOfSeq, LenProperties DEF ToSet
<1>6. \A x \in Seq(Char) : matches(m, x) <=> Pattern(m, x)
  BY RightMode
<1>7. T \cap S = T \cap R
  BY <1>1, <1>2, <1>3, <1>5, <1>6
<1>8. Without(s, S) = Without(s, R)
  BY ONLY <1>4, <1>7, WithoutSame
<1>9. PICK M : M = Matched(m, s)
  OBVIOUS
<1>10. M = Without(s, S)
  BY <1>2, <1>9 DEF Matched
<1>11. M \in Seq(T \ S)
  BY <1>4, <1>10, WithoutType
<1>12. DOMAIN M = 1..Len(M) /\ \A k \in 1..Len(M) : M[k] \in T \ S
  BY <1>11, LenProperties, ElementOfSeq
<1>13. \A x \in T \ S : x \in Seq(Char) /\ Pattern(m, x)
  BY <1>2, <1>5, <1>6
<1> QED
  BY <1>3, <1>8, <1>9, <1>10, <1>12, <1>13

LEMMA MatcherEnds == MatcherIInv => Answers
<1> SUFFICES ASSUME MatcherIInv, MatcherEnded PROVE YesOrNo /\ Conversions
  BY DEF Answers
<1>0. /\ argv \in Seq(Seq(Char)) /\ Len(argv) \in Nat /\ argi \in Nat
      /\ str \in Seq(Seq(Char)) /\ Len(str) \in Nat /\ mode \in 1..3
  BY MatcherTypes
<1>1. argi = Len(argv) /\ strj = Len(str)
  BY DEF MatcherEnded
<1>2. Seen = argv
  BY <1>0, <1>1, SubSeqFull DEF Seen
<1>3. /\ str = StringsOf(argv) /\ mode = ModeOf(argv)
      /\ tMode \in BOOLEAN /\ (tMode <=> Converts(argv))
      /\ Told(printed, mode, tMode, Len(str), str)
  BY <1>1, <1>2 DEF MatcherIInv
<1>4. SubSeq(str, 1, Len(str)) = str
  BY <1>0, SubSeqFull
<1>5. printed \in Seq(Lines(mode))
  BY <1>3 DEF Told
<1>6. ASSUME ~Converts(argv)
      PROVE  printed = [k \in DOMAIN str |-> IF Pattern(mode, str[k]) THEN Yes ELSE No]
  <2>1. ~tMode
    BY <1>3, <1>6
  <2>2. Len(printed) = Len(str) /\ \A k \in 1..Len(str) : printed[k] = IF matches(mode, str[k]) THEN Yes ELSE No
    BY <1>3, <2>1 DEF Told
  <2>3. DOMAIN str = 1..Len(str)
    BY <1>0, LenProperties
  <2>4. printed = [k \in 1..Len(str) |-> printed[k]]
    BY <1>5, <2>2, LenProperties
  <2>5. \A k \in 1..Len(str) : matches(mode, str[k]) <=> Pattern(mode, str[k])
    BY <1>0, RightMode, ElementOfSeq
  <2>6. \A k \in 1..Len(str) : printed[k] = IF Pattern(mode, str[k]) THEN Yes ELSE No
    BY <2>2, <2>5
  <2> QED
    BY <2>3, <2>4, <2>6
<1>7. YesOrNo
  BY <1>3, <1>6 DEF YesOrNo
<1>8. ASSUME Converts(argv), NEW M, M = Without(str, {s \in ToSet(str) : ~Pattern(mode, s)})
      PROVE  Len(printed) = Len(M) /\ \A k \in DOMAIN M : Tells(mode, printed[k], M[k])
  <2>1. tMode
    BY <1>3, <1>8
  <2>2. M = Matched(mode, str)
    BY <1>0, <1>8, MatchedAre
  <2>3. DOMAIN M = 1..Len(M) /\ \A k \in 1..Len(M) : M[k] \in Seq(Char) /\ Pattern(mode, M[k])
    BY <1>0, <2>2, MatchedAre
  <2>4. Len(printed) = Len(M) /\ \A k \in 1..Len(M) : printed[k] = converted(mode, M[k])
    BY <1>3, <1>4, <2>1, <2>2 DEF Told
  <2>5. \A k \in 1..Len(M) : Tells(mode, printed[k], M[k])
    <3> TAKE k \in 1..Len(M)
    <3>1. PICK x \in Seq(Char) : x = M[k] /\ Pattern(mode, x)
      BY <2>3
    <3>2. Tells(mode, converted(mode, x), x)
      BY <1>0, <3>1, LineTells
    <3> QED
      BY <2>4, <3>1, <3>2
  <2> QED
    BY <2>3, <2>4, <2>5
<1>9. Conversions
  <2>1. PICK M : M = Without(str, {s \in ToSet(str) : ~Pattern(mode, s)})
    OBVIOUS
  <2>2. Converts(argv) => Len(printed) = Len(M) /\ \A k \in DOMAIN M : Tells(mode, printed[k], M[k])
    BY <1>8, <2>1
  <2> QED
    BY <1>3, <2>1, <2>2 DEF Conversions, Tells
<1> QED
  BY <1>7, <1>9

-----------------------------------------------------------------------------
\* For every command line: what matchlab.c has printed when it ends, by
\* matches and with -t by conversion, is what Answers says.
THEOREM MatcherAnswers == MatcherSpec => []Answers
<1>1. MatcherInit => MatcherIInv
  BY MatcherStarts
<1>2. MatcherIInv /\ [MatcherNext]_matcherVars => MatcherIInv'
  BY MatcherGoesOn
<1>3. MatcherIInv => Answers
  BY MatcherEnds
<1> QED
  BY <1>1, <1>2, <1>3, PTL DEF MatcherSpec
=============================================================================
