------------------------------- MODULE Matcher -------------------------------
(***************************************************************************)
(* match/matchlab.c: for every argument that is no flag, whether it        *)
(* matches the pattern of the mode, or, with -t, what a match converts to. *)
(* An argument is the sequence of its characters.                          *)
(***************************************************************************)
EXTENDS Integers, SequencesExt

CONSTANT Argv   \* the argument lists to start the program with

Bar == "_"
Digit == {"0", "1", "2", "3", "4", "5", "6", "7", "8", "9"}
Upper == {"A", "B", "C", "D", "E", "F", "G", "H", "I", "J", "K", "L", "M", "N", "O", "P", "Q",
          "R", "S", "T", "U", "V", "W", "X", "Y", "Z"}
Small == {"a", "b", "c", "d", "j", "t", "u", "v", "x", "z", Bar, "=", "-"}

Char == Digit \cup Upper \cup Small

ASSUME ArgvAssumption == \A argv \in Argv : argv \in Seq(Seq(Char))

\* str[i], with the NUL that ends the string.
At(str, i) == IF i < Len(str) THEN str[i + 1] ELSE "NUL"
Odd(n) == n % 2 = 1

\* How many characters from i on are in C: the loops that count up to a break.
Run(str, i, C) == Min({j \in i..Len(str) : At(str, j) \notin C}) - i

\* One to three digits from j on, and nothing else.
Numbered(str, j) == Len(str) \in j + 1..j + 3 /\ \A i \in j..Len(str) - 1 : At(str, i) \in Digit

matchA(str) ==
    LET d == IF At(str, 4) = "d" THEN 5 ELSE 4
        u == IF At(str, d + 4) = "u" THEN 3 ELSE 2
    IN  /\ Len(str) \in 11..15
        /\ \A i \in 0..3 : At(str, i) = "d"
        /\ At(str, d) = Bar /\ At(str, d + 1) = Bar
        /\ At(str, d + 2) = "u" /\ At(str, d + 3) = "u"
        /\ At(str, d + u + 2) = Bar /\ At(str, d + u + 3) = Bar
        /\ Numbered(str, d + u + 4)

\* dCount counts among the first three characters, wherever they are.
matchB(str) ==
    LET dCount == Cardinality({i \in 0..2 : At(str, i) = "d"})
        X == dCount + 2
        ACount == Run(str, X, Upper)
        xCount == Run(str, X + ACount, {"x"})
        j == X + ACount + xCount + 1
    IN  /\ Len(str) >= 6
        /\ At(str, dCount) = "=" /\ At(str, dCount + 1) = "="
        /\ Odd(ACount) /\ Odd(xCount)
        /\ At(str, j - 1) = Bar
        /\ \A n \in 0..ACount \div 2 : At(str, j + n) = At(str, X + 2 * n)
        /\ Numbered(str, j + ACount \div 2 + 1)

\* Not the code: only one copy of the letters is compared.
matchCOnce(str) ==
    LET jCount == Cardinality({n \in DOMAIN str : str[n] = "j"})
        X == jCount + 2
        ACount == Run(str, X, Upper)
        vCount == Run(str, X + ACount, {"v"})
        j == X + ACount + vCount + 1
    IN  /\ Len(str) >= 9
        /\ Odd(jCount) /\ jCount + 1 < Len(str)
        /\ At(str, jCount) = "=" /\ At(str, jCount + 1) = "="
        /\ Odd(ACount) /\ Odd(vCount)
        /\ At(str, j - 1) = Bar
        /\ \A n \in 0..ACount - 1 : At(str, j + n) = At(str, X + n)
        /\ Numbered(str, j + 2 * ACount)

\* jCount counts in the whole string.
matchC(str) ==
    LET jCount == Cardinality({n \in DOMAIN str : str[n] = "j"})
        X == jCount + 2
        ACount == Run(str, X, Upper)
        vCount == Run(str, X + ACount, {"v"})
        j == X + ACount + vCount + 1
    IN  /\ Len(str) >= 9
        /\ Odd(jCount) /\ jCount + 1 < Len(str)
        /\ At(str, jCount) = "=" /\ At(str, jCount + 1) = "="
        /\ Odd(ACount) /\ Odd(vCount)
        /\ At(str, j - 1) = Bar
        /\ \A n \in 0..ACount - 1 :
              At(str, j + n) = At(str, X + n) /\ At(str, j + ACount + n) = At(str, X + n)
        /\ Numbered(str, j + 2 * ACount)

matches(m, s) ==
    CASE m = 1 -> matchA(s) [] m = 2 -> matchB(s) [] m = 3 -> matchC(s)

\* A sequence without the elements that are in S.
Without(s, S) ==
    LET kept[k \in 0..Len(s)] ==
            IF k = 0 THEN <<>> ELSE IF s[k] \in S THEN kept[k - 1] ELSE Append(kept[k - 1], s[k])
    IN  kept[Len(s)]

\* What -t prints for a match.
converted(m, s) ==
    CASE m = 1 -> Append(Tail(s), Head(s))
      [] m = 2 -> FlattenSeq([k \in DOMAIN s |-> IF s[k] = "A" THEN <<"A", "C">> ELSE <<s[k]>>])
      [] m = 3 -> Without(s, {"E", "G"})

\* argi and strj are main's i and j.
VARIABLES argv, argi, mode, tMode, str, strj, printed
matcherVars == <<argv, argi, mode, tMode, str, strj, printed>>

MatcherFresh ==
    /\ argi = 0 /\ mode = 1 /\ tMode = FALSE
    /\ str = <<>>
    /\ strj = 0 /\ printed = <<>>
MatcherInit == argv \in Argv /\ MatcherFresh

IsFlag(arg) == At(arg, 0) = "-" /\ Len(arg) = 2

\* Not the code: the first mode counts.
FlagFirst ==
    /\ argi < Len(argv) /\ IsFlag(argv[argi + 1])
    /\ LET letter == argv[argi + 1][2]
       IN  /\ mode' = CASE letter = "b" /\ mode = 1 -> 2 [] letter = "c" /\ mode = 1 -> 3 [] OTHER -> mode
           /\ tMode' = (tMode \/ letter = "t")
    /\ argi' = argi + 1
    /\ UNCHANGED <<argv, str, strj, printed>>

Flag ==
    /\ argi < Len(argv) /\ IsFlag(argv[argi + 1])
    /\ LET letter == argv[argi + 1][2]
       IN  /\ mode' = CASE letter = "a" -> 1 [] letter = "b" -> 2 [] letter = "c" -> 3 [] OTHER -> mode
           /\ tMode' = (tMode \/ letter = "t")
    /\ argi' = argi + 1
    /\ UNCHANGED <<argv, str, strj, printed>>

String ==
    /\ argi < Len(argv) /\ ~IsFlag(argv[argi + 1])
    /\ str' = Append(str, argv[argi + 1])
    /\ argi' = argi + 1
    /\ UNCHANGED <<argv, mode, tMode, strj, printed>>

Yes == <<"yes">>
No == <<"no">>

\* Not the code: a conversion is printed for every string.
JudgeConvertsAll ==
    /\ argi = Len(argv) /\ strj < Len(str)
    /\ printed' = CASE tMode -> Append(printed, converted(mode, str[strj + 1]))
                    [] ~tMode -> Append(printed, IF matches(mode, str[strj + 1]) THEN Yes ELSE No)
    /\ strj' = strj + 1
    /\ UNCHANGED <<argv, argi, mode, tMode, str>>

\* One pass of the loop of the mode, after all arguments were seen.
Judge ==
    /\ argi = Len(argv) /\ strj < Len(str)
    /\ printed' = CASE matches(mode, str[strj + 1]) /\ tMode  -> Append(printed, converted(mode, str[strj + 1]))
                    [] matches(mode, str[strj + 1]) /\ ~tMode -> Append(printed, Yes)
                    [] ~matches(mode, str[strj + 1]) /\ tMode -> printed
                    [] OTHER -> Append(printed, No)
    /\ strj' = strj + 1
    /\ UNCHANGED <<argv, argi, mode, tMode, str>>

MatcherNext == Flag \/ String \/ Judge
MatcherSpec == MatcherInit /\ [][MatcherNext]_matcherVars
MatcherEnded == argi = Len(argv) /\ strj = Len(str)

(***************************************************************************)
(* The patterns, as the languages they are meant to be.                    *)
(***************************************************************************)
Rep(c, n) == [k \in 1..n |-> c]
Digits(s, n) == Len(s) >= n /\ \A k \in Len(s) - n + 1..Len(s) : s[k] \in Digit
WithoutLast(s, n) == SubSeq(s, 1, Len(s) - n)

PatternA(s) ==
    \E d \in 4..5, u \in 2..3, n \in 1..3 :
        /\ Digits(s, n)
        /\ WithoutLast(s, n) = Rep("d", d) \o Rep(Bar, 2) \o Rep("u", u) \o Rep(Bar, 2)

\* An odd number of capital letters that stand from the c-th place on, and
\* every second one of them.
OddUpTo(s) == {n \in 1..Len(s) : Odd(n)}
LettersFrom(s, c) ==
    {X \in {SubSeq(s, c, c + n - 1) : n \in {n \in OddUpTo(s) : c + n - 1 <= Len(s)}} :
        ToSet(X) \subseteq Upper}
Every2nd(X) == [k \in 1..(Len(X) + 1) \div 2 |-> X[2 * k - 1]]

PatternB(s) ==
    \E d \in 0..3, n \in 1..3 :
        /\ Digits(s, n)
        /\ \E X \in LettersFrom(s, d + 3), x \in OddUpTo(s) :
              WithoutLast(s, n) =
                 Rep("d", d) \o Rep("=", 2) \o X \o Rep("x", x) \o <<Bar>> \o Every2nd(X)

PatternC(s) ==
    \E d \in OddUpTo(s), n \in 1..3 :
        /\ Digits(s, n)
        /\ \E X \in LettersFrom(s, d + 3), v \in OddUpTo(s) :
              WithoutLast(s, n) =
                 Rep("j", d) \o Rep("=", 2) \o X \o Rep("v", v) \o <<Bar>> \o X \o X

Pattern(m, s) == CASE m = 1 -> PatternA(s) [] m = 2 -> PatternB(s) [] m = 3 -> PatternC(s)

\* The mode, the option and the strings of a command line.
Modes == <<"a", "b", "c">>
ModeOf(line) ==
    LET named == {k \in DOMAIN line : IsFlag(line[k]) /\ line[k][2] \in ToSet(Modes)}
    IN  IF named = {} THEN 1 ELSE CHOOSE m \in DOMAIN Modes : Modes[m] = line[Max(named)][2]
StringsOf(line) == Without(line, {<<"-", c>> : c \in Char})
Converts(line) == <<"-", "t">> \in ToSet(line)

(***************************************************************************)
(* Properties.                                                             *)
(***************************************************************************)
\* Without -t there is one answer for every string, in their order, and it is
\* yes exactly for the strings of the language of the last mode named,
\* wherever the flags are.  In particular a string whose d or j are not all in
\* front, which matchB and matchC count all the same, is no match.
YesOrNo ==
    ~Converts(argv) =>
        printed = [k \in DOMAIN StringsOf(argv) |->
                      IF Pattern(ModeOf(argv), StringsOf(argv)[k]) THEN Yes ELSE No]

\* With -t there is one line for every match and nothing else, and it tells
\* which string matched: the rotation of mode a and the doubled letters of
\* mode b can be undone, and what mode c leaves out are letters of which the
\* rest still stands three times.
Undone(m, s) ==
    CASE m = 1 -> <<Last(s)>> \o Front(s)
      [] m = 2 -> LET kept == Without([k \in DOMAIN s |-> k], {k \in 2..Len(s) : s[k - 1] = "A"})
                  IN  [k \in DOMAIN kept |-> s[kept[k]]]
      [] m = 3 -> s
Shortened(s) ==
    LET text == Without(s, Upper)
        letters == Without(s, Char \ Upper)
        third == Len(letters) \div 3
    IN  <<text, [k \in 1..third |-> letters[k]], Len(letters) % 3 = 0
                 /\ \A k \in 1..third : letters[k] = letters[third + k] /\ letters[k] = letters[2 * third + k]>>
Conversions ==
    Converts(argv) =>
        LET m == ModeOf(argv)
            matching == Without(StringsOf(argv), {s \in ToSet(StringsOf(argv)) : ~Pattern(m, s)})
        IN  /\ Len(printed) = Len(matching)
            /\ \A k \in DOMAIN matching :
                  IF m # 3 THEN Undone(m, printed[k]) = matching[k]
                  ELSE /\ Shortened(printed[k])[1] = Shortened(matching[k])[1]
                       /\ Shortened(printed[k])[3]
                       /\ ToSet(printed[k]) \cap {"E", "G"} = {}

\* What the program has printed when it ends: the two above.
Answers == MatcherEnded => YesOrNo /\ Conversions
=============================================================================
