------------------------------ MODULE Examples ------------------------------
(***************************************************************************)
(* linking/ex0.c to ex4.c: the functions that the assignment tries enforce *)
(* with, compiled as by gcc -O2, and what the comment at the head of each  *)
(* file predicts of the output for some arguments.                         *)
(***************************************************************************)
EXTENDS SharedLibrary

S(ks) == [i \in DOMAIN ks |-> I(ks[i])]
Shift(f, d) == [i \in DOMAIN f |-> [f[i] EXCEPT !.to = IF @ = 0 THEN 0 ELSE @ + d]]

\* if (sel \in when) then else other: the else branch comes first.
If(before, when, then, other) ==
    LET n == Len(before) + 1
    IN  before \o <<Jcc(n + Len(other) + 1, when)>> \o Shift(other, n) \o Shift(then, n + Len(other))

Return == S(<<"mov", "sub", "ret">>)
OpenIt == S(<<"other", "open">>)
CloseIt == S(<<"other", "close">>)
Get(var) == S(<<var, "other">>)

\* [fun, good, crash]: a function and the arguments with either prediction.
Case(f, good, crash) == [fun |-> f, good |-> good, crash |-> crash]

ex0_always_ok == Case(S(<<"sub">>) \o OpenIt \o CloseIt \o Return, {1}, {})
ex0_also_always_ok ==
    Case(Get("glob") \o OpenIt \o CloseIt \o OpenIt \o Get("glob") \o CloseIt \o OpenIt \o CloseIt \o Return, {1}, {})
ex0_never_ok == Case(OpenIt \o Return, {}, {1})
ex0_also_never_ok == Case(OpenIt \o OpenIt \o CloseIt \o CloseIt \o Return, {}, {1})
ex0_still_never_ok == Case(OpenIt \o CloseIt \o CloseIt \o Return, {}, {1})

ex1_always_ok == Case(OpenIt \o Get("prot") \o CloseIt \o Return, {1}, {})
ex1_also_always_ok == Case(Get("glob") \o OpenIt \o Get("prot") \o CloseIt \o Return, {1}, {})
ex1_never_ok == Case(Get("prot") \o S(<<"ret">>), {}, {1})
ex1_also_never_ok == Case(OpenIt \o Get("prot") \o CloseIt \o Get("prot") \o Return, {}, {1})

ex2_always_ok == Case(If(S(<<"other">>), {1}, OpenIt \o CloseIt \o Return, S(<<"other", "ret">>)), {0, 1}, {})
ex2_sometimes_ok == Case(If(OpenIt, {1}, CloseIt \o Return, Return), {1}, {0})
ex2_never_ok ==
    Case(If(S(<<"sub">>), {0}, OpenIt \o OpenIt \o Return, OpenIt \o CloseIt \o CloseIt \o Return), {}, {0, 1})

ex3_always_ok == Case(Get("glob") \o S(<<"ret">>), {0, 1}, {})
ex3_also_always_ok == Case(OpenIt \o Get("prot") \o CloseIt \o Return, {0, 1}, {})
ex3_still_always_ok ==
    Case(If(S(<<"other">>), {1}, OpenIt \o Get("prot") \o CloseIt \o Return, Get("glob") \o Return), {0, 1}, {})
ex3_sometimes_ok == Case(If(OpenIt \o Get("prot"), {1}, CloseIt \o Return, Return), {1}, {0})
ex3_never_ok ==
    Case(If(S(<<"other">>), {1}, OpenIt \o CloseIt \o Get("prot") \o Return, Get("prot") \o Return), {}, {0, 1})
ex3_also_never_ok == Case(If(Get("prot"), {1}, OpenIt \o CloseIt \o Return, Return), {}, {0, 1})

ex4_function_0 ==
    Case(If(S(<<"other">>), {-1}, Get("prot") \o Return,
            If(<< >>, {0}, OpenIt \o Get("prot") \o CloseIt \o Return, Get("prot") \o Return)), {0}, {-1, 1})
ex4_function_1 ==
    Case(If(S(<<"other">>), {0, 1}, OpenIt \o Get("prot") \o CloseIt \o Return,
            If(OpenIt, {-2, 0, 1}, CloseIt \o Get("glob") \o Return, Get("glob") \o Return)), {-2, 0}, {-1})
ex4_function_2 ==
    Case(If(OpenIt \o CloseIt \o OpenIt, {-1}, CloseIt \o Get("glob") \o Return,
            Get("prot") \o CloseIt \o Return), {-1, 0}, {})

Files ==
    {<<ex0_always_ok, ex0_also_always_ok, ex0_never_ok, ex0_also_never_ok, ex0_still_never_ok>>,
     <<ex1_always_ok, ex1_also_always_ok, ex1_never_ok, ex1_also_never_ok>>,
     <<ex2_always_ok, ex2_sometimes_ok, ex2_never_ok>>,
     <<ex3_always_ok, ex3_also_always_ok, ex3_still_always_ok, ex3_sometimes_ok, ex3_never_ok, ex3_also_never_ok>>,
     <<ex4_function_0, ex4_function_1, ex4_function_2>>}

Functions(file) == [n \in DOMAIN file |-> file[n].fun]

\* linking/test.rkt: the outputs behave as the head of each file predicts.
AsPredicted ==
    exit # "none" => \A file \in Files : lib.source = Functions(file) => \A n \in DOMAIN file :
        /\ exit = "0"
        /\ \A sel \in file[n].good : CalledWith(n, sel) = {"good"}
        /\ \A sel \in file[n].crash : CalledWith(n, sel) = {"crash"}
=============================================================================
