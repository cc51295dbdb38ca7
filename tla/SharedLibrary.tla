--------------------------- MODULE SharedLibrary ----------------------------
(***************************************************************************)
(* What the enforcer is for.  A function is a sequence of [k, to, when]:   *)
(* its instructions as a compiler lays them out, "to" the index a jump     *)
(* goes to and "when" the arguments for which it does.  Assemble makes a   *)
(* library of them; the meaning of a function is that of its instructions, *)
(* each one whole or replaced.                                             *)
(***************************************************************************)
EXTENDS Enforcer, SequencesExt

I(k) == [k |-> k, to |-> 0, when |-> {}]
Jcc(to, when) == [k |-> "jcc", to |-> to, when |-> when]
Jmp(to) == [k |-> "jmp", to |-> to, when |-> {}]

open == I("open")
close == I("close")
prot == I("prot")
ret == I("ret")

\* Where the linker puts things: two PLT entries, the slots, the text.
PltOpen == 16   PltClose == 32   Text == 256
RelaPlt == [slot \in {48, 56} |-> IF slot = 48 THEN "open_it" ELSE "close_it"]
RelaDyn == [slot \in {64, 72} |-> IF slot = 64 THEN "protected_" ELSE "other_"]

Size == [open |-> 5, close |-> 5, prot |-> 7, glob |-> 7, other |-> 2, sub |-> 4, mov |-> 5,
         ret |-> 1, jcc |-> 2, jmp |-> 2, tail_open |-> 5, tail_close |-> 5, got_open |-> 6, got_close |-> 6]
TailOpen == {"tail_open", "got_open"}
TailClose == {"tail_close", "got_close"}

\* The addresses of a function's instructions from base on, and of its end.
Addresses(f, base) == FoldLeft(LAMBDA as, x : Append(as, Last(as) + Size[x.k]), <<base>>, f)

\* The bytes of the instruction x at an address; its jump goes to target.
Encode(x, at, target) ==
    LET To8 == (target - (at + 2)) % 256
    IN  CASE x.k = "open" -> <<232, PltOpen - (at + 5), 0, 0, 0>>
          [] x.k = "close" -> <<232, PltClose - (at + 5), 0, 0, 0>>
          [] x.k = "tail_open" -> <<233, PltOpen - (at + 5), 0, 0, 0>>
          [] x.k = "tail_close" -> <<233, PltClose - (at + 5), 0, 0, 0>>
          [] x.k = "got_open" -> <<255, 37, 48 - (at + 6), 0, 0, 0>>
          [] x.k = "got_close" -> <<255, 37, 56 - (at + 6), 0, 0, 0>>
          [] x.k = "prot" -> <<72, 139, 5, 64 - (at + 7), 0, 0, 0>>
          [] x.k = "glob" -> <<72, 139, 5, 72 - (at + 7), 0, 0, 0>>
          [] x.k = "other" -> <<49, 192>>                  \* xor %eax,%eax
          [] x.k = "sub" -> <<72, 131, 236, 8>>            \* sub $8,%rsp
          [] x.k = "mov" -> <<184, 1, 0, 0, 0>>            \* mov $1,%eax
          [] x.k = "ret" -> <<195>>
          [] x.k = "jcc" -> <<117, To8>>
          [] x.k = "jmp" -> <<235, To8>>

Layout(fs) ==
    FoldLeft(LAMBDA done, f : Append(done, Addresses(f, IF done = << >> THEN Text ELSE Last(Last(done)))), << >>, fs)

Bytes(f, at) ==
    FlattenSeq([i \in DOMAIN f |-> Encode(f[i], at[i], IF f[i].to = 0 THEN 0 ELSE at[f[i].to])])

Assemble(fs) ==
    LET at == Layout(fs)
        text == FlattenSeq([n \in DOMAIN fs |-> Bytes(fs[n], at[n])])
        Stub(p, slot) == [a \in p .. p + 5 |-> CASE a = p -> 255 [] a = p + 1 -> 37
                                                     [] a = p + 2 -> slot - (p + 6) [] OTHER -> 0]
    IN  [source |-> fs, at |-> at,
         code |-> [a \in Text .. Text + Len(text) - 1 |-> text[a - Text + 1]]
                      @@ Stub(PltOpen, 48) @@ Stub(PltClose, 56),
         rela_dyn |-> RelaDyn, rela_plt |-> RelaPlt,
         funs |-> [n \in DOMAIN fs |-> at[n][1]]]

(***************************************************************************)
(* What a library is, however it was made: a function ends in a return or  *)
(* a jump out of it and branches forward, as loops are ruled out; it       *)
(* stands in the text, instruction by instruction and apart from the       *)
(* others, its short jumps reach where they go; and the entries of the     *)
(* procedure linkage table jump through their slots.                       *)
(***************************************************************************)
Compiled(f) ==
    /\ f # << >> /\ Last(f).k \in {"ret"} \cup TailOpen \cup TailClose
    /\ \A i \in DOMAIN f : f[i].to \in IF f[i].k \in {"jcc", "jmp"} THEN i + 1..Len(f) ELSE {0}

StandsAt(f, at, text) ==
    /\ at \in Seq(Nat) /\ Len(at) = Len(f) + 1 /\ at[1] >= Text
    /\ \A i \in DOMAIN f :
          /\ at[i + 1] = at[i] + Size[f[i].k]
          /\ f[i].to # 0 => at[f[i].to] - at[i + 1] <= 127
          /\ \A b \in 1..Size[f[i].k] :
                /\ at[i] + b - 1 \in DOMAIN text
                /\ text[at[i] + b - 1] = Encode(f[i], at[i], IF f[i].to = 0 THEN 0 ELSE at[f[i].to])[b]

JumpsThrough(text, p, slot) ==
    {p, p + 1, p + 2} \subseteq DOMAIN text /\ text[p] = 255 /\ text[p + 1] = 37 /\ text[p + 2] = slot - (p + 6)

Linked(l) ==
    /\ l.source \in Seq(Seq([k : DOMAIN Size, to : Nat, when : SUBSET Int]))
    /\ \A n \in DOMAIN l.source : Compiled(l.source[n]) /\ StandsAt(l.source[n], l.at[n], l.code)
    /\ \A n, m \in DOMAIN l.source : n < m => Last(l.at[n]) <= l.at[m][1]
    /\ JumpsThrough(l.code, PltOpen, 48) /\ JumpsThrough(l.code, PltClose, 56)
    /\ l.rela_plt = RelaPlt /\ l.rela_dyn = RelaDyn
    /\ l.funs = [n \in DOMAIN l.source |-> l.at[n][1]]

ASSUME LibrariesAssumption == \A l \in Libraries : Linked(l)
-----------------------------------------------------------------------------
\* Function n of the library, and which of its instructions are replaced.
Fun(n) == lib.source[n]
Replaced(n) == {i \in DOMAIN Fun(n) : code[lib.at[n][i]] # lib.code[lib.at[n][i]]}

\* An instruction misuses the library when it is reached with this status.
Misuse(k, status) ==
    \/ k \in {"open", "ret"} \cup TailOpen /\ status = 1
    \/ k \in {"close", "prot"} \cup TailClose /\ status = 0

\* What an execution may come to from instruction i on, if V says it of what
\* follows: a "crash" in place of a misuse, a "misuse" or a return with the
\* library "left_open", a crash in place of something harmless ("spoiled"), or
\* a "good" return.  taken[i] is the set of the branches it may take at i.
Verdict(n, taken, V, i, status) ==
    LET x == Fun(n)[i]
    IN  IF i = Len(Fun(n)) + 1 THEN {"lost"}
        ELSE IF Misuse(x.k, status) THEN {IF i \in Replaced(n) THEN "crash" ELSE "misuse"}
        ELSE IF i \in Replaced(n) THEN {"spoiled"}
        ELSE CASE x.k \in {"ret"} \cup TailClose -> {"good"}
               [] x.k \in TailOpen -> {"left_open"}
               [] x.k = "jmp" -> V[x.to][status]
               [] x.k = "jcc" -> UNION {V[IF t THEN x.to ELSE i + 1][status] : t \in taken[i]}
               [] OTHER -> V[i + 1][CASE x.k = "open" -> 1 [] x.k = "close" -> 0 [] OTHER -> status]

Verdicts(n, taken) ==
    LET V[i \in 1..Len(Fun(n)) + 1] == [status \in 0..1 |-> Verdict(n, taken, V, i, status)]
    IN  V

AllBranches(n) == [i \in DOMAIN Fun(n) |-> BOOLEAN]
AllVerdicts(n) == Verdicts(n, AllBranches(n))[1][0]
CalledWith(n, sel) == Verdicts(n, [i \in DOMAIN Fun(n) |-> {sel \in Fun(n)[i].when}])[1][0]

\* Every instruction has one way to be reached: no branches join.
FallsInto(f, i) == f[i - 1].k \notin {"ret", "jmp"} \cup TailOpen \cup TailClose
TreeShaped(f) ==
    \A i \in 2..Len(f) : LET jumps == {j \in DOMAIN f : f[j].to = i}
                        IN  jumps = {} \/ (~FallsInto(f, i) /\ Cardinality(jumps) = 1)
-----------------------------------------------------------------------------
\* Whatever path an execution takes through the output, it crashes in place
\* of its first misuse, and nothing leaves the library open: all of it once
\* enforce has ended well.
Enforced == exit = "0" => \A n \in DOMAIN lib.source : AllVerdicts(n) \cap {"misuse", "left_open"} = {}

\* Nothing else crashes: in a function without joins the executions that
\* behave are what they were, also while the walk is under way, and enforce
\* never gives up.
Spared ==
    \A n \in DOMAIN lib.source :
        TreeShaped(Fun(n)) => "spoiled" \notin AllVerdicts(n) /\ (Len(lib.source) = 1 => exit # "1")

\* The walk over a library without loops comes to an end.
WalkEnds == <>(exit # "none")
=============================================================================
