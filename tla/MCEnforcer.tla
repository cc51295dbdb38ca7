----------------------------- MODULE MCEnforcer -----------------------------
(* Instances of Enforcer for TLC. *)
EXTENDS Examples

CONSTANT N    \* the longest function that is made up

\* Functions that end with ret or a jump to close_it through its slot, branch
\* forward only, and have no dead code.
Inner(n) == {open, close, prot, ret} \cup {Jcc(to, {}) : to \in 3..n}
Forward(f) == \A i \in DOMAIN f : f[i].to = 0 \/ f[i].to > i + 1
Reached(f) == \A i \in 2..Len(f) : f[i - 1] # ret \/ \E j \in 1..i - 1 : f[j].to = i
MadeUp == UNION {{f \in {g \o <<end>> : g \in [1..n - 1 -> Inner(n)], end \in {ret, I("got_close")}} :
                     Forward(f) /\ Reached(f)} : n \in 1..N}

MCLibraries == {Assemble(Functions(file)) : file \in Files} \cup {Assemble(<<f>>) : f \in MadeUp}

\* void f() { open_it(); }, in a file by itself.
TailCalls == {Assemble(<<S(<<"other", "tail_open">>)>>), Assemble(<<S(<<"open", "tail_close">>)>>)}
=============================================================================
