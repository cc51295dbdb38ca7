------------------------------ MODULE MCMatcher ------------------------------
(***************************************************************************)
(* Command lines and images for TLC: words of the three languages and      *)
(* everything that is one edit away from them.                             *)
(***************************************************************************)
EXTENDS Matcher, Kernels

WordsA == {Rep("d", d) \o Rep("_", 2) \o Rep("u", u) \o Rep("_", 2) \o Rep("1", n) :
             d \in 4..5, u \in 2..3, n \in 1..3}
WordsOf(c, d, X, v, x, Y, n) ==
    Rep(c, d) \o Rep("=", 2) \o X \o Rep(v, x) \o <<"_">> \o Y \o Rep("1", n)
Xs == {<<"A">>, <<"B", "E", "A">>}
WordsB == {WordsOf("d", d, X, "x", x, Every2nd(X), n) : d \in 0..3, X \in Xs, x \in {1}, n \in {1, 3}}
          \cup {WordsOf("d", 1, <<"E">>, "x", 3, <<"E">>, 2)}
WordsC == {WordsOf("j", d, X, "v", 1, X \o X, n) : d \in {1, 3}, X \in Xs, n \in {1, 3}}
          \cup {WordsOf("j", 1, <<"E">>, "v", 3, <<"E", "E">>, 2)}

Edits(s, chars) ==
    {s} \cup {[s EXCEPT ![k] = c] : k \in DOMAIN s, c \in chars}
    \cup {RemoveAt(s, k) : k \in DOMAIN s}
    \cup {InsertAt(s, k, c) : k \in 1..Len(s) + 1, c \in chars}
    \cup {[s EXCEPT ![1] = s[k], ![k] = s[1]] : k \in DOMAIN s}

F(letter) == <<"-", letter>>
One(letter, words, chars) == {<<F(letter), s>> : s \in UNION {Edits(w, chars) : w \in words}}

ShortA == Rep("d", 4) \o Rep("_", 2) \o Rep("u", 2) \o Rep("_", 2) \o <<"7">>
ShortB == WordsOf("d", 2, <<"A">>, "x", 1, <<"A">>, 1)
ShortC == WordsOf("j", 1, <<"E">>, "v", 1, <<"E", "E">>, 1)
Mixed == {<<x, ShortB, y, ShortC, z, ShortA>> :
             x \in {F("a"), F("b"), F("t")}, y \in {F("b"), F("c"), F("z")}, z \in {F("a"), F("t"), <<>>}}

MCArgv ==
    {<<>>}
    \cup {<<s>> : s \in {<<>>, <<"-">>, <<"-", "a", "b">>, ShortA, ShortB}}
    \cup One("a", WordsA, {"d", "u", "_", "A", "1"})
    \cup One("b", WordsB, {"d", "x", "_", "=", "A", "1"})
    \cup One("c", WordsC, {"j", "v", "_", "=", "A", "1"})
    \cup {<<F("t"), F("a"), w>> : w \in WordsA} \cup {<<F("b"), F("t"), w>> : w \in WordsB}
    \cup {<<F("c"), F("t"), w>> : w \in WordsC} \cup Mixed

Extreme == {0, 24, 25, 65535}
MCJobs ==
    {[kernel |-> "none"]}
    \cup {[kernel |-> "pinwheel", dim |-> d] : d \in {8, 16, 24}}
    \cup {[kernel |-> "naive_pinwheel", dim |-> d] : d \in {2, 4, 6, 8}}
    \cup {[kernel |-> "glow", dim |-> 2, src |-> s] : s \in [1..4 -> Extreme]}
    \cup {[kernel |-> "glow", dim |-> 3, src |-> s] : s \in [1..9 -> {7, 65535}]}

=============================================================================
