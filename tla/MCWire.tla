------------------------------- MODULE MCWire -------------------------------
(***************************************************************************)
(* A small instance of RedpinWire for TLC: names with every byte that has  *)
(* a meaning in a query, a page or a list, and one beyond ASCII.           *)
(***************************************************************************)
EXTENDS RedpinWire

a == 97
b == 98
e_acute == 233

Plain == <<a, b>>
Odd == {<<a, Amp, b>>, <<Plus>>, <<Hash, a>>, <<Percent, 52, 49>>, <<Percent, a>>,
        <<Equal, e_acute>>, <<a, Semicolon>>}
Markup == {<<Less, a, Greater>>, <<Amp, Quote>>, <<Amp, 108, 116, Semicolon>>}

Pin(method, ps, qs, ended) ==
    [op |-> "pin", method |-> method, people |-> ps, places |-> qs, ended |-> ended, typed |-> TRUE]
Claim(length, typed) == [op |-> "claim", length |-> length, data |-> <<a, Equal, b>>, typed |-> typed]
Copy(name) == [op |-> "copy", name |-> name]
Foreign(status, length) == [op |-> "foreign", status |-> status, length |-> length, data |-> <<a, LF, b>>]

\* "", "0", "7", " +5", "-1", "-2", "-3", "a", and numbers around INT_MAX.
Big(d) == <<50, 49, 52, 55, 52, 56, 51, 54, 52, d>>
Lengths == {<<>>, <<48>>, <<55>>, <<SP, Plus, 53>>, <<Minus, 49>>, <<Minus, 50>>, <<Minus, 51>>, <<a>>}
           \cup {Big(d) : d \in 53..55}

\* "H 200 O", "H 404 O", "H -200", "H", "".
Statuses == {<<a, SP, 50, 48, 48, SP, b>>, <<a, SP, 52, 48, 52, SP, b>>, <<a, SP, Minus, 50, 48, 48>>, <<a>>, <<>>}

MCAsk ==
    {Pin(m, <<Plain, n>>, <<<<b>>>>, ended) : m \in {GET, POST}, n \in Odd, ended \in BOOLEAN}
    \cup {Pin(m, <<>>, <<Plain>>, TRUE) : m \in {GET, POST, W_other}}
    \cup {Pin(m, <<<<Amp, Plus, Hash, Amp, Plus, Hash>>>>, <<Plain, <<b>>>>, FALSE) : m \in {GET, POST}}
    \cup {[Pin(POST, <<Plain>>, <<Plain>>, TRUE) EXCEPT !.typed = FALSE]}
    \cup {Claim(l, typed) : l \in Lengths, typed \in BOOLEAN}
    \cup {Foreign(t, l) : t \in Statuses, l \in Lengths}
    \cup {Copy(n) : n \in {Plain} \cup Odd \cup Markup}

MCKnown == (Plain :> <<<<a, b>>, <<b, e_acute>>>>) @@ (<<a>> :> <<<<b>>>>)
=============================================================================
