----------------------------- MODULE StringMap ------------------------------
(***************************************************************************)
(* What dictionary.h promises: a dictionary maps strings, compared by what *)
(* Folded makes of them, to values that it owns.  It keeps the spelling    *)
(* under which a string was first set and destroys a value when it is      *)
(* replaced or removed, and all of them with the dictionary.               *)
(***************************************************************************)
EXTENDS FiniteSets

CONSTANTS Key, Value, Folded(_), NULL

VARIABLES
    exists,    \* there is a dictionary
    map,       \* for each folded string: its spelling and its value
    out,       \* what the last call returned
    destroyed  \* the values that the last call destroyed

vars == <<exists, map, out, destroyed>>

NoEntries == [f \in {} |-> NULL]
Mapped(k) == Folded(k) \in DOMAIN map
Owned == {map[f].val : f \in DOMAIN map}

Init ==
    /\ exists = FALSE
    /\ map = NoEntries
    /\ out = <<"none">>
    /\ destroyed = {}

Make ==
    /\ ~exists
    /\ exists' = TRUE
    /\ map' = NoEntries
    /\ out' = <<"make">>
    /\ destroyed' = {}

Free ==
    /\ exists
    /\ exists' = FALSE
    /\ map' = NoEntries
    /\ out' = <<"free">>
    /\ destroyed' = Owned

Set(k, v) ==
    /\ exists
    /\ v \notin Owned
    /\ map' = [f \in DOMAIN map \cup {Folded(k)} |->
                  IF f # Folded(k) THEN map[f]
                  ELSE [key |-> IF Mapped(k) THEN map[f].key ELSE k, val |-> v]]
    /\ out' = <<"set">>
    /\ destroyed' = {map[f].val : f \in DOMAIN map \cap {Folded(k)}}
    /\ UNCHANGED exists

Remove(k) ==
    /\ exists
    /\ map' = [f \in DOMAIN map \ {Folded(k)} |-> map[f]]
    /\ out' = <<"remove">>
    /\ destroyed' = {map[f].val : f \in DOMAIN map \cap {Folded(k)}}
    /\ UNCHANGED exists

Inspect(answer) ==
    /\ exists
    /\ out' = answer
    /\ destroyed' = {}
    /\ UNCHANGED <<exists, map>>

Get(k) == Inspect(<<"get", IF Mapped(k) THEN map[Folded(k)].val ELSE NULL>>)
HasKey(k) == Inspect(<<"has_key", Mapped(k)>>)
Count == Inspect(<<"count", Cardinality(DOMAIN map)>>)
Keys == Inspect(<<"keys", {map[f].key : f \in DOMAIN map}>>)

Next ==
    \/ Make \/ Free \/ Count \/ Keys
    \/ \E k \in Key : Remove(k) \/ Get(k) \/ HasKey(k)
    \/ \E k \in Key, v \in Value : Set(k, v)

Spec == Init /\ [][Next]_vars
=============================================================================
