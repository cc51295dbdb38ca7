---------------------------- MODULE MCDictionary ----------------------------
(***************************************************************************)
(* Small dictionaries.  The strings collide in the small arrays of the     *)
(* model: "a", "A", "e" and the byte 225 start in slot 1 of 4, "bc" in     *)
(* another one, and "bc" advances by 3 where the others advance by 1.  The *)
(* array starts with 2 slots instead of 16, so that it is doubled twice.   *)
(***************************************************************************)
EXTENDS Dictionary, TLC

CONSTANTS v1, v2, v3, v4, v5

H == INSTANCE StringHash

Strings == {<< 97 >>, << 65 >>, << 101 >>, <<98, 99>>, << 225 >>}

\* The results for these strings, worked out once.
CiHash == [k \in Strings |-> H!ci_hash(k)]
Hash2Of == [k \in Strings |-> H!hash2(k)]
CiFolded == [k \in Strings |-> H!ci_folded(k)]

ci_hash(k) == CiHash[k]
hash2(k) == Hash2Of[k]
ci_folded(k) == CiFolded[k]

Values == {v1, v2, v3, v4, v5}
Symmetry == Permutations(Values)
=============================================================================
