----------------------------- MODULE MCStrings ------------------------------
(***************************************************************************)
(* The strings of redpin for TLC: the dictionary that keeps them and the   *)
(* requests that carry them.  The two models share no state: a behaviour   *)
(* is one of either, and what does not run stays as it started.            *)
(***************************************************************************)
EXTENDS MCDictionary, MCWire

VARIABLE running

stringsVars == <<running, dictionaryVars, vars>>

StringsInit ==
    /\ running \in {"dictionary", "request"} /\ DictionaryInit /\ Init
    /\ running = "dictionary" => ask = Copy(Plain)

StringsNext ==
    \/ running = "dictionary" /\ DictionaryNext /\ UNCHANGED <<running, vars>>
    \/ running = "request" /\ Next /\ UNCHANGED <<running, dictionaryVars>>

StringsSpec == StringsInit /\ [][StringsNext]_stringsVars

\* The type invariants of both models.
TypesOK == DictionaryTypeOK /\ TypeOK
=============================================================================
