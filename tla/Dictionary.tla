----------------------------- MODULE Dictionary -----------------------------
(***************************************************************************)
(* server/dictionary.c: an open-addressing hash table of strings.  A slot  *)
(* of the array is NULL, REMOVED or an entry.  hash_op walks the slots of  *)
(* its key until it finds the key or NULL; an insertion reuses the first   *)
(* REMOVED slot on its way, takes the NULL slot, or, if that fills the     *)
(* array too far, doubles the array, inserts every entry again and starts  *)
(* anew.  Each of those insertions is a step of its own here (Rehash).     *)
(*                                                                         *)
(* A caller hands over a value it owns: never one the dictionary has.      *)
(***************************************************************************)
EXTENDS Integers, FiniteSets

CONSTANTS
    Key,           \* the strings
    Value,         \* the pointers handed over
    Hash1(_),       \* cs_hash or ci_hash
    Hash2(_),      \* hash2
    Folded(_),     \* two keys are equivalent when this makes them equal
    InitialSize,   \* 16 in the code
    NULL, REMOVED

ASSUME HashAssumption ==
    /\ \A k \in Key : Hash1(k) \in Int /\ Hash2(k) \in Nat
    /\ \A k, l \in Key : Folded(k) = Folded(l) => Hash1(k) = Hash1(l) /\ Hash2(k) = Hash2(l)

ASSUME SizeAssumption == InitialSize \in Nat \ {0}

Mapping == [key : Key, val : Value]

ASSUME NullAssumption ==
    /\ NULL # REMOVED
    /\ NULL \notin Mapping \cup Value
    /\ REMOVED \notin Mapping

VARIABLES
    phase,      \* "none" (no dictionary), "ready", or "growing"
    size,       \* d->array_size
    slots,      \* d->keys and d->vals
    fill,       \* d->fill_count
    count,      \* d->map_count
    old,        \* old_keys and old_vals of grow_and_rehash
    next,       \* its i
    pending,    \* the entry hash_op was inserting when it grew the array
    out,        \* what the last call returned
    destroyed   \* what the last call passed to free_value

table == <<size, slots, fill, count>>
growth == <<old, next, pending>>
dictionaryVars == <<phase, table, growth, out, destroyed>>

EmptySlots(n) == [i \in 0..n-1 |-> NULL]

DictionaryInit ==
    /\ phase = "none"
    /\ size = InitialSize
    /\ slots = EmptySlots(InitialSize)
    /\ fill = 0 /\ count = 0
    /\ old = << >> /\ next = 0 /\ pending = NULL
    /\ out = <<"none">>
    /\ destroyed = {}

Live(i) == slots[i] \notin {NULL, REMOVED}
Entries == {slots[i] : i \in {j \in 0..size-1 : Live(j)}}

\* What is in the table, also while it is copied into a larger one.
Waiting == {old[i] : i \in {j \in DOMAIN old : j >= next /\ old[j] \notin {NULL, REMOVED}}}
AllEntries == Entries \cup Waiting

-----------------------------------------------------------------------------
\* hash_op.  The array's size is a power of two: & (sz-1) is % size.
Walk(k, n) == (Hash1(k) + n * Hash2(k)) % size
Holds(i, k) == Live(i) /\ Folded(slots[i].key) = Folded(k)
Stops(k, n) == slots[Walk(k, n)] = NULL \/ Holds(Walk(k, n), k)

\* The loop for key k ends after n advances.  Slots repeat after size of them.
Ends(k, n) ==
    /\ n \in 0..size-1
    /\ Stops(k, n)
    /\ \A m \in 0..n-1 : ~Stops(k, m)

\* avail_i is the slot of advance m.
FirstRemoved(k, n, m) ==
    /\ m \in 0..n-1
    /\ slots[Walk(k, m)] = REMOVED
    /\ \A l \in 0..m-1 : slots[Walk(k, l)] # REMOVED

\* fill_count + 1 >= 0.8 * array_size
Full == 5 * (fill + 1) >= 4 * size

Write(i, k, v) == slots' = [slots EXCEPT ![i] = [key |-> k, val |-> v]]

\* Not the code: a slot that was used before is counted again.
ReuseAndCount(k, v) ==
    \E n \in 0..size-1 : \E m \in 0..size-1 :
        /\ Ends(k, n) /\ slots[Walk(k, n)] = NULL
        /\ FirstRemoved(k, n, m)
        /\ Write(Walk(k, m), k, v)
        /\ fill' = fill + 1
        /\ count' = count + 1
        /\ UNCHANGED size

\* Not the code: the first REMOVED slot is taken before the walk has ended.
ReuseAtOnce(k, v) ==
    \E m \in 0..size-1 :
        /\ FirstRemoved(k, size, m)
        /\ \A l \in 0..m : ~Stops(k, l)
        /\ Write(Walk(k, m), k, v)
        /\ count' = count + 1
        /\ UNCHANGED <<size, fill>>

Reuse(k, v) ==
    \E n \in 0..size-1 : \E m \in 0..size-1 :
        /\ Ends(k, n) /\ slots[Walk(k, n)] = NULL
        /\ FirstRemoved(k, n, m)
        /\ Write(Walk(k, m), k, v)
        /\ count' = count + 1
        /\ UNCHANGED <<size, fill>>

\* k is not in the table and none of its slots can be reused.
Fresh(k, n) ==
    /\ Ends(k, n)
    /\ slots[Walk(k, n)] = NULL
    /\ \A m \in 0..n-1 : slots[Walk(k, m)] # REMOVED

Fill(k, v) ==
    \E n \in 0..size-1 :
        /\ Fresh(k, n) /\ ~Full
        /\ Write(Walk(k, n), k, v)
        /\ fill' = fill + 1
        /\ count' = count + 1
        /\ UNCHANGED size

Overwrite(k, v) ==
    \E n \in 0..size-1 :
        /\ Ends(k, n) /\ Holds(Walk(k, n), k)
        /\ slots' = [slots EXCEPT ![Walk(k, n)].val = v]
        /\ destroyed' = {slots[Walk(k, n)].val}
        /\ UNCHANGED <<size, fill, count>>

\* Into grow_and_rehash.
Grow(k, v) ==
    \E n \in 0..size-1 :
        /\ Fresh(k, n) /\ Full
        /\ phase' = "growing"
        /\ old' = slots /\ next' = 0
        /\ pending' = [key |-> k, val |-> v]
        /\ size' = 2 * size
        /\ slots' = EmptySlots(2 * size)
        /\ fill' = 0 /\ count' = 0
        /\ UNCHANGED <<out, destroyed>>

\* hash_op in ADD_MODE.
Add(k, v) ==
    \/ /\ Overwrite(k, v) \/ ((Reuse(k, v) \/ Fill(k, v)) /\ destroyed' = {})
       /\ phase' = "ready"
       /\ old' = << >> /\ next' = 0 /\ pending' = NULL
       /\ out' = <<"set">>
    \/ Grow(k, v)

\* The loop of grow_and_rehash, for one slot of the old array.
Rehash ==
    /\ phase = "growing" /\ next \in DOMAIN old
    /\ next' = next + 1
    /\ IF old[next] \in {NULL, REMOVED} THEN UNCHANGED table
       ELSE LET e == old[next] IN Reuse(e.key, e.val) \/ Fill(e.key, e.val)
    /\ UNCHANGED <<phase, old, pending, out, destroyed>>

\* Back in hash_op: the insertion starts anew.
Retry ==
    /\ phase = "growing" /\ next \notin DOMAIN old
    /\ Add(pending.key, pending.val)

-----------------------------------------------------------------------------
make_dictionary ==
    /\ phase = "none"
    /\ phase' = "ready"
    /\ size' = InitialSize
    /\ slots' = EmptySlots(InitialSize)
    /\ fill' = 0 /\ count' = 0
    /\ out' = <<"make">>
    /\ destroyed' = {}
    /\ UNCHANGED growth

dictionary_free ==
    /\ phase = "ready"
    /\ phase' = "none"
    /\ size' = InitialSize
    /\ slots' = EmptySlots(InitialSize)
    /\ fill' = 0 /\ count' = 0
    /\ out' = <<"free">>
    /\ destroyed' = {e.val : e \in Entries}
    /\ UNCHANGED growth

dictionary_set(k, v) ==
    /\ phase = "ready"
    /\ v \notin {e.val : e \in Entries}
    /\ Add(k, v)

\* Not the code: the slot becomes NULL again.
dictionary_removeToNull(k) ==
    /\ phase = "ready"
    /\ \E n \in 0..size-1 :
          /\ Ends(k, n) /\ Holds(Walk(k, n), k)
          /\ slots' = [slots EXCEPT ![Walk(k, n)] = NULL]
          /\ fill' = fill - 1
          /\ count' = count - 1
          /\ destroyed' = {slots[Walk(k, n)].val}
    /\ out' = <<"remove">>
    /\ UNCHANGED <<phase, size, growth>>

\* Not the code: the count goes down although there was nothing to remove.
dictionary_removeAnyway(k) ==
    /\ phase = "ready"
    /\ \E n \in 0..size-1 :
          /\ Ends(k, n)
          /\ IF Holds(Walk(k, n), k)
             THEN /\ slots' = [slots EXCEPT ![Walk(k, n)] = REMOVED]
                  /\ destroyed' = {slots[Walk(k, n)].val}
             ELSE destroyed' = {} /\ UNCHANGED slots
    /\ count' = count - 1
    /\ out' = <<"remove">>
    /\ UNCHANGED <<phase, size, fill, growth>>

dictionary_remove(k) ==
    /\ phase = "ready"
    /\ \E n \in 0..size-1 :
          /\ Ends(k, n)
          /\ IF Holds(Walk(k, n), k)
             THEN /\ slots' = [slots EXCEPT ![Walk(k, n)] = REMOVED]
                  /\ count' = count - 1
                  /\ destroyed' = {slots[Walk(k, n)].val}
             ELSE destroyed' = {} /\ UNCHANGED <<slots, count>>
    /\ out' = <<"remove">>
    /\ UNCHANGED <<phase, size, fill, growth>>

Answer(a) ==
    /\ phase = "ready"
    /\ out' = a
    /\ destroyed' = {}
    /\ UNCHANGED <<phase, table, growth>>

dictionary_get(k) ==
    \E n \in 0..size-1 :
        /\ Ends(k, n)
        /\ Answer(<<"get", IF Holds(Walk(k, n), k) THEN slots[Walk(k, n)].val ELSE NULL>>)

dictionary_has_key(k) ==
    \E n \in 0..size-1 : Ends(k, n) /\ Answer(<<"has_key", Holds(Walk(k, n), k)>>)

dictionary_count == Answer(<<"count", count>>)

\* The keys come in the order of their slots; their set says what was listed.
dictionary_keys == Answer(<<"keys", {e.key : e \in Entries}>>)

DictionaryNext ==
    \/ make_dictionary \/ dictionary_free \/ dictionary_count \/ dictionary_keys
    \/ Rehash \/ Retry
    \/ \E k \in Key : dictionary_remove(k) \/ dictionary_get(k) \/ dictionary_has_key(k)
    \/ \E k \in Key, v \in Value : dictionary_set(k, v)

DictionarySpec == DictionaryInit /\ [][DictionaryNext]_dictionaryVars

-----------------------------------------------------------------------------
DictionaryTypeOK ==
    /\ phase \in {"none", "ready", "growing"}
    /\ size \in Nat \ {0}
    /\ slots \in [0..size-1 -> Mapping \cup {NULL, REMOVED}]
    /\ fill \in Nat /\ count \in Nat
    /\ IF phase = "growing"
       THEN /\ old \in [0..(size \div 2)-1 -> Mapping \cup {NULL, REMOVED}]
            /\ next \in 0..(size \div 2)
            /\ pending \in Mapping
       ELSE old = << >> /\ next = 0 /\ pending = NULL
    /\ destroyed \subseteq Value

(* fill_count counts the slots that are not NULL and map_count the entries, *)
(* through every reuse, removal and growth.  dictionary_keys allocates      *)
(* map_count + 1 pointers and then stores one per entry.                    *)
CountsAgree ==
    /\ fill = Cardinality({i \in 0..size-1 : slots[i] # NULL})
    /\ count = Cardinality({i \in 0..size-1 : Live(i)})

(* "always less than array_size * FILL_FACTOR" (dictionary.c:9): there is   *)
(* always a NULL slot.                                                      *)
RoomLeft == 5 * fill < 4 * size

(* The loops of hash_op end, for every string a caller may ask for, whether *)
(* it is in the table or not: hash2 is odd, the size is a power of two, and *)
(* the walk reaches a NULL slot if nothing else.                            *)
WalksEnd == \A k \in Key : \E n \in 0..size-1 : Ends(k, n)

(* Every entry is found from its own key: no removal and no reuse of a slot *)
(* cuts the walk to an entry, and no key is in the table twice.             *)
Findable ==
    \A i \in 0..size-1 : Live(i) =>
        \E n \in 0..size-1 : Ends(slots[i].key, n) /\ Walk(slots[i].key, n) = i

(* Every call does to its caller what dictionary.h says, growth included:   *)
(* what is returned, which spelling is kept, which values are destroyed.    *)
EntryFor(f) == CHOOSE e \in AllEntries : Folded(e.key) = f
Abstract == INSTANCE StringMap WITH
    exists <- phase # "none",
    map <- [f \in {Folded(e.key) : e \in AllEntries} |-> EntryFor(f)]
ImplementsStringMap == Abstract!Spec
=============================================================================
