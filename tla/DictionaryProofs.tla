-------------------------- MODULE DictionaryProofs --------------------------
(***************************************************************************)
(* The dictionary of any strings, hashed in any way that agrees with their *)
(* comparison.                                                             *)
(***************************************************************************)
EXTENDS Dictionary, Sequences, FiniteSetTheorems, WellFoundedInduction, TLAPS

Slot == Mapping \cup {NULL, REMOVED}
Taken(s, n) == {i \in 0..n-1 : s[i] # NULL}
LiveIn(s, n) == {i \in 0..n-1 : s[i] \notin {NULL, REMOVED}}

-----------------------------------------------------------------------------
(* The counts of an array after each kind of write. *)

LEMMA CountsFinite ==
    ASSUME NEW n \in Nat, NEW s
    PROVE  /\ IsFiniteSet(Taken(s, n)) /\ Cardinality(Taken(s, n)) \in Nat
           /\ IsFiniteSet(LiveIn(s, n)) /\ Cardinality(LiveIn(s, n)) \in Nat
<1>1. IsFiniteSet(0..n-1)
  BY FS_Interval
<1>2. Taken(s, n) \subseteq 0..n-1 /\ LiveIn(s, n) \subseteq 0..n-1
  BY DEF Taken, LiveIn
<1> QED
  BY <1>1, <1>2, FS_Subset, FS_CardinalityType

LEMMA EmptyCounts ==
    ASSUME NEW n \in Nat
    PROVE  Cardinality(Taken(EmptySlots(n), n)) = 0 /\ Cardinality(LiveIn(EmptySlots(n), n)) = 0
<1>1. Taken(EmptySlots(n), n) = {} /\ LiveIn(EmptySlots(n), n) = {}
  BY DEF Taken, LiveIn, EmptySlots
<1> QED
  BY <1>1, FS_EmptySet

LEMMA WriteNull ==
    ASSUME NEW n \in Nat, NEW s \in [0..n-1 -> Slot], NEW i \in 0..n-1, NEW e \in Mapping,
           s[i] = NULL
    PROVE  LET t == [s EXCEPT ![i] = e]
           IN  /\ Cardinality(Taken(t, n)) = Cardinality(Taken(s, n)) + 1
               /\ Cardinality(LiveIn(t, n)) = Cardinality(LiveIn(s, n)) + 1
<1> DEFINE t == [s EXCEPT ![i] = e]
<1>1. t \in [0..n-1 -> Slot] /\ t[i] = e /\ e \notin {NULL, REMOVED}
  BY NullAssumption DEF Slot
<1>2. Taken(t, n) = Taken(s, n) \cup {i} /\ i \notin Taken(s, n)
  BY <1>1 DEF Taken
<1>3. LiveIn(t, n) = LiveIn(s, n) \cup {i} /\ i \notin LiveIn(s, n)
  BY <1>1 DEF LiveIn
<1> QED
  BY <1>2, <1>3, CountsFinite, FS_AddElement

LEMMA WriteRemoved ==
    ASSUME NEW n \in Nat, NEW s \in [0..n-1 -> Slot], NEW i \in 0..n-1, NEW e \in Mapping,
           s[i] = REMOVED
    PROVE  LET t == [s EXCEPT ![i] = e]
           IN  /\ Cardinality(Taken(t, n)) = Cardinality(Taken(s, n))
               /\ Cardinality(LiveIn(t, n)) = Cardinality(LiveIn(s, n)) + 1
<1> DEFINE t == [s EXCEPT ![i] = e]
<1>1. t \in [0..n-1 -> Slot] /\ t[i] = e /\ e \notin {NULL, REMOVED} /\ REMOVED # NULL
  BY NullAssumption DEF Slot
<1>2. Taken(t, n) = Taken(s, n)
  BY <1>1 DEF Taken
<1>3. LiveIn(t, n) = LiveIn(s, n) \cup {i} /\ i \notin LiveIn(s, n)
  BY <1>1 DEF LiveIn
<1> QED
  BY <1>2, <1>3, CountsFinite, FS_AddElement

LEMMA WriteLive ==
    ASSUME NEW n \in Nat, NEW s \in [0..n-1 -> Slot], NEW i \in 0..n-1, NEW e \in Mapping,
           s[i] \notin {NULL, REMOVED}
    PROVE  LET t == [s EXCEPT ![i] = e]
           IN  Taken(t, n) = Taken(s, n) /\ LiveIn(t, n) = LiveIn(s, n)
BY NullAssumption DEF Taken, LiveIn, Slot

LEMMA WriteOff ==
    ASSUME NEW n \in Nat, NEW s \in [0..n-1 -> Slot], NEW i \in 0..n-1,
           s[i] \notin {NULL, REMOVED}
    PROVE  LET t == [s EXCEPT ![i] = REMOVED]
           IN  /\ Cardinality(Taken(t, n)) = Cardinality(Taken(s, n))
               /\ Cardinality(LiveIn(t, n)) = Cardinality(LiveIn(s, n)) - 1
               /\ Cardinality(LiveIn(s, n)) > 0
<1> DEFINE t == [s EXCEPT ![i] = REMOVED]
<1>1. t \in [0..n-1 -> Slot] /\ t[i] = REMOVED /\ REMOVED # NULL
  BY NullAssumption DEF Slot
<1>2. Taken(t, n) = Taken(s, n)
  BY <1>1 DEF Taken
<1>3. LiveIn(t, n) = LiveIn(s, n) \ {i} /\ i \in LiveIn(s, n)
  BY <1>1 DEF LiveIn
<1>4. IsFiniteSet(LiveIn(s, n)) /\ Cardinality(LiveIn(s, n)) \in Nat
  BY CountsFinite
<1>5. Cardinality(LiveIn(s, n)) # 0
  BY <1>3, <1>4, FS_EmptySet
<1>6. Cardinality(LiveIn(t, n)) = Cardinality(LiveIn(s, n)) - 1
  BY <1>3, <1>4, FS_RemoveElement
<1> QED
  BY <1>2, <1>4, <1>5, <1>6

-----------------------------------------------------------------------------
(* What hash_op finds lies in the array. *)

LEMMA WalkRange ==
    ASSUME DictionaryTypeOK, NEW k \in Key, NEW n \in Nat
    PROVE  Walk(k, n) \in 0..size-1
<1>1. Hash1(k) + n * Hash2(k) \in Int
  BY HashAssumption
<1>2. \A x \in Int : x % size \in 0..size-1
  BY DEF DictionaryTypeOK
<1> QED
  BY <1>1, <1>2 DEF Walk

-----------------------------------------------------------------------------
(* The types and the counts, which are one inductive invariant: a count is *)
(* only decremented where there is an entry.                               *)

Counted == DictionaryTypeOK /\ CountsAgree /\ RoomLeft

LEMMA CountedInit == DictionaryInit => Counted
<1> SUFFICES ASSUME DictionaryInit PROVE Counted
  OBVIOUS
<1>1. DictionaryTypeOK
  BY SizeAssumption DEF DictionaryInit, DictionaryTypeOK, EmptySlots
<1>2. Taken(slots, size) = {i \in 0..size-1 : slots[i] # NULL} /\ LiveIn(slots, size) = {i \in 0..size-1 : Live(i)}
  BY DEF Taken, LiveIn, Live
<1>3. CountsAgree
  BY <1>2, EmptyCounts, SizeAssumption DEF DictionaryInit, CountsAgree
<1>4. RoomLeft
  BY SizeAssumption DEF DictionaryInit, RoomLeft
<1> QED
  BY <1>1, <1>3, <1>4 DEF Counted

(* The three ways to change the table leave its part of the invariant. *)
TableOK ==
    /\ size \in Nat \ {0}
    /\ slots \in [0..size-1 -> Slot]
    /\ fill \in Nat /\ count \in Nat
    /\ fill = Cardinality(Taken(slots, size))
    /\ count = Cardinality(LiveIn(slots, size))
    /\ RoomLeft

RestOK ==
    /\ phase \in {"none", "ready", "growing"}
    /\ IF phase = "growing"
       THEN /\ old \in [0..(size \div 2)-1 -> Slot]
            /\ next \in 0..(size \div 2)
            /\ pending \in Mapping
       ELSE old = << >> /\ next = 0 /\ pending = NULL
    /\ destroyed \subseteq Value

LEMMA CountedParts == Counted <=> TableOK /\ RestOK
<1>1. Taken(slots, size) = {i \in 0..size-1 : slots[i] # NULL} /\ LiveIn(slots, size) = {i \in 0..size-1 : Live(i)}
  BY DEF Taken, LiveIn, Live
<1> QED
  BY <1>1 DEF Counted, DictionaryTypeOK, CountsAgree, TableOK, RestOK, Slot

LEMMA CountedPartsNext == Counted' <=> TableOK' /\ RestOK'
<1>1. /\ Taken(slots', size') = {i \in 0..size'-1 : slots'[i] # NULL}
      /\ LiveIn(slots', size') = {i \in 0..size'-1 : slots'[i] \notin {NULL, REMOVED}}
  BY DEF Taken, LiveIn
<1> QED
  BY <1>1 DEF Counted, DictionaryTypeOK, CountsAgree, TableOK, RestOK, Slot, Live

LEMMA EntryMade ==
    ASSUME NEW k \in Key, NEW v \in Value
    PROVE  [key |-> k, val |-> v] \in Mapping
BY DEF Mapping

LEMMA ReuseKeeps ==
    ASSUME TableOK, RestOK, NEW k \in Key, NEW v \in Value, Reuse(k, v)
    PROVE  TableOK'
<1>1. PICK n \in 0..size-1, m \in 0..size-1 :
          FirstRemoved(k, n, m) /\ Write(Walk(k, m), k, v)
  BY DEF Reuse
<1>2. DictionaryTypeOK
  BY DEF TableOK, RestOK, DictionaryTypeOK, Slot
<1>3. m \in Nat /\ Walk(k, m) \in 0..size-1
  BY <1>2, WalkRange DEF TableOK
<1>4. slots[Walk(k, m)] = REMOVED
  BY <1>1 DEF FirstRemoved
<1>5. /\ slots' = [slots EXCEPT ![Walk(k, m)] = [key |-> k, val |-> v]]
      /\ UNCHANGED <<size, fill>> /\ count' = count + 1
  BY <1>1 DEF Write, Reuse
<1>6. /\ Cardinality(Taken(slots', size)) = Cardinality(Taken(slots, size))
      /\ Cardinality(LiveIn(slots', size)) = Cardinality(LiveIn(slots, size)) + 1
  BY <1>3, <1>4, <1>5, EntryMade, WriteRemoved DEF TableOK
<1> QED
  BY <1>3, <1>5, <1>6, EntryMade DEF TableOK, RoomLeft, Slot

LEMMA FillKeeps ==
    ASSUME TableOK, RestOK, NEW k \in Key, NEW v \in Value, Fill(k, v)
    PROVE  TableOK'
<1>1. PICK n \in 0..size-1 : Fresh(k, n) /\ Write(Walk(k, n), k, v)
  BY DEF Fill
<1>2. DictionaryTypeOK
  BY DEF TableOK, RestOK, DictionaryTypeOK, Slot
<1>3. n \in Nat /\ Walk(k, n) \in 0..size-1
  BY <1>2, WalkRange DEF TableOK
<1>4. slots[Walk(k, n)] = NULL
  BY <1>1 DEF Fresh
<1>5. /\ slots' = [slots EXCEPT ![Walk(k, n)] = [key |-> k, val |-> v]]
      /\ UNCHANGED size /\ fill' = fill + 1 /\ count' = count + 1 /\ ~Full
  BY <1>1 DEF Write, Fill
<1>6. /\ Cardinality(Taken(slots', size)) = Cardinality(Taken(slots, size)) + 1
      /\ Cardinality(LiveIn(slots', size)) = Cardinality(LiveIn(slots, size)) + 1
  BY <1>3, <1>4, <1>5, EntryMade, WriteNull DEF TableOK
<1>7. RoomLeft'
  BY <1>5 DEF RoomLeft, Full, TableOK
<1> QED
  BY <1>3, <1>5, <1>6, <1>7, EntryMade DEF TableOK, Slot

LEMMA OverwriteKeeps ==
    ASSUME TableOK, RestOK, NEW k \in Key, NEW v \in Value, Overwrite(k, v)
    PROVE  TableOK' /\ destroyed' \subseteq Value
<1>1. PICK n \in 0..size-1 :
          /\ Holds(Walk(k, n), k)
          /\ slots' = [slots EXCEPT ![Walk(k, n)].val = v]
          /\ destroyed' = {slots[Walk(k, n)].val}
  BY DEF Overwrite
<1>2. DictionaryTypeOK
  BY DEF TableOK, RestOK, DictionaryTypeOK, Slot
<1>3. n \in Nat /\ Walk(k, n) \in 0..size-1
  BY <1>2, WalkRange DEF TableOK
<1>4. slots[Walk(k, n)] \notin {NULL, REMOVED} /\ slots[Walk(k, n)] \in Mapping
  BY <1>1, <1>3 DEF Holds, Live, TableOK, Slot
<1> DEFINE e == [slots[Walk(k, n)] EXCEPT !.val = v]
<1>5. e \in Mapping /\ slots[Walk(k, n)].val \in Value
  BY <1>4 DEF Mapping
<1>6. slots' = [slots EXCEPT ![Walk(k, n)] = e] /\ UNCHANGED <<size, fill, count>>
  BY <1>1 DEF Overwrite
<1>7. Taken(slots', size) = Taken(slots, size) /\ LiveIn(slots', size) = LiveIn(slots, size)
  BY <1>3, <1>4, <1>5, <1>6, WriteLive DEF TableOK
<1>8. slots' \in [0..size-1 -> Slot]
  BY <1>3, <1>5, <1>6 DEF TableOK, Slot
<1> QED
  BY <1>1, <1>5, <1>6, <1>7, <1>8 DEF TableOK, RoomLeft

LEMMA EmptyTable ==
    ASSUME NEW n \in Nat \ {0}, size' = n, slots' = EmptySlots(n), fill' = 0, count' = 0
    PROVE  TableOK'
<1>1. slots' \in [0..n-1 -> Slot]
  BY DEF EmptySlots, Slot
<1>2. Cardinality(Taken(slots', n)) = 0 /\ Cardinality(LiveIn(slots', n)) = 0
  BY EmptyCounts
<1> QED
  BY <1>1, <1>2 DEF TableOK, RoomLeft

LEMMA GrowKeeps ==
    ASSUME TableOK, RestOK, NEW k \in Key, NEW v \in Value, Grow(k, v)
    PROVE  TableOK' /\ RestOK'
<1>1. /\ phase' = "growing" /\ old' = slots /\ next' = 0
      /\ pending' = [key |-> k, val |-> v]
      /\ size' = 2 * size /\ slots' = EmptySlots(2 * size)
      /\ fill' = 0 /\ count' = 0 /\ UNCHANGED destroyed
  BY DEF Grow
<1>2. 2 * size \in Nat \ {0} /\ (2 * size) \div 2 = size
  BY DEF TableOK
<1>3. TableOK'
  BY <1>1, <1>2, EmptyTable
<1> QED
  BY <1>1, <1>2, <1>3, EntryMade DEF TableOK, RestOK

LEMMA AddKeeps ==
    ASSUME TableOK, RestOK, NEW k \in Key, NEW v \in Value, Add(k, v)
    PROVE  TableOK' /\ RestOK'
<1>1. CASE Grow(k, v)
  BY <1>1, GrowKeeps
<1>2. CASE ~Grow(k, v)
  <2>1. /\ phase' = "ready" /\ old' = << >> /\ next' = 0 /\ pending' = NULL
        /\ Overwrite(k, v) \/ ((Reuse(k, v) \/ Fill(k, v)) /\ destroyed' = {})
    BY <1>2 DEF Add
  <2>2. TableOK' /\ destroyed' \subseteq Value
    BY <2>1, ReuseKeeps, FillKeeps, OverwriteKeeps
  <2> QED
    BY <2>1, <2>2 DEF RestOK
<1> QED
  BY <1>1, <1>2

LEMMA CountedNext ==
    ASSUME Counted, [DictionaryNext]_dictionaryVars
    PROVE  Counted'
<1>0. TableOK /\ RestOK
  BY CountedParts
<1>1. ASSUME make_dictionary PROVE TableOK' /\ RestOK'
  BY <1>0, <1>1, EmptyTable, SizeAssumption DEF make_dictionary, growth, RestOK
<1>2. ASSUME dictionary_free PROVE TableOK' /\ RestOK'
  <2>1. TableOK'
    BY <1>2, EmptyTable, SizeAssumption DEF dictionary_free
  <2>2. \A e \in Entries : e.val \in Value
    BY <1>0 DEF Entries, Live, TableOK, Slot, Mapping
  <2> QED
    BY <1>0, <1>2, <2>1, <2>2 DEF dictionary_free, growth, RestOK
<1>3. ASSUME NEW a, Answer(a) PROVE TableOK' /\ RestOK'
  BY <1>0, <1>3 DEF Answer, table, growth, TableOK, RestOK, RoomLeft
<1>4. ASSUME Rehash PROVE TableOK' /\ RestOK'
  <2>1. RestOK'
    BY <1>0, <1>4 DEF Rehash, RestOK, table, TableOK, Reuse, Fill
  <2>2. CASE old[next] \in {NULL, REMOVED}
    BY <1>0, <1>4, <2>1, <2>2 DEF Rehash, table, TableOK, RoomLeft
  <2>3. CASE old[next] \notin {NULL, REMOVED}
    <3>1. old[next] \in Mapping
      BY <1>0, <1>4, <2>3 DEF Rehash, RestOK, Slot
    <3>2. old[next].key \in Key /\ old[next].val \in Value
      BY <3>1 DEF Mapping
    <3>3. Reuse(old[next].key, old[next].val) \/ Fill(old[next].key, old[next].val)
      BY <1>4, <2>3 DEF Rehash
    <3> QED
      BY <1>0, <2>1, <3>2, <3>3, ReuseKeeps, FillKeeps
  <2> QED
    BY <2>1, <2>2, <2>3
<1>5. ASSUME Retry PROVE TableOK' /\ RestOK'
  <2>1. pending.key \in Key /\ pending.val \in Value
    BY <1>0, <1>5 DEF Retry, RestOK, Mapping
  <2> QED
    BY <1>0, <1>5, <2>1, AddKeeps DEF Retry
<1>6. ASSUME NEW k \in Key, dictionary_remove(k) PROVE TableOK' /\ RestOK'
  <2>1. PICK n \in 0..size-1 :
            IF Holds(Walk(k, n), k)
            THEN /\ slots' = [slots EXCEPT ![Walk(k, n)] = REMOVED]
                 /\ count' = count - 1
                 /\ destroyed' = {slots[Walk(k, n)].val}
            ELSE destroyed' = {} /\ UNCHANGED <<slots, count>>
    BY <1>6 DEF dictionary_remove
  <2>2. UNCHANGED <<phase, size, fill, growth>>
    BY <1>6 DEF dictionary_remove
  <2>3. DictionaryTypeOK
    BY DEF Counted
  <2>4. n \in Nat /\ Walk(k, n) \in 0..size-1
    BY <1>0, <2>3, WalkRange DEF TableOK
  <2>5. CASE Holds(Walk(k, n), k)
    <3>1. slots[Walk(k, n)] \notin {NULL, REMOVED} /\ slots[Walk(k, n)] \in Mapping
      BY <1>0, <2>4, <2>5 DEF Holds, Live, TableOK, Slot
    <3>2. /\ Cardinality(Taken(slots', size)) = Cardinality(Taken(slots, size))
          /\ Cardinality(LiveIn(slots', size)) = Cardinality(LiveIn(slots, size)) - 1
          /\ Cardinality(LiveIn(slots, size)) > 0
      BY <1>0, <2>1, <2>4, <2>5, <3>1, WriteOff DEF TableOK
    <3>3. TableOK'
      BY <1>0, <2>1, <2>2, <2>4, <2>5, <3>2 DEF TableOK, RoomLeft, Slot
    <3>4. destroyed' \subseteq Value
      BY <2>1, <2>5, <3>1 DEF Mapping
    <3> QED
      BY <1>0, <2>2, <3>3, <3>4 DEF RestOK, growth
  <2>6. CASE ~Holds(Walk(k, n), k)
    BY <1>0, <2>1, <2>2, <2>6 DEF TableOK, RestOK, RoomLeft, growth
  <2> QED
    BY <2>5, <2>6
<1>7. ASSUME NEW k \in Key, NEW v \in Value, dictionary_set(k, v) PROVE TableOK' /\ RestOK'
  BY <1>0, <1>7, AddKeeps DEF dictionary_set
<1>8. ASSUME UNCHANGED dictionaryVars PROVE TableOK' /\ RestOK'
  BY <1>0, <1>8 DEF dictionaryVars, table, growth, TableOK, RestOK, RoomLeft
<1>9. ASSUME NEW k \in Key, dictionary_get(k) \/ dictionary_has_key(k) PROVE TableOK' /\ RestOK'
  BY <1>3, <1>9 DEF dictionary_get, dictionary_has_key
<1>10. ASSUME dictionary_count \/ dictionary_keys PROVE TableOK' /\ RestOK'
  BY <1>3, <1>10 DEF dictionary_count, dictionary_keys
<1> QED
  BY <1>1, <1>2, <1>4, <1>5, <1>6, <1>7, <1>8, <1>9, <1>10, CountedPartsNext DEF DictionaryNext

(* The counts of the dictionary, fill_count and map_count, are right and   *)
(* the array keeps its share of NULL slots, for any strings and any number *)
(* of calls.                                                               *)
THEOREM CountsRight == DictionarySpec => [](DictionaryTypeOK /\ CountsAgree /\ RoomLeft)
<1>1. DictionaryInit => Counted
  BY CountedInit
<1>2. Counted /\ [DictionaryNext]_dictionaryVars => Counted'
  BY CountedNext
<1>3. Counted => DictionaryTypeOK /\ CountsAgree /\ RoomLeft
  BY DEF Counted
<1> QED
  BY <1>1, <1>2, <1>3, PTL DEF DictionarySpec

-----------------------------------------------------------------------------
(* Every entry is found from its own key. *)

LEMMA EntryAt ==
    ASSUME DictionaryTypeOK, NEW i \in 0..size-1, Live(i)
    PROVE  slots[i] \in Mapping /\ slots[i].key \in Key /\ slots[i].val \in Value
BY DEF DictionaryTypeOK, Live, Mapping

(* A key that is in the table is found where it is. *)
LEMMA PresentIsFound ==
    ASSUME DictionaryTypeOK, Findable, NEW k \in Key, NEW i \in 0..size-1, Holds(i, k)
    PROVE  \E n \in 0..size-1 : Ends(k, n) /\ Walk(k, n) = i
<1>1. Live(i) /\ Folded(slots[i].key) = Folded(k) /\ slots[i].key \in Key
  BY EntryAt DEF Holds
<1>2. PICK n \in 0..size-1 : Ends(slots[i].key, n) /\ Walk(slots[i].key, n) = i
  BY <1>1 DEF Findable
<1>3. Hash1(slots[i].key) = Hash1(k) /\ Hash2(slots[i].key) = Hash2(k)
  BY <1>1, HashAssumption
<1>4. \A m : Walk(slots[i].key, m) = Walk(k, m)
  BY <1>3 DEF Walk
<1>5. \A m : Stops(slots[i].key, m) <=> Stops(k, m)
  BY <1>1, <1>4 DEF Stops, Holds
<1> QED
  BY <1>2, <1>4, <1>5 DEF Ends

LEMMA EndsOnce ==
    ASSUME NEW k, NEW m, NEW n, Ends(k, m), Ends(k, n), size \in Nat
    PROVE  m = n
BY DEF Ends

(* A walk that ends at NULL shows that its key is not in the table. *)
LEMMA NullIsAbsent ==
    ASSUME DictionaryTypeOK, Findable, NEW k \in Key, NEW n, Ends(k, n), slots[Walk(k, n)] = NULL
    PROVE  \A i \in 0..size-1 : ~Holds(i, k)
<1> SUFFICES ASSUME NEW i \in 0..size-1, Holds(i, k) PROVE FALSE
  OBVIOUS
<1>1. PICK m \in 0..size-1 : Ends(k, m) /\ Walk(k, m) = i
  BY PresentIsFound
<1>2. m = n
  BY <1>1, EndsOnce DEF DictionaryTypeOK
<1> QED
  BY <1>1, <1>2 DEF Holds, Live

(* Findable, with a name for the key: the prime of an expression cannot be *)
(* taken twice.                                                            *)
LEMMA FindableNext ==
    ASSUME \A i \in 0..size'-1 : \A k :
              (Live(i)' /\ k = slots'[i].key) =>
                  \E n \in 0..size'-1 : Ends(k, n)' /\ Walk(k, n)' = i
    PROVE  Findable'
BY DEF Findable, Ends, Stops, Holds, Live, Walk

(* An entry can be written wherever the walk of its key gets to first. *)
LEMMA WriteKeepsFindable ==
    ASSUME DictionaryTypeOK, Findable, UNCHANGED size,
           NEW k \in Key, NEW v \in Value, NEW m \in 0..size-1,
           slots' = [slots EXCEPT ![Walk(k, m)] = [key |-> k, val |-> v]],
           ~Live(Walk(k, m)),
           \A i \in 0..size-1 : ~Holds(i, k),
           \A l \in 0..m-1 : ~Stops(k, l) /\ Walk(k, l) # Walk(k, m)
    PROVE  Findable'
<1>0. size \in Nat \ {0} /\ slots \in [0..size-1 -> Mapping \cup {NULL, REMOVED}]
  BY DEF DictionaryTypeOK
<1>1. ASSUME NEW l \in Key, NEW n \in 0..size-1 PROVE Walk(l, n) \in 0..size-1
  <2>1. n \in Nat
    BY <1>0
  <2> QED
    BY <2>1, WalkRange
<1>2. \A l, n : Walk(l, n)' = Walk(l, n)
  BY DEF Walk
<1>3. PICK j \in 0..size-1 : j = Walk(k, m)
  BY <1>1
<1>4. PICK e : e = [key |-> k, val |-> v]
  OBVIOUS
<1>5. e \notin {NULL, REMOVED} /\ e.key = k /\ slots'[j] = e
  BY <1>0, <1>3, <1>4, EntryMade, NullAssumption
<1>6. \A i \in 0..size-1 : i # j => slots'[i] = slots[i]
  BY <1>0, <1>3
<1> SUFFICES ASSUME NEW i \in 0..size-1, NEW x, Live(i)', x = slots'[i].key
             PROVE  \E n \in 0..size-1 : Ends(x, n)' /\ Walk(x, n)' = i
  BY FindableNext
<1>7. CASE i = j
  <2>1. x = k
    BY <1>5, <1>7
  <2>2. Stops(k, m)'
    BY <1>2, <1>3, <1>5 DEF Stops, Holds, Live
  <2>3. ASSUME NEW l \in 0..m-1 PROVE ~Stops(k, l)'
    <3>1. l \in 0..size-1
      BY <1>0
    <3>2. Walk(k, l) \in 0..size-1 /\ Walk(k, l) # j
      BY <1>1, <1>3, <3>1
    <3> QED
      BY <1>2, <1>6, <3>2 DEF Stops, Holds, Live
  <2>4. Ends(k, m)' /\ Walk(k, m)' = i
    BY <1>2, <1>3, <1>7, <2>2, <2>3 DEF Ends
  <2> QED
    BY <2>1, <2>4
<1>8. CASE i # j
  <2>1. slots'[i] = slots[i] /\ Live(i)
    BY <1>6, <1>8 DEF Live
  <2>2. x \in Key /\ x = slots[i].key
    BY <2>1, EntryAt
  <2>3. PICK n \in 0..size-1 : Ends(x, n) /\ Walk(x, n) = i
    BY <2>1, <2>2 DEF Findable
  <2>4. Folded(x) # Folded(k)
    BY <2>1, <2>2 DEF Holds
  <2>5. Stops(x, n)'
    BY <1>2, <2>1, <2>2, <2>3 DEF Ends, Stops, Holds, Live
  <2>6. ASSUME NEW p \in 0..n-1 PROVE ~Stops(x, p)'
    <3>1. p \in 0..size-1
      BY <1>0
    <3>2. Walk(x, p) \in 0..size-1 /\ ~Stops(x, p)
      BY <1>1, <2>2, <2>3, <3>1 DEF Ends
    <3>3. CASE Walk(x, p) = j
      BY <1>2, <1>5, <2>4, <3>3 DEF Stops, Holds, Live
    <3>4. CASE Walk(x, p) # j
      BY <1>2, <1>6, <3>2, <3>4 DEF Stops, Holds, Live
    <3> QED
      BY <3>3, <3>4
  <2> QED
    BY <1>2, <2>3, <2>5, <2>6 DEF Ends
<1> QED
  BY <1>7, <1>8

LEMMA ReuseFindable ==
    ASSUME DictionaryTypeOK, Findable, NEW k \in Key, NEW v \in Value, Reuse(k, v)
    PROVE  Findable'
<1>1. PICK n \in 0..size-1, m \in 0..size-1 :
          /\ Ends(k, n) /\ slots[Walk(k, n)] = NULL
          /\ FirstRemoved(k, n, m)
          /\ Write(Walk(k, m), k, v)
          /\ UNCHANGED size
  BY DEF Reuse
<1>2. \A i \in 0..size-1 : ~Holds(i, k)
  BY <1>1, NullIsAbsent
<1>3. ~Live(Walk(k, m)) /\ m \in 0..n-1
  BY <1>1 DEF FirstRemoved, Live
<1>4. \A l \in 0..m-1 : ~Stops(k, l) /\ Walk(k, l) # Walk(k, m)
  BY <1>1, <1>3 DEF FirstRemoved, Ends, DictionaryTypeOK
<1> QED
  BY <1>1, <1>2, <1>3, <1>4, WriteKeepsFindable DEF Write

LEMMA FillFindable ==
    ASSUME DictionaryTypeOK, Findable, NEW k \in Key, NEW v \in Value, Fill(k, v)
    PROVE  Findable'
<1>1. PICK n \in 0..size-1 :
          Ends(k, n) /\ slots[Walk(k, n)] = NULL /\ Write(Walk(k, n), k, v) /\ UNCHANGED size
  BY DEF Fill, Fresh
<1>2. \A i \in 0..size-1 : ~Holds(i, k)
  BY <1>1, NullIsAbsent
<1>3. \A l \in 0..n-1 : ~Stops(k, l) /\ Walk(k, l) # Walk(k, n)
  BY <1>1 DEF Ends, Stops
<1>4. ~Live(Walk(k, n))
  BY <1>1 DEF Live
<1> QED
  BY <1>1, <1>2, <1>3, <1>4, WriteKeepsFindable DEF Write

(* Another value for an entry, or REMOVED in its place, hides no other. *)
LEMMA ChangeKeepsFindable ==
    ASSUME DictionaryTypeOK, Findable, UNCHANGED size, NEW j \in 0..size-1, Live(j),
           slots' \in [0..size-1 -> Mapping \cup {NULL, REMOVED}],
           \A i \in 0..size-1 : i # j => slots'[i] = slots[i],
           slots'[j] = REMOVED \/ (slots'[j] # NULL /\ slots'[j].key = slots[j].key)
    PROVE  Findable'
<1>0. size \in Nat \ {0}
  BY DEF DictionaryTypeOK
<1>1. \A l \in Key, n \in 0..size-1 : Walk(l, n) \in 0..size-1
  BY <1>0, WalkRange
<1>2. \A l, n : Walk(l, n)' = Walk(l, n)
  BY DEF Walk
<1>3. \A i \in 0..size-1 : slots'[i] = NULL <=> slots[i] = NULL
  BY NullAssumption DEF Live
<1>4. \A i \in 0..size-1 : Live(i)' => Live(i) /\ slots'[i].key = slots[i].key
  BY NullAssumption DEF Live
<1>5. \A i \in 0..size-1 : \A k : Holds(i, k)' => Holds(i, k)
  BY <1>4 DEF Holds
<1>6. \A k \in Key, n \in 0..size-1 : Stops(k, n)' => Stops(k, n)
  BY <1>1, <1>2, <1>3, <1>5 DEF Stops
<1> SUFFICES ASSUME NEW i \in 0..size-1, NEW x, Live(i)', x = slots'[i].key
             PROVE  \E n \in 0..size-1 : Ends(x, n)' /\ Walk(x, n)' = i
  BY FindableNext
<1>7. Live(i) /\ x = slots[i].key /\ x \in Key
  BY <1>4, EntryAt
<1>8. PICK n \in 0..size-1 : Ends(x, n) /\ Walk(x, n) = i
  BY <1>7 DEF Findable
<1>9. Stops(x, n)'
  BY <1>2, <1>7, <1>8 DEF Stops, Holds
<1>10. ASSUME NEW p \in 0..n-1 PROVE ~Stops(x, p)'
  <2>1. p \in 0..size-1 /\ ~Stops(x, p)
    BY <1>0, <1>8 DEF Ends
  <2> QED
    BY <1>6, <1>7, <2>1
<1> QED
  BY <1>2, <1>8, <1>9, <1>10 DEF Ends

LEMMA EmptyFindable ==
    ASSUME NEW n \in Nat, size' = n, slots' = EmptySlots(n)
    PROVE  Findable'
BY DEF EmptySlots, Findable, Live

LEMMA OverwriteFindable ==
    ASSUME DictionaryTypeOK, Findable, NEW k \in Key, NEW v \in Value, Overwrite(k, v)
    PROVE  Findable'
<1>1. PICK n \in 0..size-1 :
          /\ Holds(Walk(k, n), k)
          /\ slots' = [slots EXCEPT ![Walk(k, n)].val = v]
          /\ UNCHANGED size
  BY DEF Overwrite
<1>2. size \in Nat \ {0} /\ slots \in [0..size-1 -> Mapping \cup {NULL, REMOVED}]
  BY DEF DictionaryTypeOK
<1>3. PICK j \in 0..size-1 : j = Walk(k, n)
  BY <1>2, WalkRange
<1>4. Live(j) /\ slots[j] \in Mapping
  BY <1>1, <1>3, EntryAt DEF Holds
<1>5. /\ [slots[j] EXCEPT !.val = v] \in Mapping
      /\ [slots[j] EXCEPT !.val = v].key = slots[j].key
  BY <1>4 DEF Mapping
<1>6. slots'[j] = [slots[j] EXCEPT !.val = v] /\ \A i \in 0..size-1 : i # j => slots'[i] = slots[i]
  BY <1>1, <1>2, <1>3
<1>7. slots' \in [0..size-1 -> Mapping \cup {NULL, REMOVED}]
  BY <1>1, <1>2, <1>3, <1>5
<1>8. slots'[j] # NULL /\ slots'[j].key = slots[j].key
  BY <1>5, <1>6, NullAssumption
<1> QED
  BY <1>1, <1>4, <1>6, <1>7, <1>8, ChangeKeepsFindable

LEMMA AddFindable ==
    ASSUME DictionaryTypeOK, Findable, NEW k \in Key, NEW v \in Value, Add(k, v)
    PROVE  Findable'
<1>1. ASSUME Grow(k, v) PROVE Findable'
  <2>1. 2 * size \in Nat
    BY DEF DictionaryTypeOK
  <2> QED
    BY <1>1, <2>1, EmptyFindable DEF Grow
<1> QED
  BY <1>1, ReuseFindable, FillFindable, OverwriteFindable DEF Add

LEMMA FindableKept ==
    ASSUME Counted, Findable, [DictionaryNext]_dictionaryVars
    PROVE  Findable'
<1>0. DictionaryTypeOK
  BY DEF Counted
<1>1. ASSUME UNCHANGED <<size, slots>> PROVE Findable'
  BY <1>1 DEF Findable, Ends, Stops, Holds, Live, Walk
<1>2. ASSUME make_dictionary \/ dictionary_free PROVE Findable'
  BY <1>2, EmptyFindable, SizeAssumption DEF make_dictionary, dictionary_free
<1>3. ASSUME NEW a, Answer(a) PROVE Findable'
  BY <1>1, <1>3 DEF Answer, table
<1>4. ASSUME Rehash PROVE Findable'
  <2>1. CASE old[next] \in {NULL, REMOVED}
    BY <1>1, <1>4, <2>1 DEF Rehash, table
  <2>2. CASE old[next] \notin {NULL, REMOVED}
    <3>1. old[next] \in Mapping
      BY <1>0, <1>4, <2>2 DEF Rehash, DictionaryTypeOK
    <3>2. old[next].key \in Key /\ old[next].val \in Value
      BY <3>1 DEF Mapping
    <3> QED
      BY <1>0, <1>4, <2>2, <3>2, ReuseFindable, FillFindable DEF Rehash
  <2> QED
    BY <2>1, <2>2
<1>5. ASSUME Retry PROVE Findable'
  <2>1. pending.key \in Key /\ pending.val \in Value
    BY <1>0, <1>5 DEF Retry, DictionaryTypeOK, Mapping
  <2> QED
    BY <1>0, <1>5, <2>1, AddFindable DEF Retry
<1>6. ASSUME NEW k \in Key, dictionary_remove(k) PROVE Findable'
  <2>1. PICK n \in 0..size-1 :
            IF Holds(Walk(k, n), k) THEN slots' = [slots EXCEPT ![Walk(k, n)] = REMOVED]
            ELSE UNCHANGED slots
    BY <1>6 DEF dictionary_remove
  <2>2. UNCHANGED size
    BY <1>6 DEF dictionary_remove
  <2>3. size \in Nat \ {0} /\ slots \in [0..size-1 -> Mapping \cup {NULL, REMOVED}]
    BY <1>0 DEF DictionaryTypeOK
  <2>4. PICK j \in 0..size-1 : j = Walk(k, n)
    BY <1>0, <2>3, WalkRange
  <2>5. CASE Holds(j, k)
    <3>1. slots' = [slots EXCEPT ![j] = REMOVED] /\ Live(j)
      BY <2>1, <2>4, <2>5 DEF Holds
    <3> QED
      BY <1>0, <2>2, <2>3, <3>1, ChangeKeepsFindable
  <2>6. CASE ~Holds(j, k)
    BY <1>1, <2>1, <2>2, <2>4, <2>6
  <2> QED
    BY <2>5, <2>6
<1>7. ASSUME NEW k \in Key, NEW v \in Value, dictionary_set(k, v) PROVE Findable'
  BY <1>0, <1>7, AddFindable DEF dictionary_set
<1>8. ASSUME UNCHANGED dictionaryVars PROVE Findable'
  BY <1>1, <1>8 DEF dictionaryVars, table
<1> QED
  BY <1>2, <1>3, <1>4, <1>5, <1>6, <1>7, <1>8
     DEF DictionaryNext, dictionary_get, dictionary_has_key, dictionary_count, dictionary_keys

(* No removal, reuse of a slot or growth ever hides an entry from its key, *)
(* and no key is in the table twice: get, has_key and remove find what was *)
(* set.                                                                    *)
THEOREM EntriesFindable == DictionarySpec => []Findable
<1>1. DictionaryInit => Counted /\ Findable
  BY CountedInit DEF DictionaryInit, Findable, Live, EmptySlots
<1>2. Counted /\ Findable /\ [DictionaryNext]_dictionaryVars => (Counted /\ Findable)'
  BY CountedNext, FindableKept
<1> QED
  BY <1>1, <1>2, PTL DEF DictionarySpec

-----------------------------------------------------------------------------
(* The walk of a key visits every slot when hash2 is odd and the size is a  *)
(* power of two, which is to say that it has no odd divisor but 1.          *)

PowerOfTwo(s) == \A d, q \in Nat : d * q = s /\ d % 2 = 1 => d = 1

WalkAssumption ==
    /\ PowerOfTwo(InitialSize)
    /\ \A k \in Key : Hash2(k) % 2 = 1

(* What make_dictionary and hash2 do satisfies this assumption. *)
H == INSTANCE StringHash

LEMMA CodeWalks == PowerOfTwo(16) /\ \A str \in Seq(H!Byte) : H!hash2(str) % 2 = 1
<1>1. ASSUME NEW d \in Nat, NEW q \in Nat, d * q = 16, d % 2 = 1 PROVE d = 1
  <2>1. d \in 1..16 /\ q \in 1..16
    BY <1>1
  <2>2. q \in {1, 2, 3, 4, 5, 6, 7, 8, 9, 10, 11, 12, 13, 14, 15, 16}
    BY <2>1
  <2> QED
    BY <1>1, <2>1, <2>2
<1>2. ASSUME NEW str \in Seq(H!Byte) PROVE H!hash2(str) % 2 = 1
  <2>1. \A len \in Nat : (IF len % 2 = 1 THEN len ELSE len + 1) % 2 = 1
    OBVIOUS
  <2>2. Len(str) \in Nat
    OBVIOUS
  <2> QED
    BY <2>1, <2>2 DEF H!hash2
<1> QED
  BY <1>1, <1>2 DEF PowerOfTwo

LEMMA Doubled ==
    ASSUME NEW s \in Nat, PowerOfTwo(s)
    PROVE  PowerOfTwo(2 * s)
<1> SUFFICES ASSUME NEW d \in Nat, NEW q \in Nat, d * q = 2 * s, d % 2 = 1
             PROVE  d = 1
  BY DEF PowerOfTwo
<1>1. PICK a \in Nat : d = 2 * a + 1
  BY d = 2 * (d \div 2) + 1, d \div 2 \in Nat
<1>2. CASE q % 2 = 0
  <2>1. PICK r \in Nat : q = 2 * r
    BY <1>2, q = 2 * (q \div 2), q \div 2 \in Nat
  <2>2. d * r \in Nat /\ d * q = 2 * (d * r)
    BY <2>1
  <2>3. d * r = s
    BY <2>2
  <2> QED
    BY <2>3 DEF PowerOfTwo
<1>3. CASE q % 2 = 1
  <2>1. PICK r \in Nat : q = 2 * r + 1
    BY <1>3, q = 2 * (q \div 2) + 1, q \div 2 \in Nat
  <2>2. a * q \in Nat /\ d * q = 2 * (a * q) + q
    BY <1>1
  <2>3. 2 * (a * q) + 2 * r + 1 = 2 * s
    BY <2>1, <2>2
  <2> QED
    BY <2>2, <2>3
<1> QED
  BY <1>2, <1>3

LEMMA LeastOf ==
    ASSUME NEW T \in SUBSET Nat, T # {}
    PROVE  \E x \in T : \A y \in T : x <= y
<1>1. PICK x \in T : \A y \in T : ~(<<y, x>> \in OpToRel(<, Nat))
  BY NatLessThanWellFounded, WFMin
<1>2. \A y \in T : ~(y < x)
  BY <1>1 DEF OpToRel
<1> QED
  BY <1>2

LEMMA Factor ==
    ASSUME NEW s \in Nat \ {0}, NEW w \in Int, s * w >= 0
    PROVE  w >= 0
<1> SUFFICES ASSUME w < 0 PROVE FALSE
  OBVIOUS
<1>1. PICK u \in Nat : w = 0 - u /\ u > 0
  BY 0 - w \in Nat
<1>2. s * u > 0 /\ s * w = 0 - s * u
  BY <1>1
<1> QED
  BY <1>2

(* Fewer than s advances by an odd number never lead back to a slot. *)
LEMMA NoShortcut ==
    ASSUME NEW s \in Nat \ {0}, PowerOfTwo(s), NEW h \in Nat, h % 2 = 1,
           NEW x \in Nat \ {0}, NEW c \in Nat, x * h = s * c
    PROVE  x >= s
<1> DEFINE T == {y \in Nat \ {0} : \E b \in Nat : y * h = s * b}
<1>1. x \in T
  OBVIOUS
<1>2. PICK y \in T : \A z \in T : y <= z
  BY <1>1, LeastOf
<1>3. PICK b \in Nat : y * h = s * b
  BY <1>2
<1>4. y \in Nat \ {0}
  BY <1>2
<1>5. PICK q \in Nat, r \in 0..y-1 : s = y * q + r
  BY <1>4, s = y * (s \div y) + (s % y), s \div y \in Nat, s % y \in 0..y-1
<1>6. r = 0
  <2> SUFFICES ASSUME r # 0 PROVE FALSE
    OBVIOUS
  <2>1. /\ s * h = (y * q + r) * h
        /\ (y * q + r) * h = (y * h) * q + r * h
        /\ (s * b) * q = s * (b * q)
    BY <1>4, <1>5
  <2>2. r * h = s * h - s * (b * q)
    BY <1>3, <2>1
  <2>3. PICK w \in Int : w = h - b * q
    BY <1>3, <1>5
  <2>4. s * w = s * h - s * (b * q)
    BY <2>3
  <2>5. r * h \in Nat /\ s * w = r * h
    BY <1>5, <2>2, <2>4
  <2>6. w >= 0
    BY <2>5, Factor
  <2>7. r \in T
    <3>1. r \in Nat \ {0}
      BY <1>4, <1>5
    <3>2. r * h = s * w /\ w \in Nat
      BY <2>3, <2>5, <2>6
    <3> QED
      BY <3>1, <3>2
  <2>8. y <= r
    BY <1>2, <2>7
  <2> QED
    BY <1>4, <1>5, <2>8
<1>7. s = y * q /\ q # 0
  BY <1>4, <1>5, <1>6
<1>8. h = q * b
  <2>1. y * h = y * (q * b)
    BY <1>3, <1>4, <1>7
  <2> QED
    BY <1>4, <2>1
<1>9. q % 2 = 1
  <2> SUFFICES ASSUME q % 2 = 0 PROVE FALSE
    OBVIOUS
  <2>1. PICK e \in Nat : q = 2 * e
    BY q = 2 * (q \div 2), q \div 2 \in Nat
  <2>2. h = 2 * (e * b) /\ e * b \in Nat
    BY <1>8, <2>1
  <2> QED
    BY <2>2
<1>10. q = 1
  BY <1>4, <1>7, <1>9, q * y = s DEF PowerOfTwo
<1>11. y = s
  BY <1>4, <1>7, <1>10
<1> QED
  BY <1>1, <1>2, <1>11

LEMMA SlotsDiffer ==
    ASSUME NEW s \in Nat \ {0}, PowerOfTwo(s), NEW h \in Nat, h % 2 = 1, NEW b \in Int,
           NEW m \in Nat, NEW n \in 0..s-1, m < n
    PROVE  (b + m * h) % s # (b + n * h) % s
<1> SUFFICES ASSUME (b + m * h) % s = (b + n * h) % s PROVE FALSE
  OBVIOUS
<1>1. PICK y \in Int : y = b + m * h
  OBVIOUS
<1>2. PICK z \in Int : z = b + n * h
  OBVIOUS
<1>3. PICK p \in Int, q \in Int, r \in 0..s-1 : y = s * p + r /\ z = s * q + r
  <2>1. \A u \in Int : u = s * (u \div s) + (u % s) /\ u \div s \in Int /\ u % s \in 0..s-1
    OBVIOUS
  <2>2. PICK p \in Int, r \in 0..s-1 : y = s * p + r /\ r = y % s
    BY <2>1
  <2>3. PICK q \in Int, t \in 0..s-1 : z = s * q + t /\ t = z % s
    BY <2>1
  <2>4. r = t
    BY <1>1, <1>2, <2>2, <2>3
  <2> QED
    BY <2>2, <2>3, <2>4
<1>4. PICK w \in Int : w = q - p
  BY <1>3
<1>5. PICK x \in Nat \ {0} : x = n - m
  OBVIOUS
<1>6. x * h = z - y
  BY <1>1, <1>2, <1>5
<1>7. s * w = z - y
  BY <1>3, <1>4
<1>8. x * h \in Nat
  BY <1>5
<1>9. w \in Nat
  BY <1>6, <1>7, <1>8, Factor
<1>10. x >= s
  BY <1>6, <1>7, <1>9, NoShortcut
<1> QED
  BY <1>5, <1>10

LEMMA WalkVisits ==
    ASSUME DictionaryTypeOK, PowerOfTwo(size), NEW k \in Key, Hash2(k) % 2 = 1, NEW i \in 0..size-1
    PROVE  \E n \in 0..size-1 : Walk(k, n) = i
<1> DEFINE S == 0..size-1
           f == [n \in S |-> Walk(k, n)]
<1>1. size \in Nat \ {0} /\ Hash1(k) \in Int /\ Hash2(k) \in Nat
  BY HashAssumption DEF DictionaryTypeOK
<1>2. \A n \in S : Walk(k, n) \in S
  BY <1>1, WalkRange
<1>3. ASSUME NEW m \in S, NEW n \in S, m < n PROVE f[m] # f[n]
  <2>1. m \in Nat
    BY <1>1
  <2>2. Walk(k, m) # Walk(k, n)
    BY <1>1, <1>3, <2>1, SlotsDiffer DEF Walk
  <2> QED
    BY <2>2
<1>4. \A m, n \in S : m # n => m < n \/ n < m
  BY <1>1
<1>5. f \in Injection(S, S)
  BY <1>2, <1>3, <1>4 DEF Injection, IsInjective
<1>6. f \in Surjection(S, S)
  BY <1>1, <1>5, FS_Interval, FS_Injection
<1> QED
  BY <1>6 DEF Surjection

LEMMA NullLeft ==
    ASSUME Counted
    PROVE  \E i \in 0..size-1 : slots[i] = NULL
<1> SUFFICES ASSUME \A i \in 0..size-1 : slots[i] # NULL PROVE FALSE
  OBVIOUS
<1>1. {i \in 0..size-1 : slots[i] # NULL} = 0..size-1
  OBVIOUS
<1>2. Cardinality(0..size-1) = size
  BY FS_Interval DEF Counted, DictionaryTypeOK
<1>3. fill = size
  BY <1>1, <1>2 DEF Counted, CountsAgree
<1> QED
  BY <1>3 DEF Counted, DictionaryTypeOK, RoomLeft

LEMMA WalkEnds ==
    ASSUME Counted, PowerOfTwo(size), NEW k \in Key, Hash2(k) % 2 = 1
    PROVE  \E n \in 0..size-1 : Ends(k, n)
<1> DEFINE T == {n \in 0..size-1 : Stops(k, n)}
<1>1. PICK i \in 0..size-1 : slots[i] = NULL
  BY NullLeft
<1>2. PICK n \in 0..size-1 : Walk(k, n) = i
  BY WalkVisits DEF Counted
<1>3. size \in Nat
  BY DEF Counted, DictionaryTypeOK
<1>4. n \in T /\ T \in SUBSET Nat
  BY <1>1, <1>2, <1>3 DEF Stops
<1>5. PICK x \in T : \A y \in T : x <= y
  BY <1>4, LeastOf
<1>6. \A m \in 0..x-1 : ~Stops(k, m)
  BY <1>3, <1>5
<1> QED
  BY <1>5, <1>6 DEF Ends

LEMMA SizeKept ==
    ASSUME PowerOfTwo(InitialSize), Counted, PowerOfTwo(size), [DictionaryNext]_dictionaryVars
    PROVE  PowerOfTwo(size')
<1>1. ASSUME NEW k, NEW v, Add(k, v) PROVE size' = size \/ size' = 2 * size
  BY <1>1 DEF Add, Overwrite, Reuse, Fill, Grow
<1>2. size' = size \/ size' = 2 * size \/ size' = InitialSize
  BY <1>1 DEF DictionaryNext, dictionaryVars, table, make_dictionary, dictionary_free, dictionary_count, dictionary_keys,
     dictionary_get, dictionary_has_key, dictionary_remove, dictionary_set, Answer, Rehash, Retry, Reuse, Fill
<1> QED
  BY <1>2, Doubled DEF Counted, DictionaryTypeOK

(* The loops of hash_op end: no search ever runs round the array for ever,  *)
(* since hash2 is odd, grow_and_rehash keeps the size a power of two and    *)
(* the fill factor keeps a slot NULL.                                       *)
THEOREM SearchesEnd ==
    ASSUME WalkAssumption
    PROVE  DictionarySpec => []WalksEnd
<1>1. DictionaryInit => Counted /\ PowerOfTwo(size)
  BY CountedInit DEF DictionaryInit, WalkAssumption
<1>2. Counted /\ PowerOfTwo(size) /\ [DictionaryNext]_dictionaryVars => (Counted /\ PowerOfTwo(size))'
  <2>1. PowerOfTwo(size)' <=> PowerOfTwo(size')
    BY DEF PowerOfTwo
  <2> QED
    BY <2>1, CountedNext, SizeKept DEF WalkAssumption
<1>3. Counted /\ PowerOfTwo(size) => WalksEnd
  BY WalkEnds DEF WalkAssumption, WalksEnd
<1> QED
  BY <1>1, <1>2, <1>3, PTL DEF DictionarySpec

(* The array, its counts and the state of a growth have their types.        *)
THEOREM TypeCorrect == DictionarySpec => []DictionaryTypeOK
BY CountsRight, PTL

-----------------------------------------------------------------------------
(* The map that a set of entries is. *)

OneEach(S) == \A d, e \in S : Folded(d.key) = Folded(e.key) => d = e
MapOf(S) == [f \in {Folded(e.key) : e \in S} |-> CHOOSE e \in S : Folded(e.key) = f]
Vals(S) == {e.val : e \in S}

LEMMA MapAt ==
    ASSUME NEW S, OneEach(S), NEW e \in S
    PROVE  Folded(e.key) \in DOMAIN MapOf(S) /\ MapOf(S)[Folded(e.key)] = e
<1>1. PICK c : c = CHOOSE d \in S : Folded(d.key) = Folded(e.key)
  OBVIOUS
<1>2. c \in S /\ Folded(c.key) = Folded(e.key)
  BY <1>1
<1>3. c = e
  BY <1>2 DEF OneEach
<1> QED
  BY <1>1, <1>3 DEF MapOf

LEMMA MapIs ==
    ASSUME NEW S, OneEach(S), NEW g,
           g = [f \in DOMAIN g |-> g[f]],
           DOMAIN g = {Folded(e.key) : e \in S},
           \A e \in S : g[Folded(e.key)] = e
    PROVE  g = MapOf(S)
<1>1. DOMAIN MapOf(S) = DOMAIN g
  BY DEF MapOf
<1>2. ASSUME NEW f \in DOMAIN g PROVE g[f] = MapOf(S)[f]
  <2>1. PICK e \in S : f = Folded(e.key)
    OBVIOUS
  <2> QED
    BY <2>1, MapAt
<1>3. MapOf(S) = [f \in DOMAIN MapOf(S) |-> MapOf(S)[f]]
  BY DEF MapOf
<1> QED
  BY <1>1, <1>2, <1>3

LEMMA MapVals ==
    ASSUME NEW S, OneEach(S)
    PROVE  {MapOf(S)[f].val : f \in DOMAIN MapOf(S)} = Vals(S)
<1>1. DOMAIN MapOf(S) = {Folded(e.key) : e \in S}
  BY DEF MapOf
<1> QED
  BY <1>1, MapAt DEF Vals

LEMMA MapKeys ==
    ASSUME NEW S, OneEach(S)
    PROVE  {MapOf(S)[f].key : f \in DOMAIN MapOf(S)} = {e.key : e \in S}
<1>1. DOMAIN MapOf(S) = {Folded(e.key) : e \in S}
  BY DEF MapOf
<1> QED
  BY <1>1, MapAt

(* The map after a key was added, given another value, or removed. *)
SetIn(m, k, v) ==
    [f \in DOMAIN m \cup {Folded(k)} |->
        IF f # Folded(k) THEN m[f]
        ELSE [key |-> IF Folded(k) \in DOMAIN m THEN m[f].key ELSE k, val |-> v]]

LEMMA MapNew ==
    ASSUME NEW S, OneEach(S), NEW k \in Key, NEW v \in Value, NEW T, OneEach(T),
           \A e \in S : Folded(e.key) # Folded(k),
           T = S \cup {[key |-> k, val |-> v]}
    PROVE  SetIn(MapOf(S), k, v) = MapOf(T) /\ Folded(k) \notin DOMAIN MapOf(S)
<1> DEFINE M == MapOf(S)
           g == SetIn(M, k, v)
<1>1. PICK x : x = [key |-> k, val |-> v]
  OBVIOUS
<1>2. DOMAIN M = {Folded(e.key) : e \in S} /\ Folded(k) \notin DOMAIN M
  BY DEF MapOf
<1>3. g[Folded(k)] = x
  BY <1>1, <1>2 DEF SetIn
<1>4. ASSUME NEW e \in S PROVE g[Folded(e.key)] = e
  BY <1>2, MapAt DEF SetIn
<1>5. x.key = k /\ T = S \cup {x}
  BY <1>1
<1>6. \A e \in T : g[Folded(e.key)] = e
  BY <1>3, <1>4, <1>5
<1>7. DOMAIN g = DOMAIN M \cup {Folded(k)}
  BY DEF SetIn
<1>8. DOMAIN g = {Folded(e.key) : e \in T}
  BY <1>2, <1>5, <1>7
<1>9. g = [f \in DOMAIN g |-> g[f]]
  BY DEF SetIn
<1> HIDE DEF g
<1>10. g = MapOf(T)
  BY <1>6, <1>8, <1>9, MapIs
<1> QED
  BY <1>2, <1>10 DEF g

LEMMA MapReplaced ==
    ASSUME NEW S, OneEach(S), NEW k \in Key, NEW v \in Value, NEW T, OneEach(T),
           NEW d \in S, Folded(d.key) = Folded(k),
           T = (S \ {d}) \cup {[key |-> d.key, val |-> v]}
    PROVE  SetIn(MapOf(S), k, v) = MapOf(T)
<1> DEFINE M == MapOf(S)
           g == SetIn(M, k, v)
<1>1. PICK x : x = [key |-> d.key, val |-> v]
  OBVIOUS
<1>2. DOMAIN M = {Folded(e.key) : e \in S} /\ M[Folded(k)] = d /\ Folded(k) \in DOMAIN M
  BY MapAt DEF MapOf
<1>3. g[Folded(k)] = x
  BY <1>1, <1>2 DEF SetIn
<1>4. ASSUME NEW e \in S \ {d} PROVE g[Folded(e.key)] = e
  <2>1. Folded(e.key) # Folded(k)
    BY DEF OneEach
  <2> QED
    BY <1>2, <2>1, MapAt DEF SetIn
<1>5. x.key = d.key /\ T = (S \ {d}) \cup {x}
  BY <1>1
<1>6. \A e \in T : g[Folded(e.key)] = e
  BY <1>3, <1>4, <1>5
<1>7. DOMAIN g = DOMAIN M
  BY <1>2 DEF SetIn
<1>8. DOMAIN g = {Folded(e.key) : e \in T}
  BY <1>2, <1>5, <1>7
<1>9. g = [f \in DOMAIN g |-> g[f]]
  BY DEF SetIn
<1> HIDE DEF g
<1>10. g = MapOf(T)
  BY <1>6, <1>8, <1>9, MapIs
<1> QED
  BY <1>10 DEF g

LEMMA MapRemoved ==
    ASSUME NEW S, OneEach(S), NEW d \in S, NEW T, T = S \ {d}
    PROVE  [f \in DOMAIN MapOf(S) \ {Folded(d.key)} |-> MapOf(S)[f]] = MapOf(T)
<1> DEFINE M == MapOf(S)
           g == [f \in DOMAIN M \ {Folded(d.key)} |-> M[f]]
<1>1. DOMAIN M = {Folded(e.key) : e \in S}
  BY DEF MapOf
<1>2. OneEach(T)
  BY DEF OneEach
<1>3. \A e \in T : Folded(e.key) # Folded(d.key) /\ Folded(e.key) \in DOMAIN M /\ M[Folded(e.key)] = e
  BY MapAt DEF OneEach
<1>4. \A e \in T : g[Folded(e.key)] = e
  BY <1>3
<1>5. DOMAIN g = {Folded(e.key) : e \in T}
  BY <1>1, <1>3
<1>6. g = [f \in DOMAIN g |-> g[f]]
  OBVIOUS
<1> HIDE DEF g
<1> QED
  BY <1>2, <1>4, <1>5, <1>6, MapIs DEF g

(* The calls, on the set of entries before and after. *)

LEMMA AbstractMap ==
    /\ [f \in {Folded(e.key) : e \in AllEntries} |-> EntryFor(f)] = MapOf(AllEntries)
    /\ [f \in {Folded(e.key) : e \in AllEntries'} |-> EntryFor(f)'] = MapOf(AllEntries')
BY DEF MapOf, EntryFor

LEMMA SetMaps ==
    ASSUME phase # "none", phase' # "none", OneEach(AllEntries),
           NEW k \in Key, NEW v \in Value, v \notin Vals(AllEntries),
           SetIn(MapOf(AllEntries), k, v) = MapOf(AllEntries'),
           destroyed' = {MapOf(AllEntries)[f].val : f \in DOMAIN MapOf(AllEntries) \cap {Folded(k)}},
           out' = <<"set">>
    PROVE  Abstract!Set(k, v)
<1> DEFINE M == MapOf(AllEntries)
<1>1. /\ [f \in {Folded(e.key) : e \in AllEntries} |-> EntryFor(f)] = M
      /\ [f \in {Folded(e.key) : e \in AllEntries'} |-> EntryFor(f)'] = SetIn(M, k, v)
  BY AbstractMap
<1>2. Vals(AllEntries) = {M[f].val : f \in DOMAIN M}
  BY MapVals
<1>3. destroyed' = {M[f].val : f \in DOMAIN M \cap {Folded(k)}}
  OBVIOUS
<1> HIDE DEF M
<1>4. Abstract!Owned = Vals(AllEntries) /\ (Abstract!Mapped(k) <=> Folded(k) \in DOMAIN M)
  BY <1>1, <1>2 DEF Abstract!Owned, Abstract!Mapped
<1>5. SetIn(M, k, v) = [f \in DOMAIN M \cup {Folded(k)} |->
                          IF f # Folded(k) THEN M[f]
                          ELSE [key |-> IF Abstract!Mapped(k) THEN M[f].key ELSE k, val |-> v]]
  BY <1>4 DEF SetIn
<1>6. (phase # "none")' = (phase # "none")
  OBVIOUS
<1> QED
  BY <1>1, <1>3, <1>4, <1>5, <1>6 DEF Abstract!Set

LEMMA SetNew ==
    ASSUME phase # "none", phase' # "none", OneEach(AllEntries), OneEach(AllEntries'),
           NEW k \in Key, NEW v \in Value, v \notin Vals(AllEntries),
           \A e \in AllEntries : Folded(e.key) # Folded(k),
           AllEntries' = AllEntries \cup {[key |-> k, val |-> v]},
           destroyed' = {}, out' = <<"set">>
    PROVE  Abstract!Set(k, v)
<1>1. SetIn(MapOf(AllEntries), k, v) = MapOf(AllEntries') /\ Folded(k) \notin DOMAIN MapOf(AllEntries)
  BY MapNew
<1>2. DOMAIN MapOf(AllEntries) \cap {Folded(k)} = {}
  BY <1>1
<1> QED
  BY <1>1, <1>2, SetMaps

LEMMA SetOld ==
    ASSUME phase # "none", phase' # "none", OneEach(AllEntries), OneEach(AllEntries'),
           NEW k \in Key, NEW v \in Value, v \notin Vals(AllEntries),
           NEW d \in AllEntries, Folded(d.key) = Folded(k),
           AllEntries' = (AllEntries \ {d}) \cup {[key |-> d.key, val |-> v]},
           destroyed' = {d.val}, out' = <<"set">>
    PROVE  Abstract!Set(k, v)
<1>1. SetIn(MapOf(AllEntries), k, v) = MapOf(AllEntries')
  BY MapReplaced
<1>2. MapOf(AllEntries)[Folded(k)] = d /\ DOMAIN MapOf(AllEntries) \cap {Folded(k)} = {Folded(k)}
  BY MapAt
<1>3. {MapOf(AllEntries)[f].val : f \in DOMAIN MapOf(AllEntries) \cap {Folded(k)}} = {d.val}
  BY <1>2
<1> QED
  BY <1>1, <1>3, SetMaps

-----------------------------------------------------------------------------
(* What the steps of hash_op do to the set of entries. *)

LEMMA OneSlot ==
    ASSUME DictionaryTypeOK, Findable, NEW i \in 0..size-1, NEW j \in 0..size-1, Live(i), Live(j),
           Folded(slots[i].key) = Folded(slots[j].key)
    PROVE  i = j
<1>1. PICK k \in Key : k = slots[i].key
  BY EntryAt
<1>2. Holds(i, k) /\ Holds(j, k)
  BY <1>1 DEF Holds
<1>3. PICK m \in 0..size-1 : Ends(k, m) /\ Walk(k, m) = i
  BY <1>2, PresentIsFound
<1>4. PICK n \in 0..size-1 : Ends(k, n) /\ Walk(k, n) = j
  BY <1>2, PresentIsFound
<1>5. m = n
  BY <1>3, <1>4, EndsOnce DEF DictionaryTypeOK
<1> QED
  BY <1>3, <1>4, <1>5

LEMMA EntriesOnce == DictionaryTypeOK /\ Findable => OneEach(Entries)
BY OneSlot DEF OneEach, Entries

LEMMA EntriesNext == Entries' = {slots'[i] : i \in {j \in 0..size'-1 : slots'[j] \notin {NULL, REMOVED}}}
BY DEF Entries, Live

LEMMA InsertAdds ==
    ASSUME DictionaryTypeOK, Findable, NEW k \in Key, NEW v \in Value, Reuse(k, v) \/ Fill(k, v)
    PROVE  /\ Entries' = Entries \cup {[key |-> k, val |-> v]}
           /\ \A e \in Entries : Folded(e.key) # Folded(k)
           /\ size' = size
<1>0. size \in Nat \ {0} /\ slots \in [0..size-1 -> Mapping \cup {NULL, REMOVED}]
  BY DEF DictionaryTypeOK
<1>1. \A n \in 0..size-1 : Walk(k, n) \in 0..size-1
  BY <1>0, WalkRange
<1>2. PICK x \in Mapping : x = [key |-> k, val |-> v]
  BY EntryMade
<1>3. PICK n \in 0..size-1, j \in 0..size-1 :
          /\ Ends(k, n) /\ slots[Walk(k, n)] = NULL
          /\ slots[j] \in {NULL, REMOVED}
          /\ slots' = [slots EXCEPT ![j] = x]
          /\ size' = size
  BY <1>1, <1>2 DEF Reuse, Fill, Fresh, FirstRemoved, Write
<1>4. \A i \in 0..size-1 : ~Holds(i, k)
  BY <1>3, NullIsAbsent
<1>5. x \notin {NULL, REMOVED}
  BY NullAssumption
<1>6. slots'[j] = x /\ \A i \in 0..size-1 : i # j => slots'[i] = slots[i]
  BY <1>0, <1>3
<1>7. Entries' = Entries \cup {x}
  BY <1>3, <1>5, <1>6, EntriesNext DEF Entries, Live
<1> QED
  BY <1>2, <1>3, <1>4, <1>7 DEF Entries, Holds

LEMMA OverwriteReplaces ==
    ASSUME DictionaryTypeOK, Findable, NEW k \in Key, NEW v \in Value, Overwrite(k, v)
    PROVE  \E d \in Entries :
              /\ Folded(d.key) = Folded(k)
              /\ Entries' = (Entries \ {d}) \cup {[key |-> d.key, val |-> v]}
              /\ destroyed' = {d.val}
<1>0. size \in Nat \ {0} /\ slots \in [0..size-1 -> Mapping \cup {NULL, REMOVED}]
  BY DEF DictionaryTypeOK
<1>1. \A n \in 0..size-1 : Walk(k, n) \in 0..size-1
  BY <1>0, WalkRange
<1>2. PICK j \in 0..size-1 :
          /\ Holds(j, k)
          /\ slots' = [slots EXCEPT ![j].val = v]
          /\ destroyed' = {slots[j].val} /\ size' = size
  BY <1>1 DEF Overwrite
<1>3. PICK d \in Mapping : d = slots[j] /\ d.key \in Key
  BY <1>2, EntryAt DEF Holds
<1>4. PICK x \in Mapping : x = [key |-> d.key, val |-> v]
  BY <1>3, EntryMade
<1>5. [d EXCEPT !.val = v] = x
  BY <1>3, <1>4 DEF Mapping
<1>6. slots'[j] = x /\ x \notin {NULL, REMOVED} /\ \A i \in 0..size-1 : i # j => slots'[i] = slots[i]
  BY <1>0, <1>2, <1>3, <1>5, NullAssumption
<1>7. Live(j) /\ d \in Entries
  BY <1>2, <1>3 DEF Holds, Entries
<1>8. \A i \in 0..size-1 : Live(i) /\ i # j => slots[i] # d
  BY <1>3, <1>7, OneSlot
<1>9. Entries' = (Entries \ {d}) \cup {x}
  <2>1. \A i \in 0..size-1 : i # j => (slots'[i] \in {NULL, REMOVED} <=> ~Live(i))
    BY <1>6 DEF Live
  <2> QED
    BY <1>2, <1>3, <1>6, <1>7, <1>8, <2>1, EntriesNext DEF Entries
<1> QED
  BY <1>2, <1>3, <1>4, <1>7, <1>9 DEF Holds

LEMMA RemoveTakes ==
    ASSUME DictionaryTypeOK, Findable, NEW k \in Key, dictionary_remove(k)
    PROVE  \/ \E d \in Entries :
                 /\ Folded(d.key) = Folded(k)
                 /\ Entries' = Entries \ {d}
                 /\ destroyed' = {d.val}
           \/ /\ \A e \in Entries : Folded(e.key) # Folded(k)
              /\ Entries' = Entries
              /\ destroyed' = {}
<1>0. size \in Nat \ {0} /\ slots \in [0..size-1 -> Mapping \cup {NULL, REMOVED}]
  BY DEF DictionaryTypeOK
<1>1. \A n \in 0..size-1 : Walk(k, n) \in 0..size-1
  BY <1>0, WalkRange
<1>2. PICK n \in 0..size-1 :
          /\ Ends(k, n)
          /\ IF Holds(Walk(k, n), k)
             THEN slots' = [slots EXCEPT ![Walk(k, n)] = REMOVED] /\ destroyed' = {slots[Walk(k, n)].val}
             ELSE destroyed' = {} /\ UNCHANGED slots
  BY DEF dictionary_remove
<1>3. size' = size
  BY DEF dictionary_remove
<1>4. PICK j \in 0..size-1 : j = Walk(k, n)
  BY <1>1
<1>5. CASE Holds(j, k)
  <2>1. PICK d : d = slots[j]
    OBVIOUS
  <2>2. Live(j) /\ d \in Entries /\ Folded(d.key) = Folded(k) /\ destroyed' = {d.val}
    BY <1>2, <1>4, <1>5, <2>1 DEF Holds, Entries
  <2>3. slots'[j] = REMOVED /\ \A i \in 0..size-1 : i # j => slots'[i] = slots[i]
    BY <1>0, <1>2, <1>4, <1>5
  <2>4. \A i \in 0..size-1 : Live(i) /\ i # j => slots[i] # d
    BY <2>1, <2>2, OneSlot
  <2>5. \A i \in 0..size-1 : i # j => (slots'[i] \in {NULL, REMOVED} <=> ~Live(i))
    BY <2>3 DEF Live
  <2>6. Entries' = Entries \ {d}
    BY <1>3, <2>1, <2>3, <2>4, <2>5, EntriesNext DEF Entries
  <2> QED
    BY <2>2, <2>6
<1>6. CASE ~Holds(j, k)
  <2>1. slots[j] = NULL
    BY <1>2, <1>4, <1>6 DEF Ends, Stops
  <2>2. \A i \in 0..size-1 : ~Holds(i, k)
    BY <1>2, <1>4, <2>1, NullIsAbsent
  <2>3. Entries' = Entries /\ destroyed' = {}
    BY <1>2, <1>3, <1>4, <1>6 DEF Entries, Live
  <2> QED
    BY <2>2, <2>3 DEF Entries, Holds
<1> QED
  BY <1>5, <1>6

LEMMA SearchFinds ==
    ASSUME DictionaryTypeOK, Findable, NEW k \in Key, NEW n \in 0..size-1, Ends(k, n)
    PROVE  IF Holds(Walk(k, n), k)
           THEN slots[Walk(k, n)] \in Entries /\ Folded(slots[Walk(k, n)].key) = Folded(k)
           ELSE \A e \in Entries : Folded(e.key) # Folded(k)
<1>1. PICK j \in 0..size-1 : j = Walk(k, n)
  BY WalkRange DEF DictionaryTypeOK
<1>2. CASE Holds(j, k)
  BY <1>1, <1>2 DEF Holds, Entries
<1>3. CASE ~Holds(j, k)
  <2>1. slots[j] = NULL
    BY <1>1, <1>3 DEF Ends, Stops
  <2>2. \A i \in 0..size-1 : ~Holds(i, k)
    BY <1>1, <2>1, NullIsAbsent
  <2> QED
    BY <1>1, <1>3, <2>2 DEF Entries, Holds
<1> QED
  BY <1>2, <1>3

-----------------------------------------------------------------------------
(* The calls do what dictionary.h says. *)

(* While the array grows, its entries are in the old array or the new one,  *)
(* and the value that waits to be inserted is in neither.                   *)
Held ==
    /\ OneEach(AllEntries)
    /\ phase = "growing" => pending.val \notin Vals(AllEntries)

Good == Counted /\ Findable /\ Held

LEMMA NoneWaiting ==
    ASSUME old = << >>
    PROVE  Waiting = {} /\ AllEntries = Entries
<1>1. DOMAIN old = {}
  OBVIOUS
<1> QED
  BY <1>1 DEF Waiting, AllEntries

LEMMA NoneWaitingNext ==
    ASSUME old' = << >>
    PROVE  AllEntries' = Entries'
<1>1. DOMAIN old' = {}
  OBVIOUS
<1> QED
  BY <1>1 DEF Waiting, AllEntries

LEMMA Stutters ==
    ASSUME AllEntries' = AllEntries, (phase # "none") = (phase' # "none"), UNCHANGED <<out, destroyed>>
    PROVE  UNCHANGED Abstract!vars
BY AbstractMap DEF Abstract!vars

LEMMA AddMaps ==
    ASSUME DictionaryTypeOK, Findable, Waiting = {}, phase # "none",
           Findable', DictionaryTypeOK',
           NEW k \in Key, NEW v \in Value, v \notin Vals(AllEntries), Add(k, v)
    PROVE  (Abstract!Set(k, v) \/ UNCHANGED Abstract!vars) /\ Held'
<1>1. AllEntries = Entries /\ OneEach(AllEntries)
  BY EntriesOnce DEF AllEntries
<1>2. OneEach(Entries')
  <2>1. (DictionaryTypeOK /\ Findable => OneEach(Entries))'
    BY EntriesOnce, PTL
  <2> QED
    BY <2>1 DEF OneEach
<1>3. CASE Grow(k, v)
  <2>1. /\ size \in Nat \ {0} /\ slots \in [0..size-1 -> Mapping \cup {NULL, REMOVED}]
        /\ phase' = "growing" /\ old' = slots /\ next' = 0 /\ pending' = [key |-> k, val |-> v]
        /\ size' = 2 * size /\ slots' = EmptySlots(2 * size) /\ UNCHANGED <<out, destroyed>>
    BY <1>3 DEF Grow, DictionaryTypeOK
  <2>2. Entries' = {}
    BY <2>1, EntriesNext DEF EmptySlots
  <2>3. Waiting' = Entries
    BY <2>1 DEF Waiting, Entries, Live
  <2>4. AllEntries' = AllEntries
    BY <1>1, <2>2, <2>3 DEF AllEntries
  <2>5. pending'.val = v
    BY <2>1
  <2>6. Held'
    BY <1>1, <2>4, <2>5 DEF Held, OneEach, Vals
  <2> QED
    BY <2>1, <2>4, <2>6, Stutters
<1>4. CASE ~Grow(k, v)
  <2>1. /\ Overwrite(k, v) \/ ((Reuse(k, v) \/ Fill(k, v)) /\ destroyed' = {})
        /\ phase' = "ready" /\ old' = << >> /\ out' = <<"set">>
    BY <1>4 DEF Add
  <2>2. AllEntries' = Entries'
    BY <2>1, NoneWaitingNext
  <2>3. Held'
    BY <1>2, <2>1, <2>2 DEF Held, OneEach
  <2>4. CASE Overwrite(k, v)
    BY <1>1, <1>2, <2>1, <2>2, <2>3, <2>4, OverwriteReplaces, SetOld
  <2>5. CASE (Reuse(k, v) \/ Fill(k, v)) /\ destroyed' = {}
    BY <1>1, <1>2, <2>1, <2>2, <2>3, <2>5, InsertAdds, SetNew
  <2> QED
    BY <2>1, <2>4, <2>5
<1> QED
  BY <1>3, <1>4

LEMMA RehashMaps ==
    ASSUME Good, Rehash
    PROVE  UNCHANGED Abstract!vars /\ Held'
<1>0. DictionaryTypeOK /\ Findable /\ OneEach(AllEntries) /\ pending.val \notin Vals(AllEntries)
  BY DEF Good, Counted, Held, Rehash
<1>1. /\ phase = "growing" /\ next \in DOMAIN old /\ next' = next + 1
      /\ UNCHANGED <<phase, old, pending, out, destroyed>>
  BY DEF Rehash
<1>2. DOMAIN old \subseteq Int /\ next \in Int
  BY <1>0, <1>1 DEF DictionaryTypeOK
<1>3. CASE old[next] \in {NULL, REMOVED}
  <2>1. UNCHANGED table
    BY <1>3 DEF Rehash
  <2>2. Entries' = Entries
    BY <2>1 DEF table, Entries, Live
  <2>3. Waiting' = Waiting
    BY <1>1, <1>2, <1>3 DEF Waiting
  <2>4. AllEntries' = AllEntries
    BY <2>2, <2>3 DEF AllEntries
  <2> QED
    BY <1>0, <1>1, <2>4, Stutters DEF Held, OneEach, Vals
<1>4. CASE old[next] \notin {NULL, REMOVED}
  <2>1. PICK e \in Mapping : e = old[next]
    BY <1>0, <1>1, <1>4 DEF DictionaryTypeOK
  <2>2. e.key \in Key /\ e.val \in Value /\ e = [key |-> e.key, val |-> e.val]
    BY DEF Mapping
  <2>3. Reuse(e.key, e.val) \/ Fill(e.key, e.val)
    BY <1>4, <2>1 DEF Rehash
  <2>4. Entries' = Entries \cup {e}
    BY <1>0, <2>2, <2>3, InsertAdds
  <2>5. Waiting = Waiting' \cup {e}
    BY <1>1, <1>2, <1>4, <2>1 DEF Waiting
  <2>6. AllEntries' = AllEntries
    BY <2>4, <2>5 DEF AllEntries
  <2> QED
    BY <1>0, <1>1, <2>6, Stutters DEF Held, OneEach, Vals
<1> QED
  BY <1>3, <1>4

LEMMA RemoveMaps ==
    ASSUME Good, NEW k \in Key, dictionary_remove(k)
    PROVE  Abstract!Remove(k) /\ Held'
<1>0. DictionaryTypeOK /\ Findable /\ OneEach(AllEntries)
  BY DEF Good, Counted, Held
<1>1. phase = "ready" /\ phase' = "ready" /\ old = << >> /\ old' = << >> /\ out' = <<"remove">>
  BY <1>0 DEF dictionary_remove, growth, DictionaryTypeOK
<1>2. AllEntries = Entries /\ AllEntries' = Entries'
  BY <1>1, NoneWaiting, NoneWaitingNext
<1> DEFINE M == MapOf(AllEntries)
<1>3. CASE \E d \in Entries :
              Folded(d.key) = Folded(k) /\ Entries' = Entries \ {d} /\ destroyed' = {d.val}
  <2>1. PICK d \in AllEntries :
              Folded(d.key) = Folded(k) /\ AllEntries' = AllEntries \ {d} /\ destroyed' = {d.val}
    BY <1>2, <1>3
  <2>2. [f \in DOMAIN M \ {Folded(k)} |-> M[f]] = MapOf(AllEntries')
    BY <1>0, <2>1, MapRemoved
  <2>3. M[Folded(k)] = d /\ DOMAIN M \cap {Folded(k)} = {Folded(k)}
    BY <1>0, <2>1, MapAt
  <2>4. destroyed' = {M[f].val : f \in DOMAIN M \cap {Folded(k)}}
    BY <2>1, <2>3
  <2>5. Held'
    BY <1>0, <1>1, <2>1 DEF Held, OneEach
  <2> HIDE DEF M
  <2> QED
    BY <1>1, <2>2, <2>4, <2>5, AbstractMap DEF Abstract!Remove, M
<1>4. CASE (\A e \in Entries : Folded(e.key) # Folded(k)) /\ Entries' = Entries /\ destroyed' = {}
  <2>1. DOMAIN M \cap {Folded(k)} = {} /\ DOMAIN M \ {Folded(k)} = DOMAIN M
    BY <1>2, <1>4 DEF MapOf
  <2>2. M = [f \in DOMAIN M |-> M[f]]
    BY DEF MapOf
  <2>3. AllEntries' = AllEntries
    BY <1>2, <1>4
  <2>4. Held'
    BY <1>0, <1>1, <2>3 DEF Held, OneEach
  <2>5. destroyed' = {M[f].val : f \in DOMAIN M \cap {Folded(k)}}
    BY <1>4, <2>1
  <2>6. MapOf(AllEntries') = [f \in DOMAIN M \ {Folded(k)} |-> M[f]]
    BY <2>1, <2>2, <2>3
  <2> HIDE DEF M
  <2> QED
    BY <1>1, <2>4, <2>5, <2>6, AbstractMap DEF Abstract!Remove, M
<1> QED
  BY <1>0, <1>3, <1>4, RemoveTakes

LEMMA AnswerMaps ==
    ASSUME Good, NEW a, Answer(a)
    PROVE  Abstract!Inspect(a) /\ Held'
<1>1. phase = "ready" /\ phase' = "ready" /\ out' = a /\ destroyed' = {} /\ UNCHANGED <<table, growth>>
  BY DEF Answer
<1>2. AllEntries' = AllEntries
  BY <1>1 DEF table, growth, AllEntries, Entries, Live, Waiting
<1>3. Held'
  BY <1>1, <1>2 DEF Good, Held, OneEach
<1> QED
  BY <1>1, <1>2, <1>3, AbstractMap DEF Abstract!Inspect

LEMMA GetMaps ==
    ASSUME Good, NEW k \in Key, dictionary_get(k) \/ dictionary_has_key(k)
    PROVE  (Abstract!Get(k) \/ Abstract!HasKey(k)) /\ Held'
<1>0. DictionaryTypeOK /\ Findable /\ OneEach(AllEntries)
  BY DEF Good, Counted, Held
<1>1. PICK n \in 0..size-1 :
          /\ Ends(k, n)
          /\ \/ Answer(<<"get", IF Holds(Walk(k, n), k) THEN slots[Walk(k, n)].val ELSE NULL>>)
             \/ Answer(<<"has_key", Holds(Walk(k, n), k)>>)
  BY DEF dictionary_get, dictionary_has_key
<1>2. phase = "ready" /\ AllEntries = Entries
  BY <1>0, <1>1, NoneWaiting DEF Answer, DictionaryTypeOK
<1> DEFINE M == MapOf(AllEntries)
<1>3. CASE Holds(Walk(k, n), k)
  <2>1. PICK d \in AllEntries : d = slots[Walk(k, n)] /\ Folded(d.key) = Folded(k)
    BY <1>0, <1>1, <1>2, <1>3, SearchFinds
  <2>2. Folded(k) \in DOMAIN M /\ M[Folded(k)] = d
    BY <1>0, <2>1, MapAt
  <2> HIDE DEF M
  <2>3. Abstract!Mapped(k)
    BY <2>2, AbstractMap DEF Abstract!Mapped, M
  <2>4. Answer(<<"get", d.val>>) \/ Answer(<<"has_key", TRUE>>)
    BY <1>1, <1>3, <2>1
  <2>5. Held' /\ (Abstract!Inspect(<<"get", d.val>>) \/ Abstract!Inspect(<<"has_key", TRUE>>))
    BY <2>4, AnswerMaps
  <2> QED
    BY <2>2, <2>3, <2>5, AbstractMap DEF Abstract!Get, Abstract!HasKey, M
<1>4. CASE ~Holds(Walk(k, n), k)
  <2>1. \A e \in AllEntries : Folded(e.key) # Folded(k)
    BY <1>0, <1>1, <1>2, <1>4, SearchFinds
  <2>2. Folded(k) \notin DOMAIN M
    BY <2>1 DEF MapOf
  <2> HIDE DEF M
  <2>3. ~Abstract!Mapped(k)
    BY <2>2, AbstractMap DEF Abstract!Mapped, M
  <2>4. Holds(Walk(k, n), k) = FALSE
    BY <1>4 DEF Holds, Live
  <2>5. Answer(<<"get", NULL>>) \/ Answer(<<"has_key", FALSE>>)
    BY <1>1, <2>4
  <2>6. Held' /\ (Abstract!Inspect(<<"get", NULL>>) \/ Abstract!Inspect(<<"has_key", FALSE>>))
    BY <2>5, AnswerMaps
  <2>7. Abstract!Mapped(k) = FALSE
    BY <2>3 DEF Abstract!Mapped
  <2> QED
    BY <2>6, <2>7 DEF Abstract!Get, Abstract!HasKey
<1> QED
  BY <1>3, <1>4

(* StringMap extends FiniteSets itself: its Cardinality is the same. *)
LEMMA SameCardinality == \A S : Abstract!Cardinality(S) = Cardinality(S)
BY DEF Abstract!Cardinality, Cardinality

LEMMA CountAsks ==
    ASSUME Abstract!Inspect(<<"count", count>>), Cardinality({Folded(e.key) : e \in AllEntries}) = count
    PROVE  Abstract!Count
<1>1. DOMAIN [f \in {Folded(e.key) : e \in AllEntries} |-> EntryFor(f)] = {Folded(e.key) : e \in AllEntries}
  OBVIOUS
<1>2. Abstract!Cardinality(DOMAIN [f \in {Folded(e.key) : e \in AllEntries} |-> EntryFor(f)]) = count
  BY <1>1, SameCardinality
<1> QED
  BY <1>2, Zenon DEF Abstract!Count

LEMMA CountMaps ==
    ASSUME Good, dictionary_count
    PROVE  Abstract!Count /\ Held'
<1>0. DictionaryTypeOK /\ CountsAgree /\ Findable /\ OneEach(AllEntries)
  BY DEF Good, Counted, Held
<1>1. phase = "ready" /\ AllEntries = Entries /\ Answer(<<"count", count>>)
  BY <1>0, NoneWaiting DEF dictionary_count, Answer, DictionaryTypeOK
<1> DEFINE M == MapOf(AllEntries)
           L == {i \in 0..size-1 : Live(i)}
           f == [i \in L |-> Folded(slots[i].key)]
<1>2. IsFiniteSet(L) /\ count = Cardinality(L)
  <2>1. IsFiniteSet(0..size-1) /\ L \subseteq 0..size-1
    BY <1>0, FS_Interval DEF DictionaryTypeOK
  <2> QED
    BY <1>0, <2>1, FS_Subset DEF CountsAgree
<1>3. DOMAIN M = {Folded(slots[i].key) : i \in L}
  BY <1>1 DEF MapOf, Entries
<1>4. f \in Bijection(L, DOMAIN M)
  <2>1. f \in [L -> DOMAIN M]
    BY <1>3
  <2>2. \A i, j \in L : f[i] = f[j] => i = j
    BY <1>0, OneSlot
  <2>3. \A y \in DOMAIN M : \E i \in L : f[i] = y
    BY <1>3
  <2> HIDE DEF f, M, L
  <2> QED
    BY <2>1, <2>2, <2>3 DEF Bijection, Injection, Surjection, IsInjective
<1>5. Cardinality(DOMAIN M) = count
  BY <1>2, <1>4, FS_Bijection DEF ExistsBijection
<1>6. Abstract!Inspect(<<"count", count>>) /\ Held'
  BY <1>1, AnswerMaps
<1>7. Cardinality({Folded(e.key) : e \in AllEntries}) = count
  BY <1>5 DEF MapOf
<1> QED
  BY <1>6, <1>7, CountAsks

LEMMA KeysMap ==
    ASSUME Good, dictionary_keys
    PROVE  Abstract!Keys /\ Held'
<1>0. DictionaryTypeOK /\ OneEach(AllEntries)
  BY DEF Good, Counted, Held
<1>1. phase = "ready" /\ AllEntries = Entries /\ Answer(<<"keys", {e.key : e \in Entries}>>)
  BY <1>0, NoneWaiting DEF dictionary_keys, Answer, DictionaryTypeOK
<1>2. Abstract!Inspect(<<"keys", {e.key : e \in AllEntries}>>) /\ Held'
  BY <1>1, AnswerMaps
<1> DEFINE M == MapOf(AllEntries)
<1>3. {e.key : e \in AllEntries} = {M[f].key : f \in DOMAIN M}
  BY <1>0, MapKeys
<1> HIDE DEF M
<1> QED
  BY <1>2, <1>3, AbstractMap DEF Abstract!Keys, M

LEMMA NoEntriesMap ==
    ASSUME AllEntries' = {}
    PROVE  [f \in {Folded(e.key) : e \in AllEntries'} |-> EntryFor(f)'] = Abstract!NoEntries
BY DEF Abstract!NoEntries

LEMMA MakeMaps ==
    ASSUME Good, make_dictionary
    PROVE  Abstract!Make /\ Held'
<1>1. /\ phase = "none" /\ phase' = "ready" /\ slots' = EmptySlots(InitialSize) /\ size' = InitialSize
      /\ out' = <<"make">> /\ destroyed' = {} /\ old' = << >>
  BY DEF make_dictionary, growth, Good, Counted, DictionaryTypeOK
<1>2. AllEntries' = {}
  BY <1>1, NoneWaitingNext, EntriesNext DEF EmptySlots
<1> QED
  BY <1>1, <1>2, NoEntriesMap DEF Abstract!Make, Held, OneEach

LEMMA FreeMaps ==
    ASSUME Good, dictionary_free
    PROVE  Abstract!Free /\ Held'
<1>1. /\ phase = "ready" /\ phase' = "none" /\ slots' = EmptySlots(InitialSize) /\ size' = InitialSize
      /\ out' = <<"free">> /\ destroyed' = Vals(Entries) /\ old = << >> /\ old' = << >>
  BY DEF dictionary_free, growth, Good, Counted, DictionaryTypeOK, Vals
<1>2. AllEntries' = {} /\ AllEntries = Entries
  BY <1>1, NoneWaiting, NoneWaitingNext, EntriesNext DEF EmptySlots
<1>3. Vals(AllEntries) = Abstract!Owned
  BY AbstractMap, MapVals DEF Good, Held, Abstract!Owned
<1> QED
  BY <1>1, <1>2, <1>3, NoEntriesMap DEF Abstract!Free, Held, OneEach

LEMMA StepMaps ==
    ASSUME Good, [DictionaryNext]_dictionaryVars
    PROVE  [Abstract!Next]_(Abstract!vars) /\ Good'
<1>0. DictionaryTypeOK /\ Findable /\ Counted /\ Held
  BY DEF Good, Counted
<1>1. Counted' /\ Findable' /\ DictionaryTypeOK'
  BY <1>0, CountedNext, FindableKept DEF Counted
<1>2. ASSUME Retry PROVE [Abstract!Next]_(Abstract!vars) /\ Held'
  <2>1. pending.key \in Key /\ pending.val \in Value /\ pending.val \notin Vals(AllEntries) /\ phase # "none"
    BY <1>0, <1>2 DEF Retry, DictionaryTypeOK, Mapping, Held
  <2>2. Waiting = {}
    BY <1>0, <1>2 DEF Retry, DictionaryTypeOK, Waiting
  <2> QED
    BY <1>0, <1>1, <1>2, <2>1, <2>2, AddMaps DEF Retry, Abstract!Next
<1>3. ASSUME NEW k \in Key, NEW v \in Value, dictionary_set(k, v) PROVE [Abstract!Next]_(Abstract!vars) /\ Held'
  <2>1. Waiting = {} /\ AllEntries = Entries /\ phase # "none"
    BY <1>0, <1>3, NoneWaiting DEF dictionary_set, DictionaryTypeOK
  <2>2. v \notin Vals(AllEntries)
    BY <1>3, <2>1 DEF dictionary_set, Vals
  <2> QED
    BY <1>0, <1>1, <1>3, <2>1, <2>2, AddMaps DEF dictionary_set, Abstract!Next
<1>4. ASSUME UNCHANGED dictionaryVars PROVE UNCHANGED Abstract!vars /\ Held'
  <2>1. AllEntries' = AllEntries
    BY <1>4 DEF dictionaryVars, table, growth, AllEntries, Entries, Live, Waiting
  <2> QED
    BY <1>0, <1>4, <2>1, Stutters DEF dictionaryVars, growth, Held, OneEach
<1>5. ASSUME NEW k \in Key, dictionary_remove(k) \/ dictionary_get(k) \/ dictionary_has_key(k)
      PROVE  Abstract!Next /\ Held'
  BY <1>5, RemoveMaps, GetMaps DEF Abstract!Next
<1>6. ASSUME make_dictionary \/ dictionary_free \/ dictionary_count \/ dictionary_keys
      PROVE  Abstract!Next /\ Held'
  BY <1>6, MakeMaps, FreeMaps, CountMaps, KeysMap DEF Abstract!Next
<1>7. [Abstract!Next]_(Abstract!vars) /\ Held'
  BY <1>2, <1>3, <1>4, <1>5, <1>6, RehashMaps DEF DictionaryNext
<1> QED
  BY <1>1, <1>7 DEF Good

LEMMA InitMaps == DictionaryInit => Abstract!Init /\ Good
<1> SUFFICES ASSUME DictionaryInit PROVE Abstract!Init /\ Good
  OBVIOUS
<1>1. Counted /\ Findable
  BY CountedInit DEF DictionaryInit, Findable, Live, EmptySlots
<1>2. AllEntries = {}
  BY NoneWaiting DEF DictionaryInit, Entries, Live, EmptySlots
<1>3. Held
  BY <1>2 DEF Held, OneEach, DictionaryInit
<1> QED
  BY <1>1, <1>2, <1>3 DEF Good, DictionaryInit, Abstract!Init, Abstract!NoEntries

(* Every call does to its caller what dictionary.h says: what it returns,   *)
(* which spelling is kept and which values are destroyed, however often the *)
(* array grows in the middle of a call.                                     *)
THEOREM RefinesStringMap == DictionarySpec => ImplementsStringMap
<1>1. Good /\ [DictionaryNext]_dictionaryVars => [Abstract!Next]_(Abstract!vars) /\ Good'
  BY StepMaps
<1> QED
  BY <1>1, InitMaps, PTL DEF DictionarySpec, ImplementsStringMap, Abstract!Spec
=============================================================================
