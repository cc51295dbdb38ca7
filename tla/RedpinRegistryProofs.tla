------------------------ MODULE RedpinRegistryProofs ------------------------
(***************************************************************************)
(* RedpinRegistry for any people, places, threads and requests: the types, *)
(* mutual exclusion, that the two dictionaries mirror each other whenever  *)
(* data_sem is free, and, in the second half, that the registry implements *)
(* the pin board.                                                          *)
(***************************************************************************)
EXTENDS RedpinRegistry, FiniteSetTheorems, TLAPS

\* What is known of a thread's request and of the list it fetched.
ShapeOK(t) ==
    /\ pc[t] # "idle" => request[t] \in Request
    /\ pc[t] \in {"fetch", "relock", "import"} =>
          request[t].op \in {"copy_person", "copy_place"}
    /\ pc[t] \in {"import_person", "import_mirror"} => request[t].op = "copy_place"
    /\ pc[t] \in {"relock", "import"} =>
          /\ fetched[t] \in FetchType
          /\ request[t].op = "copy_person" => fetched[t].list \in Seq(Place)
          /\ request[t].op = "copy_place" => fetched[t].list \in Seq(Person)

\* Inside a loop the pointer is the dictionary of the current person or place,
\* or, in /unpin, it was freed with the person's last pin.  Between the two
\* sides of a pass the first side is done.
LoopOK(t) ==
    /\ pc[t] \in {"pin_place", "pin_mirror", "unpin_place", "unpin_mirror", "import_mirror"}
          => todo[t] # <<>>
    /\ pc[t] \in {"pin_mirror", "unpin_mirror"} => rest[t] # <<>>
    /\ pc[t] \in {"pin_place", "pin_mirror"} =>
          ptr[t] = Head(todo[t]) /\ Head(todo[t]) \in people
    /\ pc[t] \in {"unpin_place", "unpin_mirror"} =>
          \/ ptr[t] = Head(todo[t]) /\ Head(todo[t]) \in people
          \/ ptr[t] = Dangling /\ Head(todo[t]) \notin people
    /\ pc[t] \in {"import_person", "import_mirror"} =>
          ptr[t] = request[t].as /\ request[t].as \in places
    /\ pc[t] = "pin_mirror" => Head(rest[t]) \in placesOf[Head(todo[t])]
    /\ pc[t] = "unpin_mirror" => Head(rest[t]) \notin placesOf[Head(todo[t])]
    /\ pc[t] = "import_mirror" => Head(todo[t]) \in peopleOf[request[t].as]

\* The pin that thread t has on one side only.
InFlight(t, p, q) ==
    \/ pc[t] \in {"pin_mirror", "unpin_mirror"} /\ p = Head(todo[t]) /\ q = Head(rest[t])
    \/ pc[t] = "import_mirror" /\ p = Head(todo[t]) /\ q = request[t].as

Untracked ==
    /\ \A p \in Person : p \notin people => placesOf[p] = {}
    /\ \A q \in Place : q \notin places => peopleOf[q] = {}

MirroredButOne ==
    \A p \in Person, q \in Place :
        (\A t \in Thread : ~InFlight(t, p, q)) => (q \in placesOf[p] <=> p \in peopleOf[q])

IInv ==
    /\ TypeOK
    /\ MutualExclusion
    /\ \A t \in Thread : ShapeOK(t)
    /\ \A t \in Thread : LoopOK(t)
    /\ Untracked
    /\ MirroredButOne

\* What the fields of a request are.
LEMMA RequestFields ==
    \A r \in Request :
        /\ r.op \in {"pin", "unpin"} => r.people \in Seq(Person) /\ r.places \in Seq(Place)
        /\ r.op = "copy_person" => r.person \in Person /\ r.as \in Person
        /\ r.op = "copy_place" => r.place \in Place /\ r.as \in Place
        /\ r.op = "people_of" => r.place \in Place
        /\ r.op = "places_of" => r.person \in Person
  BY RegistryAssumption DEF RequestType, ListRequest, PlainRequest, PeopleOfRequest,
     PlacesOfRequest, CopyPersonRequest, CopyPlaceRequest

\* dictionary_keys lists members of the dictionary.
LEMMA ListingsAreSequences ==
    ASSUME NEW T, IsFiniteSet(T), NEW S \in SUBSET T
    PROVE  Listings(S) \subseteq Seq(T)
<1>1. Cardinality(S) \in Nat
  BY FS_Subset, FS_CardinalityType
<1> QED
  BY <1>1 DEF Listings

\* The counts that are reported are numbers.
LEMMA CountsType == TypeOK => Counts(people, places) \in ReplyType
<1> SUFFICES ASSUME TypeOK PROVE Counts(people, places) \in ReplyType
  OBVIOUS
<1>1. Cardinality(people) \in Nat /\ Cardinality(places) \in Nat
  BY NamesAssumption, FS_Subset, FS_CardinalityType DEF TypeOK
<1> QED
  BY <1>1 DEF Counts, ReplyType

\* What a /copy can have fetched: a list of places for a person, of people for
\* a place.
LEMMA FetchedList ==
    ASSUME TypeOK, NEW t \in Thread, ShapeOK(t), Fetch(t)
    PROVE  \E a \in FetchType :
              /\ fetched' = [fetched EXCEPT ![t] = a]
              /\ request[t].op = "copy_person" => a.list \in Seq(Place)
              /\ request[t].op = "copy_place" => a.list \in Seq(Person)
<1> DEFINE r == request[t]
           Lists == IF r.op = "copy_person" THEN Seq(Place) ELSE Seq(Person)
<1>1. r \in Request /\ r.op \in {"copy_person", "copy_place"}
  BY DEF Fetch, At, ShapeOK
<1>2. PICK a : /\ fetched' = [fetched EXCEPT ![t] = a]
               /\ \/ \E l \in OwnAnswer(r) : a = Answered(l)
                  \/ a \in {NoAnswer, Refusal}
                  \/ \E l \in (IF r.op = "copy_person" THEN PeerPlaces ELSE PeerPeople) : a = Answered(l)
  BY DEF Fetch, ListsAnswered
<1>3. OwnAnswer(r) \subseteq Lists
  <2>1. CASE r.op = "copy_person"
    <3>1. (IF r.person \in people THEN placesOf[r.person] ELSE {}) \in SUBSET Place
      BY <1>1, <2>1, RequestFields DEF TypeOK
    <3> QED
      BY <2>1, <3>1, ListingsAreSequences, NamesAssumption DEF OwnAnswer
  <2>2. CASE r.op = "copy_place"
    <3>1. (IF r.place \in places THEN peopleOf[r.place] ELSE {}) \in SUBSET Person
      BY <1>1, <2>2, RequestFields DEF TypeOK
    <3> QED
      BY <2>2, <3>1, ListingsAreSequences, NamesAssumption DEF OwnAnswer
  <2> QED
    BY <1>1, <2>1, <2>2
<1>4. a \in FetchType /\ a.list \in Lists
  <2>1. ASSUME NEW l \in Lists PROVE Answered(l) \in FetchType /\ Answered(l).list \in Lists
    BY <2>1 DEF FetchType, Answered
  <2>2. \A b \in {NoAnswer, Refusal} : b \in FetchType /\ b.list \in Lists
    <3>1. <<>> \in Seq(Person) /\ <<>> \in Seq(Place)
      OBVIOUS
    <3>2. NoAnswer \in FetchType /\ Refusal \in FetchType
      BY <3>1 DEF FetchType, NoAnswer, Refusal
    <3>3. NoAnswer.list = <<>> /\ Refusal.list = <<>>
      BY DEF NoAnswer, Refusal
    <3> QED
      BY <3>1, <3>2, <3>3
  <2>3. (IF r.op = "copy_person" THEN PeerPlaces ELSE PeerPeople) \subseteq Lists
    BY NamesAssumption
  <2> HIDE DEF Lists, r
  <2> QED
    BY <1>2, <1>3, <2>1, <2>2, <2>3
<1> QED
  BY <1>1, <1>2, <1>4

\* Everything holds before the first request.
LEMMA InitIInv == Init => IInv
<1> SUFFICES ASSUME Init PROVE IInv
  OBVIOUS
<1>1. TypeOK
  BY DEF Init, TypeOK, Labels, Current, Pinned
<1>2. MutualExclusion
  BY DEF Init, MutualExclusion, InCritical, Critical
<1>3. \A t \in Thread : ShapeOK(t) /\ LoopOK(t)
  BY DEF Init, ShapeOK, LoopOK
<1>4. Untracked /\ MirroredButOne
  BY DEF Init, Untracked, MirroredButOne
<1> QED
  BY <1>1, <1>2, <1>3, <1>4 DEF IInv

\* No step breaks it: one step of the proof for each action and, under it, one
\* for each part of the invariant.
LEMMA StepIInv ==
    ASSUME NEW t \in Thread, IInv, Arrive(t) \/ Step(t)
    PROVE  IInv'
<1> USE RegistryAssumption, NamesAssumption DEF IInv
<1>1. ASSUME Arrive(t) PROVE IInv'
  <2>0. ~InCritical(t)
    BY <1>1 DEF Arrive, At, InCritical, Critical
  <2>1. TypeOK'
    BY <2>0, <1>1 DEF Arrive, At, Goto, dictionaries, loops, TypeOK, Labels, Critical
  <2>2. MutualExclusion'
    BY <2>0, <1>1 DEF Arrive, At, Goto, dictionaries, loops, TypeOK, MutualExclusion, InCritical, Critical
  <2>3. \A u \in Thread : ShapeOK(u)'
    BY <2>0, <1>1 DEF Arrive, At, Goto, dictionaries, loops, TypeOK, ShapeOK, IInv
  <2>4. \A u \in Thread : LoopOK(u)'
    BY <2>0, <1>1 DEF Arrive, At, Goto, dictionaries, loops, TypeOK, LoopOK, InCritical, Critical
  <2>5. Untracked'
    BY <2>0, <1>1 DEF Arrive, At, Goto, dictionaries, loops, TypeOK, Untracked
  <2>6. MirroredButOne'
    <3> SUFFICES ASSUME NEW p \in Person, NEW q \in Place, \A u \in Thread : ~InFlight(u, p, q)'
                 PROVE (q \in placesOf[p] <=> p \in peopleOf[q])'
      BY DEF MirroredButOne
    <3>1. \A u \in Thread : ~InFlight(u, p, q)
      BY <1>1, <2>0 DEF Arrive, At, Goto, loops, TypeOK, InFlight
    <3> QED
      BY <1>1, <3>1 DEF Arrive, dictionaries, MirroredButOne
  <2> QED
    BY <2>1, <2>2, <2>3, <2>4, <2>5, <2>6
<1>2. ASSUME Lock(t) PROVE IInv'
  <2>0. ~InCritical(t)
    BY <1>2 DEF Lock, At, InCritical, Critical
  <2>1. TypeOK'
    BY <2>0, <1>2 DEF Lock, At, Goto, dictionaries, loops, TypeOK, Labels, Critical, Current, Pinned
  <2>2. MutualExclusion'
    BY <2>0, <1>2 DEF Lock, At, Goto, dictionaries, loops, TypeOK, MutualExclusion, InCritical, Critical
  <2>3. \A u \in Thread : ShapeOK(u)'
    BY <2>0, <1>2, RequestFields DEF Lock, At, Goto, dictionaries, loops, TypeOK, ShapeOK
  <2>4. \A u \in Thread : LoopOK(u)'
    BY <2>0, <1>2 DEF Lock, At, Goto, dictionaries, loops, TypeOK, LoopOK, InCritical, Critical
  <2>5. Untracked'
    BY <2>0, <1>2 DEF Lock, At, Goto, dictionaries, loops, TypeOK, Untracked
  <2>6. MirroredButOne'
    BY <2>0, <1>2 DEF Lock, At, Goto, dictionaries, loops, TypeOK, MirroredButOne, InFlight, InCritical, Critical
  <2> QED
    BY <2>1, <2>2, <2>3, <2>4, <2>5, <2>6
<1>3. ASSUME Unlock(t) PROVE IInv'
  <2>0. InCritical(t) /\ \A u \in Thread \ {t} : ~InCritical(u)
    BY <1>3 DEF Unlock, At, InCritical, Critical, MutualExclusion
  <2>1. TypeOK'
    BY <2>0, <1>3 DEF Unlock, At, Goto, dictionaries, loops, TypeOK, Labels, Critical, MutualExclusion
  <2>2. MutualExclusion'
    BY <2>0, <1>3 DEF Unlock, At, Goto, dictionaries, loops, TypeOK, MutualExclusion, InCritical, Critical
  <2>3. \A u \in Thread : ShapeOK(u)'
    BY <2>0, <1>3, RequestFields DEF Unlock, At, Goto, dictionaries, loops, TypeOK, ShapeOK
  <2>4. \A u \in Thread : LoopOK(u)'
    BY <2>0, <1>3 DEF Unlock, At, Goto, dictionaries, loops, TypeOK, LoopOK, InCritical, Critical
  <2>5. Untracked'
    BY <2>0, <1>3 DEF Unlock, At, Goto, dictionaries, loops, TypeOK, Untracked
  <2>6. MirroredButOne'
    BY <2>0, <1>3 DEF Unlock, At, Goto, dictionaries, loops, TypeOK, MirroredButOne, InFlight, InCritical, Critical
  <2> QED
    BY <2>1, <2>2, <2>3, <2>4, <2>5, <2>6
<1>4. ASSUME AnswerQuery(t) PROVE IInv'
  <2>0. InCritical(t) /\ \A u \in Thread \ {t} : ~InCritical(u)
    BY <1>4 DEF AnswerQuery, Serves, At, InCritical, Critical, MutualExclusion
  <2>1. TypeOK'
    <3> DEFINE r == request[t]
    <3>1. r \in Request /\ r.op \in {"counts", "people", "places", "people_of", "places_of", "bad"}
      BY <1>4 DEF AnswerQuery, Serves, At, ShapeOK
    <3>2. Counts(people, places) \in ReplyType /\ BadRequest \in ReplyType
      BY CountsType DEF ReplyType
    <3>3. \A S : S \in SUBSET Person \/ S \in SUBSET Place => Names(S) \in ReplyType
      BY DEF Names, ReplyType
    <3>4. people \in SUBSET Person /\ places \in SUBSET Place
      BY DEF TypeOK
    <3>5. r.op = "people_of" => (IF r.place \in places THEN peopleOf[r.place] ELSE {}) \in SUBSET Person
      BY <3>1, RequestFields DEF TypeOK
    <3>6. r.op = "places_of" => (IF r.person \in people THEN placesOf[r.person] ELSE {}) \in SUBSET Place
      BY <3>1, RequestFields DEF TypeOK
    <3> DEFINE answer == CASE r.op = "counts"    -> Counts(people, places)
                           [] r.op = "people"    -> Names(people)
                           [] r.op = "places"    -> Names(places)
                           [] r.op = "people_of" ->
                                Names(IF r.place \in places THEN peopleOf[r.place] ELSE {})
                           [] r.op = "places_of" ->
                                Names(IF r.person \in people THEN placesOf[r.person] ELSE {})
                           [] r.op = "bad"       -> BadRequest
    <3>7. answer \in ReplyType
      <4> HIDE DEF r
      <4> QED
        BY <3>1, <3>2, <3>3, <3>4, <3>5, <3>6
    <3>8. reply' = [reply EXCEPT ![t] = answer] /\ Goto(t, "unlock")
          /\ UNCHANGED <<dictionaries, loops, data_sem, alive, request, fetched, snap>>
      BY <1>4 DEF AnswerQuery, Respond
    <3> HIDE DEF answer
    <3> QED
      BY <3>7, <3>8 DEF Goto, dictionaries, loops, TypeOK, Labels, Critical
  <2>2. MutualExclusion'
    BY <2>0, <1>4 DEF AnswerQuery, Serves, Respond, At, Goto, dictionaries, loops, TypeOK, MutualExclusion, InCritical, Critical
  <2>3. \A u \in Thread : ShapeOK(u)'
    BY <2>0, <1>4, RequestFields DEF AnswerQuery, Serves, Respond, At, Goto, dictionaries, loops, TypeOK, ShapeOK
  <2>4. \A u \in Thread : LoopOK(u)'
    BY <2>0, <1>4 DEF AnswerQuery, Serves, Respond, At, Goto, dictionaries, loops, TypeOK, LoopOK, InCritical, Critical
  <2>5. Untracked'
    BY <2>0, <1>4 DEF AnswerQuery, Serves, Respond, At, Goto, dictionaries, loops, TypeOK, Untracked
  <2>6. MirroredButOne'
    BY <2>0, <1>4 DEF AnswerQuery, Serves, Respond, At, Goto, dictionaries, loops, TypeOK, MirroredButOne, InFlight, InCritical, Critical
  <2> QED
    BY <2>1, <2>2, <2>3, <2>4, <2>5, <2>6
<1>5. ASSUME Reset(t) PROVE IInv'
  <2>0. InCritical(t) /\ \A u \in Thread \ {t} : ~InCritical(u)
    BY <1>5 DEF Reset, Serves, At, InCritical, Critical, MutualExclusion
  <2>1. TypeOK'
    <3>1. Counts({}, {}) \in ReplyType
      BY FS_EmptySet DEF Counts, ReplyType
    <3>2. ptr' \in [Thread -> Person \cup Place \cup {NULL, Dangling}]
      BY <1>5 DEF Reset, Freed, TypeOK
    <3> QED
      BY <1>5, <3>1, <3>2 DEF Reset, Serves, Respond, At, Goto, TypeOK, Labels, Critical
  <2>2. MutualExclusion'
    BY <2>0, <1>5 DEF Reset, Serves, Respond, At, Goto, Freed, TypeOK, MutualExclusion, InCritical, Critical
  <2>3. \A u \in Thread : ShapeOK(u)'
    BY <2>0, <1>5, RequestFields DEF Reset, Serves, Respond, At, Goto, Freed, TypeOK, ShapeOK
  <2>4. \A u \in Thread : LoopOK(u)'
    BY <2>0, <1>5 DEF Reset, Serves, Respond, At, Goto, Freed, TypeOK, LoopOK, InCritical, Critical
  <2>5. Untracked'
    BY <2>0, <1>5 DEF Reset, Serves, Respond, At, Goto, Freed, TypeOK, Untracked
  <2>6. MirroredButOne'
    BY <2>0, <1>5 DEF Reset, Serves, Respond, At, Goto, Freed, TypeOK, MirroredButOne, InFlight, InCritical, Critical
  <2> QED
    BY <2>1, <2>2, <2>3, <2>4, <2>5, <2>6
<1>6. ASSUME Count(t) PROVE IInv'
  <2>0. InCritical(t) /\ \A u \in Thread \ {t} : ~InCritical(u)
    BY <1>6 DEF Count, At, InCritical, Critical, MutualExclusion
  <2>1. TypeOK'
    BY <2>0, <1>6, CountsType DEF Count, Respond, At, Goto, dictionaries, loops, TypeOK, Labels, Critical
  <2>2. MutualExclusion'
    BY <2>0, <1>6 DEF Count, Respond, At, Goto, dictionaries, loops, TypeOK, MutualExclusion, InCritical, Critical
  <2>3. \A u \in Thread : ShapeOK(u)'
    BY <2>0, <1>6, RequestFields DEF Count, Respond, At, Goto, dictionaries, loops, TypeOK, ShapeOK
  <2>4. \A u \in Thread : LoopOK(u)'
    BY <2>0, <1>6 DEF Count, Respond, At, Goto, dictionaries, loops, TypeOK, LoopOK, InCritical, Critical
  <2>5. Untracked'
    BY <2>0, <1>6 DEF Count, Respond, At, Goto, dictionaries, loops, TypeOK, Untracked
  <2>6. MirroredButOne'
    BY <2>0, <1>6 DEF Count, Respond, At, Goto, dictionaries, loops, TypeOK, MirroredButOne, InFlight, InCritical, Critical
  <2> QED
    BY <2>1, <2>2, <2>3, <2>4, <2>5, <2>6
<1>7. ASSUME StartLists(t) PROVE IInv'
  <2>0. InCritical(t) /\ \A u \in Thread \ {t} : ~InCritical(u)
    BY <1>7 DEF StartLists, Serves, At, InCritical, Critical, MutualExclusion
  <2>1. TypeOK'
    BY <2>0, <1>7, RequestFields DEF StartLists, Serves, At, Goto, dictionaries, TypeOK, Labels, Critical, ShapeOK
  <2>2. MutualExclusion'
    BY <2>0, <1>7 DEF StartLists, Serves, At, Goto, dictionaries, TypeOK, MutualExclusion, InCritical, Critical
  <2>3. \A u \in Thread : ShapeOK(u)'
    BY <2>0, <1>7, RequestFields DEF StartLists, Serves, At, Goto, dictionaries, TypeOK, ShapeOK
  <2>4. \A u \in Thread : LoopOK(u)'
    BY <2>0, <1>7 DEF StartLists, Serves, At, Goto, dictionaries, TypeOK, LoopOK, InCritical, Critical
  <2>5. Untracked'
    BY <2>0, <1>7 DEF StartLists, Serves, At, Goto, dictionaries, TypeOK, Untracked
  <2>6. MirroredButOne'
    BY <2>0, <1>7 DEF StartLists, Serves, At, Goto, dictionaries, TypeOK, MirroredButOne, InFlight, InCritical, Critical
  <2> QED
    BY <2>1, <2>2, <2>3, <2>4, <2>5, <2>6
<1>8. ASSUME PinPerson(t) PROVE IInv'
  <2>0. InCritical(t) /\ \A u \in Thread \ {t} : ~InCritical(u)
    BY <1>8 DEF PinPerson, At, InCritical, Critical, MutualExclusion
  <2>1. TypeOK'
    BY <2>0, <1>8 DEF PinPerson, At, Goto, LoopStep, TypeOK, Labels, Critical
  <2>2. MutualExclusion'
    BY <2>0, <1>8 DEF PinPerson, At, Goto, LoopStep, TypeOK, MutualExclusion, InCritical, Critical
  <2>3. \A u \in Thread : ShapeOK(u)'
    BY <2>0, <1>8, RequestFields DEF PinPerson, At, Goto, LoopStep, TypeOK, ShapeOK
  <2>4. \A u \in Thread : LoopOK(u)'
    BY <2>0, <1>8 DEF PinPerson, At, Goto, LoopStep, TypeOK, LoopOK, InCritical, Critical
  <2>5. Untracked'
    BY <2>0, <1>8 DEF PinPerson, At, Goto, LoopStep, TypeOK, Untracked
  <2>6. MirroredButOne'
    <3> SUFFICES ASSUME NEW p \in Person, NEW q \in Place, ~InFlight(t, p, q)'
                 PROVE (q \in placesOf[p] <=> p \in peopleOf[q])'
      BY DEF MirroredButOne
    <3>1. ~InFlight(t, p, q) => (q \in placesOf[p] <=> p \in peopleOf[q])
      BY <2>0 DEF MirroredButOne, InFlight, InCritical, Critical
    <3> QED
      BY <1>8, <3>1 DEF PinPerson, At, Goto, LoopStep, TypeOK, InFlight, LoopOK, Untracked
  <2> QED
    BY <2>1, <2>2, <2>3, <2>4, <2>5, <2>6
<1>9. ASSUME PinPlace(t) PROVE IInv'
  <2>0. InCritical(t) /\ \A u \in Thread \ {t} : ~InCritical(u)
    BY <1>9 DEF PinPlace, At, InCritical, Critical, MutualExclusion
  <2>1. TypeOK'
    BY <2>0, <1>9, SMTT(30) DEF PinPlace, At, Goto, LoopStep, TypeOK, Labels, Critical, LoopOK
  <2>2. MutualExclusion'
    BY <2>0, <1>9 DEF PinPlace, At, Goto, LoopStep, TypeOK, MutualExclusion, InCritical, Critical
  <2>3. \A u \in Thread : ShapeOK(u)'
    BY <2>0, <1>9, RequestFields DEF PinPlace, At, Goto, LoopStep, TypeOK, ShapeOK
  <2>4. \A u \in Thread : LoopOK(u)'
    BY <2>0, <1>9 DEF PinPlace, At, Goto, LoopStep, TypeOK, LoopOK, InCritical, Critical
  <2>5. Untracked'
    BY <2>0, <1>9 DEF PinPlace, At, Goto, LoopStep, TypeOK, Untracked, LoopOK
  <2>6. MirroredButOne'
    <3> SUFFICES ASSUME NEW p \in Person, NEW q \in Place, ~InFlight(t, p, q)'
                 PROVE (q \in placesOf[p] <=> p \in peopleOf[q])'
      BY DEF MirroredButOne
    <3>1. ~InFlight(t, p, q) => (q \in placesOf[p] <=> p \in peopleOf[q])
      BY <2>0 DEF MirroredButOne, InFlight, InCritical, Critical
    <3> QED
      BY <1>9, <3>1 DEF PinPlace, At, Goto, LoopStep, TypeOK, InFlight, LoopOK, Untracked
  <2> QED
    BY <2>1, <2>2, <2>3, <2>4, <2>5, <2>6
<1>10. ASSUME PinMirror(t) PROVE IInv'
  <2>0. InCritical(t) /\ \A u \in Thread \ {t} : ~InCritical(u)
    BY <1>10 DEF PinMirror, At, InCritical, Critical, MutualExclusion
  <2>1. TypeOK'
    BY <2>0, <1>10 DEF PinMirror, At, Goto, LoopStep, TypeOK, Labels, Critical, LoopOK
  <2>2. MutualExclusion'
    BY <2>0, <1>10 DEF PinMirror, At, Goto, LoopStep, TypeOK, MutualExclusion, InCritical, Critical
  <2>3. \A u \in Thread : ShapeOK(u)'
    BY <2>0, <1>10, RequestFields DEF PinMirror, At, Goto, LoopStep, TypeOK, ShapeOK
  <2>4. \A u \in Thread : LoopOK(u)'
    BY <2>0, <1>10 DEF PinMirror, At, Goto, LoopStep, TypeOK, LoopOK, InCritical, Critical
  <2>5. Untracked'
    BY <2>0, <1>10 DEF PinMirror, At, Goto, LoopStep, TypeOK, Untracked
  <2>6. MirroredButOne'
    <3> SUFFICES ASSUME NEW p \in Person, NEW q \in Place, ~InFlight(t, p, q)'
                 PROVE (q \in placesOf[p] <=> p \in peopleOf[q])'
      BY DEF MirroredButOne
    <3>1. ~InFlight(t, p, q) => (q \in placesOf[p] <=> p \in peopleOf[q])
      BY <2>0 DEF MirroredButOne, InFlight, InCritical, Critical
    <3> QED
      BY <1>10, <3>1 DEF PinMirror, At, Goto, LoopStep, TypeOK, InFlight, LoopOK, Untracked
  <2> QED
    BY <2>1, <2>2, <2>3, <2>4, <2>5, <2>6
<1>11. ASSUME PinNextPerson(t) PROVE IInv'
  <2>0. InCritical(t) /\ \A u \in Thread \ {t} : ~InCritical(u)
    BY <1>11 DEF PinNextPerson, At, InCritical, Critical, MutualExclusion
  <2>1. TypeOK'
    BY <2>0, <1>11 DEF PinNextPerson, At, Goto, LoopStep, dictionaries, TypeOK, Labels, Critical, LoopOK
  <2>2. MutualExclusion'
    BY <2>0, <1>11 DEF PinNextPerson, At, Goto, LoopStep, dictionaries, TypeOK, MutualExclusion, InCritical, Critical
  <2>3. \A u \in Thread : ShapeOK(u)'
    BY <2>0, <1>11, RequestFields DEF PinNextPerson, At, Goto, LoopStep, dictionaries, TypeOK, ShapeOK
  <2>4. \A u \in Thread : LoopOK(u)'
    BY <2>0, <1>11 DEF PinNextPerson, At, Goto, LoopStep, dictionaries, TypeOK, LoopOK, InCritical, Critical
  <2>5. Untracked'
    BY <2>0, <1>11 DEF PinNextPerson, At, Goto, LoopStep, dictionaries, TypeOK, Untracked
  <2>6. MirroredButOne'
    BY <2>0, <1>11 DEF PinNextPerson, At, Goto, LoopStep, dictionaries, TypeOK, MirroredButOne, InFlight, InCritical, Critical
  <2> QED
    BY <2>1, <2>2, <2>3, <2>4, <2>5, <2>6
<1>12. ASSUME UnpinPerson(t) PROVE IInv'
  <2>0. InCritical(t) /\ \A u \in Thread \ {t} : ~InCritical(u)
    BY <1>12 DEF UnpinPerson, At, InCritical, Critical, MutualExclusion
  <2>1. TypeOK'
    <3>1. CASE Head(todo[t]) \in people
      <4>1. /\ ptr' = [ptr EXCEPT ![t] = Head(todo[t])] /\ rest' = [rest EXCEPT ![t] = list[t]]
            /\ pc' = [pc EXCEPT ![t] = "unpin_place"] /\ todo' = todo
        BY <1>12, <3>1 DEF UnpinPerson, Goto
      <4> QED
        BY <1>12, <3>1, <4>1 DEF UnpinPerson, LoopStep, dictionaries, TypeOK, Labels, Critical
    <3>2. CASE Head(todo[t]) \notin people
      <4>1. todo' = [todo EXCEPT ![t] = Tail(todo[t])] /\ UNCHANGED <<ptr, rest, pc>>
        BY <1>12, <3>2 DEF UnpinPerson
      <4>2. Tail(todo[t]) \in Seq(Person)
        BY <1>12 DEF UnpinPerson, TypeOK
      <4> QED
        BY <1>12, <4>1, <4>2 DEF UnpinPerson, LoopStep, dictionaries, TypeOK
    <3> QED
      BY <3>1, <3>2
  <2>2. MutualExclusion'
    <3>1. \A u \in Thread : InCritical(u)' <=> InCritical(u)
      BY <1>12 DEF UnpinPerson, At, Goto, TypeOK, InCritical, Critical
    <3> QED
      BY <1>12, <3>1 DEF UnpinPerson, LoopStep, MutualExclusion
  <2>3. \A u \in Thread : ShapeOK(u)'
    BY <2>0, <1>12, RequestFields DEF UnpinPerson, At, Goto, LoopStep, dictionaries, TypeOK, ShapeOK
  <2>4. \A u \in Thread : LoopOK(u)'
    BY <2>0, <1>12 DEF UnpinPerson, At, Goto, LoopStep, dictionaries, TypeOK, LoopOK, InCritical, Critical
  <2>5. Untracked'
    BY <2>0, <1>12 DEF UnpinPerson, At, Goto, LoopStep, dictionaries, TypeOK, Untracked
  <2>6. MirroredButOne'
    BY <2>0, <1>12 DEF UnpinPerson, At, Goto, LoopStep, dictionaries, TypeOK, MirroredButOne, InFlight, InCritical, Critical
  <2> QED
    BY <2>1, <2>2, <2>3, <2>4, <2>5, <2>6
<1>13. ASSUME UnpinPlace(t) PROVE IInv'
  <2>0. InCritical(t) /\ \A u \in Thread \ {t} : ~InCritical(u)
    BY <1>13 DEF UnpinPlace, At, InCritical, Critical, MutualExclusion
  <2>1. TypeOK'
    BY <2>0, <1>13 DEF UnpinPlace, At, Goto, LoopStep, Freed, TypeOK, Labels, Critical, LoopOK
  <2>2. MutualExclusion'
    BY <2>0, <1>13 DEF UnpinPlace, At, Goto, LoopStep, Freed, TypeOK, MutualExclusion, InCritical, Critical
  <2>3. \A u \in Thread : ShapeOK(u)'
    BY <2>0, <1>13, RequestFields DEF UnpinPlace, At, Goto, LoopStep, Freed, TypeOK, ShapeOK
  <2>4. \A u \in Thread : LoopOK(u)'
    BY <2>0, <1>13 DEF UnpinPlace, At, Goto, LoopStep, Freed, TypeOK, LoopOK, InCritical, Critical
  <2>5. Untracked'
    BY <2>0, <1>13 DEF UnpinPlace, At, Goto, LoopStep, Freed, TypeOK, Untracked, LoopOK
  <2>6. MirroredButOne'
    <3> SUFFICES ASSUME NEW p \in Person, NEW q \in Place, ~InFlight(t, p, q)'
                 PROVE (q \in placesOf[p] <=> p \in peopleOf[q])'
      BY DEF MirroredButOne
    <3>1. ~InFlight(t, p, q) => (q \in placesOf[p] <=> p \in peopleOf[q])
      BY <2>0 DEF MirroredButOne, InFlight, InCritical, Critical
    <3> QED
      BY <1>13, <3>1 DEF UnpinPlace, At, Goto, LoopStep, Freed, TypeOK, InFlight, LoopOK, Untracked
  <2> QED
    BY <2>1, <2>2, <2>3, <2>4, <2>5, <2>6
<1>14. ASSUME UnpinMirror(t) PROVE IInv'
  <2>0. InCritical(t) /\ \A u \in Thread \ {t} : ~InCritical(u)
    BY <1>14 DEF UnpinMirror, At, InCritical, Critical, MutualExclusion
  <2>1. TypeOK'
    <3>1. peopleOf' \in [Place -> SUBSET Person] /\ places' \in SUBSET Place
      <4> DEFINE place == Head(rest[t])
                 left == peopleOf[place] \ {Head(todo[t])}
      <4>1. CASE UNCHANGED <<places, peopleOf>>
        BY <4>1 DEF TypeOK
      <4>2. CASE /\ place \in places
                 /\ peopleOf' = [peopleOf EXCEPT ![place] = left]
                 /\ places' = IF left = {} THEN places \ {place} ELSE places
        <5>1. place \in Place /\ left \in SUBSET Person
          BY <4>2 DEF TypeOK
        <5> HIDE DEF place, left
        <5> QED
          BY <4>2, <5>1 DEF TypeOK
      <4> QED
        BY <1>14, <4>1, <4>2 DEF UnpinMirror
    <3>2. Tail(rest[t]) \in Seq(Place)
      BY <1>14 DEF UnpinMirror, At, LoopOK, TypeOK
    <3> QED
      BY <1>14, <3>1, <3>2 DEF UnpinMirror, Goto, LoopStep, TypeOK, Labels, Critical
  <2>2. MutualExclusion'
    BY <2>0, <1>14 DEF UnpinMirror, At, Goto, LoopStep, TypeOK, MutualExclusion, InCritical, Critical
  <2>3. \A u \in Thread : ShapeOK(u)'
    BY <2>0, <1>14, RequestFields DEF UnpinMirror, At, Goto, LoopStep, TypeOK, ShapeOK
  <2>4. \A u \in Thread : LoopOK(u)'
    BY <2>0, <1>14 DEF UnpinMirror, At, Goto, LoopStep, TypeOK, LoopOK, InCritical, Critical
  <2>5. Untracked'
    <3>1. UNCHANGED <<people, placesOf>>
      BY <1>14 DEF UnpinMirror
    <3>2. PICK a, b, left : a = Head(rest[t]) /\ b = Head(todo[t]) /\ left = peopleOf[a] \ {b}
      OBVIOUS
    <3>3. \/ peopleOf' = [peopleOf EXCEPT ![a] = left] /\ places' = IF left = {} THEN places \ {a} ELSE places
          \/ UNCHANGED <<places, peopleOf>>
      BY <1>14, <3>2 DEF UnpinMirror
    <3>4. peopleOf \in [Place -> SUBSET Person]
      BY DEF TypeOK
    <3>5. ASSUME NEW q \in Place, q \notin places' PROVE peopleOf'[q] = {}
      <4>1. CASE UNCHANGED <<places, peopleOf>>
        BY <3>5, <4>1 DEF Untracked
      <4>2. CASE peopleOf' = [peopleOf EXCEPT ![a] = left] /\ places' = IF left = {} THEN places \ {a} ELSE places
        <5>1. CASE q = a
          BY <3>2, <3>4, <3>5, <4>2, <5>1 DEF Untracked
        <5>2. CASE q # a
          BY <3>4, <3>5, <4>2, <5>2 DEF Untracked
        <5> QED
          BY <5>1, <5>2
      <4> QED
        BY <3>3, <4>1, <4>2
    <3> QED
      BY <3>1, <3>5 DEF Untracked
  <2>6. MirroredButOne'
    <3> SUFFICES ASSUME NEW p \in Person, NEW q \in Place, ~InFlight(t, p, q)'
                 PROVE (q \in placesOf[p] <=> p \in peopleOf[q])'
      BY DEF MirroredButOne
    <3>1. ~InFlight(t, p, q) => (q \in placesOf[p] <=> p \in peopleOf[q])
      BY <2>0 DEF MirroredButOne, InFlight, InCritical, Critical
    <3> QED
      BY <1>14, <3>1 DEF UnpinMirror, At, Goto, LoopStep, TypeOK, InFlight, LoopOK, Untracked
  <2> QED
    BY <2>1, <2>2, <2>3, <2>4, <2>5, <2>6
<1>15. ASSUME UnpinNextPerson(t) PROVE IInv'
  <2>0. InCritical(t) /\ \A u \in Thread \ {t} : ~InCritical(u)
    BY <1>15 DEF UnpinNextPerson, At, InCritical, Critical, MutualExclusion
  <2>1. TypeOK'
    BY <2>0, <1>15 DEF UnpinNextPerson, At, Goto, LoopStep, dictionaries, TypeOK, Labels, Critical, LoopOK
  <2>2. MutualExclusion'
    BY <2>0, <1>15 DEF UnpinNextPerson, At, Goto, LoopStep, dictionaries, TypeOK, MutualExclusion, InCritical, Critical
  <2>3. \A u \in Thread : ShapeOK(u)'
    BY <2>0, <1>15, RequestFields DEF UnpinNextPerson, At, Goto, LoopStep, dictionaries, TypeOK, ShapeOK
  <2>4. \A u \in Thread : LoopOK(u)'
    BY <2>0, <1>15 DEF UnpinNextPerson, At, Goto, LoopStep, dictionaries, TypeOK, LoopOK, InCritical, Critical
  <2>5. Untracked'
    BY <2>0, <1>15 DEF UnpinNextPerson, At, Goto, LoopStep, dictionaries, TypeOK, Untracked
  <2>6. MirroredButOne'
    BY <2>0, <1>15 DEF UnpinNextPerson, At, Goto, LoopStep, dictionaries, TypeOK, MirroredButOne, InFlight, InCritical, Critical
  <2> QED
    BY <2>1, <2>2, <2>3, <2>4, <2>5, <2>6
<1>16. ASSUME ListsDone(t) PROVE IInv'
  <2>0. InCritical(t) /\ \A u \in Thread \ {t} : ~InCritical(u)
    BY <1>16 DEF ListsDone, At, InCritical, Critical, MutualExclusion
  <2>1. TypeOK'
    BY <2>0, <1>16 DEF ListsDone, At, Goto, LoopStep, dictionaries, TypeOK, Labels, Critical
  <2>2. MutualExclusion'
    BY <2>0, <1>16 DEF ListsDone, At, Goto, LoopStep, dictionaries, TypeOK, MutualExclusion, InCritical, Critical
  <2>3. \A u \in Thread : ShapeOK(u)'
    BY <2>0, <1>16, RequestFields DEF ListsDone, At, Goto, LoopStep, dictionaries, TypeOK, ShapeOK
  <2>4. \A u \in Thread : LoopOK(u)'
    BY <2>0, <1>16 DEF ListsDone, At, Goto, LoopStep, dictionaries, TypeOK, LoopOK, InCritical, Critical
  <2>5. Untracked'
    BY <2>0, <1>16 DEF ListsDone, At, Goto, LoopStep, dictionaries, TypeOK, Untracked
  <2>6. MirroredButOne'
    BY <2>0, <1>16 DEF ListsDone, At, Goto, LoopStep, dictionaries, TypeOK, MirroredButOne, InFlight, InCritical, Critical
  <2> QED
    BY <2>1, <2>2, <2>3, <2>4, <2>5, <2>6
<1>17. ASSUME UseAfterFree(t) PROVE IInv'
  <2>0. InCritical(t) /\ \A u \in Thread \ {t} : ~InCritical(u)
    BY <1>17 DEF UseAfterFree, Uses, InCritical, Critical, MutualExclusion
  <2>1. TypeOK'
    BY <2>0, <1>17 DEF UseAfterFree, Uses, Goto, dictionaries, loops, TypeOK, Labels, Critical
  <2>2. MutualExclusion'
    <3>1. data_sem' = data_sem /\ (pc' = pc \/ (pc[t] = "unpin_place" /\ pc' = [pc EXCEPT ![t] = "unpin_mirror"]))
      BY <1>17 DEF UseAfterFree, Goto
    <3>2. pc \in [Thread -> Labels]
      BY DEF TypeOK
    <3>3. ASSUME NEW u \in Thread PROVE InCritical(u)' <=> InCritical(u)
      BY <3>1, <3>2 DEF InCritical, Critical
    <3> QED
      BY <3>1, <3>3 DEF MutualExclusion
  <2>3. \A u \in Thread : ShapeOK(u)'
    <3>1. CASE alive' = FALSE /\ UNCHANGED pc
      BY <1>17, <3>1 DEF UseAfterFree, ShapeOK
    <3>2. CASE pc[t] = "unpin_place" /\ Goto(t, "unpin_mirror")
      BY <1>17, <3>2 DEF UseAfterFree, Goto, TypeOK, ShapeOK
    <3> QED
      BY <1>17, <3>1, <3>2 DEF UseAfterFree
  <2>4. \A u \in Thread : LoopOK(u)'
    <3>1. CASE alive' = FALSE /\ UNCHANGED pc
      BY <1>17, <3>1 DEF UseAfterFree, dictionaries, loops, LoopOK
    <3>2. CASE pc[t] = "unpin_place" /\ Goto(t, "unpin_mirror")
      <4>1. todo[t] # <<>> /\ rest[t] # <<>> /\ ptr[t] = Dangling
        BY <1>17, <3>2 DEF UseAfterFree, Uses, LoopOK
      <4>2. Head(todo[t]) \in Person \ people
        BY <3>2, <4>1 DEF TypeOK, LoopOK
      <4>3. placesOf[Head(todo[t])] = {}
        BY <4>2 DEF Untracked
      <4> QED
        BY <1>17, <2>0, <3>2, <4>1, <4>2, <4>3
           DEF UseAfterFree, Goto, dictionaries, loops, TypeOK, LoopOK, InCritical, Critical
    <3> QED
      BY <1>17, <3>1, <3>2 DEF UseAfterFree
  <2>5. Untracked'
    BY <2>0, <1>17 DEF UseAfterFree, Uses, Goto, dictionaries, loops, TypeOK, Untracked
  <2>6. MirroredButOne'
    BY <2>0, <1>17 DEF UseAfterFree, Uses, Goto, dictionaries, loops, TypeOK, MirroredButOne, InFlight, InCritical, Critical
  <2> QED
    BY <2>1, <2>2, <2>3, <2>4, <2>5, <2>6
<1>18. ASSUME ReleaseForCopy(t) PROVE IInv'
  <2>0. InCritical(t) /\ \A u \in Thread \ {t} : ~InCritical(u)
    BY <1>18 DEF ReleaseForCopy, Serves, At, InCritical, Critical, MutualExclusion
  <2>1. TypeOK'
    BY <2>0, <1>18 DEF ReleaseForCopy, Serves, At, Goto, dictionaries, loops, TypeOK, Labels, Critical, MutualExclusion
  <2>2. MutualExclusion'
    BY <2>0, <1>18 DEF ReleaseForCopy, Serves, At, Goto, dictionaries, loops, TypeOK, MutualExclusion, InCritical, Critical
  <2>3. \A u \in Thread : ShapeOK(u)'
    BY <2>0, <1>18, RequestFields DEF ReleaseForCopy, Serves, At, Goto, dictionaries, loops, TypeOK, ShapeOK
  <2>4. \A u \in Thread : LoopOK(u)'
    BY <2>0, <1>18 DEF ReleaseForCopy, Serves, At, Goto, dictionaries, loops, TypeOK, LoopOK, InCritical, Critical
  <2>5. Untracked'
    BY <2>0, <1>18 DEF ReleaseForCopy, Serves, At, Goto, dictionaries, loops, TypeOK, Untracked
  <2>6. MirroredButOne'
    BY <2>0, <1>18 DEF ReleaseForCopy, Serves, At, Goto, dictionaries, loops, TypeOK, MirroredButOne, InFlight, InCritical, Critical
  <2> QED
    BY <2>1, <2>2, <2>3, <2>4, <2>5, <2>6
<1>19. ASSUME Fetch(t) PROVE IInv'
  <2>0. ~InCritical(t)
    BY <1>19 DEF Fetch, At, InCritical, Critical
  <2>1. TypeOK'
    <3>1. fetched' \in [Thread -> FetchType \cup {NULL}]
      <4>1. ShapeOK(t)
        OBVIOUS
      <4>2. PICK a \in FetchType : fetched' = [fetched EXCEPT ![t] = a]
        BY <1>19, <4>1, FetchedList
      <4> QED
        BY <4>2 DEF TypeOK
    <3> QED
      BY <1>19, <3>1 DEF Fetch, Goto, dictionaries, loops, TypeOK, Labels, Critical
  <2>2. MutualExclusion'
    BY <2>0, <1>19 DEF Fetch, At, Goto, dictionaries, loops, TypeOK, MutualExclusion, InCritical, Critical
  <2>3. \A u \in Thread : ShapeOK(u)'
    <3>1. PICK a \in FetchType :
             /\ fetched' = [fetched EXCEPT ![t] = a]
             /\ request[t].op = "copy_person" => a.list \in Seq(Place)
             /\ request[t].op = "copy_place" => a.list \in Seq(Person)
      BY <1>19, FetchedList
    <3>2. fetched'[t] = a
      BY <3>1 DEF TypeOK
    <3>3. pc' = [pc EXCEPT ![t] = "relock"] /\ pc[t] = "fetch" /\ request' = request
      BY <1>19 DEF Fetch, At, Goto
    <3>4. ASSUME NEW u \in Thread PROVE ShapeOK(u)'
      <4>1. CASE u = t
        BY <3>1, <3>2, <3>3, <4>1 DEF ShapeOK, TypeOK
      <4>2. CASE u # t
        BY <3>1, <3>3, <4>2 DEF ShapeOK, TypeOK
      <4> QED
        BY <4>1, <4>2
    <3> QED
      BY <3>4
  <2>4. \A u \in Thread : LoopOK(u)'
    BY <2>0, <1>19 DEF Fetch, At, Goto, dictionaries, loops, TypeOK, LoopOK, InCritical, Critical
  <2>5. Untracked'
    BY <2>0, <1>19 DEF Fetch, At, Goto, dictionaries, loops, TypeOK, Untracked
  <2>6. MirroredButOne'
    BY <2>0, <1>19 DEF Fetch, At, Goto, dictionaries, loops, TypeOK, MirroredButOne, InFlight, InCritical, Critical
  <2> QED
    BY <2>1, <2>2, <2>3, <2>4, <2>5, <2>6
<1>20. ASSUME Relock(t) PROVE IInv'
  <2>0. ~InCritical(t)
    BY <1>20 DEF Relock, At, InCritical, Critical
  <2>1. TypeOK'
    BY <2>0, <1>20 DEF Relock, At, Goto, dictionaries, loops, TypeOK, Labels, Critical, Current, Pinned
  <2>2. MutualExclusion'
    BY <2>0, <1>20 DEF Relock, At, Goto, dictionaries, loops, TypeOK, MutualExclusion, InCritical, Critical
  <2>3. \A u \in Thread : ShapeOK(u)'
    BY <2>0, <1>20, RequestFields DEF Relock, At, Goto, dictionaries, loops, TypeOK, ShapeOK
  <2>4. \A u \in Thread : LoopOK(u)'
    BY <2>0, <1>20 DEF Relock, At, Goto, dictionaries, loops, TypeOK, LoopOK, InCritical, Critical
  <2>5. Untracked'
    BY <2>0, <1>20 DEF Relock, At, Goto, dictionaries, loops, TypeOK, Untracked
  <2>6. MirroredButOne'
    BY <2>0, <1>20 DEF Relock, At, Goto, dictionaries, loops, TypeOK, MirroredButOne, InFlight, InCritical, Critical
  <2> QED
    BY <2>1, <2>2, <2>3, <2>4, <2>5, <2>6
<1>21. ASSUME RefuseImport(t) PROVE IInv'
  <2>0. InCritical(t) /\ \A u \in Thread \ {t} : ~InCritical(u)
    BY <1>21 DEF RefuseImport, At, InCritical, Critical, MutualExclusion
  <2>1. TypeOK'
    BY <2>0, <1>21 DEF RefuseImport, Respond, At, Goto, dictionaries, loops, TypeOK, Labels, Critical, ReplyType
  <2>2. MutualExclusion'
    BY <2>0, <1>21 DEF RefuseImport, Respond, At, Goto, dictionaries, loops, TypeOK, MutualExclusion, InCritical, Critical
  <2>3. \A u \in Thread : ShapeOK(u)'
    BY <2>0, <1>21, RequestFields DEF RefuseImport, Respond, At, Goto, dictionaries, loops, TypeOK, ShapeOK
  <2>4. \A u \in Thread : LoopOK(u)'
    BY <2>0, <1>21 DEF RefuseImport, Respond, At, Goto, dictionaries, loops, TypeOK, LoopOK, InCritical, Critical
  <2>5. Untracked'
    BY <2>0, <1>21 DEF RefuseImport, Respond, At, Goto, dictionaries, loops, TypeOK, Untracked
  <2>6. MirroredButOne'
    <3> SUFFICES ASSUME NEW p \in Person, NEW q \in Place, ~InFlight(t, p, q)'
                 PROVE (q \in placesOf[p] <=> p \in peopleOf[q])'
      BY DEF MirroredButOne
    <3>1. ~InFlight(t, p, q) => (q \in placesOf[p] <=> p \in peopleOf[q])
      BY <2>0 DEF MirroredButOne, InFlight, InCritical, Critical
    <3> QED
      BY <1>21, <3>1 DEF RefuseImport, Respond, At, Goto, dictionaries, loops, TypeOK, InFlight, Untracked
  <2> QED
    BY <2>1, <2>2, <2>3, <2>4, <2>5, <2>6
<1>22. ASSUME ImportPlaces(t) PROVE IInv'
  <2>0. InCritical(t) /\ \A u \in Thread \ {t} : ~InCritical(u)
    BY <1>22 DEF ImportPlaces, At, InCritical, Critical, MutualExclusion
  <2>1. TypeOK'
    BY <2>0, <1>22, RequestFields DEF ImportPlaces, At, Goto, dictionaries, TypeOK, Labels, Critical, ShapeOK
  <2>2. MutualExclusion'
    BY <2>0, <1>22 DEF ImportPlaces, At, Goto, dictionaries, TypeOK, MutualExclusion, InCritical, Critical
  <2>3. \A u \in Thread : ShapeOK(u)'
    BY <2>0, <1>22, RequestFields DEF ImportPlaces, At, Goto, dictionaries, TypeOK, ShapeOK
  <2>4. \A u \in Thread : LoopOK(u)'
    BY <2>0, <1>22 DEF ImportPlaces, At, Goto, dictionaries, TypeOK, LoopOK, InCritical, Critical
  <2>5. Untracked'
    BY <2>0, <1>22 DEF ImportPlaces, At, Goto, dictionaries, TypeOK, Untracked
  <2>6. MirroredButOne'
    <3>1. /\ pc[t] = "import" /\ pc' = [pc EXCEPT ![t] = "pin_person"] /\ todo' = [todo EXCEPT ![t] = <<request[t].as>>]
          /\ UNCHANGED <<people, placesOf, places, peopleOf, request, rest>>
      BY <1>22 DEF ImportPlaces, At, Goto, dictionaries
    <3>2. pc \in [Thread -> Labels] /\ DOMAIN todo = Thread
      BY DEF TypeOK
    <3>3. ASSUME NEW u \in Thread, NEW p \in Person, NEW q \in Place PROVE InFlight(u, p, q)' <=> InFlight(u, p, q)
      <4>1. CASE u = t
        BY <3>1, <3>2, <4>1 DEF InFlight
      <4>2. CASE u # t
        BY <3>1, <3>2, <4>2 DEF InFlight
      <4> QED
        BY <4>1, <4>2
    <3> QED
      BY <3>1, <3>3 DEF MirroredButOne
  <2> QED
    BY <2>1, <2>2, <2>3, <2>4, <2>5, <2>6
<1>23. ASSUME ImportPeople(t) PROVE IInv'
  <2>0. InCritical(t) /\ \A u \in Thread \ {t} : ~InCritical(u)
    BY <1>23 DEF ImportPeople, At, InCritical, Critical, MutualExclusion
  <2>1. TypeOK'
    BY <2>0, <1>23, RequestFields DEF ImportPeople, At, Goto, LoopStep, TypeOK, Labels, Critical, ShapeOK
  <2>2. MutualExclusion'
    BY <2>0, <1>23 DEF ImportPeople, At, Goto, LoopStep, TypeOK, MutualExclusion, InCritical, Critical
  <2>3. \A u \in Thread : ShapeOK(u)'
    BY <2>0, <1>23, RequestFields DEF ImportPeople, At, Goto, LoopStep, TypeOK, ShapeOK
  <2>4. \A u \in Thread : LoopOK(u)'
    BY <2>0, <1>23 DEF ImportPeople, At, Goto, LoopStep, TypeOK, LoopOK, InCritical, Critical
  <2>5. Untracked'
    BY <2>0, <1>23 DEF ImportPeople, At, Goto, LoopStep, TypeOK, Untracked
  <2>6. MirroredButOne'
    <3> SUFFICES ASSUME NEW p \in Person, NEW q \in Place, ~InFlight(t, p, q)'
                 PROVE (q \in placesOf[p] <=> p \in peopleOf[q])'
      BY DEF MirroredButOne
    <3>1. ~InFlight(t, p, q) => (q \in placesOf[p] <=> p \in peopleOf[q])
      BY <2>0 DEF MirroredButOne, InFlight, InCritical, Critical
    <3> QED
      BY <1>23, <3>1, RequestFields DEF ImportPeople, At, Goto, LoopStep, TypeOK, InFlight, LoopOK, ShapeOK, Untracked
  <2> QED
    BY <2>1, <2>2, <2>3, <2>4, <2>5, <2>6
<1>24. ASSUME ImportPerson(t) PROVE IInv'
  <2>0. InCritical(t) /\ \A u \in Thread \ {t} : ~InCritical(u)
    BY <1>24 DEF ImportPerson, At, InCritical, Critical, MutualExclusion
  <2>1. TypeOK'
    <3>1. ptr[t] \in places
      BY <1>24 DEF ImportPerson, At, LoopOK
    <3>2. Head(todo[t]) \in Person
      BY <1>24 DEF ImportPerson, TypeOK
    <3> QED
      BY <1>24, <3>1, <3>2 DEF ImportPerson, Goto, LoopStep, TypeOK, Labels, Critical
  <2>2. MutualExclusion'
    BY <2>0, <1>24 DEF ImportPerson, At, Goto, LoopStep, TypeOK, MutualExclusion, InCritical, Critical
  <2>3. \A u \in Thread : ShapeOK(u)'
    BY <2>0, <1>24, RequestFields DEF ImportPerson, At, Goto, LoopStep, TypeOK, ShapeOK
  <2>4. \A u \in Thread : LoopOK(u)'
    BY <2>0, <1>24 DEF ImportPerson, At, Goto, LoopStep, TypeOK, LoopOK, InCritical, Critical
  <2>5. Untracked'
    <3>1. ptr[t] \in places
      BY <1>24 DEF ImportPerson, At, LoopOK
    <3>2. Head(todo[t]) \in Person
      BY <1>24 DEF ImportPerson, TypeOK
    <3> QED
      BY <1>24, <3>1, <3>2 DEF ImportPerson, LoopStep, TypeOK, Untracked
  <2>6. MirroredButOne'
    <3> SUFFICES ASSUME NEW p \in Person, NEW q \in Place, ~InFlight(t, p, q)'
                 PROVE (q \in placesOf[p] <=> p \in peopleOf[q])'
      BY DEF MirroredButOne
    <3>1. ~InFlight(t, p, q) => (q \in placesOf[p] <=> p \in peopleOf[q])
      BY <2>0 DEF MirroredButOne, InFlight, InCritical, Critical
    <3> QED
      BY <1>24, <3>1, RequestFields DEF ImportPerson, At, Goto, LoopStep, TypeOK, InFlight, LoopOK, ShapeOK, Untracked
  <2> QED
    BY <2>1, <2>2, <2>3, <2>4, <2>5, <2>6
<1>25. ASSUME ImportMirror(t) PROVE IInv'
  <2>0. InCritical(t) /\ \A u \in Thread \ {t} : ~InCritical(u)
    BY <1>25 DEF ImportMirror, At, InCritical, Critical, MutualExclusion
  <2>1. TypeOK'
    BY <2>0, <1>25, RequestFields DEF ImportMirror, At, Goto, LoopStep, TypeOK, Labels, Critical, LoopOK, ShapeOK
  <2>2. MutualExclusion'
    BY <2>0, <1>25 DEF ImportMirror, At, Goto, LoopStep, TypeOK, MutualExclusion, InCritical, Critical
  <2>3. \A u \in Thread : ShapeOK(u)'
    BY <2>0, <1>25, RequestFields DEF ImportMirror, At, Goto, LoopStep, TypeOK, ShapeOK
  <2>4. \A u \in Thread : LoopOK(u)'
    BY <2>0, <1>25 DEF ImportMirror, At, Goto, LoopStep, TypeOK, LoopOK, InCritical, Critical
  <2>5. Untracked'
    BY <2>0, <1>25 DEF ImportMirror, At, Goto, LoopStep, TypeOK, Untracked
  <2>6. MirroredButOne'
    <3> SUFFICES ASSUME NEW p \in Person, NEW q \in Place, ~InFlight(t, p, q)'
                 PROVE (q \in placesOf[p] <=> p \in peopleOf[q])'
      BY DEF MirroredButOne
    <3>1. ~InFlight(t, p, q) => (q \in placesOf[p] <=> p \in peopleOf[q])
      BY <2>0 DEF MirroredButOne, InFlight, InCritical, Critical
    <3> QED
      BY <1>25, <3>1, RequestFields DEF ImportMirror, At, Goto, LoopStep, TypeOK, InFlight, LoopOK, ShapeOK, Untracked
  <2> QED
    BY <2>1, <2>2, <2>3, <2>4, <2>5, <2>6
<1> QED
  BY <1>1, <1>2, <1>3, <1>4, <1>5, <1>6, <1>7, <1>8, <1>9, <1>10, <1>11, <1>12, <1>13, <1>14, <1>15, <1>16, <1>17, <1>18, <1>19, <1>20, <1>21, <1>22, <1>23, <1>24, <1>25 DEF Step

LEMMA NextIInv == IInv /\ [Next]_vars => IInv'
<1> SUFFICES ASSUME IInv, [Next]_vars PROVE IInv'
  OBVIOUS
<1>1. ASSUME NEW t \in Thread, Arrive(t) \/ Step(t) PROVE IInv'
  BY <1>1, StepIInv
<1>2. ASSUME UNCHANGED vars PROVE IInv'
  BY <1>2 DEF IInv, vars, dictionaries, loops, TypeOK, MutualExclusion, InCritical,
     ShapeOK, LoopOK, Untracked, MirroredButOne, InFlight
<1> QED
  BY <1>1, <1>2 DEF Next, Finished

\* The inductive invariant of the registry.
LEMMA SpecIInv == Spec => []IInv
  BY InitIInv, NextIInv, PTL DEF Spec

\* Every variable of the registry has its type; data_sem stays binary.
THEOREM TypeCorrect == Spec => []TypeOK
<1>1. IInv => TypeOK
  BY DEF IInv
<1> QED
  BY <1>1, SpecIInv, PTL

\* At most one thread is inside serve_request with data_sem, /copy included.
THEOREM LockSafe == Spec => []MutualExclusion
<1>1. IInv => MutualExclusion
  BY DEF IInv
<1> QED
  BY <1>1, SpecIInv, PTL

\* Whenever data_sem is free, the dictionaries `people` and `places` hold the
\* same pins: then no thread is between the two sides of a pin, so that the
\* mirror that the invariant allows one exception has none.
THEOREM MirrorSafe == Spec => []Mirrored
<1>1. IInv => Mirrored
  <2> SUFFICES ASSUME IInv, data_sem = 1, NEW p \in Person, NEW q \in Place
               PROVE  /\ q \in placesOf[p] <=> p \in peopleOf[q]
                      /\ q \in placesOf[p] => p \in people /\ q \in places
    BY DEF Mirrored
  <2>1. \A t \in Thread : ~InFlight(t, p, q)
    BY DEF IInv, MutualExclusion, InCritical, Critical, InFlight
  <2>2. q \in placesOf[p] <=> p \in peopleOf[q]
    BY <2>1 DEF IInv, MirroredButOne
  <2> QED
    BY <2>2 DEF IInv, Untracked
<1> QED
  BY <1>1, SpecIInv, PTL

\* /pin and /copy never follow a pointer to a freed dictionary, although /copy
\* gives data_sem away in the middle.
THEOREM PinPointersSafe == Spec => []PinPointersLive
<1>1. IInv => PinPointersLive
  <2> SUFFICES ASSUME IInv, NEW t \in Thread,
                      pc[t] \in {"pin_place", "pin_mirror", "import_person", "import_mirror"}
               PROVE  ptr[t] \in Person \cup Place
    BY RegistryAssumption DEF PinPointersLive
  <2>1. CASE pc[t] \in {"pin_place", "pin_mirror"}
    <3>1. ptr[t] \in people
      BY <2>1 DEF IInv, LoopOK
    <3> QED
      BY <3>1 DEF IInv, TypeOK
  <2>2. CASE pc[t] \in {"import_person", "import_mirror"}
    <3>1. ptr[t] \in places
      BY <2>2 DEF IInv, LoopOK
    <3> QED
      BY <3>1 DEF IInv, TypeOK
  <2> QED
    BY <2>1, <2>2
<1> QED
  BY <1>1, SpecIInv, PTL

-----------------------------------------------------------------------------
(***************************************************************************)
(* The registry implements the pin board.  Until a thread releases         *)
(* data_sem, the board shows the dictionaries as they were when it took it *)
(* (snap); so the invariant must say how far the dictionaries are from     *)
(* snap at every point of every loop: what was pinned so far and what the  *)
(* lists still hold make up, together, what the board does in one step.    *)
(***************************************************************************)
PinLabels == {"pin_person", "pin_place", "pin_mirror"}
UnpinLabels == {"unpin_person", "unpin_place", "unpin_mirror"}
ImportLabels == {"import_person", "import_mirror"}
Inner == {"pin_place", "pin_mirror", "unpin_place", "unpin_mirror"}
Queries == {"counts", "people", "places", "people_of", "places_of", "bad"}
Copies == {"copy_person", "copy_place"}

\* Whom and where the request of thread t pins or unpins.
Who(t) ==
    IF request[t].op = "copy_person" THEN {request[t].as}
    ELSE IF request[t].op = "copy_place" THEN Members(fetched[t].list)
    ELSE Members(request[t].people)
Where(t) ==
    IF request[t].op = "copy_person" THEN Members(fetched[t].list)
    ELSE IF request[t].op = "copy_place" THEN {request[t].as}
    ELSE Members(request[t].places)

\* The people and the pairs that the loops of t have not come to yet.
More(t) == IF pc[t] \in Inner THEN Members(Tail(todo[t])) ELSE Members(todo[t])
Left(t, p, q) ==
    \/ pc[t] \in Inner /\ p = Head(todo[t]) /\ q \in Members(rest[t])
    \/ p \in More(t) /\ q \in Where(t)

\* Before the request, the answer of the other server and the reply.
Pending(t) ==
    /\ pc[t] = "idle" => request[t] = NULL
    /\ pc[t] \notin {"unlock", "done"} => reply[t] = NULL
    /\ pc[t] \in {"idle", "lock", "serve", "fetch"} => fetched[t] = NULL

\* A /copy got its list.
HasList(t) ==
    /\ fetched[t] \in FetchType /\ fetched[t].status # 500
    /\ fetched[t].list \in Seq(IF request[t].op = "copy_person" THEN Place ELSE Person)

\* Which request brought t where it is, with which list of places.
Errand(t) ==
    /\ pc[t] \in PinLabels =>
          \/ request[t].op = "pin" /\ list[t] = request[t].places
          \/ request[t].op = "copy_person" /\ list[t] = fetched[t].list
    /\ pc[t] \in UnpinLabels => request[t].op = "unpin" /\ list[t] = request[t].places
    /\ pc[t] \in ImportLabels => request[t].op = "copy_place"
    /\ pc[t] = "count" => request[t].op \in {"pin", "unpin"} \cup Copies
    /\ pc[t] \in PinLabels \cup ImportLabels \cup {"count"} /\ request[t].op \in Copies => HasList(t)

Untouched ==
    /\ people = snap.people /\ places = snap.places
    /\ \A p \in Person, q \in Place : q \in placesOf[p] <=> <<p, q>> \in snap.pins

\* The places that are tracked or will be when the loops of t end.
Reached(t, q) ==
    \/ q \in places
    \/ pc[t] \in Inner /\ q \in Members(rest[t])
    \/ More(t) # {} /\ q \in Where(t)

\* /pin and /copy, in the middle of their loops: what is done and what is left
\* make up the whole.
Pinning(t) ==
    /\ \A p \in Person : p \in people \cup More(t) <=> p \in snap.people \cup Who(t)
    /\ \A p \in Person, q \in Place :
          q \in placesOf[p] \/ Left(t, p, q)
              <=> <<p, q>> \in snap.pins \/ (p \in Who(t) /\ q \in Where(t))
    /\ IF request[t].op = "copy_place" THEN places = snap.places \cup {request[t].as}
       ELSE \A q \in Place :
               Reached(t, q) <=> q \in snap.places \/ (Who(t) # {} /\ q \in Where(t))

\* /unpin, likewise: who lost a pin and has none is not tracked any more.
Unpinning(t) ==
    /\ \A p \in Person, q \in Place :
          /\ q \in placesOf[p] \/ p \in peopleOf[q] => <<p, q>> \in snap.pins
          /\ (q \in placesOf[p] /\ ~Left(t, p, q))
                <=> (<<p, q>> \in snap.pins /\ ~(p \in Who(t) /\ q \in Where(t)))
    /\ \A p \in Person :
          p \in people <=> /\ p \in snap.people
                           /\ placesOf[p] = {} => \A q \in Place : <<p, q>> \notin snap.pins
    /\ \A q \in Place :
          q \in places <=> /\ q \in snap.places
                           /\ peopleOf[q] = {} => \A p \in Person : <<p, q>> \notin snap.pins

\* What the reply to a query says.
Queried(r) ==
    CASE r.op = "counts"    -> Counts(people, places)
      [] r.op = "people"    -> Names(people)
      [] r.op = "places"    -> Names(places)
      [] r.op = "people_of" -> Names({p \in Person : r.place \in placesOf[p]})
      [] r.op = "places_of" -> Names(placesOf[r.person])
      [] r.op = "bad"       -> BadRequest

LoopsDone(t) ==
    /\ request[t].op \in {"pin", "unpin"} \cup Copies
    /\ todo[t] = << >>
    /\ IF request[t].op = "unpin" THEN Unpinning(t) ELSE Pinning(t)

Refused(t) == request[t].op \in Copies /\ fetched[t] \in FetchType /\ fetched[t].status = 500

\* What t leaves behind when it releases data_sem.
Outcome(t) ==
    \/ request[t].op \in Queries /\ Untouched /\ reply[t] = Queried(request[t])
    \/ /\ request[t].op = "reset"
       /\ people = {} /\ places = {} /\ \A p \in Person : placesOf[p] = {}
       /\ reply[t] = Counts({}, {})
    \/ Refused(t) /\ Untouched /\ reply[t] = BadRequest
    \/ /\ request[t].op \in Copies => HasList(t)
       /\ LoopsDone(t) /\ reply[t] = Counts(people, places)

Work(t) ==
    /\ pc[t] \in {"serve", "import"} => Untouched
    /\ pc[t] \in PinLabels \cup ImportLabels => Pinning(t)
    /\ pc[t] \in UnpinLabels => Unpinning(t)
    /\ pc[t] = "count" => LoopsDone(t)
    /\ pc[t] = "unlock" => Outcome(t)

RInv == \A t \in Thread : Pending(t) /\ Errand(t) /\ Work(t)

LEMMA MembersOf ==
    /\ Members(<< >>) = {}
    /\ \A X : \A s \in Seq(X) :
          /\ Members(s) \subseteq X
          /\ s # << >> =>
                /\ Head(s) \in X /\ Tail(s) \in Seq(X)
                /\ Members(s) = {Head(s)} \cup Members(Tail(s))
<1>1. Members(<< >>) = {}
  BY DEF Members
<1>2. ASSUME NEW X, NEW s \in Seq(X) PROVE Members(s) \subseteq X
  BY DEF Members
<1>3. ASSUME NEW X, NEW s \in Seq(X), s # << >>
      PROVE  Head(s) \in X /\ Tail(s) \in Seq(X) /\ Members(s) = {Head(s)} \cup Members(Tail(s))
  <2>1. /\ Len(s) \in Nat \ {0} /\ Head(s) = s[1] /\ Head(s) \in X /\ Tail(s) \in Seq(X)
        /\ Len(Tail(s)) = Len(s) - 1 /\ \A i \in 1..Len(s)-1 : Tail(s)[i] = s[i+1]
    BY <1>3
  <2>2. DOMAIN s = 1..Len(s) /\ DOMAIN Tail(s) = 1..Len(s)-1
    BY <2>1
  <2>3. ASSUME NEW i \in 1..Len(s) PROVE s[i] \in {Head(s)} \cup Members(Tail(s))
    <3>1. CASE i = 1
      BY <2>1, <3>1
    <3>2. CASE i # 1
      <4>1. i - 1 \in 1..Len(s)-1 /\ (i - 1) + 1 = i
        BY <2>1, <3>2
      <4>2. Tail(s)[i-1] = s[i]
        BY <2>1, <4>1
      <4> QED
        BY <2>2, <4>1, <4>2 DEF Members
    <3> QED
      BY <3>1, <3>2
  <2>4. ASSUME NEW i \in 1..Len(s)-1 PROVE Tail(s)[i] \in Members(s)
    <3>1. i + 1 \in 1..Len(s) /\ Tail(s)[i] = s[i+1]
      BY <2>1
    <3> QED
      BY <2>2, <3>1 DEF Members
  <2>5. s[1] \in Members(s)
    BY <2>1, <2>2 DEF Members
  <2>6. Members(s) = {s[i] : i \in 1..Len(s)} /\ Members(Tail(s)) = {Tail(s)[i] : i \in 1..Len(s)-1}
    BY <2>2 DEF Members
  <2>7. Members(s) \subseteq {Head(s)} \cup Members(Tail(s))
    BY <2>3, <2>6
  <2>8. {Head(s)} \cup Members(Tail(s)) \subseteq Members(s)
    BY <2>1, <2>4, <2>5, <2>6
  <2> QED
    BY <2>1, <2>7, <2>8
<1> QED
  BY <1>1, <1>2, <1>3

\* The lists of a thread are lists of names.
LEMMA TaskTypes ==
    ASSUME IInv, RInv, NEW t \in Thread, pc[t] \in PinLabels \cup UnpinLabels \cup ImportLabels
    PROVE  /\ Who(t) \subseteq Person /\ Where(t) \subseteq Place
           /\ pc[t] \in PinLabels \cup UnpinLabels => Members(list[t]) = Where(t)
<1>1. request[t] \in Request
  BY DEF IInv, ShapeOK, PinLabels, UnpinLabels, ImportLabels
<1>2. Errand(t)
  BY DEF RInv
<1>3. CASE request[t].op = "copy_person"
  <2>1. fetched[t].list \in Seq(Place) /\ request[t].as \in Person
        /\ (pc[t] \in PinLabels \cup UnpinLabels => list[t] = fetched[t].list)
    BY <1>1, <1>2, <1>3, RequestFields DEF Errand, HasList, Copies, PinLabels, UnpinLabels, ImportLabels
  <2> QED
    BY <1>3, <2>1, MembersOf DEF Who, Where
<1>4. CASE request[t].op = "copy_place"
  <2>1. fetched[t].list \in Seq(Person) /\ request[t].as \in Place /\ pc[t] \notin PinLabels \cup UnpinLabels
    BY <1>1, <1>2, <1>4, RequestFields DEF Errand, HasList, Copies, PinLabels, UnpinLabels, ImportLabels
  <2> QED
    BY <1>4, <2>1, MembersOf DEF Who, Where
<1>5. CASE request[t].op \notin Copies
  <2>1. /\ request[t].op \in {"pin", "unpin"}
        /\ request[t].people \in Seq(Person) /\ request[t].places \in Seq(Place)
        /\ (pc[t] \in PinLabels \cup UnpinLabels => list[t] = request[t].places)
    BY <1>1, <1>2, <1>5, RequestFields DEF Errand, HasList, Copies, PinLabels, UnpinLabels, ImportLabels
  <2> QED
    BY <1>5, <2>1, MembersOf DEF Who, Where, Copies
<1> QED
  BY <1>3, <1>4, <1>5 DEF Copies

\* A thread that does not move keeps its part.
LEMMA OthersKept ==
    ASSUME IInv, RInv, NEW u \in Thread,
           pc'[u] = pc[u], request'[u] = request[u], fetched'[u] = fetched[u], reply'[u] = reply[u],
           list'[u] = list[u], todo'[u] = todo[u], rest'[u] = rest[u],
           InCritical(u) => UNCHANGED <<dictionaries, snap>>
    PROVE  Pending(u)' /\ Errand(u)' /\ Work(u)'
<1>0. Pending(u) /\ Errand(u) /\ Work(u)
  BY DEF RInv
<1>1. Pending(u)' /\ Errand(u)'
  BY <1>0 DEF Pending, Errand, HasList
<1>2. CASE ~InCritical(u)
  <2>1. pc'[u] \notin Critical
    BY <1>2 DEF InCritical
  <2>2. /\ pc'[u] \notin {"serve", "import"} /\ pc'[u] \notin PinLabels \cup ImportLabels
        /\ pc'[u] \notin UnpinLabels /\ pc'[u] # "count" /\ pc'[u] # "unlock"
    BY <2>1 DEF Critical, PinLabels, UnpinLabels, ImportLabels
  <2>3. Work(u)'
    BY <2>2 DEF Work
  <2> QED
    BY <1>1, <2>3
<1>3. CASE InCritical(u)
  <2>1. UNCHANGED <<people, placesOf, places, peopleOf, snap>>
    BY <1>3 DEF dictionaries
  <2>2. Who(u)' = Who(u) /\ Where(u)' = Where(u) /\ More(u)' = More(u)
    BY DEF Who, Where, More
  <2>3. \A p, q : Left(u, p, q)' <=> Left(u, p, q)
    BY <2>2 DEF Left
  <2>4. Pinning(u) => Pinning(u)'
    BY <2>1, <2>2, <2>3 DEF Pinning, Reached
  <2>5. Unpinning(u) => Unpinning(u)'
    BY <2>1, <2>2, <2>3 DEF Unpinning
  <2>6. Untouched => Untouched'
    BY <2>1 DEF Untouched
  <2>7. LoopsDone(u) => LoopsDone(u)'
    BY <2>4, <2>5 DEF LoopsDone
  <2>8. Queried(request[u])' = Queried(request[u])
    BY <2>1 DEF Queried
  <2>9. Outcome(u) => Outcome(u)'
    BY <2>1, <2>6, <2>7, <2>8 DEF Outcome, HasList, Refused
  <2>10. Work(u)'
    BY <1>0, <2>4, <2>5, <2>6, <2>7, <2>9 DEF Work
  <2> QED
    BY <1>1, <2>10
<1> QED
  BY <1>1, <1>2, <1>3

\* The part of a thread.
Own(t) == Pending(t) /\ Errand(t) /\ Work(t)

LEMMA OwnParts ==
    ASSUME IInv, RInv, NEW t \in Thread
    PROVE  /\ TypeOK /\ ShapeOK(t) /\ LoopOK(t) /\ Untracked /\ MirroredButOne
           /\ Pending(t) /\ Errand(t) /\ Work(t)
BY DEF IInv, RInv

\* Outside of its critical section a thread has nothing to account for.
LEMMA OwnOutside ==
    ASSUME NEW t \in Thread, pc'[t] \notin Critical, Pending(t)'
    PROVE  Own(t)'
<1>1. /\ pc'[t] \notin {"serve", "import"} /\ pc'[t] \notin PinLabels \cup ImportLabels
      /\ pc'[t] \notin PinLabels \cup ImportLabels \cup {"count"} /\ pc'[t] \notin PinLabels
      /\ pc'[t] \notin UnpinLabels /\ pc'[t] # "count" /\ pc'[t] # "unlock" /\ pc'[t] \notin ImportLabels
  BY DEF Critical, PinLabels, UnpinLabels, ImportLabels
<1>2. Work(t)'
  BY <1>1 DEF Work
<1>3. Errand(t)'
  BY <1>1 DEF Errand, HasList
<1> QED
  BY <1>2, <1>3 DEF Own

LEMMA OwnAt ==
    ASSUME NEW t \in Thread, Pending(t)', Errand(t)',
           \/ pc'[t] \in {"serve", "import"} /\ Untouched'
           \/ pc'[t] \in PinLabels \cup ImportLabels /\ Pinning(t)'
           \/ pc'[t] \in UnpinLabels /\ Unpinning(t)'
           \/ pc'[t] = "count" /\ LoopsDone(t)'
           \/ pc'[t] = "unlock" /\ Outcome(t)'
    PROVE  Own(t)'
<1>1. Work(t)'
  <2>1. CASE pc'[t] \in {"serve", "import"} /\ Untouched'
    BY <2>1 DEF Work, PinLabels, UnpinLabels, ImportLabels
  <2>2. CASE pc'[t] \in PinLabels \cup ImportLabels /\ Pinning(t)'
    BY <2>2 DEF Work, PinLabels, UnpinLabels, ImportLabels
  <2>3. CASE pc'[t] \in UnpinLabels /\ Unpinning(t)'
    BY <2>3 DEF Work, PinLabels, UnpinLabels, ImportLabels
  <2>4. CASE pc'[t] = "count" /\ LoopsDone(t)'
    BY <2>4 DEF Work, PinLabels, UnpinLabels, ImportLabels
  <2>5. CASE pc'[t] = "unlock" /\ Outcome(t)'
    BY <2>5 DEF Work, PinLabels, UnpinLabels, ImportLabels
  <2> QED
    BY <2>1, <2>2, <2>3, <2>4, <2>5
<1> QED
  BY <1>1 DEF Own

\* Taking data_sem takes the picture that the dictionaries are compared with.
LEMMA Snapshot ==
    ASSUME IInv, snap' = Current, UNCHANGED dictionaries
    PROVE  Untouched'
<1>1. UNCHANGED <<people, placesOf, places, peopleOf>>
  BY DEF dictionaries
<1>2. snap'.people = people /\ snap'.places = places /\ snap'.pins = Pinned
  BY DEF Current
<1>3. ASSUME NEW p \in Person, NEW q \in Place PROVE <<p, q>> \in Pinned <=> q \in placesOf[p]
  BY DEF Pinned, IInv, Untracked
<1> QED
  BY <1>1, <1>2, <1>3 DEF Untouched

\* With no pin on one side only, the place's side tells the same.
LEMMA BothSides ==
    ASSUME IInv, NEW t \in Thread, InCritical(t),
           pc[t] \notin {"pin_mirror", "unpin_mirror", "import_mirror"}
    PROVE  \A p \in Person, q \in Place : q \in placesOf[p] <=> p \in peopleOf[q]
<1>1. \A u \in Thread : pc[u] \notin {"pin_mirror", "unpin_mirror", "import_mirror"}
  BY DEF IInv, MutualExclusion, InCritical, Critical
<1> QED
  BY <1>1 DEF IInv, MirroredButOne, InFlight

LEMMA ArriveOwn ==
    ASSUME IInv, RInv, NEW t \in Thread, Arrive(t)
    PROVE  Own(t)'
<1>1. /\ pc[t] = "idle" /\ pc'[t] = "lock" /\ fetched'[t] = fetched[t] /\ reply'[t] = reply[t]
  BY OwnParts DEF Arrive, At, Goto, TypeOK
<1>2. Pending(t)'
  BY <1>1, OwnParts DEF Pending
<1> QED
  BY <1>1, <1>2, OwnOutside DEF Critical

LEMMA LockOwn ==
    ASSUME IInv, RInv, NEW t \in Thread, Lock(t) \/ Relock(t)
    PROVE  Own(t)'
<1>1. /\ \/ pc[t] = "lock" /\ pc'[t] = "serve"
         \/ pc[t] = "relock" /\ pc'[t] = "import"
      /\ UNCHANGED <<dictionaries, request, fetched, reply>> /\ snap' = Current
  BY OwnParts DEF Lock, Relock, At, Goto, TypeOK
<1>2. Untouched'
  BY <1>1, Snapshot
<1>3. Pending(t)' /\ Errand(t)'
  BY <1>1, OwnParts DEF Pending, Errand, HasList, PinLabels, UnpinLabels, ImportLabels
<1> QED
  BY <1>1, <1>2, <1>3, OwnAt

LEMMA LeaveOwn ==
    ASSUME IInv, RInv, NEW t \in Thread, Unlock(t) \/ ReleaseForCopy(t) \/ Fetch(t)
    PROVE  Own(t)'
<1>1. /\ \/ pc[t] = "unlock" /\ pc'[t] = "done"
         \/ pc[t] = "serve" /\ pc'[t] = "fetch" /\ UNCHANGED fetched
         \/ pc[t] = "fetch" /\ pc'[t] = "relock"
      /\ UNCHANGED <<request, reply>>
  BY OwnParts DEF Unlock, ReleaseForCopy, Serves, Fetch, At, Goto, TypeOK
<1>2. Pending(t)'
  BY <1>1, OwnParts DEF Pending
<1> QED
  BY <1>1, <1>2, OwnOutside DEF Critical

LEMMA AnswerOwn ==
    ASSUME IInv, RInv, NEW t \in Thread, AnswerQuery(t)
    PROVE  Own(t)'
<1> DEFINE r == request[t]
           answer == CASE r.op = "counts"    -> Counts(people, places)
                       [] r.op = "people"    -> Names(people)
                       [] r.op = "places"    -> Names(places)
                       [] r.op = "people_of" -> Names(IF r.place \in places THEN peopleOf[r.place] ELSE {})
                       [] r.op = "places_of" -> Names(IF r.person \in people THEN placesOf[r.person] ELSE {})
                       [] r.op = "bad"       -> BadRequest
<1>1. /\ pc[t] = "serve" /\ pc'[t] = "unlock" /\ r.op \in Queries /\ r \in Request
      /\ reply'[t] = answer
      /\ UNCHANGED <<dictionaries, snap, request, fetched>>
  BY OwnParts DEF AnswerQuery, Serves, Respond, At, Goto, TypeOK, Queries, ShapeOK
<1>2. answer = Queried(r)
  <2>1. ASSUME r.op = "people_of"
        PROVE  (IF r.place \in places THEN peopleOf[r.place] ELSE {}) = {p \in Person : r.place \in placesOf[p]}
    <3>1. r.place \in Place
      BY <1>1, <2>1, RequestFields
    <3>2. \A p \in Person : r.place \in placesOf[p] <=> p \in peopleOf[r.place]
      BY <1>1, <3>1, BothSides DEF InCritical, Critical
    <3>3. peopleOf[r.place] \subseteq Person /\ (r.place \notin places => peopleOf[r.place] = {})
      BY <3>1 DEF IInv, TypeOK, Untracked
    <3> QED
      BY <3>2, <3>3
  <2>2. ASSUME r.op = "places_of"
        PROVE  (IF r.person \in people THEN placesOf[r.person] ELSE {}) = placesOf[r.person]
    <3>1. r.person \in Person
      BY <1>1, <2>2, RequestFields
    <3> QED
      BY <3>1 DEF IInv, Untracked
  <2> HIDE DEF r
  <2>3. CASE r.op = "counts"
    BY <2>3 DEF Queried
  <2>4. CASE r.op = "people"
    BY <2>4 DEF Queried
  <2>5. CASE r.op = "places"
    BY <2>5 DEF Queried
  <2>6. CASE r.op = "people_of"
    BY <2>1, <2>6 DEF Queried
  <2>7. CASE r.op = "places_of"
    BY <2>2, <2>7 DEF Queried
  <2>8. CASE r.op = "bad"
    BY <2>8 DEF Queried
  <2> QED
    BY <1>1, <2>3, <2>4, <2>5, <2>6, <2>7, <2>8 DEF Queries
<1> HIDE DEF answer
<1>3. UNCHANGED <<people, places, placesOf, snap>>
  BY <1>1 DEF dictionaries
<1>4. Queried(r)' = Queried(r)
  BY <1>1, <1>3 DEF Queried
<1>5. Untouched'
  BY <1>1, <1>3, OwnParts DEF Work, Untouched
<1>6. Outcome(t)'
  BY <1>1, <1>2, <1>4, <1>5 DEF Outcome, HasList
<1>7. Pending(t)' /\ Errand(t)'
  BY <1>1, OwnParts DEF Pending, Errand, HasList, PinLabels, UnpinLabels, ImportLabels
<1> QED
  BY <1>1, <1>6, <1>7, OwnAt

LEMMA ResetOwn ==
    ASSUME IInv, RInv, NEW t \in Thread, Reset(t)
    PROVE  Own(t)'
<1>1. /\ pc[t] = "serve" /\ pc'[t] = "unlock" /\ request[t].op = "reset"
      /\ people' = {} /\ places' = {} /\ placesOf' = [p \in Person |-> {}]
      /\ reply'[t] = Counts({}, {}) /\ UNCHANGED <<request, fetched>>
  BY OwnParts DEF Reset, Serves, Respond, At, Goto, TypeOK
<1>2. Outcome(t)'
  BY <1>1 DEF Outcome, HasList
<1>3. Pending(t)' /\ Errand(t)'
  BY <1>1, OwnParts DEF Pending, Errand, HasList, PinLabels, UnpinLabels, ImportLabels
<1> QED
  BY <1>1, <1>2, <1>3, OwnAt

LEMMA RefuseOwn ==
    ASSUME IInv, RInv, NEW t \in Thread, RefuseImport(t)
    PROVE  Own(t)'
<1>1. /\ pc[t] = "import" /\ pc'[t] = "unlock" /\ fetched[t].status = 500
      /\ reply'[t] = BadRequest /\ UNCHANGED <<dictionaries, snap, request, fetched>>
  BY OwnParts DEF RefuseImport, Respond, At, Goto, TypeOK
<1>2. request[t].op \in Copies /\ fetched[t] \in FetchType
  BY <1>1, OwnParts DEF ShapeOK, Copies
<1>3. Untouched'
  BY <1>1, OwnParts DEF Work, Untouched, dictionaries
<1>4. Outcome(t)'
  BY <1>1, <1>2, <1>3 DEF Outcome, HasList, Refused
<1>5. Pending(t)' /\ Errand(t)'
  BY <1>1, OwnParts DEF Pending, Errand, HasList, PinLabels, UnpinLabels, ImportLabels
<1> QED
  BY <1>1, <1>4, <1>5, OwnAt

\* What an iteration of the loops leaves alone.
LEMMA SameTask ==
    ASSUME NEW t \in Thread, UNCHANGED <<request, fetched>>
    PROVE  Who(t)' = Who(t) /\ Where(t)' = Where(t)
BY DEF Who, Where

LEMMA CountOwn ==
    ASSUME IInv, RInv, NEW t \in Thread, Count(t)
    PROVE  Own(t)'
<1>1. /\ pc[t] = "count" /\ pc'[t] = "unlock" /\ reply'[t] = Counts(people, places)
      /\ UNCHANGED <<dictionaries, loops, snap, request, fetched>>
  BY OwnParts DEF Count, Respond, At, Goto, TypeOK
<1>2. UNCHANGED <<people, places, placesOf, peopleOf, todo, rest>>
  BY <1>1 DEF dictionaries, loops
<1>3. More(t)' = More(t) /\ Who(t)' = Who(t) /\ Where(t)' = Where(t)
  BY <1>1, <1>2, SameTask DEF More, Inner
<1>4. \A p, q : Left(t, p, q)' <=> Left(t, p, q)
  BY <1>1, <1>3 DEF Left, Inner
<1>5. Pinning(t) => Pinning(t)'
  BY <1>1, <1>2, <1>3, <1>4 DEF Pinning, Reached, Inner
<1>6. Unpinning(t) => Unpinning(t)'
  BY <1>1, <1>2, <1>3, <1>4 DEF Unpinning
<1>7. LoopsDone(t)
  BY <1>1, OwnParts DEF Work
<1>8. LoopsDone(t)'
  BY <1>1, <1>2, <1>5, <1>6, <1>7 DEF LoopsDone
<1>9. Errand(t) /\ (request[t].op \in Copies => HasList(t))
  BY <1>1, OwnParts DEF Errand, HasList
<1>10. Outcome(t)'
  BY <1>1, <1>2, <1>8, <1>9 DEF Outcome, HasList
<1>11. Pending(t)' /\ Errand(t)'
  BY <1>1, OwnParts DEF Pending, Errand, HasList, PinLabels, UnpinLabels, ImportLabels
<1> QED
  BY <1>1, <1>10, <1>11, OwnAt

\* The loops start with everything left to do.
LEMMA StartOwn ==
    ASSUME IInv, RInv, NEW t \in Thread, StartLists(t)
    PROVE  Own(t)'
<1>1. /\ pc[t] = "serve" /\ todo'[t] = request[t].people /\ list'[t] = request[t].places
      /\ \/ request[t].op = "pin" /\ pc'[t] = "pin_person"
         \/ request[t].op = "unpin" /\ pc'[t] = "unpin_person"
      /\ UNCHANGED <<dictionaries, snap, request, fetched, reply>>
  BY OwnParts DEF StartLists, Serves, At, Goto, TypeOK
<1>2. UNCHANGED <<people, places, placesOf, peopleOf>>
  BY <1>1 DEF dictionaries
<1>3. request[t] \in Request /\ Untouched /\ Untracked
  BY <1>1, OwnParts DEF ShapeOK, Work
<1>4. request[t].people \in Seq(Person) /\ request[t].places \in Seq(Place)
  BY <1>1, <1>3, RequestFields
<1>5. Who(t)' = Members(request[t].people) /\ Where(t)' = Members(request[t].places) /\ More(t)' = Who(t)'
  BY <1>1 DEF Who, Where, More, Inner
<1>6. \A p, q : Left(t, p, q)' <=> p \in Who(t)' /\ q \in Where(t)'
  BY <1>1, <1>5 DEF Left, Inner
<1>7. Pending(t)' /\ Errand(t)'
  BY <1>1, OwnParts DEF Pending, Errand, HasList, PinLabels, UnpinLabels, ImportLabels, Copies
<1>8. CASE request[t].op = "pin"
  <2>1. Pinning(t)'
    BY <1>1, <1>2, <1>3, <1>5, <1>6, <1>8 DEF Pinning, Reached, Untouched, Inner
  <2> QED
    BY <1>1, <1>7, <1>8, <2>1, OwnAt DEF PinLabels
<1>9. CASE request[t].op = "unpin"
  <2>1. \A p \in Person, q \in Place : q \in placesOf[p] <=> p \in peopleOf[q]
    BY <1>1, BothSides DEF InCritical, Critical
  <2>2. \A p \in Person : placesOf[p] = {} <=> \A q \in Place : <<p, q>> \notin snap.pins
    BY <1>3 DEF Untouched, IInv, TypeOK
  <2>3. \A q \in Place : peopleOf[q] = {} <=> \A p \in Person : <<p, q>> \notin snap.pins
    BY <1>3, <2>1 DEF Untouched, IInv, TypeOK
  <2>4. Unpinning(t)'
    BY <1>1, <1>2, <1>3, <1>6, <2>1, <2>2, <2>3 DEF Unpinning, Untouched
  <2> QED
    BY <1>1, <1>7, <1>9, <2>4, OwnAt DEF UnpinLabels
<1> QED
  BY <1>1, <1>8, <1>9

LEMMA ImportPlacesOwn ==
    ASSUME IInv, RInv, NEW t \in Thread, ImportPlaces(t)
    PROVE  Own(t)'
<1>1. /\ pc[t] = "import" /\ todo'[t] = <<request[t].as>> /\ list'[t] = fetched[t].list
      /\ request[t].op = "copy_person" /\ pc'[t] = "pin_person" /\ fetched[t].status # 500
      /\ UNCHANGED <<dictionaries, snap, request, fetched, reply>>
  BY OwnParts DEF ImportPlaces, At, Goto, TypeOK
<1>2. UNCHANGED <<people, places, placesOf, peopleOf>>
  BY <1>1 DEF dictionaries
<1>3. Untouched /\ fetched[t] \in FetchType /\ fetched[t].list \in Seq(Place)
  BY <1>1, OwnParts DEF ShapeOK, Work
<1>4. Members(<<request[t].as>>) = {request[t].as}
  BY DEF Members
<1>5. Who(t)' = {request[t].as} /\ More(t)' = Who(t)'
  BY <1>1, <1>4 DEF Who, More, Inner
<1>6. \A p, q : Left(t, p, q)' <=> p \in Who(t)' /\ q \in Where(t)'
  BY <1>1, <1>5 DEF Left, Inner
<1>7. Pending(t)' /\ Errand(t)'
  BY <1>1, <1>3, OwnParts DEF Pending, Errand, HasList, PinLabels, UnpinLabels, ImportLabels, Copies
<1>8. Pinning(t)'
  BY <1>1, <1>2, <1>3, <1>5, <1>6 DEF Pinning, Reached, Untouched, Inner
<1> QED
  BY <1>1, <1>7, <1>8, OwnAt DEF PinLabels

LEMMA ImportPeopleOwn ==
    ASSUME IInv, RInv, NEW t \in Thread, ImportPeople(t)
    PROVE  Own(t)'
<1>1. /\ pc[t] = "import" /\ todo'[t] = fetched[t].list
      /\ request[t].op = "copy_place" /\ pc'[t] = "import_person" /\ fetched[t].status # 500
      /\ places' = places \cup {request[t].as}
      /\ UNCHANGED <<people, placesOf, snap, request, fetched, reply>>
  BY OwnParts DEF ImportPeople, LoopStep, At, Goto, TypeOK
<1>2. Untouched /\ fetched[t] \in FetchType /\ fetched[t].list \in Seq(Person)
  BY <1>1, OwnParts DEF ShapeOK, Work
<1>3. Who(t)' = Members(fetched[t].list) /\ Where(t)' = {request[t].as} /\ More(t)' = Who(t)'
  BY <1>1 DEF Who, Where, More, Inner
<1>4. \A p, q : Left(t, p, q)' <=> p \in Who(t)' /\ q \in Where(t)'
  BY <1>1, <1>3 DEF Left, Inner
<1>5. Pending(t)' /\ Errand(t)'
  BY <1>1, <1>2, OwnParts DEF Pending, Errand, HasList, PinLabels, UnpinLabels, ImportLabels, Copies
<1>6. Pinning(t)'
  BY <1>1, <1>2, <1>3, <1>4 DEF Pinning, Reached, Untouched
<1> QED
  BY <1>1, <1>5, <1>6, OwnAt DEF ImportLabels

\* A pass of a loop keeps the request, its answer and the list of places.
LEMMA TaskKept ==
    ASSUME IInv, RInv, NEW t \in Thread, UNCHANGED <<request, fetched, reply, list>>,
           \/ pc[t] \in PinLabels /\ pc'[t] \in PinLabels
           \/ pc[t] \in UnpinLabels /\ pc'[t] \in UnpinLabels
           \/ pc[t] \in ImportLabels /\ pc'[t] \in ImportLabels
    PROVE  /\ Pending(t)' /\ Errand(t)' /\ Who(t)' = Who(t) /\ Where(t)' = Where(t)
           /\ Who(t) \subseteq Person /\ Where(t) \subseteq Place
           /\ pc[t] \in PinLabels \cup UnpinLabels => Members(list[t]) = Where(t)
           /\ pc[t] \in PinLabels => request[t].op # "copy_place"
<1>1. Pending(t)' /\ Errand(t)'
  BY OwnParts DEF Pending, Errand, HasList, PinLabels, UnpinLabels, ImportLabels
<1>2. pc[t] \in PinLabels => request[t].op # "copy_place"
  BY OwnParts DEF Errand, HasList
<1> QED
  BY <1>1, <1>2, SameTask, TaskTypes

\* Pinning is kept when what is done and what is left change together.
LEMMA PinningKept ==
    ASSUME NEW t \in Thread, Pinning(t), UNCHANGED <<request, snap>>,
           Who(t)' = Who(t), Where(t)' = Where(t),
           \A p \in Person : (p \in people \cup More(t))' <=> (p \in people \cup More(t)),
           \A p \in Person, q \in Place :
              (q \in placesOf[p] \/ Left(t, p, q))' <=> (q \in placesOf[p] \/ Left(t, p, q)),
           IF request[t].op = "copy_place" THEN UNCHANGED places
           ELSE \A q \in Place : Reached(t, q)' <=> Reached(t, q)
    PROVE  Pinning(t)'
<1>1. \A p \in Person : (p \in people \cup More(t))' <=> p \in snap'.people \cup Who(t)'
  BY DEF Pinning
<1>2. \A p \in Person, q \in Place :
          (q \in placesOf[p] \/ Left(t, p, q))'
              <=> <<p, q>> \in snap'.pins \/ (p \in Who(t)' /\ q \in Where(t)')
  BY DEF Pinning
<1>3. CASE request[t].op = "copy_place"
  BY <1>1, <1>2, <1>3 DEF Pinning
<1>4. CASE request[t].op # "copy_place"
  BY <1>1, <1>2, <1>4 DEF Pinning
<1> QED
  BY <1>3, <1>4

LEMMA PinPersonOwn ==
    ASSUME IInv, RInv, NEW t \in Thread, PinPerson(t)
    PROVE  Own(t)'
<1> DEFINE h == Head(todo[t])
           L == Members(Tail(todo[t]))
<1>1. /\ pc[t] = "pin_person" /\ pc'[t] = "pin_place" /\ todo[t] # << >>
      /\ people' = people \cup {h} /\ rest'[t] = list[t]
      /\ placesOf' = [placesOf EXCEPT ![h] = IF h \in people THEN @ ELSE {}]
      /\ UNCHANGED <<places, todo, list, snap, request, fetched, reply>>
  BY OwnParts DEF PinPerson, LoopStep, At, Goto, TypeOK
<1>2. h \in Person /\ L \subseteq Person /\ Members(todo[t]) = {h} \cup L
  BY <1>1, OwnParts, MembersOf DEF TypeOK
<1>3. /\ Pending(t)' /\ Errand(t)' /\ Who(t)' = Who(t) /\ Where(t)' = Where(t)
      /\ Members(list[t]) = Where(t) /\ request[t].op # "copy_place"
  BY <1>1, TaskKept DEF PinLabels
<1>4. \A p \in Person : placesOf'[p] = placesOf[p]
  BY <1>1, <1>2, OwnParts DEF Untracked, TypeOK
<1>5. More(t) = {h} \cup L /\ More(t)' = L
  BY <1>1, <1>2 DEF More, Inner
<1> HIDE DEF h, L
<1>6. \A p, q : Left(t, p, q) <=> (p = h \/ p \in L) /\ q \in Where(t)
  BY <1>1, <1>5 DEF Left, Inner
<1>7. \A p, q : Left(t, p, q)' <=> (p = h /\ q \in Where(t)) \/ (p \in L /\ q \in Where(t))
  <2>1. pc'[t] \in Inner /\ Members(rest'[t]) = Where(t) /\ Head(todo'[t]) = h
    BY <1>1, <1>3 DEF Inner, h
  <2> QED
    BY <1>3, <1>5, <2>1 DEF Left
<1>8. \A q : (Reached(t, q) <=> q \in places \/ q \in Where(t))
             /\ (Reached(t, q)' <=> q \in places \/ q \in Where(t))
  <2>1. pc'[t] \in Inner /\ pc[t] \notin Inner /\ Members(rest'[t]) = Where(t)
    BY <1>1, <1>3 DEF Inner
  <2> QED
    BY <1>1, <1>3, <1>5, <2>1 DEF Reached
<1>9. Pinning(t)
  BY <1>1, OwnParts DEF Work, PinLabels
<1>10. Pinning(t)'
  BY <1>1, <1>3, <1>4, <1>5, <1>6, <1>7, <1>8, <1>9, PinningKept
<1> QED
  BY <1>1, <1>3, <1>10, OwnAt DEF PinLabels

LEMMA PinPlaceOwn ==
    ASSUME IInv, RInv, NEW t \in Thread, PinPlace(t)
    PROVE  Own(t)'
<1> DEFINE h == Head(todo[t])
           k == Head(rest[t])
<1>1. /\ pc[t] = "pin_place" /\ pc'[t] = "pin_mirror" /\ rest[t] # << >>
      /\ placesOf' = [placesOf EXCEPT ![ptr[t]] = @ \cup {k}]
      /\ UNCHANGED <<people, places, todo, rest, list, snap, request, fetched, reply>>
  BY OwnParts DEF PinPlace, LoopStep, At, Goto, TypeOK
<1>2. ptr[t] = h /\ h \in Person /\ k \in Place /\ k \in Members(rest[t])
  BY <1>1, OwnParts, MembersOf DEF TypeOK, LoopOK
<1>3. /\ Pending(t)' /\ Errand(t)' /\ Who(t)' = Who(t) /\ Where(t)' = Where(t)
      /\ request[t].op # "copy_place"
  BY <1>1, TaskKept DEF PinLabels
<1>4. \A p \in Person : placesOf'[p] = IF p = h THEN placesOf[p] \cup {k} ELSE placesOf[p]
  BY <1>1, <1>2, OwnParts DEF TypeOK
<1>5. More(t)' = More(t) /\ pc[t] \in Inner /\ pc'[t] \in Inner
  BY <1>1 DEF More, Inner
<1>6. \A p, q : (Left(t, p, q)' <=> Left(t, p, q)) /\ (p = h /\ q = k => Left(t, p, q))
  BY <1>1, <1>2, <1>3, <1>5 DEF Left
<1>7. \A q : Reached(t, q)' <=> Reached(t, q)
  BY <1>1, <1>3, <1>5 DEF Reached
<1>8. Pinning(t)
  BY <1>1, OwnParts DEF Work, PinLabels
<1> HIDE DEF h, k
<1>9. \A p \in Person, q \in Place :
              (q \in placesOf[p] \/ Left(t, p, q))' <=> (q \in placesOf[p] \/ Left(t, p, q))
  BY <1>4, <1>6
<1>10. Pinning(t)'
  BY <1>1, <1>3, <1>5, <1>7, <1>8, <1>9, PinningKept
<1> QED
  BY <1>1, <1>3, <1>10, OwnAt DEF PinLabels

LEMMA PinMirrorOwn ==
    ASSUME IInv, RInv, NEW t \in Thread, PinMirror(t)
    PROVE  Own(t)'
<1> DEFINE h == Head(todo[t])
           k == Head(rest[t])
           M == Members(Tail(rest[t]))
<1>1. /\ pc[t] = "pin_mirror" /\ pc'[t] = "pin_place"
      /\ places' = places \cup {k} /\ rest'[t] = Tail(rest[t])
      /\ UNCHANGED <<people, placesOf, todo, list, snap, request, fetched, reply>>
  BY OwnParts DEF PinMirror, LoopStep, At, Goto, TypeOK
<1>2. rest[t] # << >> /\ k \in placesOf[h] /\ Members(rest[t]) = {k} \cup M
  BY <1>1, OwnParts, MembersOf DEF TypeOK, LoopOK
<1>3. /\ Pending(t)' /\ Errand(t)' /\ Who(t)' = Who(t) /\ Where(t)' = Where(t)
      /\ request[t].op # "copy_place"
  BY <1>1, TaskKept DEF PinLabels
<1>4. More(t)' = More(t) /\ pc[t] \in Inner /\ pc'[t] \in Inner
  BY <1>1 DEF More, Inner
<1>5. Members(rest'[t]) = M
  BY <1>1
<1>6. \A p, q : /\ Left(t, p, q) <=> (p = h /\ q \in {k} \cup M) \/ (p \in More(t) /\ q \in Where(t))
                /\ Left(t, p, q)' <=> (p = h /\ q \in M) \/ (p \in More(t) /\ q \in Where(t))
  <2> HIDE DEF M, k
  <2> QED
    BY <1>1, <1>2, <1>3, <1>4, <1>5 DEF Left
<1>7. \A q : Reached(t, q)' <=> Reached(t, q)
  <2> HIDE DEF M, k
  <2> QED
    BY <1>1, <1>2, <1>3, <1>4, <1>5 DEF Reached
<1>8. Pinning(t)
  BY <1>1, OwnParts DEF Work, PinLabels
<1> HIDE DEF h, k, M
<1>9. \A p \in Person, q \in Place :
              (q \in placesOf[p] \/ Left(t, p, q))' <=> (q \in placesOf[p] \/ Left(t, p, q))
  BY <1>1, <1>2, <1>6
<1>10. Pinning(t)'
  BY <1>1, <1>3, <1>4, <1>7, <1>8, <1>9, PinningKept
<1> QED
  BY <1>1, <1>3, <1>10, OwnAt DEF PinLabels

LEMMA PinNextPersonOwn ==
    ASSUME IInv, RInv, NEW t \in Thread, PinNextPerson(t)
    PROVE  Own(t)'
<1>1. /\ pc[t] = "pin_place" /\ pc'[t] = "pin_person" /\ rest[t] = << >>
      /\ todo'[t] = Tail(todo[t])
      /\ UNCHANGED <<people, placesOf, places, rest, list, snap, request, fetched, reply>>
  BY OwnParts DEF PinNextPerson, LoopStep, At, Goto, TypeOK, dictionaries
<1>2. /\ Pending(t)' /\ Errand(t)' /\ Who(t)' = Who(t) /\ Where(t)' = Where(t)
      /\ request[t].op # "copy_place"
  BY <1>1, TaskKept DEF PinLabels
<1>3. More(t)' = More(t) /\ Members(rest[t]) = {}
  BY <1>1, MembersOf DEF More, Inner
<1>4. \A p, q : Left(t, p, q)' <=> Left(t, p, q)
  BY <1>1, <1>2, <1>3 DEF Left, Inner
<1>5. \A q : Reached(t, q)' <=> Reached(t, q)
  BY <1>1, <1>2, <1>3 DEF Reached, Inner
<1>6. Pinning(t)
  BY <1>1, OwnParts DEF Work, PinLabels
<1>7. Pinning(t)'
  BY <1>1, <1>2, <1>3, <1>4, <1>5, <1>6, PinningKept
<1> QED
  BY <1>1, <1>2, <1>7, OwnAt DEF PinLabels

\* Unpinning is kept when what is gone and what is still to go change together.
LEMMA UnpinningKept ==
    ASSUME TypeOK, NEW t \in Thread, Unpinning(t), UNCHANGED snap,
           Who(t)' = Who(t), Where(t)' = Where(t),
           \A p \in Person : placesOf'[p] \subseteq placesOf[p],
           \A q \in Place : peopleOf'[q] \subseteq peopleOf[q],
           \A p \in Person, q \in Place :
              (q \in placesOf[p] /\ ~Left(t, p, q))' <=> (q \in placesOf[p] /\ ~Left(t, p, q)),
           \A p \in Person :
              p \in people' <=> p \in people /\ (placesOf'[p] = {} => placesOf[p] = {}),
           \A q \in Place :
              q \in places' <=> q \in places /\ (peopleOf'[q] = {} => peopleOf[q] = {})
    PROVE  Unpinning(t)'
<1>1. ASSUME NEW p \in Person, NEW q \in Place
      PROVE  q \in placesOf[p] \/ p \in peopleOf[q] => <<p, q>> \in snap.pins
  BY DEF Unpinning
<1>2. ASSUME NEW p \in Person, NEW q \in Place
      PROVE  q \in placesOf'[p] \/ p \in peopleOf'[q] => <<p, q>> \in snap'.pins
  BY <1>1
<1>3. ASSUME NEW p \in Person, NEW q \in Place
      PROVE  (q \in placesOf[p] /\ ~Left(t, p, q))'
                <=> (<<p, q>> \in snap'.pins /\ ~(p \in Who(t)' /\ q \in Where(t)'))
  <2>1. (q \in placesOf[p] /\ ~Left(t, p, q))
            <=> (<<p, q>> \in snap.pins /\ ~(p \in Who(t) /\ q \in Where(t)))
    BY DEF Unpinning
  <2>2. (q \in placesOf[p] /\ ~Left(t, p, q))' <=> (q \in placesOf[p] /\ ~Left(t, p, q))
    OBVIOUS
  <2> QED
    BY <2>1, <2>2
<1>4. ASSUME NEW p \in Person
      PROVE  p \in people' <=> /\ p \in snap'.people
                               /\ placesOf'[p] = {} => \A q \in Place : <<p, q>> \notin snap'.pins
  <2>1. p \in people <=> /\ p \in snap.people
                         /\ placesOf[p] = {} => \A q \in Place : <<p, q>> \notin snap.pins
    BY DEF Unpinning
  <2>2. (\A q \in Place : <<p, q>> \notin snap.pins) => placesOf[p] = {}
    BY <1>1 DEF TypeOK
  <2>3. p \in people' <=> p \in people /\ (placesOf'[p] = {} => placesOf[p] = {})
    OBVIOUS
  <2>4. placesOf[p] = {} => placesOf'[p] = {}
    OBVIOUS
  <2> QED
    BY <2>1, <2>2, <2>3, <2>4
<1>5. ASSUME NEW q \in Place
      PROVE  q \in places' <=> /\ q \in snap'.places
                               /\ peopleOf'[q] = {} => \A p \in Person : <<p, q>> \notin snap'.pins
  <2>1. q \in places <=> /\ q \in snap.places
                         /\ peopleOf[q] = {} => \A p \in Person : <<p, q>> \notin snap.pins
    BY DEF Unpinning
  <2>2. (\A p \in Person : <<p, q>> \notin snap.pins) => peopleOf[q] = {}
    BY <1>1 DEF TypeOK
  <2>3. q \in places' <=> q \in places /\ (peopleOf'[q] = {} => peopleOf[q] = {})
    OBVIOUS
  <2>4. peopleOf[q] = {} => peopleOf'[q] = {}
    OBVIOUS
  <2> QED
    BY <2>1, <2>2, <2>3, <2>4
<1> QED
  BY <1>2, <1>3, <1>4, <1>5 DEF Unpinning

LEMMA UnpinPersonOwn ==
    ASSUME IInv, RInv, NEW t \in Thread, UnpinPerson(t)
    PROVE  Own(t)'
<1> DEFINE h == Head(todo[t])
           L == Members(Tail(todo[t]))
<1>1. /\ pc[t] = "unpin_person" /\ todo[t] # << >>
      /\ \/ /\ h \in people /\ pc'[t] = "unpin_place" /\ rest'[t] = list[t] /\ UNCHANGED todo
         \/ h \notin people /\ pc'[t] = "unpin_person" /\ todo'[t] = Tail(todo[t])
      /\ UNCHANGED <<people, placesOf, places, peopleOf, list, snap, request, fetched, reply>>
  BY OwnParts DEF UnpinPerson, LoopStep, At, Goto, TypeOK, dictionaries
<1>2. h \in Person /\ L \subseteq Person /\ Members(todo[t]) = {h} \cup L
  BY <1>1, OwnParts, MembersOf DEF TypeOK
<1>3. /\ Pending(t)' /\ Errand(t)' /\ Who(t)' = Who(t) /\ Where(t)' = Where(t)
      /\ Members(list[t]) = Where(t)
  BY <1>1, TaskKept DEF UnpinLabels
<1>4. More(t) = {h} \cup L /\ More(t)' = L
  BY <1>1, <1>2 DEF More, Inner
<1> HIDE DEF L
<1>5. \A p, q : Left(t, p, q) <=> (p = h \/ p \in L) /\ q \in Where(t)
  BY <1>1, <1>4 DEF Left, Inner
<1>6. \A p \in Person, q \in Place :
         (q \in placesOf[p] /\ ~Left(t, p, q))' <=> (q \in placesOf[p] /\ ~Left(t, p, q))
  <2>1. CASE h \in people
    <3>1. pc'[t] \in Inner /\ Members(rest'[t]) = Where(t) /\ Head(todo'[t]) = h
      BY <1>1, <1>3, <2>1 DEF Inner
    <3> HIDE DEF h
    <3>2. \A p, q : Left(t, p, q)' <=> Left(t, p, q)
      BY <1>3, <1>4, <1>5, <3>1 DEF Left
    <3> QED
      BY <1>1, <3>2
  <2>2. CASE h \notin people
    <3>1. placesOf[h] = {} /\ pc'[t] \notin Inner
      BY <1>1, <1>2, <2>2, OwnParts DEF Untracked, Inner
    <3> HIDE DEF h
    <3>2. \A p, q : Left(t, p, q)' <=> p \in L /\ q \in Where(t)
      BY <1>3, <1>4, <3>1 DEF Left
    <3> QED
      BY <1>1, <1>5, <3>1, <3>2
  <2> QED
    BY <2>1, <2>2
<1>7. Unpinning(t)
  BY <1>1, OwnParts DEF Work, UnpinLabels
<1>8. Unpinning(t)'
  BY <1>1, <1>3, <1>6, <1>7, UnpinningKept, OwnParts
<1> QED
  BY <1>1, <1>3, <1>8, OwnAt DEF UnpinLabels

LEMMA UnpinPlaceOwn ==
    ASSUME IInv, RInv, NEW t \in Thread, UnpinPlace(t)
    PROVE  Own(t)'
<1> DEFINE h == Head(todo[t])
           k == Head(rest[t])
           left == placesOf[h] \ {k}
<1>1. /\ pc[t] = "unpin_place" /\ pc'[t] = "unpin_mirror" /\ rest[t] # << >> /\ ptr[t] # Dangling
      /\ UNCHANGED <<places, peopleOf, todo, rest, list, snap, request, fetched, reply>>
  BY OwnParts DEF UnpinPlace, LoopStep, At, Goto, TypeOK
<1>2. ptr[t] = h /\ h \in people /\ h \in Person /\ k \in Place /\ k \in Members(rest[t])
  BY <1>1, OwnParts, MembersOf DEF TypeOK, LoopOK
<1>3. /\ placesOf' = [placesOf EXCEPT ![h] = left]
      /\ people' = IF k \in placesOf[h] /\ left = {} THEN people \ {h} ELSE people
  BY <1>2 DEF UnpinPlace
<1>4. /\ Pending(t)' /\ Errand(t)' /\ Who(t)' = Who(t) /\ Where(t)' = Where(t)
  BY <1>1, TaskKept DEF UnpinLabels
<1>5. \A p \in Person : placesOf'[p] = IF p = h THEN placesOf[p] \ {k} ELSE placesOf[p]
  BY <1>2, <1>3, OwnParts DEF TypeOK
<1>6. More(t)' = More(t) /\ pc[t] \in Inner /\ pc'[t] \in Inner
  BY <1>1 DEF More, Inner
<1>7. \A p, q : (Left(t, p, q)' <=> Left(t, p, q)) /\ (p = h /\ q = k => Left(t, p, q))
  BY <1>1, <1>2, <1>4, <1>6 DEF Left
<1>8. Unpinning(t)
  BY <1>1, OwnParts DEF Work, UnpinLabels
<1> HIDE DEF h, k
<1>9. \A p \in Person, q \in Place :
              (q \in placesOf[p] /\ ~Left(t, p, q))' <=> (q \in placesOf[p] /\ ~Left(t, p, q))
  BY <1>5, <1>7
<1>10. \A p \in Person : p \in people' <=> p \in people /\ (placesOf'[p] = {} => placesOf[p] = {})
  BY <1>2, <1>3, <1>5
<1>11. \A p \in Person : placesOf'[p] \subseteq placesOf[p]
  BY <1>5
<1>12. Unpinning(t)'
  BY <1>1, <1>4, <1>8, <1>9, <1>10, <1>11, UnpinningKept, OwnParts
<1> QED
  BY <1>1, <1>4, <1>12, OwnAt DEF UnpinLabels

\* The freed dictionary is empty to the loop: there was nothing left to unpin.
LEMMA UseAfterFreeOwn ==
    ASSUME IInv, RInv, NEW t \in Thread, UseAfterFree(t)
    PROVE  Own(t)'
<1>0. ptr[t] = Dangling /\ Uses(t)
      /\ UNCHANGED <<dictionaries, request, loops, fetched, reply, snap>>
  BY DEF UseAfterFree
<1>1. UNCHANGED <<people, placesOf, places, peopleOf, todo, list, rest>>
  BY <1>0 DEF dictionaries, loops
<1>2. CASE UNCHANGED pc
  <2>1. Pending(t)' /\ Errand(t)' /\ Work(t)'
    BY <1>0, <1>1, <1>2, OthersKept DEF dictionaries
  <2> QED
    BY <2>1 DEF Own
<1>3. CASE pc[t] = "unpin_place" /\ Goto(t, "unpin_mirror")
  <2>1. pc'[t] = "unpin_mirror"
    BY <1>3, OwnParts DEF Goto, TypeOK
  <2>2. /\ Pending(t)' /\ Errand(t)' /\ Who(t)' = Who(t) /\ Where(t)' = Where(t)
    BY <1>0, <1>1, <1>3, <2>1, TaskKept DEF UnpinLabels
  <2>3. More(t)' = More(t) /\ pc[t] \in Inner /\ pc'[t] \in Inner
    BY <1>1, <1>3, <2>1 DEF More, Inner
  <2>4. \A p, q : Left(t, p, q)' <=> Left(t, p, q)
    BY <1>1, <2>2, <2>3 DEF Left
  <2>5. Unpinning(t)
    BY <1>3, OwnParts DEF Work, UnpinLabels
  <2>6. Unpinning(t)'
    BY <1>0, <1>1, <2>2, <2>4, <2>5, UnpinningKept, OwnParts
  <2> QED
    BY <2>1, <2>2, <2>6, OwnAt DEF UnpinLabels
<1> QED
  BY <1>2, <1>3 DEF UseAfterFree

LEMMA UnpinMirrorOwn ==
    ASSUME IInv, RInv, NEW t \in Thread, UnpinMirror(t)
    PROVE  Own(t)'
<1> DEFINE h == Head(todo[t])
           k == Head(rest[t])
           M == Members(Tail(rest[t]))
           left == peopleOf[k] \ {h}
<1>1. /\ pc[t] = "unpin_mirror" /\ pc'[t] = "unpin_place" /\ rest'[t] = Tail(rest[t])
      /\ UNCHANGED <<people, placesOf, todo, list, snap, request, fetched, reply>>
  BY OwnParts DEF UnpinMirror, LoopStep, At, Goto, TypeOK
<1>2. IF k \in places /\ h \in peopleOf[k]
      THEN /\ peopleOf' = [peopleOf EXCEPT ![k] = left]
           /\ places' = IF left = {} THEN places \ {k} ELSE places
      ELSE UNCHANGED <<places, peopleOf>>
  BY DEF UnpinMirror
<1>3. /\ rest[t] # << >> /\ k \notin placesOf[h] /\ Members(rest[t]) = {k} \cup M
      /\ k \in Place /\ h \in Person
  BY <1>1, OwnParts, MembersOf DEF TypeOK, LoopOK
<1>4. /\ Pending(t)' /\ Errand(t)' /\ Who(t)' = Who(t) /\ Where(t)' = Where(t)
  BY <1>1, TaskKept DEF UnpinLabels
<1>5. More(t)' = More(t) /\ pc[t] \in Inner /\ pc'[t] \in Inner /\ Members(rest'[t]) = M
  BY <1>1 DEF More, Inner
<1>6. \A p, q : /\ Left(t, p, q) <=> (p = h /\ q \in {k} \cup M) \/ (p \in More(t) /\ q \in Where(t))
                /\ Left(t, p, q)' <=> (p = h /\ q \in M) \/ (p \in More(t) /\ q \in Where(t))
  <2> HIDE DEF M, k
  <2> QED
    BY <1>1, <1>3, <1>4, <1>5 DEF Left
<1>7. \A q \in Place : /\ peopleOf'[q] \subseteq peopleOf[q]
                       /\ q \in places' <=> q \in places /\ (peopleOf'[q] = {} => peopleOf[q] = {})
  <2>1. CASE k \in places /\ h \in peopleOf[k]
    <3>1. \A q \in Place : peopleOf'[q] = IF q = k THEN left ELSE peopleOf[q]
      BY <1>2, <1>3, <2>1, OwnParts DEF TypeOK
    <3>2. places' = IF left = {} THEN places \ {k} ELSE places
      BY <1>2, <2>1
    <3> HIDE DEF h, k
    <3> QED
      BY <1>3, <2>1, <3>1, <3>2
  <2>2. CASE ~(k \in places /\ h \in peopleOf[k])
    BY <1>2, <2>2
  <2> QED
    BY <2>1, <2>2
<1>8. Unpinning(t)
  BY <1>1, OwnParts DEF Work, UnpinLabels
<1> HIDE DEF h, k, M
<1>9. \A p \in Person, q \in Place :
              (q \in placesOf[p] /\ ~Left(t, p, q))' <=> (q \in placesOf[p] /\ ~Left(t, p, q))
  BY <1>1, <1>3, <1>6
<1>10. \A p \in Person : p \in people' <=> p \in people /\ (placesOf'[p] = {} => placesOf[p] = {})
  BY <1>1
<1>11. Unpinning(t)'
  BY <1>1, <1>4, <1>7, <1>8, <1>9, <1>10, UnpinningKept, OwnParts
<1> QED
  BY <1>1, <1>4, <1>11, OwnAt DEF UnpinLabels

LEMMA UnpinNextPersonOwn ==
    ASSUME IInv, RInv, NEW t \in Thread, UnpinNextPerson(t)
    PROVE  Own(t)'
<1>1. /\ pc[t] = "unpin_place" /\ pc'[t] = "unpin_person" /\ rest[t] = << >>
      /\ todo'[t] = Tail(todo[t])
      /\ UNCHANGED <<people, placesOf, places, peopleOf, rest, list, snap, request, fetched, reply>>
  BY OwnParts DEF UnpinNextPerson, LoopStep, At, Goto, TypeOK, dictionaries
<1>2. /\ Pending(t)' /\ Errand(t)' /\ Who(t)' = Who(t) /\ Where(t)' = Where(t)
  BY <1>1, TaskKept DEF UnpinLabels
<1>3. More(t)' = More(t) /\ Members(rest[t]) = {}
  BY <1>1, MembersOf DEF More, Inner
<1>4. \A p, q : Left(t, p, q)' <=> Left(t, p, q)
  BY <1>1, <1>2, <1>3 DEF Left, Inner
<1>5. Unpinning(t)
  BY <1>1, OwnParts DEF Work, UnpinLabels
<1>6. Unpinning(t)'
  BY <1>1, <1>2, <1>4, <1>5, UnpinningKept, OwnParts
<1> QED
  BY <1>1, <1>2, <1>6, OwnAt DEF UnpinLabels

\* The lists are worked off.
LEMMA ListsDoneOwn ==
    ASSUME IInv, RInv, NEW t \in Thread, ListsDone(t)
    PROVE  Own(t)'
<1>1. /\ pc[t] \in {"pin_person", "unpin_person", "import_person"} /\ pc'[t] = "count"
      /\ todo[t] = << >>
      /\ UNCHANGED <<people, placesOf, places, peopleOf, todo, rest, list, snap, request, fetched, reply>>
  BY OwnParts DEF ListsDone, LoopStep, At, Goto, TypeOK, dictionaries
<1>2. Who(t)' = Who(t) /\ Where(t)' = Where(t) /\ More(t)' = More(t)
  BY <1>1, SameTask DEF More, Inner
<1>3. \A p, q : Left(t, p, q)' <=> Left(t, p, q)
  BY <1>1, <1>2 DEF Left, Inner
<1>4. \A q : Reached(t, q)' <=> Reached(t, q)
  BY <1>1, <1>2 DEF Reached, Inner
<1>5. request[t].op \in {"pin", "unpin"} \cup Copies /\ (request[t].op = "unpin" <=> pc[t] = "unpin_person")
  BY <1>1, OwnParts DEF Errand, HasList, PinLabels, UnpinLabels, ImportLabels, Copies
<1>6. LoopsDone(t)'
  <2>1. CASE pc[t] = "unpin_person"
    <3>1. Unpinning(t)
      BY <2>1, OwnParts DEF Work, UnpinLabels
    <3>2. Unpinning(t)'
      BY <1>1, <1>2, <1>3, <3>1, UnpinningKept, OwnParts
    <3> QED
      BY <1>1, <1>5, <2>1, <3>2 DEF LoopsDone
  <2>2. CASE pc[t] # "unpin_person"
    <3>1. Pinning(t)
      BY <1>1, <2>2, OwnParts DEF Work, PinLabels, ImportLabels
    <3>2. Pinning(t)'
      BY <1>1, <1>2, <1>3, <1>4, <3>1, PinningKept
    <3> QED
      BY <1>1, <1>5, <2>2, <3>2 DEF LoopsDone
  <2> QED
    BY <2>1, <2>2
<1>7. Pending(t)'
  BY <1>1, OwnParts DEF Pending
<1>8. request[t].op \in Copies => HasList(t)
  <2>1. pc[t] = "unpin_person" => request[t].op \notin Copies
    BY <1>5 DEF Copies
  <2> QED
    BY <1>1, <2>1, OwnParts DEF Errand, HasList, PinLabels, UnpinLabels, ImportLabels
<1>9. Errand(t)'
  BY <1>1, <1>5, <1>8 DEF Errand, HasList, PinLabels, UnpinLabels, ImportLabels
<1> QED
  BY <1>1, <1>6, <1>7, <1>9, OwnAt

LEMMA ImportPersonOwn ==
    ASSUME IInv, RInv, NEW t \in Thread, ImportPerson(t)
    PROVE  Own(t)'
<1>1. /\ pc[t] = "import_person" /\ pc'[t] = "import_mirror"
      /\ UNCHANGED <<people, placesOf, places, todo, rest, list, snap, request, fetched, reply>>
  BY OwnParts DEF ImportPerson, LoopStep, At, Goto, TypeOK
<1>2. /\ Pending(t)' /\ Errand(t)' /\ Who(t)' = Who(t) /\ Where(t)' = Where(t)
  BY <1>1, TaskKept DEF ImportLabels
<1>3. More(t)' = More(t)
  BY <1>1 DEF More, Inner
<1>4. \A p, q : Left(t, p, q)' <=> Left(t, p, q)
  BY <1>1, <1>2, <1>3 DEF Left, Inner
<1>5. request[t].op = "copy_place" /\ Pinning(t)
  BY <1>1, OwnParts DEF Errand, HasList, Work, ImportLabels
<1>6. Pinning(t)'
  BY <1>1, <1>2, <1>3, <1>4, <1>5, PinningKept
<1> QED
  BY <1>1, <1>2, <1>6, OwnAt DEF ImportLabels

LEMMA ImportMirrorOwn ==
    ASSUME IInv, RInv, NEW t \in Thread, ImportMirror(t)
    PROVE  Own(t)'
<1> DEFINE h == Head(todo[t])
           k == request[t].as
           L == Members(Tail(todo[t]))
<1>1. /\ pc[t] = "import_mirror" /\ pc'[t] = "import_person" /\ todo'[t] = Tail(todo[t])
      /\ people' = people \cup {h}
      /\ placesOf' = [placesOf EXCEPT ![h] = (IF h \in people THEN @ ELSE {}) \cup {k}]
      /\ UNCHANGED <<places, peopleOf, rest, list, snap, request, fetched, reply>>
  BY OwnParts DEF ImportMirror, LoopStep, At, Goto, TypeOK
<1>2. todo[t] # << >> /\ h \in Person /\ Members(todo[t]) = {h} \cup L
  BY <1>1, OwnParts, MembersOf DEF TypeOK, LoopOK
<1>3. /\ Pending(t)' /\ Errand(t)' /\ Who(t)' = Who(t) /\ Where(t)' = Where(t)
  BY <1>1, TaskKept DEF ImportLabels
<1>4. request[t].op = "copy_place" /\ Pinning(t)
  BY <1>1, OwnParts DEF Errand, HasList, Work, ImportLabels
<1>5. Where(t) = {k}
  BY <1>4 DEF Where
<1>6. \A p \in Person : placesOf'[p] = IF p = h THEN placesOf[p] \cup {k} ELSE placesOf[p]
  BY <1>1, <1>2, OwnParts DEF TypeOK, Untracked
<1>7. More(t) = {h} \cup L /\ More(t)' = L
  BY <1>1, <1>2 DEF More, Inner
<1>8. \A p, q : (Left(t, p, q) <=> (p = h \/ p \in L) /\ q = k)
                /\ (Left(t, p, q)' <=> p \in L /\ q = k)
  <2> HIDE DEF h, L, k
  <2> QED
    BY <1>1, <1>3, <1>5, <1>7 DEF Left, Inner
<1> HIDE DEF h, L, k
<1>9. \A p \in Person, q \in Place :
              (q \in placesOf[p] \/ Left(t, p, q))' <=> (q \in placesOf[p] \/ Left(t, p, q))
  BY <1>6, <1>8
<1>10. Pinning(t)'
  BY <1>1, <1>3, <1>4, <1>7, <1>9, PinningKept
<1> QED
  BY <1>1, <1>3, <1>10, OwnAt DEF ImportLabels

\* A step moves one thread.
Still(u) ==
    /\ pc'[u] = pc[u] /\ request'[u] = request[u] /\ fetched'[u] = fetched[u]
    /\ reply'[u] = reply[u] /\ list'[u] = list[u] /\ todo'[u] = todo[u] /\ rest'[u] = rest[u]

LEMMA OthersStill ==
    ASSUME TypeOK, NEW t \in Thread, Arrive(t) \/ Step(t), NEW u \in Thread \ {t}
    PROVE  Still(u)
<1> USE DEF Still, TypeOK, Goto, loops, LoopStep, Respond
<1>1. CASE Arrive(t)
  BY <1>1 DEF Arrive
<1>2. CASE Lock(t)
  BY <1>2 DEF Lock
<1>3. CASE Unlock(t)
  BY <1>3 DEF Unlock
<1>4. CASE AnswerQuery(t)
  BY <1>4 DEF AnswerQuery
<1>5. CASE Reset(t)
  BY <1>5 DEF Reset
<1>6. CASE Count(t)
  BY <1>6 DEF Count
<1>7. CASE StartLists(t)
  BY <1>7 DEF StartLists
<1>8. CASE PinPerson(t)
  BY <1>8 DEF PinPerson
<1>9. CASE PinPlace(t)
  BY <1>9 DEF PinPlace
<1>10. CASE PinMirror(t)
  BY <1>10 DEF PinMirror
<1>11. CASE PinNextPerson(t)
  BY <1>11 DEF PinNextPerson
<1>12. CASE UnpinPerson(t)
  BY <1>12 DEF UnpinPerson
<1>13. CASE UnpinPlace(t)
  BY <1>13 DEF UnpinPlace
<1>14. CASE UnpinMirror(t)
  BY <1>14 DEF UnpinMirror
<1>15. CASE UnpinNextPerson(t)
  BY <1>15 DEF UnpinNextPerson
<1>16. CASE ListsDone(t)
  BY <1>16 DEF ListsDone
<1>17. CASE UseAfterFree(t)
  BY <1>17 DEF UseAfterFree
<1>18. CASE ReleaseForCopy(t)
  BY <1>18 DEF ReleaseForCopy
<1>19. CASE Fetch(t)
  BY <1>19 DEF Fetch
<1>20. CASE Relock(t)
  BY <1>20 DEF Relock
<1>21. CASE RefuseImport(t)
  BY <1>21 DEF RefuseImport
<1>22. CASE ImportPlaces(t)
  BY <1>22 DEF ImportPlaces
<1>23. CASE ImportPeople(t)
  BY <1>23 DEF ImportPeople
<1>24. CASE ImportPerson(t)
  BY <1>24 DEF ImportPerson
<1>25. CASE ImportMirror(t)
  BY <1>25 DEF ImportMirror
<1> QED
  BY <1>1, <1>2, <1>3, <1>4, <1>5, <1>6, <1>7, <1>8, <1>9, <1>10, <1>11, <1>12, <1>13, <1>14, <1>15, <1>16, <1>17, <1>18, <1>19, <1>20, <1>21, <1>22, <1>23, <1>24, <1>25 DEF Step

\* Nobody touches the dictionaries of the thread that has data_sem.
LEMMA OthersGuarded ==
    ASSUME IInv, NEW t \in Thread, Arrive(t) \/ Step(t), NEW u \in Thread \ {t}, InCritical(u)
    PROVE  UNCHANGED <<dictionaries, snap>>
<1>1. ~InCritical(t) /\ data_sem # 1
  BY DEF IInv, MutualExclusion
<1>2. ~Lock(t) /\ ~Relock(t)
  BY <1>1 DEF Lock, Relock, IInv, TypeOK
<1>3. Arrive(t) \/ Fetch(t)
  <2>1. pc[t] \notin Critical
    BY <1>1 DEF InCritical
  <2>2. ~Unlock(t)
    BY <2>1 DEF Unlock, At, Critical
  <2>3. ~AnswerQuery(t)
    BY <2>1 DEF AnswerQuery, Serves, At, Critical
  <2>4. ~Reset(t)
    BY <2>1 DEF Reset, Serves, At, Critical
  <2>5. ~Count(t)
    BY <2>1 DEF Count, At, Critical
  <2>6. ~StartLists(t)
    BY <2>1 DEF StartLists, Serves, At, Critical
  <2>7. ~PinPerson(t)
    BY <2>1 DEF PinPerson, At, Critical
  <2>8. ~PinPlace(t)
    BY <2>1 DEF PinPlace, At, Critical
  <2>9. ~PinMirror(t)
    BY <2>1 DEF PinMirror, At, Critical
  <2>10. ~PinNextPerson(t)
    BY <2>1 DEF PinNextPerson, At, Critical
  <2>11. ~UnpinPerson(t)
    BY <2>1 DEF UnpinPerson, At, Critical
  <2>12. ~UnpinPlace(t)
    BY <2>1 DEF UnpinPlace, At, Critical
  <2>13. ~UnpinMirror(t)
    BY <2>1 DEF UnpinMirror, At, Critical
  <2>14. ~UnpinNextPerson(t)
    BY <2>1 DEF UnpinNextPerson, At, Critical
  <2>15. ~ListsDone(t)
    BY <2>1 DEF ListsDone, At, Critical
  <2>16. ~UseAfterFree(t)
    BY <2>1 DEF UseAfterFree, Uses, Critical
  <2>17. ~ReleaseForCopy(t)
    BY <2>1 DEF ReleaseForCopy, Serves, At, Critical
  <2>18. ~RefuseImport(t)
    BY <2>1 DEF RefuseImport, At, Critical
  <2>19. ~ImportPlaces(t)
    BY <2>1 DEF ImportPlaces, At, Critical
  <2>20. ~ImportPeople(t)
    BY <2>1 DEF ImportPeople, At, Critical
  <2>21. ~ImportPerson(t)
    BY <2>1 DEF ImportPerson, At, Critical
  <2>22. ~ImportMirror(t)
    BY <2>1 DEF ImportMirror, At, Critical
  <2> QED
    BY <1>2, <2>2, <2>3, <2>4, <2>5, <2>6, <2>7, <2>8, <2>9, <2>10, <2>11, <2>12, <2>13, <2>14, <2>15, <2>16, <2>17, <2>18, <2>19, <2>20, <2>21, <2>22 DEF Step
<1> QED
  BY <1>3 DEF Arrive, Fetch

LEMMA StepRInv ==
    ASSUME IInv, RInv, NEW t \in Thread, Arrive(t) \/ Step(t)
    PROVE  RInv'
<1>1. Own(t)'
  BY ArriveOwn, LockOwn, LeaveOwn, AnswerOwn, ResetOwn, RefuseOwn, CountOwn, StartOwn,
     PinPersonOwn, PinPlaceOwn, PinMirrorOwn, PinNextPersonOwn,
     UnpinPersonOwn, UnpinPlaceOwn, UnpinMirrorOwn, UnpinNextPersonOwn, ListsDoneOwn, UseAfterFreeOwn,
     ImportPlacesOwn, ImportPeopleOwn, ImportPersonOwn, ImportMirrorOwn DEF Step
<1>2. ASSUME NEW u \in Thread \ {t} PROVE Own(u)'
  <2>1. Still(u)
    BY OthersStill DEF IInv
  <2>2. InCritical(u) => UNCHANGED <<dictionaries, snap>>
    BY OthersGuarded
  <2> QED
    BY <2>1, <2>2, OthersKept DEF Still, Own
<1> QED
  BY <1>1, <1>2 DEF RInv, Own

LEMMA InitRInv == Init => RInv
  BY DEF Init, RInv, Pending, Errand, HasList, Work, PinLabels, UnpinLabels, ImportLabels

LEMMA NextRInv == IInv /\ RInv /\ [Next]_vars => RInv'
<1> SUFFICES ASSUME IInv, RInv, [Next]_vars PROVE RInv'
  OBVIOUS
<1>1. ASSUME NEW t \in Thread, Arrive(t) \/ Step(t) PROVE RInv'
  BY <1>1, StepRInv
<1>2. ASSUME UNCHANGED vars PROVE RInv'
  <2>1. \A u \in Thread : Still(u) /\ UNCHANGED <<dictionaries, snap>>
    BY <1>2 DEF vars, loops, Still
  <2> QED
    BY <2>1, OthersKept DEF Still, RInv
<1> QED
  BY <1>1, <1>2 DEF Next, Finished

\* The invariant of the refinement.
LEMMA SpecRInv == Spec => [](IInv /\ RInv)
<1>1. Init => IInv /\ RInv
  BY InitIInv, InitRInv
<1>2. IInv /\ RInv /\ [Next]_vars => (IInv /\ RInv)'
  BY NextIInv, NextRInv
<1> QED
  BY <1>1, <1>2, PTL DEF Spec

-----------------------------------------------------------------------------
(***************************************************************************)
(* The steps of the registry are steps of the board: Arrive is Send, Fetch *)
(* is Fetch, Unlock is whatever the request asks for, and the others do    *)
(* nothing the board shows.                                                *)
(***************************************************************************)
\* Both modules take their requests and replies from RedpinTypes.
LEMMA SameCardinality == \A S : Board!Cardinality(S) = Cardinality(S)
  BY DEF Board!Cardinality, Cardinality

LEMMA SameReplies ==
    /\ \A P, Q : Board!Counts(P, Q) = Counts(P, Q)
    /\ \A S : Board!Names(S) = Names(S)
    /\ Board!BadRequest = BadRequest
  BY SameCardinality DEF Board!Counts, Counts, Board!Names, Names, Board!BadRequest, BadRequest

LEMMA SameLists ==
    /\ \A s : Board!Members(s) = Members(s)
    /\ \A S : Board!Listings(S) = Listings(S)
    /\ \A L : Board!ListsAnswered(L) = ListsAnswered(L)
    /\ Board!NoAnswer = NoAnswer /\ Board!Refusal = Refusal
<1>1. \A S : Board!Listings(S) = Listings(S)
  BY SameCardinality DEF Board!Listings, Listings
<1> QED
  BY <1>1 DEF Board!Members, Members, Board!ListsAnswered, ListsAnswered,
     Board!Answered, Answered, Board!NoAnswer, NoAnswer, Board!Refusal, Refusal

\* What the clients know so far.
Told == [t \in Thread |-> IF InCritical(t) THEN NULL ELSE reply[t]]

\* The board shows the picture while a thread has data_sem, and the
\* dictionaries while nobody has.
LEMMA ShownWhen ==
    ASSUME IInv
    PROVE  /\ \A t \in Thread : InCritical(t) => Shown = snap
           /\ data_sem = 1 => Shown = Current
<1>1. data_sem = 1 => \A t \in Thread : ~InCritical(t)
  BY DEF IInv, MutualExclusion
<1> QED
  BY <1>1 DEF Shown, InCritical

LEMMA SnapFields ==
    ASSUME IInv
    PROVE  /\ snap = [people |-> snap.people, places |-> snap.places, pins |-> snap.pins]
           /\ snap.people \subseteq Person /\ snap.places \subseteq Place /\ snap.pins \subseteq Person \X Place
BY DEF IInv, TypeOK

LEMMA CurrentFields ==
    ASSUME IInv
    PROVE  /\ Current.people = people /\ Current.places = places /\ Current.pins = Pinned
           /\ Pinned \subseteq Person \X Place
           /\ \A p \in Person, q \in Place : <<p, q>> \in Pinned <=> q \in placesOf[p]
BY DEF IInv, Current, Pinned, Untracked

\* Dictionaries nobody touched are what the board shows.
LEMMA UntouchedShown == ASSUME IInv, Untouched PROVE Current = snap
<1>1. Pinned = snap.pins
  <2>1. \A p \in Person, q \in Place : <<p, q>> \in Pinned <=> <<p, q>> \in snap.pins
    BY CurrentFields DEF Untouched
  <2>2. Pinned \subseteq Person \X Place /\ snap.pins \subseteq Person \X Place
    BY CurrentFields, SnapFields
  <2> QED
    BY <2>1, <2>2
<1> QED
  BY <1>1, SnapFields DEF Untouched, Current

\* What the board is told of a step that it does not see.
Unseen == Shown' = Shown /\ Told' = Told /\ request' = request /\ fetched' = fetched

LEMMA UnseenStutters == Unseen => UNCHANGED Board!vars
  BY DEF Unseen, Board!vars, Board!board, Told, InCritical

\* What a step tells the clients.
LEMMA ToldSteps ==
    ASSUME TypeOK, NEW t \in Thread, Arrive(t) \/ Step(t)
    PROVE  LET new == IF InCritical(t)' THEN NULL ELSE reply'[t]
           IN  Told' = [Told EXCEPT ![t] = new] /\ (new = Told[t] => Told' = Told)
<1> DEFINE new == IF InCritical(t)' THEN NULL ELSE reply'[t]
<1>1. \A u \in Thread \ {t} : pc'[u] = pc[u] /\ reply'[u] = reply[u]
  BY OthersStill DEF Still
<1>2. \A u \in Thread \ {t} : (InCritical(u)' <=> InCritical(u))
  BY <1>1 DEF InCritical
<1>3. Told' = [u \in Thread |-> IF InCritical(u)' THEN NULL ELSE reply'[u]]
  BY DEF Told, InCritical
<1>4. Told = [u \in Thread |-> IF InCritical(u) THEN NULL ELSE reply[u]]
  BY DEF Told, InCritical
<1>5. \A u \in Thread \ {t} : (IF InCritical(u)' THEN NULL ELSE reply'[u])
                                = (IF InCritical(u) THEN NULL ELSE reply[u])
  BY <1>1, <1>2
<1>6. Told' = [u \in Thread |-> IF u = t THEN new ELSE Told[u]]
  BY <1>3, <1>4, <1>5
<1> HIDE DEF new
<1>7. Told' = [Told EXCEPT ![t] = new]
  BY <1>4, <1>6
<1>8. new = Told[t] => Told' = Told
  BY <1>4, <1>7
<1> QED
  BY <1>7, <1>8 DEF new

LEMMA InsideUnseen ==
    ASSUME IInv, NEW t \in Thread, Arrive(t) \/ Step(t), InCritical(t), InCritical(t)',
           UNCHANGED <<snap, request, fetched>>
    PROVE  Unseen
<1>1. Shown' = Shown
  BY DEF Shown, InCritical
<1>2. Told[t] = NULL
  BY DEF Told, InCritical
<1>3. Told' = Told
  BY <1>2, ToldSteps DEF IInv
<1> QED
  BY <1>1, <1>3 DEF Unseen

LEMMA LoopsUnseen ==
    ASSUME IInv, NEW t \in Thread,
           \/ AnswerQuery(t) \/ Reset(t) \/ Count(t) \/ StartLists(t) \/ ListsDone(t) \/ UseAfterFree(t)
           \/ PinPerson(t) \/ PinPlace(t) \/ PinMirror(t) \/ PinNextPerson(t)
           \/ UnpinPerson(t) \/ UnpinPlace(t) \/ UnpinMirror(t) \/ UnpinNextPerson(t)
           \/ RefuseImport(t) \/ ImportPlaces(t) \/ ImportPeople(t) \/ ImportPerson(t) \/ ImportMirror(t)
    PROVE  Unseen
<1>1. InCritical(t) /\ UNCHANGED <<snap, request, fetched>> /\ InCritical(t)'
  <2> USE DEF InCritical, Critical, IInv, TypeOK, At, Goto, LoopStep, Respond
  <2>1. CASE AnswerQuery(t) \/ Reset(t) \/ StartLists(t)
    BY <2>1 DEF AnswerQuery, Reset, StartLists, Serves
  <2>2. CASE Count(t) \/ ListsDone(t) \/ UseAfterFree(t) \/ RefuseImport(t)
    BY <2>2 DEF Count, ListsDone, UseAfterFree, Uses, RefuseImport
  <2>3. CASE PinPerson(t) \/ PinPlace(t) \/ PinMirror(t) \/ PinNextPerson(t)
    BY <2>3 DEF PinPerson, PinPlace, PinMirror, PinNextPerson
  <2>4. CASE UnpinPerson(t) \/ UnpinPlace(t) \/ UnpinMirror(t) \/ UnpinNextPerson(t)
    BY <2>4 DEF UnpinPerson, UnpinPlace, UnpinMirror, UnpinNextPerson
  <2>5. CASE ImportPlaces(t) \/ ImportPeople(t) \/ ImportPerson(t) \/ ImportMirror(t)
    BY <2>5 DEF ImportPlaces, ImportPeople, ImportPerson, ImportMirror
  <2> QED
    BY <2>1, <2>2, <2>3, <2>4, <2>5
<1>2. Step(t)
  BY DEF Step
<1> QED
  BY <1>1, <1>2, InsideUnseen

\* Taking data_sem shows nothing, nor does giving it away for a /copy.
LEMMA LockUnseen ==
    ASSUME IInv, RInv, NEW t \in Thread, Lock(t) \/ Relock(t)
    PROVE  Unseen
<1>1. /\ pc[t] \in {"lock", "relock"} /\ pc'[t] \in {"serve", "import"} /\ data_sem = 1
      /\ UNCHANGED <<request, fetched>> /\ snap' = Current /\ reply[t] = NULL /\ Step(t)
  <2>1. Pending(t) /\ TypeOK
    BY OwnParts
  <2>2. CASE Lock(t)
    BY <2>1, <2>2 DEF Lock, At, Goto, TypeOK, Pending, Step
  <2>3. CASE Relock(t)
    BY <2>1, <2>3 DEF Relock, At, Goto, TypeOK, Pending, Step
  <2> QED
    BY <2>2, <2>3
<1>2. ~InCritical(t) /\ InCritical(t)'
  BY <1>1 DEF InCritical, Critical
<1>3. Shown' = snap'
  BY <1>2 DEF Shown, InCritical
<1>4. Told[t] = NULL
  BY <1>1, <1>2 DEF Told, InCritical
<1>5. Told' = Told
  BY <1>1, <1>2, <1>4, ToldSteps DEF IInv
<1> QED
  BY <1>1, <1>3, <1>5, ShownWhen DEF Unseen

\* Once a thread gives data_sem away, the board shows the dictionaries.
LEMMA ShownAfter ==
    ASSUME IInv, NEW t \in Thread, Arrive(t) \/ Step(t), InCritical(t), ~InCritical(t)'
    PROVE  Shown' = Current'
<1>1. \A u \in Thread \ {t} : ~InCritical(u) /\ Still(u)
  BY OthersStill DEF IInv, MutualExclusion
<1>2. \A u \in Thread : ~InCritical(u)'
  BY <1>1 DEF Still, InCritical
<1> QED
  BY <1>2 DEF Shown, InCritical

LEMMA ReleaseUnseen ==
    ASSUME IInv, RInv, NEW t \in Thread, ReleaseForCopy(t)
    PROVE  Unseen
<1>1. /\ pc[t] = "serve" /\ pc'[t] = "fetch" /\ Untouched
      /\ UNCHANGED <<dictionaries, request, fetched, reply>> /\ reply[t] = NULL /\ Step(t)
  BY OwnParts DEF ReleaseForCopy, Serves, At, Goto, TypeOK, Pending, Work, Step
<1>2. InCritical(t) /\ ~InCritical(t)'
  BY <1>1 DEF InCritical, Critical
<1>3. Current' = Current
  BY <1>1 DEF Current, Pinned, dictionaries
<1>4. Shown' = Shown
  BY <1>1, <1>2, <1>3, ShownAfter, ShownWhen, UntouchedShown
<1>5. Told[t] = NULL
  BY <1>1, <1>2 DEF Told, InCritical
<1>6. Told' = Told
  BY <1>1, <1>2, <1>5, ToldSteps DEF IInv
<1> QED
  BY <1>1, <1>4, <1>6 DEF Unseen

\* A step outside leaves what is shown alone.
LEMMA OutsideShown ==
    ASSUME IInv, RInv, NEW t \in Thread, Arrive(t) \/ Fetch(t)
    PROVE  Shown' = Shown /\ Told' = Told /\ Told[t] = NULL
<1>1. /\ pc[t] \in {"idle", "fetch"} /\ pc'[t] \in {"lock", "relock"}
      /\ UNCHANGED <<dictionaries, snap, reply>> /\ reply[t] = NULL /\ (Arrive(t) \/ Step(t))
  BY OwnParts DEF Arrive, Fetch, At, Goto, TypeOK, Pending, Step
<1>2. ~InCritical(t) /\ ~InCritical(t)'
  BY <1>1 DEF InCritical, Critical
<1>3. \A u \in Thread : (InCritical(u)' <=> InCritical(u))
  <2>1. \A u \in Thread \ {t} : Still(u)
    BY <1>1, OthersStill DEF IInv
  <2> QED
    BY <1>2, <2>1 DEF Still, InCritical
<1>4. Current' = Current
  BY <1>1 DEF Current, Pinned, dictionaries
<1>5. Shown' = Shown
  BY <1>1, <1>3, <1>4 DEF Shown, InCritical
<1>6. Told[t] = NULL
  BY <1>1, <1>2 DEF Told, InCritical
<1>7. Told' = Told
  BY <1>1, <1>2, <1>6, ToldSteps DEF IInv
<1> QED
  BY <1>5, <1>6, <1>7

LEMMA BoardAsks ==
    ASSUME NEW t \in Thread, NEW ops, request[t] \in Request, request[t].op \in ops, Told[t] = NULL
    PROVE  Board!Asks(t, ops)
BY RegistryAssumption DEF Board!Asks, Told, InCritical

LEMMA BoardTells ==
    ASSUME NEW t \in Thread, NEW answer, Told' = [Told EXCEPT ![t] = answer], UNCHANGED <<request, fetched>>
    PROVE  Board!Tell(t, answer)
BY DEF Board!Tell, Told, InCritical

LEMMA ArriveSends ==
    ASSUME IInv, RInv, NEW t \in Thread, Arrive(t)
    PROVE  Board!Send(t)
<1>1. request[t] = NULL
  BY OwnParts DEF Arrive, At, Pending
<1>2. Shown' = Shown /\ Told' = Told
  BY OutsideShown
<1>3. (\E r \in Request : request' = [request EXCEPT ![t] = r]) /\ UNCHANGED fetched
  BY DEF Arrive
<1> QED
  BY <1>1, <1>2, <1>3 DEF Board!Send, Board!board, Told, InCritical

\* Asked itself, the server answers from the board of that moment.
LEMMA FetchFetches ==
    ASSUME IInv, RInv, NEW t \in Thread, Fetch(t)
    PROVE  Board!Fetch(t)
<1> DEFINE r == request[t]
           known == IF r.op = "copy_person" THEN Board!PlacesOf(r.person) ELSE Board!PeopleAt(r.place)
           other == IF r.op = "copy_person" THEN PeerPlaces ELSE PeerPeople
           answers == IF r.host = "self" THEN ListsAnswered(Listings(known))
                      ELSE {NoAnswer, Refusal} \cup ListsAnswered(other)
<1>1. pc[t] = "fetch" /\ r \in Request /\ r.op \in Copies /\ fetched[t] = NULL
  BY OwnParts DEF Fetch, At, ShapeOK, Pending, Copies
<1>2. Shown' = Shown /\ Told' = Told /\ Told[t] = NULL
  BY OutsideShown
<1>3. Board!Asks(t, Copies) /\ UNCHANGED request
  BY <1>1, <1>2, BoardAsks DEF Fetch
<1>4. r.host = "self" /\ data_sem > 0 => OwnAnswer(r) = Listings(known)
  <2> SUFFICES ASSUME data_sem > 0 PROVE OwnAnswer(r) = Listings(known)
    OBVIOUS
  <2>1. Shown = Current /\ data_sem = 1
    BY ShownWhen DEF IInv, TypeOK
  <2>2. Shown.pins = Pinned
    BY <2>1, CurrentFields
  <2>3. \A p \in Person, q \in Place : /\ <<p, q>> \in Pinned <=> q \in placesOf[p]
                                       /\ q \in placesOf[p] <=> p \in peopleOf[q]
    <3>1. \A u \in Thread : ~InCritical(u)
      BY <2>1 DEF IInv, MutualExclusion
    <3>2. \A p \in Person, q \in Place, u \in Thread : ~InFlight(u, p, q)
      BY <3>1 DEF InFlight, InCritical, Critical
    <3> QED
      BY <3>2, CurrentFields DEF IInv, MirroredButOne
  <2>4. CASE r.op = "copy_person"
    <3>1. r.person \in Person
      BY <1>1, <2>4, RequestFields
    <3>2. Board!PlacesOf(r.person) = {q \in Place : <<r.person, q>> \in Pinned}
      BY <2>2 DEF Board!PlacesOf
    <3>3. (IF r.person \in people THEN placesOf[r.person] ELSE {}) = Board!PlacesOf(r.person)
      BY <2>3, <3>1, <3>2 DEF IInv, TypeOK, Untracked
    <3> QED
      BY <2>4, <3>3 DEF OwnAnswer
  <2>5. CASE r.op = "copy_place"
    <3>1. r.place \in Place
      BY <1>1, <2>5, RequestFields
    <3>2. Board!PeopleAt(r.place) = {p \in Person : <<p, r.place>> \in Pinned}
      BY <2>2 DEF Board!PeopleAt
    <3>3. (IF r.place \in places THEN peopleOf[r.place] ELSE {}) = Board!PeopleAt(r.place)
      BY <2>3, <3>1, <3>2 DEF IInv, TypeOK, Untracked
    <3> QED
      BY <2>5, <3>3 DEF OwnAnswer
  <2> QED
    BY <1>1, <2>4, <2>5 DEF Copies
<1>5. \E a \in answers : fetched' = [fetched EXCEPT ![t] = a]
  <2>1. \/ r.host = "self" /\ data_sem > 0
           /\ \E l \in OwnAnswer(r) : fetched' = [fetched EXCEPT ![t] = Answered(l)]
        \/ r.host = "peer" /\ \E a \in {NoAnswer, Refusal} \cup ListsAnswered(other) :
              fetched' = [fetched EXCEPT ![t] = a]
    BY DEF Fetch
  <2> HIDE DEF known, other, r
  <2>2. CASE r.host = "self" /\ data_sem > 0
    <3>1. PICK l \in Listings(known) : fetched' = [fetched EXCEPT ![t] = Answered(l)]
      BY <1>4, <2>1, <2>2
    <3> QED
      BY <2>2, <3>1 DEF ListsAnswered
  <2>3. CASE r.host = "peer"
    BY <2>1, <2>3
  <2> QED
    BY <2>1, <2>2, <2>3
<1>6. Board!board' = Board!board /\ [u \in Thread |-> IF InCritical(u) THEN NULL ELSE reply[u]]'
                                     = [u \in Thread |-> IF InCritical(u) THEN NULL ELSE reply[u]]
  BY <1>2 DEF Board!board, Told, InCritical
<1>7. answers = IF r.host = "self" THEN Board!ListsAnswered(Board!Listings(known))
                ELSE {Board!NoAnswer, Board!Refusal} \cup Board!ListsAnswered(other)
  BY SameLists
<1> QED
  BY <1>1, <1>3, <1>5, <1>6, <1>7 DEF Board!Fetch, Copies, InCritical

\* Giving data_sem back shows the reply and the dictionaries.
LEMMA UnlockShows ==
    ASSUME IInv, RInv, NEW t \in Thread, Unlock(t)
    PROVE  /\ pc[t] = "unlock" /\ Outcome(t) /\ request[t] \in Request /\ Told[t] = NULL
           /\ Told' = [Told EXCEPT ![t] = reply[t]]
           /\ UNCHANGED <<request, fetched>>
           /\ Shown = snap
           /\ Shown'.people = people /\ Shown'.places = places /\ Shown'.pins = Pinned
<1>1. /\ pc[t] = "unlock" /\ pc'[t] = "done" /\ Outcome(t) /\ request[t] \in Request
      /\ UNCHANGED <<dictionaries, request, fetched, reply>> /\ Step(t)
  BY OwnParts DEF Unlock, At, Goto, TypeOK, ShapeOK, Work, Step
<1>2. InCritical(t) /\ ~InCritical(t)'
  BY <1>1 DEF InCritical, Critical
<1>3. Current' = Current
  BY <1>1 DEF Current, Pinned, dictionaries
<1>4. Shown = snap /\ Shown' = Current
  BY <1>1, <1>2, <1>3, ShownAfter, ShownWhen
<1>5. Told[t] = NULL
  BY <1>2 DEF Told, InCritical
<1>6. Told' = [Told EXCEPT ![t] = reply[t]]
  BY <1>1, <1>2, ToldSteps DEF IInv
<1> QED
  BY <1>1, <1>4, <1>5, <1>6, CurrentFields

\* The board after data_sem was given back.
LEMMA BoardAfter ==
    ASSUME NEW P, NEW Q, NEW R,
           Shown'.people = P, Shown'.places = Q, Shown'.pins = R,
           Shown.people = P, Shown.places = Q, Shown.pins = R
    PROVE  UNCHANGED Board!board
BY DEF Board!board

LEMMA QueryShown ==
    ASSUME IInv, RInv, NEW t \in Thread, Unlock(t),
           request[t].op \in Queries, Untouched, reply[t] = Queried(request[t])
    PROVE  Board!Query(t)
<1> DEFINE r == request[t]
<1>1. /\ r \in Request /\ Told[t] = NULL /\ Told' = [Told EXCEPT ![t] = reply[t]]
      /\ UNCHANGED <<request, fetched>> /\ Shown = snap
      /\ Shown'.people = people /\ Shown'.places = places /\ Shown'.pins = Pinned
  BY UnlockShows
<1>2. Shown.people = people /\ Shown.places = places /\ Shown.pins = Pinned
  BY <1>1, UntouchedShown, CurrentFields
<1>3. Board!Asks(t, Queries)
  BY <1>1, BoardAsks
<1>4. Queried(r) = CASE r.op = "counts"    -> Board!Counts(Shown.people, Shown.places)
                     [] r.op = "people"    -> Board!Names(Shown.people)
                     [] r.op = "places"    -> Board!Names(Shown.places)
                     [] r.op = "people_of" -> Board!Names(Board!PeopleAt(r.place))
                     [] r.op = "places_of" -> Board!Names(Board!PlacesOf(r.person))
                     [] r.op = "bad"       -> Board!BadRequest
  <2>1. ASSUME r.op = "people_of" PROVE Board!PeopleAt(r.place) = {p \in Person : r.place \in placesOf[p]}
    <3>1. r.place \in Place
      BY <1>1, <2>1, RequestFields
    <3> QED
      BY <1>2, <3>1, CurrentFields DEF Board!PeopleAt
  <2>2. ASSUME r.op = "places_of" PROVE Board!PlacesOf(r.person) = placesOf[r.person]
    <3>1. r.person \in Person
      BY <1>1, <2>2, RequestFields
    <3>2. \A q \in Place : <<r.person, q>> \in Pinned <=> q \in placesOf[r.person]
      BY <3>1, CurrentFields
    <3>3. placesOf[r.person] \subseteq Place
      BY <3>1 DEF IInv, TypeOK
    <3>4. Board!PlacesOf(r.person) = {q \in Place : <<r.person, q>> \in Pinned}
      BY <1>2 DEF Board!PlacesOf
    <3> QED
      BY <3>2, <3>3, <3>4
  <2> HIDE DEF r
  <2>3. CASE r.op = "counts"
    BY <1>2, <2>3, SameReplies DEF Queried
  <2>4. CASE r.op = "people"
    BY <1>2, <2>4, SameReplies DEF Queried
  <2>5. CASE r.op = "places"
    BY <1>2, <2>5, SameReplies DEF Queried
  <2>6. CASE r.op = "people_of"
    BY <2>1, <2>6, SameReplies DEF Queried
  <2>7. CASE r.op = "places_of"
    BY <2>2, <2>7, SameReplies DEF Queried
  <2>8. CASE r.op = "bad"
    BY <2>8, SameReplies DEF Queried
  <2>9. r.op \in Queries
    BY DEF r
  <2> QED
    BY <2>3, <2>4, <2>5, <2>6, <2>7, <2>8, <2>9 DEF Queries
<1>5. UNCHANGED Board!board
  BY <1>1, <1>2, BoardAfter
<1>6. PICK answer : answer = reply[t]
  OBVIOUS
<1>7. Board!Tell(t, answer)
  BY <1>1, <1>6, BoardTells
<1>8. answer = CASE r.op = "counts"    -> Board!Counts(Shown.people, Shown.places)
                 [] r.op = "people"    -> Board!Names(Shown.people)
                 [] r.op = "places"    -> Board!Names(Shown.places)
                 [] r.op = "people_of" -> Board!Names(Board!PeopleAt(r.place))
                 [] r.op = "places_of" -> Board!Names(Board!PlacesOf(r.person))
                 [] r.op = "bad"       -> Board!BadRequest
  BY <1>4, <1>6
<1> QED
  BY <1>3, <1>5, <1>7, <1>8 DEF Board!Query, Board!Tell, Queries, InCritical

LEMMA ResetShown ==
    ASSUME IInv, RInv, NEW t \in Thread, Unlock(t), request[t].op = "reset",
           people = {}, places = {}, \A p \in Person : placesOf[p] = {}, reply[t] = Counts({}, {})
    PROVE  Board!Reset(t)
<1>1. /\ request[t] \in Request /\ Told[t] = NULL /\ Told' = [Told EXCEPT ![t] = reply[t]]
      /\ UNCHANGED <<request, fetched>>
      /\ Shown'.people = {} /\ Shown'.places = {} /\ Shown'.pins = Pinned
  BY UnlockShows
<1>2. Pinned = {}
  BY DEF Pinned
<1>3. Board!Asks(t, {"reset"}) /\ Board!Tell(t, Board!Counts({}, {}))
  BY <1>1, BoardAsks, BoardTells, SameReplies
<1> QED
  BY <1>1, <1>2, <1>3 DEF Board!Reset, InCritical

LEMMA RefuseShown ==
    ASSUME IInv, RInv, NEW t \in Thread, Unlock(t), Refused(t), Untouched, reply[t] = BadRequest
    PROVE  Board!RefuseCopy(t)
<1>1. /\ request[t] \in Request /\ Told[t] = NULL /\ Told' = [Told EXCEPT ![t] = reply[t]]
      /\ UNCHANGED <<request, fetched>> /\ Shown = snap
      /\ Shown'.people = people /\ Shown'.places = places /\ Shown'.pins = Pinned
  BY UnlockShows
<1>2. UNCHANGED Board!board
  BY <1>1, UntouchedShown, CurrentFields, BoardAfter
<1>3. Board!Asks(t, Copies) /\ Board!Tell(t, Board!BadRequest)
  <2>1. Board!Asks(t, Copies)
    BY <1>1, BoardAsks DEF Refused
  <2>2. Board!Tell(t, Board!BadRequest)
    BY <1>1, BoardTells, SameReplies
  <2> QED
    BY <2>1, <2>2
<1>4. fetched[t] # NULL /\ fetched[t].status = 500
  BY AnswersAssumption DEF Refused
<1> QED
  BY <1>2, <1>3, <1>4 DEF Board!RefuseCopy, Copies, InCritical

\* What /pin and /copy leave behind, with nothing left to do.
LEMMA PinnedAll ==
    ASSUME IInv, NEW t \in Thread, pc[t] = "unlock", LoopsDone(t), request[t].op # "unpin",
           Who(t) \subseteq Person, Where(t) \subseteq Place
    PROVE  /\ people = snap.people \cup Who(t)
           /\ Pinned = snap.pins \cup (Who(t) \X Where(t))
           /\ IF request[t].op = "copy_place" THEN places = snap.places \cup {request[t].as}
              ELSE places = IF Who(t) = {} THEN snap.places ELSE snap.places \cup Where(t)
<1>1. Pinning(t) /\ More(t) = {}
  BY MembersOf DEF LoopsDone, More, Inner
<1>2. (\A p, q : ~Left(t, p, q)) /\ (\A q : Reached(t, q) <=> q \in places)
  BY <1>1 DEF Left, Reached, Inner
<1>3. people \subseteq Person /\ places \subseteq Place /\ snap.people \subseteq Person /\ snap.places \subseteq Place
  BY DEF IInv, TypeOK
<1>4. people = snap.people \cup Who(t)
  BY <1>1, <1>3 DEF Pinning
<1>5. Pinned = snap.pins \cup (Who(t) \X Where(t))
  <2>1. \A p \in Person, q \in Place :
           <<p, q>> \in Pinned <=> <<p, q>> \in snap.pins \/ (p \in Who(t) /\ q \in Where(t))
    BY <1>1, <1>2, CurrentFields DEF Pinning
  <2>2. Pinned \subseteq Person \X Place /\ snap.pins \subseteq Person \X Place
    BY CurrentFields, SnapFields
  <2>3. \A p \in Person, q \in Place : <<p, q>> \in Pinned <=> <<p, q>> \in snap.pins \cup (Who(t) \X Where(t))
    BY <2>1
  <2>4. snap.pins \cup (Who(t) \X Where(t)) \subseteq Person \X Place
    BY <2>2
  <2> QED
    BY <2>2, <2>3, <2>4
<1>6. CASE request[t].op = "copy_place"
  BY <1>1, <1>4, <1>5, <1>6 DEF Pinning
<1>7. CASE request[t].op # "copy_place"
  <2>1. \A q \in Place : q \in places <=> q \in snap.places \/ (Who(t) # {} /\ q \in Where(t))
    BY <1>1, <1>2, <1>7 DEF Pinning
  <2> QED
    BY <1>3, <1>4, <1>5, <1>7, <2>1
<1> QED
  BY <1>6, <1>7

LEMMA UnpinnedAll ==
    ASSUME IInv, NEW t \in Thread, pc[t] = "unlock", LoopsDone(t), request[t].op = "unpin",
           Who(t) \subseteq Person, Where(t) \subseteq Place
    PROVE  LET gone == snap.pins \cap (Who(t) \X Where(t))
               left == snap.pins \ gone
           IN  /\ Pinned = left
               /\ people = snap.people \ {p \in Person :
                     (\E q \in Place : <<p, q>> \in gone) /\ \A q \in Place : <<p, q>> \notin left}
               /\ places = snap.places \ {q \in Place :
                     (\E p \in Person : <<p, q>> \in gone) /\ \A p \in Person : <<p, q>> \notin left}
<1> DEFINE gone == snap.pins \cap (Who(t) \X Where(t))
           left == snap.pins \ gone
<1>1. Unpinning(t) /\ More(t) = {}
  BY MembersOf DEF LoopsDone, More, Inner
<1>2. \A p, q : ~Left(t, p, q)
  BY <1>1 DEF Left, Inner
<1>3. /\ people \subseteq Person /\ places \subseteq Place /\ snap.people \subseteq Person /\ snap.places \subseteq Place
      /\ \A p \in Person : placesOf[p] \subseteq Place
      /\ \A q \in Place : peopleOf[q] \subseteq Person
  BY DEF IInv, TypeOK
<1>4. \A p \in Person, q \in Place :
         /\ <<p, q>> \in Pinned <=> q \in placesOf[p]
         /\ q \in placesOf[p] <=> <<p, q>> \in left
         /\ q \in placesOf[p] <=> p \in peopleOf[q]
  <2>1. ASSUME NEW p \in Person, NEW q \in Place
        PROVE  q \in placesOf[p] <=> (<<p, q>> \in snap.pins /\ ~(p \in Who(t) /\ q \in Where(t)))
    BY <1>1, <1>2 DEF Unpinning
  <2>2. \A p \in Person, q \in Place : q \in placesOf[p] <=> <<p, q>> \in left
    BY <2>1
  <2>3. \A p \in Person, q \in Place : q \in placesOf[p] <=> p \in peopleOf[q]
    BY BothSides DEF InCritical, Critical
  <2> QED
    BY <2>2, <2>3, CurrentFields
<1>5. Pinned = left
  <2>1. Pinned \subseteq Person \X Place /\ left \subseteq Person \X Place
    BY CurrentFields, SnapFields
  <2> HIDE DEF left
  <2>2. \A x \in Person \X Place : x \in Pinned <=> x \in left
    BY <1>4
  <2> QED
    BY <2>1, <2>2
<1>6. \A p \in Person, q \in Place : <<p, q>> \in snap.pins <=> <<p, q>> \in gone \/ <<p, q>> \in left
  OBVIOUS
<1>7. ASSUME NEW p \in Person
      PROVE  p \in people <=>
                p \in snap.people /\ ~((\E q \in Place : <<p, q>> \in gone) /\ \A q \in Place : <<p, q>> \notin left)
  <2>1. p \in people <=> /\ p \in snap.people
                         /\ placesOf[p] = {} => \A q \in Place : <<p, q>> \notin snap.pins
    BY <1>1 DEF Unpinning
  <2> HIDE DEF left, gone
  <2>2. placesOf[p] = {} <=> \A q \in Place : <<p, q>> \notin left
    BY <1>3, <1>4
  <2> QED
    BY <1>6, <2>1, <2>2
<1>8. ASSUME NEW q \in Place
      PROVE  q \in places <=>
                q \in snap.places /\ ~((\E p \in Person : <<p, q>> \in gone) /\ \A p \in Person : <<p, q>> \notin left)
  <2>1. q \in places <=> /\ q \in snap.places
                         /\ peopleOf[q] = {} => \A p \in Person : <<p, q>> \notin snap.pins
    BY <1>1 DEF Unpinning
  <2> HIDE DEF left, gone
  <2>2. peopleOf[q] = {} <=> \A p \in Person : <<p, q>> \notin left
    BY <1>3, <1>4
  <2> QED
    BY <1>6, <2>1, <2>2
<1>9. people = snap.people \ {p \in Person :
                     (\E q \in Place : <<p, q>> \in gone) /\ \A q \in Place : <<p, q>> \notin left}
  <2> HIDE DEF left, gone
  <2> QED
    BY <1>3, <1>7
<1>10. places = snap.places \ {q \in Place :
                     (\E p \in Person : <<p, q>> \in gone) /\ \A p \in Person : <<p, q>> \notin left}
  <2> HIDE DEF left, gone
  <2> QED
    BY <1>3, <1>8
<1> QED
  BY <1>5, <1>9, <1>10

\* The reply of /pin, /unpin and /copy counts what the board then shows.
LEMMA CountsShown ==
    ASSUME IInv, RInv, NEW t \in Thread, Unlock(t), reply[t] = Counts(people, places)
    PROVE  Board!Tell(t, Board!Counts(Shown.people, Shown.places)')
<1>1. /\ Told' = [Told EXCEPT ![t] = reply[t]] /\ UNCHANGED <<request, fetched>>
      /\ Shown'.people = people /\ Shown'.places = places
  BY UnlockShows
<1>2. PICK answer : answer = reply[t]
  OBVIOUS
<1>3. Board!Tell(t, answer)
  BY <1>1, <1>2, BoardTells
<1>4. Board!Counts(Shown.people, Shown.places)' = answer
  <2>1. \A P, Q : P = people /\ Q = places => Board!Counts(P, Q) = answer
    BY <1>2, SameReplies
  <2> QED
    BY <1>1, <2>1 DEF Board!Counts
<1> QED
  BY <1>3, <1>4 DEF Board!Tell, InCritical

LEMMA PinShown ==
    ASSUME IInv, RInv, NEW t \in Thread, Unlock(t),
           request[t].op = "pin", LoopsDone(t), reply[t] = Counts(people, places)
    PROVE  Board!Pin(t)
<1> DEFINE P == Members(request[t].people)
           Q == Members(request[t].places)
<1>1. /\ pc[t] = "unlock" /\ request[t] \in Request /\ Told[t] = NULL /\ Shown = snap
      /\ Shown'.people = people /\ Shown'.places = places /\ Shown'.pins = Pinned
  BY UnlockShows
<1>2. Who(t) = P /\ Where(t) = Q
  BY DEF Who, Where
<1>3. P \subseteq Person /\ Q \subseteq Place
  BY <1>1, RequestFields, MembersOf
<1>4. /\ Shown'.people = Shown.people \cup P /\ Shown'.pins = Shown.pins \cup (P \X Q)
      /\ Shown'.places = IF P = {} THEN Shown.places ELSE Shown.places \cup Q
  BY <1>1, <1>2, <1>3, PinnedAll
<1>5. Board!Members(request[t].people) = P /\ Board!Members(request[t].places) = Q
  BY SameLists
<1>6. Board!Asks(t, {"pin"})
  BY <1>1, BoardAsks
<1>7. Board!Tell(t, Board!Counts(Shown.people, Shown.places)')
  BY CountsShown
<1> HIDE DEF P, Q
<1> QED
  BY <1>4, <1>5, <1>6, <1>7 DEF Board!Pin, InCritical

LEMMA UnpinShown ==
    ASSUME IInv, RInv, NEW t \in Thread, Unlock(t),
           request[t].op = "unpin", LoopsDone(t), reply[t] = Counts(people, places)
    PROVE  Board!Unpin(t)
<1> DEFINE P == Members(request[t].people)
           Q == Members(request[t].places)
           gone == Shown.pins \cap (P \X Q)
           left == Shown.pins \ gone
<1>1. /\ pc[t] = "unlock" /\ request[t] \in Request /\ Told[t] = NULL /\ Shown = snap
      /\ Shown'.people = people /\ Shown'.places = places /\ Shown'.pins = Pinned
  BY UnlockShows
<1>2. Who(t) = P /\ Where(t) = Q
  BY DEF Who, Where
<1>3. P \subseteq Person /\ Q \subseteq Place
  BY <1>1, RequestFields, MembersOf
<1>4. /\ Shown'.pins = left
      /\ Shown'.people = Shown.people \ {p \in Person :
                     (\E q \in Place : <<p, q>> \in gone) /\ \A q \in Place : <<p, q>> \notin left}
      /\ Shown'.places = Shown.places \ {q \in Place :
                     (\E p \in Person : <<p, q>> \in gone) /\ \A p \in Person : <<p, q>> \notin left}
  BY <1>1, <1>2, <1>3, UnpinnedAll
<1>5. Board!Members(request[t].people) = P /\ Board!Members(request[t].places) = Q
  BY SameLists
<1>6. Board!Asks(t, {"unpin"})
  BY <1>1, BoardAsks
<1>7. Board!Tell(t, Board!Counts(Shown.people, Shown.places)')
  BY CountsShown
<1> HIDE DEF P, Q
<1> QED
  BY <1>4, <1>5, <1>6, <1>7 DEF Board!Unpin, InCritical

LEMMA ImportPersonShown ==
    ASSUME IInv, RInv, NEW t \in Thread, Unlock(t),
           request[t].op = "copy_person", HasList(t), LoopsDone(t), reply[t] = Counts(people, places)
    PROVE  Board!ImportPerson(t)
<1> DEFINE Q == Members(fetched[t].list)
           as == request[t].as
<1>1. /\ pc[t] = "unlock" /\ request[t] \in Request /\ Told[t] = NULL /\ Shown = snap
      /\ Shown'.people = people /\ Shown'.places = places /\ Shown'.pins = Pinned
  BY UnlockShows
<1>2. Who(t) = {as} /\ Where(t) = Q
  BY DEF Who, Where
<1>3. as \in Person /\ Q \subseteq Place
  BY <1>1, RequestFields, MembersOf DEF HasList
<1>4. /\ Shown'.people = Shown.people \cup {as} /\ Shown'.pins = Shown.pins \cup ({as} \X Q)
      /\ Shown'.places = Shown.places \cup Q
  BY <1>1, <1>2, <1>3, PinnedAll
<1>5. Board!Members(fetched[t].list) = Q
  BY SameLists
<1>6. Board!Asks(t, {"copy_person"})
  BY <1>1, BoardAsks
<1>7. Board!Tell(t, Board!Counts(Shown.people, Shown.places)')
  BY CountsShown
<1>8. fetched[t] # NULL /\ fetched[t].status # 500
  BY AnswersAssumption DEF HasList
<1> HIDE DEF Q
<1> QED
  BY <1>4, <1>5, <1>6, <1>7, <1>8 DEF Board!ImportPerson, InCritical

LEMMA ImportPlaceShown ==
    ASSUME IInv, RInv, NEW t \in Thread, Unlock(t),
           request[t].op = "copy_place", HasList(t), LoopsDone(t), reply[t] = Counts(people, places)
    PROVE  Board!ImportPlace(t)
<1> DEFINE P == Members(fetched[t].list)
           as == request[t].as
<1>1. /\ pc[t] = "unlock" /\ request[t] \in Request /\ Told[t] = NULL /\ Shown = snap
      /\ Shown'.people = people /\ Shown'.places = places /\ Shown'.pins = Pinned
  BY UnlockShows
<1>2. Who(t) = P /\ Where(t) = {as}
  BY DEF Who, Where
<1>3. as \in Place /\ P \subseteq Person
  BY <1>1, RequestFields, MembersOf DEF HasList
<1>4. /\ Shown'.people = Shown.people \cup P /\ Shown'.pins = Shown.pins \cup (P \X {as})
      /\ Shown'.places = Shown.places \cup {as}
  BY <1>1, <1>2, <1>3, PinnedAll
<1>5. Board!Members(fetched[t].list) = P
  BY SameLists
<1>6. Board!Asks(t, {"copy_place"})
  BY <1>1, BoardAsks
<1>7. Board!Tell(t, Board!Counts(Shown.people, Shown.places)')
  BY CountsShown
<1>8. fetched[t] # NULL /\ fetched[t].status # 500
  BY AnswersAssumption DEF HasList
<1> HIDE DEF P
<1> QED
  BY <1>4, <1>5, <1>6, <1>7, <1>8 DEF Board!ImportPlace, InCritical

LEMMA UnlockShown ==
    ASSUME IInv, RInv, NEW t \in Thread, Unlock(t)
    PROVE  \/ Board!Query(t) \/ Board!Reset(t) \/ Board!Pin(t) \/ Board!Unpin(t)
           \/ Board!ImportPerson(t) \/ Board!ImportPlace(t) \/ Board!RefuseCopy(t)
<1>1. Outcome(t)
  BY UnlockShows
<1>2. CASE request[t].op \in Queries /\ Untouched /\ reply[t] = Queried(request[t])
  BY <1>2, QueryShown
<1>3. CASE /\ request[t].op = "reset"
           /\ people = {} /\ places = {} /\ \A p \in Person : placesOf[p] = {}
           /\ reply[t] = Counts({}, {})
  BY <1>3, ResetShown
<1>4. CASE Refused(t) /\ Untouched /\ reply[t] = BadRequest
  BY <1>4, RefuseShown
<1>5. CASE /\ request[t].op \in Copies => HasList(t)
           /\ LoopsDone(t) /\ reply[t] = Counts(people, places)
  <2>1. request[t].op \in {"pin", "unpin", "copy_person", "copy_place"}
    BY <1>5 DEF LoopsDone, Copies
  <2> QED
    BY <1>5, <2>1, PinShown, UnpinShown, ImportPersonShown, ImportPlaceShown DEF Copies
<1> QED
  BY <1>1, <1>2, <1>3, <1>4, <1>5 DEF Outcome

LEMMA StepShown ==
    ASSUME IInv, RInv, NEW t \in Thread, Arrive(t) \/ Step(t)
    PROVE  [Board!Next]_(Board!vars)
<1>1. CASE Arrive(t)
  BY <1>1, ArriveSends DEF Board!Next
<1>2. CASE Fetch(t)
  BY <1>2, FetchFetches DEF Board!Next
<1>3. CASE Unlock(t)
  BY <1>3, UnlockShown DEF Board!Next
<1>4. CASE ~(Arrive(t) \/ Fetch(t) \/ Unlock(t))
  <2>1. Unseen
    BY <1>4, LoopsUnseen, LockUnseen, ReleaseUnseen DEF Step
  <2> QED
    BY <2>1, UnseenStutters
<1> QED
  BY <1>1, <1>2, <1>3, <1>4

LEMMA InitShown == Init => Board!Init
<1> SUFFICES ASSUME Init PROVE Board!Init
  OBVIOUS
<1>1. \A t \in Thread : ~InCritical(t)
  BY DEF Init, InCritical, Critical
<1>2. Shown = Current /\ Told = [t \in Thread |-> NULL]
  BY <1>1 DEF Shown, Told, InCritical, Init
<1>3. Current.people = {} /\ Current.places = {} /\ Current.pins = {}
  BY DEF Init, Current, Pinned
<1>4. request = [t \in Thread |-> NULL] /\ fetched = [t \in Thread |-> NULL]
  BY DEF Init
<1> QED
  BY <1>2, <1>3, <1>4 DEF Board!Init, Told, InCritical

\* The registry implements the pin board: however the threads are interleaved,
\* clients see a board on which every request takes effect in one step, when
\* its thread gives data_sem back; a /copy in two, because data_sem is given
\* away while the other server is asked.
THEOREM RefinesPinBoard == Spec => ImplementsPinBoard
<1>1. Init => Board!Init
  BY InitShown
<1>2. ASSUME IInv, RInv, [Next]_vars PROVE [Board!Next]_(Board!vars)
  <2>1. ASSUME NEW t \in Thread, Arrive(t) \/ Step(t) PROVE [Board!Next]_(Board!vars)
    BY <1>2, <2>1, StepShown
  <2>2. ASSUME UNCHANGED vars PROVE [Board!Next]_(Board!vars)
    <3>1. UNCHANGED <<people, places, placesOf, pc, request, fetched, reply, snap>>
      BY <2>2 DEF vars, dictionaries
    <3>2. Unseen
      BY <3>1 DEF Unseen, Shown, Told, Current, Pinned, InCritical
    <3> QED
      BY <3>2, UnseenStutters
  <2> QED
    BY <1>2, <2>1, <2>2 DEF Next, Finished
<1> QED
  BY <1>1, <1>2, SpecRInv, PTL DEF Spec, ImplementsPinBoard, Board!Spec
=============================================================================
