--------------------------- MODULE RedpinRegistry ---------------------------
(***************************************************************************)
(* serve_request of server/redpin.c: the two dictionaries `people` and     *)
(* `places`, the semaphore data_sem that guards them and the threads that  *)
(* serve one request each.                                                 *)
(*                                                                         *)
(* `people` maps a person to the dictionary of her places and `places` a   *)
(* place to the dictionary of its people; every pin is in both.  A step of *)
(* a thread is one pass through one side of the inner loops, so that only  *)
(* data_sem keeps the two sides together.  A dictionary is owned by the    *)
(* one that maps to it and is freed when its key is removed; `ptr` is the  *)
(* pointer a loop keeps to such a dictionary.                              *)
(***************************************************************************)
EXTENDS RedpinTypes

CONSTANTS
    Thread,     \* the threads, one for each connection
    Request,    \* the requests clients may send
    Dangling    \* a pointer to memory that was freed

ASSUME RegistryAssumption ==
    /\ Request \subseteq RequestType
    /\ NULL \notin Request
    /\ Dangling \notin Person \cup Place \cup {NULL}

VARIABLES
    people,     \* keys of the dictionary `people`
    placesOf,   \* keys of the dictionary each person is mapped to
    places,     \* keys of the dictionary `places`
    peopleOf,   \* keys of the dictionary each place is mapped to
    data_sem,   \* value of the semaphore
    alive,      \* FALSE once the process died
    pc,         \* where each thread is
    request,    \* the query a thread serves
    todo,       \* people_list from index i on
    list,       \* places_list
    rest,       \* places_list from index j on
    ptr,        \* places_of_person, or people_of_as in a /copy of a place
    fetched,    \* what get_server_results came back with
    reply,      \* what was written to the client
    snap        \* history: the pins when data_sem was last taken

dictionaries == <<people, placesOf, places, peopleOf>>
loops == <<todo, list, rest, ptr>>
vars == <<dictionaries, data_sem, alive, pc, request, loops, fetched, reply, snap>>

Pinned == {pin \in Person \X Place : pin[1] \in people /\ pin[2] \in placesOf[pin[1]]}
Current == [people |-> people, places |-> places, pins |-> Pinned]

Init ==
    /\ people = {} /\ placesOf = [p \in Person |-> {}]
    /\ places = {} /\ peopleOf = [q \in Place |-> {}]
    /\ data_sem = 1
    /\ alive = TRUE
    /\ pc = [t \in Thread |-> "idle"]
    /\ request = [t \in Thread |-> NULL]
    /\ todo = [t \in Thread |-> <<>>]
    /\ list = [t \in Thread |-> <<>>]
    /\ rest = [t \in Thread |-> <<>>]
    /\ ptr = [t \in Thread |-> NULL]
    /\ fetched = [t \in Thread |-> NULL]
    /\ reply = [t \in Thread |-> NULL]
    /\ snap = Current

(***************************************************************************)
(* Steps of a thread.                                                      *)
(***************************************************************************)
At(t, label) == alive /\ pc[t] = label
Goto(t, label) == pc' = [pc EXCEPT ![t] = label]

\* The pointers after the dictionaries of the keys in gone were freed.
Freed(gone) == [t \in Thread |-> IF ptr[t] \in gone THEN Dangling ELSE ptr[t]]

\* The request line, headers and query of a request are in.
Arrive(t) ==
    /\ At(t, "idle")
    /\ \E r \in Request : request' = [request EXCEPT ![t] = r]
    /\ Goto(t, "lock")
    /\ UNCHANGED <<dictionaries, data_sem, alive, loops, fetched, reply, snap>>

\* P(&data_sem) in doit.
Lock(t) ==
    /\ At(t, "lock")
    /\ data_sem > 0
    /\ data_sem' = data_sem - 1
    /\ snap' = Current
    /\ Goto(t, "serve")
    /\ UNCHANGED <<dictionaries, alive, request, loops, fetched, reply>>

\* V(&data_sem) in doit, after the reply was written.
Unlock(t) ==
    /\ At(t, "unlock")
    /\ data_sem' = data_sem + 1
    /\ Goto(t, "done")
    /\ UNCHANGED <<dictionaries, alive, request, loops, fetched, reply, snap>>

Respond(t, answer) ==
    /\ reply' = [reply EXCEPT ![t] = answer]
    /\ Goto(t, "unlock")
    /\ UNCHANGED <<data_sem, alive, request, fetched, snap>>

Serves(t, ops) == At(t, "serve") /\ request[t].op \in ops

\* The branches that only read.  An unknown name has no dictionary: the body
\* stays NULL and the reply is the empty list.
AnswerQuery(t) ==
    /\ Serves(t, {"counts", "people", "places", "people_of", "places_of", "bad"})
    /\ LET r == request[t]
       IN  Respond(t,
             CASE r.op = "counts"    -> Counts(people, places)
               [] r.op = "people"    -> Names(people)
               [] r.op = "places"    -> Names(places)
               [] r.op = "people_of" ->
                     Names(IF r.place \in places THEN peopleOf[r.place] ELSE {})
               [] r.op = "places_of" ->
                     Names(IF r.person \in people THEN placesOf[r.person] ELSE {})
               [] r.op = "bad"       -> BadRequest)
    /\ UNCHANGED <<dictionaries, loops>>

Reset(t) ==
    /\ Serves(t, {"reset"})
    /\ people' = {} /\ placesOf' = [p \in Person |-> {}]
    /\ places' = {} /\ peopleOf' = [q \in Place |-> {}]
    /\ ptr' = Freed(people \cup places)
    /\ Respond(t, Counts({}, {}))
    /\ UNCHANGED <<todo, list, rest>>

\* /pin, /unpin and /copy end by counting what is tracked now.
Count(t) ==
    /\ At(t, "count")
    /\ Respond(t, Counts(people, places))
    /\ UNCHANGED <<dictionaries, loops>>

LoopStep == UNCHANGED <<data_sem, alive, request, list, fetched, reply, snap>>

\* split_string of both lists.
StartLists(t) ==
    /\ Serves(t, {"pin", "unpin"})
    /\ todo' = [todo EXCEPT ![t] = request[t].people]
    /\ list' = [list EXCEPT ![t] = request[t].places]
    /\ Goto(t, IF request[t].op = "pin" THEN "pin_person" ELSE "unpin_person")
    /\ UNCHANGED <<dictionaries, data_sem, alive, request, rest, ptr, fetched, reply, snap>>

(***************************************************************************)
(* /pin, and the import of a person by /copy: for every person, for every  *)
(* place, one pin on the person's side and then on the place's side.       *)
(***************************************************************************)
PinPerson(t) ==
    /\ At(t, "pin_person") /\ todo[t] # <<>>
    /\ LET person == Head(todo[t])
       IN  /\ people' = people \cup {person}
           /\ placesOf' = [placesOf EXCEPT ![person] = IF person \in people THEN @ ELSE {}]
           /\ ptr' = [ptr EXCEPT ![t] = person]
    /\ rest' = [rest EXCEPT ![t] = list[t]]
    /\ Goto(t, "pin_place")
    /\ UNCHANGED <<places, peopleOf, todo>> /\ LoopStep

PinPlace(t) ==
    /\ At(t, "pin_place") /\ rest[t] # <<>> /\ ptr[t] # Dangling
    /\ placesOf' = [placesOf EXCEPT ![ptr[t]] = @ \cup {Head(rest[t])}]
    /\ Goto(t, "pin_mirror")
    /\ UNCHANGED <<people, places, peopleOf, todo, rest, ptr>> /\ LoopStep

\* Not the code: the place always gets a fresh dictionary.
PinMirrorFresh(t) ==
    /\ At(t, "pin_mirror")
    /\ places' = places \cup {Head(rest[t])}
    /\ peopleOf' = [peopleOf EXCEPT ![Head(rest[t])] = {Head(todo[t])}]
    /\ rest' = [rest EXCEPT ![t] = Tail(@)]
    /\ Goto(t, "pin_place")
    /\ UNCHANGED <<people, placesOf, todo, ptr>> /\ LoopStep

PinMirror(t) ==
    /\ At(t, "pin_mirror")
    /\ LET place == Head(rest[t])
       IN  /\ places' = places \cup {place}
           /\ peopleOf' = [peopleOf EXCEPT ![place] =
                              (IF place \in places THEN @ ELSE {}) \cup {Head(todo[t])}]
    /\ rest' = [rest EXCEPT ![t] = Tail(@)]
    /\ Goto(t, "pin_place")
    /\ UNCHANGED <<people, placesOf, todo, ptr>> /\ LoopStep

PinNextPerson(t) ==
    /\ At(t, "pin_place") /\ rest[t] = <<>>
    /\ todo' = [todo EXCEPT ![t] = Tail(@)]
    /\ ptr' = [ptr EXCEPT ![t] = NULL]
    /\ Goto(t, "pin_person")
    /\ UNCHANGED <<dictionaries, rest>> /\ LoopStep

(***************************************************************************)
(* /unpin: the same loops, removing.  A person who is not tracked is       *)
(* skipped with all her places.                                            *)
(***************************************************************************)
\* Not the code: a person who is not tracked is looked at again and again.
UnpinPersonStuck(t) ==
    /\ At(t, "unpin_person") /\ todo[t] # <<>>
    /\ LET person == Head(todo[t])
       IN  IF person \in people
           THEN /\ ptr' = [ptr EXCEPT ![t] = person]
                /\ rest' = [rest EXCEPT ![t] = list[t]]
                /\ Goto(t, "unpin_place")
           ELSE UNCHANGED <<ptr, rest, pc>>
    /\ UNCHANGED <<dictionaries, todo>> /\ LoopStep

UnpinPerson(t) ==
    /\ At(t, "unpin_person") /\ todo[t] # <<>>
    /\ LET person == Head(todo[t])
       IN  IF person \in people
           THEN /\ ptr' = [ptr EXCEPT ![t] = person]
                /\ rest' = [rest EXCEPT ![t] = list[t]]
                /\ Goto(t, "unpin_place")
                /\ UNCHANGED todo
           ELSE /\ todo' = [todo EXCEPT ![t] = Tail(@)]
                /\ UNCHANGED <<ptr, rest, pc>>
    /\ UNCHANGED dictionaries /\ LoopStep

\* Removing the last place removes the person, which frees the dictionary
\* that places_of_person still points to in the next pass of the loop.
UnpinPlace(t) ==
    /\ At(t, "unpin_place") /\ rest[t] # <<>> /\ ptr[t] # Dangling
    /\ LET left == placesOf[ptr[t]] \ {Head(rest[t])}
           last == Head(rest[t]) \in placesOf[ptr[t]] /\ left = {}
       IN  /\ placesOf' = [placesOf EXCEPT ![ptr[t]] = left]
           /\ people' = IF last THEN people \ {Head(todo[t])} ELSE people
           /\ ptr' = IF last THEN Freed({Head(todo[t])}) ELSE ptr
    /\ Goto(t, "unpin_mirror")
    /\ UNCHANGED <<places, peopleOf, todo, rest>> /\ LoopStep

\* Not the code: a place stays tracked when its last person is gone.
UnpinMirrorKeepsPlace(t) ==
    /\ At(t, "unpin_mirror")
    /\ peopleOf' = [peopleOf EXCEPT ![Head(rest[t])] = @ \ {Head(todo[t])}]
    /\ rest' = [rest EXCEPT ![t] = Tail(@)]
    /\ Goto(t, "unpin_place")
    /\ UNCHANGED <<people, placesOf, places, todo, ptr>> /\ LoopStep

UnpinMirror(t) ==
    /\ At(t, "unpin_mirror")
    /\ LET place == Head(rest[t])
           person == Head(todo[t])
           left == peopleOf[place] \ {person}
       IN  IF place \in places /\ person \in peopleOf[place]
           THEN /\ peopleOf' = [peopleOf EXCEPT ![place] = left]
                /\ places' = IF left = {} THEN places \ {place} ELSE places
           ELSE UNCHANGED <<places, peopleOf>>
    /\ rest' = [rest EXCEPT ![t] = Tail(@)]
    /\ Goto(t, "unpin_place")
    /\ UNCHANGED <<people, placesOf, todo, ptr>> /\ LoopStep

UnpinNextPerson(t) ==
    /\ At(t, "unpin_place") /\ rest[t] = <<>>
    /\ todo' = [todo EXCEPT ![t] = Tail(@)]
    /\ ptr' = [ptr EXCEPT ![t] = NULL]
    /\ Goto(t, "unpin_person")
    /\ UNCHANGED <<dictionaries, rest>> /\ LoopStep

ListsDone(t) ==
    /\ \/ At(t, "pin_person")
       \/ At(t, "unpin_person")
       \/ At(t, "import_person")
    /\ todo[t] = <<>>
    /\ Goto(t, "count")
    /\ UNCHANGED <<dictionaries, todo, rest, ptr>> /\ LoopStep

(***************************************************************************)
(* A loop uses its pointer after the dictionary was freed.  What the       *)
(* lookup then finds is the allocator's choice: dictionary_has_key reads   *)
(* wiped slots and says no, or the process dies.                           *)
(***************************************************************************)
Uses(t) ==
    \/ pc[t] \in {"pin_place", "unpin_place"} /\ rest[t] # <<>>
    \/ pc[t] = "import_person" /\ todo[t] # <<>>

UseAfterFree(t) ==
    /\ alive /\ Uses(t) /\ ptr[t] = Dangling
    /\ \/ alive' = FALSE /\ UNCHANGED pc
       \/ pc[t] = "unpin_place" /\ Goto(t, "unpin_mirror") /\ UNCHANGED alive
    /\ UNCHANGED <<dictionaries, data_sem, request, loops, fetched, reply, snap>>

(***************************************************************************)
(* /copy: data_sem is released while the other server is asked, so that a  *)
(* server can copy from itself.                                            *)
(***************************************************************************)
ReleaseForCopy(t) ==
    /\ Serves(t, {"copy_person", "copy_place"})
    /\ data_sem' = data_sem + 1
    /\ Goto(t, "fetch")
    /\ UNCHANGED <<dictionaries, alive, request, loops, fetched, reply, snap>>

\* The lists another thread of this server answers with, when asked.
OwnAnswer(r) ==
    Listings(IF r.op = "copy_person"
             THEN IF r.person \in people THEN placesOf[r.person] ELSE {}
             ELSE IF r.place \in places THEN peopleOf[r.place] ELSE {})

\* get_server_results.  Asked itself, the server answers in a thread that
\* takes data_sem, reads and releases it.
Fetch(t) ==
    /\ At(t, "fetch")
    /\ \/ /\ request[t].host = "self"
          /\ data_sem > 0
          /\ \E l \in OwnAnswer(request[t]) : fetched' = [fetched EXCEPT ![t] = Answered(l)]
       \/ /\ request[t].host = "peer"
          /\ \E a \in {NoAnswer, Refusal} \cup
                ListsAnswered(IF request[t].op = "copy_person" THEN PeerPlaces ELSE PeerPeople) :
                fetched' = [fetched EXCEPT ![t] = a]
    /\ Goto(t, "relock")
    /\ UNCHANGED <<dictionaries, data_sem, alive, request, loops, reply, snap>>

\* Not the code: the P after get_server_results is forgotten.
RelockWithoutP(t) ==
    /\ At(t, "relock")
    /\ snap' = Current
    /\ Goto(t, "import")
    /\ UNCHANGED <<dictionaries, data_sem, alive, request, loops, fetched, reply>>

\* P(&data_sem) after get_server_results.
Relock(t) ==
    /\ At(t, "relock")
    /\ data_sem > 0
    /\ data_sem' = data_sem - 1
    /\ snap' = Current
    /\ Goto(t, "import")
    /\ UNCHANGED <<dictionaries, alive, request, loops, fetched, reply>>

\* The list is NULL for any status but 200.
RefuseImport(t) ==
    /\ At(t, "import") /\ fetched[t].status = 500
    /\ Respond(t, BadRequest)
    /\ UNCHANGED <<dictionaries, loops>>

\* /copy of a person goes through the loops of /pin for the one person `as`.
ImportPlaces(t) ==
    /\ At(t, "import") /\ fetched[t].status # 500
    /\ request[t].op = "copy_person"
    /\ todo' = [todo EXCEPT ![t] = <<request[t].as>>]
    /\ list' = [list EXCEPT ![t] = fetched[t].list]
    /\ Goto(t, "pin_person")
    /\ UNCHANGED <<dictionaries, data_sem, alive, request, rest, ptr, fetched, reply, snap>>

\* /copy of a place pins on the place's side first.
ImportPeople(t) ==
    /\ At(t, "import") /\ fetched[t].status # 500
    /\ request[t].op = "copy_place"
    /\ LET as == request[t].as
       IN  /\ places' = places \cup {as}
           /\ peopleOf' = [peopleOf EXCEPT ![as] = IF as \in places THEN @ ELSE {}]
           /\ ptr' = [ptr EXCEPT ![t] = as]
    /\ todo' = [todo EXCEPT ![t] = fetched[t].list]
    /\ Goto(t, "import_person")
    /\ UNCHANGED <<people, placesOf, rest>> /\ LoopStep

ImportPerson(t) ==
    /\ At(t, "import_person") /\ todo[t] # <<>> /\ ptr[t] # Dangling
    /\ peopleOf' = [peopleOf EXCEPT ![ptr[t]] = @ \cup {Head(todo[t])}]
    /\ Goto(t, "import_mirror")
    /\ UNCHANGED <<people, placesOf, places, todo, rest, ptr>> /\ LoopStep

ImportMirror(t) ==
    /\ At(t, "import_mirror")
    /\ LET person == Head(todo[t])
       IN  /\ people' = people \cup {person}
           /\ placesOf' = [placesOf EXCEPT ![person] =
                              (IF person \in people THEN @ ELSE {}) \cup {request[t].as}]
    /\ todo' = [todo EXCEPT ![t] = Tail(@)]
    /\ Goto(t, "import_person")
    /\ UNCHANGED <<places, peopleOf, rest, ptr>> /\ LoopStep

(***************************************************************************)
(* The specification.                                                      *)
(***************************************************************************)
Step(t) ==
    \/ Lock(t) \/ Unlock(t) \/ AnswerQuery(t) \/ Reset(t) \/ Count(t) \/ StartLists(t)
    \/ PinPerson(t) \/ PinPlace(t) \/ PinMirror(t) \/ PinNextPerson(t)
    \/ UnpinPerson(t) \/ UnpinPlace(t) \/ UnpinMirror(t) \/ UnpinNextPerson(t)
    \/ ListsDone(t) \/ UseAfterFree(t)
    \/ ReleaseForCopy(t) \/ Fetch(t) \/ Relock(t) \/ RefuseImport(t)
    \/ ImportPlaces(t) \/ ImportPeople(t) \/ ImportPerson(t) \/ ImportMirror(t)

\* Every request was answered, or the process is gone.
Finished ==
    /\ ~alive \/ \A t \in Thread : pc[t] = "done"
    /\ UNCHANGED vars

Next == (\E t \in Thread : Arrive(t) \/ Step(t)) \/ Finished

Spec == Init /\ [][Next]_vars

\* The scheduler runs every thread that can run, and a peer that is asked
\* answers or breaks the connection.
FairSpec == Spec /\ \A t \in Thread : WF_vars(Step(t))

(***************************************************************************)
(* Properties.                                                             *)
(***************************************************************************)
Critical ==
    {"serve", "count", "unlock", "import",
     "pin_person", "pin_place", "pin_mirror",
     "unpin_person", "unpin_place", "unpin_mirror",
     "import_person", "import_mirror"}

InCritical(t) == pc[t] \in Critical

Labels == Critical \cup {"idle", "lock", "fetch", "relock", "done"}

TypeOK ==
    /\ people \in SUBSET Person /\ placesOf \in [Person -> SUBSET Place]
    /\ places \in SUBSET Place /\ peopleOf \in [Place -> SUBSET Person]
    /\ data_sem \in {0, 1}
    /\ alive \in BOOLEAN
    /\ pc \in [Thread -> Labels]
    /\ request \in [Thread -> Request \cup {NULL}]
    /\ todo \in [Thread -> Seq(Person)]
    /\ list \in [Thread -> Seq(Place)]
    /\ rest \in [Thread -> Seq(Place)]
    /\ ptr \in [Thread -> Person \cup Place \cup {NULL, Dangling}]
    /\ fetched \in [Thread -> FetchType \cup {NULL}]
    /\ reply \in [Thread -> ReplyType \cup {NULL}]
    /\ snap \in [people : SUBSET Person, places : SUBSET Place,
                 pins : SUBSET (Person \X Place)]

\* At most one thread is between P(&data_sem) and V(&data_sem), in doit or in
\* a /copy, and the semaphore is 0 exactly while there is one.
MutualExclusion ==
    /\ \A t, u \in Thread : InCritical(t) /\ InCritical(u) => t = u
    /\ data_sem = 1 <=> \A t \in Thread : ~InCritical(t)

\* Whenever the lock is free the two dictionaries tell the same pins: a place
\* is in a person's dictionary exactly when the person is in the place's, and
\* both are then tracked.
Mirrored ==
    data_sem = 1 =>
        \A p \in Person, q \in Place :
            /\ q \in placesOf[p] <=> p \in peopleOf[q]
            /\ q \in placesOf[p] => p \in people /\ q \in places

\* serve_request never follows a pointer to a dictionary that was freed
\* (dictionary.h: a result of dictionary_get can be destroyed by a change).
NoUseAfterFree == \A t \in Thread : ~(Uses(t) /\ ptr[t] = Dangling)

\* The pointers of /pin and /copy stay good: nothing is removed while their
\* loops run, and /copy looks its dictionary up only after it has the lock
\* back.
PinPointersLive ==
    \A t \in Thread :
        pc[t] \in {"pin_place", "pin_mirror", "import_person", "import_mirror"}
            => ptr[t] # Dangling

(***************************************************************************)
(* The registry implements the pin board: the requests of the threads take *)
(* effect one after the other, each when it releases data_sem.             *)
(***************************************************************************)
Shown == IF \E t \in Thread : InCritical(t) THEN snap ELSE Current

Board == INSTANCE PinBoard WITH
    Client <- Thread,
    people <- Shown.people, places <- Shown.places, pins <- Shown.pins,
    reply <- [t \in Thread |-> IF InCritical(t) THEN NULL ELSE reply[t]]

ImplementsPinBoard == Board!Spec

\* Every request is answered, unless the process dies of a use after free.
EveryRequestAnswered ==
    \A t \in Thread : pc[t] = "lock" ~> (reply[t] # NULL \/ ~alive)
=============================================================================
