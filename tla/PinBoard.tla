------------------------------ MODULE PinBoard ------------------------------
(***************************************************************************)
(* What the redpin server promises its clients: a board of pins on which   *)
(* every request takes effect in one step, whatever other requests run at  *)
(* the same time.  /copy is the only request with two: the list is fetched *)
(* in one step and imported in a later one, and the board may change in    *)
(* between, because the list may come from another server.                 *)
(***************************************************************************)
EXTENDS RedpinTypes

CONSTANTS Client, Request

VARIABLES
    people,    \* the tracked people
    places,    \* the tracked places
    pins,      \* the pairs <<person, place>> pinned
    request,   \* the request of each client, NULL before it is sent
    fetched,   \* what a /copy got from the host it names, NULL before
    reply      \* what each client was told, NULL before

board == <<people, places, pins>>
vars == <<people, places, pins, request, fetched, reply>>

Init ==
    /\ people = {} /\ places = {} /\ pins = {}
    /\ request = [c \in Client |-> NULL]
    /\ fetched = [c \in Client |-> NULL]
    /\ reply = [c \in Client |-> NULL]

PeopleAt(q) == {p \in Person : <<p, q>> \in pins}
PlacesOf(p) == {q \in Place : <<p, q>> \in pins}

Send(c) ==
    /\ request[c] = NULL
    /\ \E r \in Request : request' = [request EXCEPT ![c] = r]
    /\ UNCHANGED <<board, fetched, reply>>

Asks(c, ops) ==
    /\ request[c] # NULL
    /\ request[c].op \in ops
    /\ reply[c] = NULL

Tell(c, answer) ==
    /\ reply' = [reply EXCEPT ![c] = answer]
    /\ UNCHANGED <<request, fetched>>

\* Queries report the board and leave it alone.
Query(c) ==
    /\ Asks(c, {"counts", "people", "places", "people_of", "places_of", "bad"})
    /\ LET r == request[c]
       IN  Tell(c, CASE r.op = "counts"    -> Counts(people, places)
                     [] r.op = "people"    -> Names(people)
                     [] r.op = "places"    -> Names(places)
                     [] r.op = "people_of" -> Names(PeopleAt(r.place))
                     [] r.op = "places_of" -> Names(PlacesOf(r.person))
                     [] r.op = "bad"       -> BadRequest)
    /\ UNCHANGED board

Reset(c) ==
    /\ Asks(c, {"reset"})
    /\ people' = {} /\ places' = {} /\ pins' = {}
    /\ Tell(c, Counts({}, {}))

\* Everyone in P visits everywhere in Q; a place is tracked once somebody
\* is pinned there, a person once mentioned.
Pin(c) ==
    /\ Asks(c, {"pin"})
    /\ LET P == Members(request[c].people)
           Q == Members(request[c].places)
       IN  /\ people' = people \cup P
           /\ places' = IF P = {} THEN places ELSE places \cup Q
           /\ pins' = pins \cup (P \X Q)
    /\ Tell(c, Counts(people', places'))

\* Whoever loses the last pin is no longer tracked.
Unpin(c) ==
    /\ Asks(c, {"unpin"})
    /\ LET gone == pins \cap (Members(request[c].people) \X Members(request[c].places))
           left == pins \ gone
       IN  /\ pins' = left
           /\ people' = people \ {p \in Person :
                 (\E q \in Place : <<p, q>> \in gone) /\ \A q \in Place : <<p, q>> \notin left}
           /\ places' = places \ {q \in Place :
                 (\E p \in Person : <<p, q>> \in gone) /\ \A p \in Person : <<p, q>> \notin left}
    /\ Tell(c, Counts(people', places'))

\* The host named by /copy answers.  The server itself answers from the
\* board of that moment.
Fetch(c) ==
    /\ Asks(c, {"copy_person", "copy_place"})
    /\ fetched[c] = NULL
    /\ LET r == request[c]
           answers == IF r.host = "self"
                      THEN ListsAnswered(Listings(IF r.op = "copy_person"
                                                  THEN PlacesOf(r.person)
                                                  ELSE PeopleAt(r.place)))
                      ELSE {NoAnswer, Refusal} \cup
                           ListsAnswered(IF r.op = "copy_person"
                                         THEN PeerPlaces ELSE PeerPeople)
       IN  \E a \in answers : fetched' = [fetched EXCEPT ![c] = a]
    /\ UNCHANGED <<board, request, reply>>

ImportPerson(c) ==
    /\ Asks(c, {"copy_person"})
    /\ fetched[c] # NULL /\ fetched[c].status # 500
    /\ LET Q == Members(fetched[c].list)
       IN  /\ people' = people \cup {request[c].as}
           /\ places' = places \cup Q
           /\ pins' = pins \cup ({request[c].as} \X Q)
    /\ Tell(c, Counts(people', places'))

ImportPlace(c) ==
    /\ Asks(c, {"copy_place"})
    /\ fetched[c] # NULL /\ fetched[c].status # 500
    /\ LET P == Members(fetched[c].list)
       IN  /\ places' = places \cup {request[c].as}
           /\ people' = people \cup P
           /\ pins' = pins \cup (P \X {request[c].as})
    /\ Tell(c, Counts(people', places'))

RefuseCopy(c) ==
    /\ Asks(c, {"copy_person", "copy_place"})
    /\ fetched[c] # NULL /\ fetched[c].status = 500
    /\ Tell(c, BadRequest)
    /\ UNCHANGED board

Next == \E c \in Client :
    \/ Send(c) \/ Query(c) \/ Reset(c) \/ Pin(c) \/ Unpin(c)
    \/ Fetch(c) \/ ImportPerson(c) \/ ImportPlace(c) \/ RefuseCopy(c)

Spec == Init /\ [][Next]_vars
=============================================================================
