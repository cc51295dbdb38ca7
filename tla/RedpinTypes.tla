---------------------------- MODULE RedpinTypes ----------------------------
(***************************************************************************)
(* Names, requests and replies of the redpin server (server/redpin.c),     *)
(* shared by the pin board it promises and by the server that keeps it.    *)
(*                                                                         *)
(* A person or a place is a member of a set; the two sets are disjoint     *)
(* because the code keeps them in two dictionaries, so the same text used  *)
(* for a person and for a place is two names here.                         *)
(***************************************************************************)
EXTENDS Integers, Sequences, FiniteSets

CONSTANTS
    Person, Place,   \* the names clients use
    PeerPlaces,      \* lists another redpin may answer to /places?person=
    PeerPeople,      \* lists another redpin may answer to /people?place=
    NULL

ASSUME NamesAssumption ==
    /\ IsFiniteSet(Person) /\ IsFiniteSet(Place)
    /\ Person \cap Place = {}
    /\ NULL \notin Person \cup Place
    /\ PeerPlaces \subseteq Seq(Place)
    /\ PeerPeople \subseteq Seq(Person)

(***************************************************************************)
(* A request after its URI and POST data were parsed into the query        *)
(* dictionary and its lists split at newlines.  "bad" is any query that    *)
(* serve_request does not recognise or that lacks an argument.             *)
(***************************************************************************)
ListRequest == [op : {"pin", "unpin"}, people : Seq(Person), places : Seq(Place)]
PlainRequest == [op : {"counts", "reset", "people", "places", "bad"}]
PeopleOfRequest == [op : {"people_of"}, place : Place]
PlacesOfRequest == [op : {"places_of"}, person : Person]
CopyPersonRequest ==
    [op : {"copy_person"}, host : {"self", "peer"}, person : Person, as : Person]
CopyPlaceRequest ==
    [op : {"copy_place"}, host : {"self", "peer"}, place : Place, as : Place]

RequestType ==
    ListRequest \cup PlainRequest \cup PeopleOfRequest \cup PlacesOfRequest
        \cup CopyPersonRequest \cup CopyPlaceRequest

\* What a client reads: two counts, a list of names in any order, or an error.
BadRequest == [status |-> 400]
Names(S) == [names |-> S]
Counts(people, places) ==
    [people |-> Cardinality(people), places |-> Cardinality(places)]

ReplyType ==
    {BadRequest} \cup [people : Nat, places : Nat]
        \cup [names : SUBSET Person] \cup [names : SUBSET Place]

\* The lists with exactly the members of S, each once: dictionary_keys gives
\* them in the order of the hash table, which no client may rely on.
Listings(S) ==
    {s \in [1..Cardinality(S) -> S] : \A i, j \in DOMAIN s : s[i] = s[j] => i = j}

Members(s) == {s[i] : i \in DOMAIN s}

(***************************************************************************)
(* How get_server_results can end.  status is the HTTP status of the peer, *)
(* 0 when there is no answer at all: Open_clientfd or the first read       *)
(* fails, the header loop is skipped and the zeroed buffer is returned,    *)
(* which splits into the empty list.                                       *)
(***************************************************************************)
NoAnswer == [status |-> 0, list |-> <<>>]
Refusal == [status |-> 500, list |-> <<>>]
Answered(list) == [status |-> 200, list |-> list]
ListsAnswered(lists) == {Answered(l) : l \in lists}

FetchType == [status : {0, 200, 500}, list : Seq(Person) \cup Seq(Place)]

ASSUME AnswersAssumption == NULL \notin FetchType
=============================================================================
