----------------------------- MODULE MCRegistry -----------------------------
(***************************************************************************)
(* A small instance of RedpinRegistry for TLC.                             *)
(***************************************************************************)
EXTENDS RedpinRegistry

CONSTANTS alice, bob, office, park

MCPeerPlaces == {<<office, park>>}
MCPeerPeople == {<<alice>>}

Lists(op, ps, qs) == [op |-> op, people |-> ps, places |-> qs]

\* Requests that meet on the same two people and places: the lists overlap
\* and a place is given twice to /unpin.  The queries differ only in which
\* set they read: the counts and one list of names stand for them.
MCRequest ==
    {Lists("pin", <<alice, bob>>, <<office, park>>),
     Lists("unpin", <<alice, bob>>, <<park, park>>),
     Lists("unpin", <<alice>>, <<office, park>>),
     Lists("pin", <<bob>>, <<>>),
     [op |-> "counts"], [op |-> "reset"],
     [op |-> "people_of", place |-> office],
     [op |-> "copy_person", host |-> "self", person |-> alice, as |-> bob],
     [op |-> "copy_place", host |-> "self", place |-> office, as |-> park],
     [op |-> "copy_place", host |-> "peer", place |-> park, as |-> office]}
=============================================================================
