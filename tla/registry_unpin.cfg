SPECIFICATION Spec
CONSTANTS
    alice = alice
    bob = bob
    office = office
    park = park
    NULL = NULL
    Dangling = Dangling
    Person = {alice, bob}
    Place = {office, park}
    Thread = {t1, t2}
    PeerPlaces <- MCPeerPlaces
    PeerPeople <- MCPeerPeople
    Request <- MCRequest
INVARIANT NoUseAfterFree
