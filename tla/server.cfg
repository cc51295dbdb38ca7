SPECIFICATION FairSpec
CONSTANTS
    good = good
    bad = bad
    Client = {good, bad}
    Good = {good}
    Ask = {"small", "big", "garbage", "copy"}
    MaxFd = 2
    Peer = Peer
    NULL = NULL
CHECK_DEADLOCK FALSE
INVARIANTS
    TypeOK
    HandOver
    DescriptorsAccounted
PROPERTY GoodAnswered
