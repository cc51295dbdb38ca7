SPECIFICATION StringsSpec
CONSTANTS
    Key <- Strings
    Value <- Values
    Hash1 <- ci_hash
    Hash2 <- hash2
    Folded <- ci_folded
    InitialSize = 2
    NULL = NULL
    REMOVED = REMOVED
    v1 = v1
    v2 = v2
    v3 = v3
    v4 = v4
    v5 = v5
    RIO_BUFSIZE = 7
    MAXLINE = 36
    Ask <- MCAsk
    Known <- MCKnown
SYMMETRY Symmetry
INVARIANTS
    TypesOK
    CountsAgree WalksEnd Findable
    PinAsSent NamesKept CopyImports SplitFits DiesOnlyOf NoWaiting
PROPERTY ImplementsStringMap
