SPECIFICATION Spec
CONSTANTS
    RIO_BUFSIZE = 7
    MAXLINE = 36
    Ask <- MCAsk
    Known <- MCKnown
INVARIANT NamesIntact
