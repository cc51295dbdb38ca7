SPECIFICATION Spec
CONSTANTS
    N = 6
    Libraries <- TailCalls
INVARIANT
    Enforced
