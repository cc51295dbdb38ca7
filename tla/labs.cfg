SPECIFICATION LabsSpec
CONSTANTS
    Start = 32
    Modulus = 65536
    PageSize = 16
    AnySizes = {1, 33}
    AnyHeap = 224
    MaxLive = 7
    Args <- MCArgs
    N = 6
    Libraries <- MCLibraries
    Argv <- MCArgv
    Jobs <- MCJobs
INVARIANTS
    HeapSound PayloadKept
    Enforced Spared AsPredicted
    Answers ImageRight
PROPERTIES
    EveryTestPasses ImplementsBlockSet
    EveryWalkEnds
