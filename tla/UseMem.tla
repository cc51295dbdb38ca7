------------------------------- MODULE UseMem -------------------------------
(***************************************************************************)
(* malloc/usemem.c: the driver of the allocator runs the scripts of its    *)
(* tests.  "any" stands for a client the driver is not: every order of     *)
(* legal calls.                                                            *)
(***************************************************************************)
EXTENDS Scripts

VARIABLES
    arg, phase,     \* the command line; "running", "passed" or "exit1"
    round, calls,    \* the next round, and the calls that are left of this one
    p               \* the pointers the driver holds

driverVars == <<heapVars, arg, phase, round, calls, p>>

-----------------------------------------------------------------------------
DriverInit ==
    /\ arg \in Args /\ phase = "running" /\ round = 0 /\ calls = << >>
    /\ p = << >>
    /\ mem = mm_init(FirstHeap(arg).size).mem /\ free_list = mm_init(FirstHeap(arg).size).free_list
    /\ heap_size = FirstHeap(arg).size
    /\ live = << >> /\ call = [op |-> "init", size |-> heap_size - 32, at |-> Start + 24]

driving == <<arg, phase, round>>
op == Head(calls)

NextRound ==
    /\ phase = "running" /\ calls = << >> /\ round < Rounds(arg) /\ arg.which # "any"
    /\ calls' = Script(arg, round) /\ round' = round + 1
    /\ UNCHANGED <<heapVars, arg, phase, p>>

NewHeap ==
    /\ calls # << >> /\ op.op = "init"
    /\ init_heap(op.size) /\ p' = << >>
    /\ calls' = Tail(calls) /\ UNCHANGED driving

\* checked_malloc: exit(1) unless the block is there, aligned and in the heap.
Bad(q, size) == q % 16 # 0 \/ q < Start \/ q >= Start + heap_size \/ q + size > Start + heap_size

Got == call'.at + 8     \* what mm_malloc returned, if it was not NULL

checked_malloc ==
    /\ phase = "running" /\ calls # << >> /\ op.op \in {"malloc", "fill"}
    /\ mm_malloc(op.size, op.key)
    /\ LET q == IF call'.at = 0 THEN NULL ELSE Got
           more == op.i + 1
       IN  /\ p' = [i \in DOMAIN p \cup {op.i} |-> IF i = op.i THEN q ELSE p[i]]
           /\ phase' = IF (q = NULL /\ ~op.ok) \/ (q # NULL /\ Bad(q, op.size)) THEN "exit1" ELSE phase
           /\ calls' = CASE op.op = "malloc" -> Tail(calls)
                        [] op.op = "fill" /\ q # NULL ->
                               <<FillOp(more, Varied(arg.s, round - 1, more), more + round - 1)>>
                        [] OTHER -> Frees(Upto(op.i))
    /\ UNCHANGED <<arg, round>>

Free ==
    /\ phase = "running" /\ calls # << >> /\ op.op = "free"
    /\ IF p[op.i] = NULL THEN UNCHANGED heapVars ELSE mm_free(p[op.i])
    /\ p' = [p EXCEPT ![op.i] = NULL]
    /\ calls' = Tail(calls) /\ UNCHANGED driving

Pass ==
    /\ phase = "running" /\ calls = << >> /\ round = Rounds(arg) /\ arg.which # "any"
    /\ phase' = "passed" /\ UNCHANGED <<heapVars, arg, round, calls, p>>

AnyCall ==
    /\ arg.which = "any"
    /\ \/ /\ Cardinality(DOMAIN live) < MaxLive
          /\ \E size \in AnySizes : mm_malloc(size, 0)
       \/ \E bp \in DOMAIN live : mm_free(bp)
    /\ UNCHANGED <<arg, phase, round, calls, p>>

Done == phase # "running" /\ UNCHANGED driverVars

DriverNext == NextRound \/ NewHeap \/ checked_malloc \/ Free \/ Pass \/ AnyCall \/ Done
DriverSteps == NextRound \/ NewHeap \/ checked_malloc \/ Free \/ Pass
DriverSpec == DriverInit /\ [][DriverNext]_driverVars /\ WF_driverVars(DriverSteps)
-----------------------------------------------------------------------------
\* Every test ends with "Passed": no call refuses what the heap was made
\* for, so splitting and joining give back all that was freed.
Passes == arg.which # "any" => <>(phase = "passed")

Promise == INSTANCE BlockSet WITH
    Extent <- real_size,
    region <- [lo |-> Start + 24, hi |-> End - 8],
    blocks <- [b \in {HDRP(bp) : bp \in Allocated} |-> GET_SIZE(mem, b)],
    call <- call

\* The tagged heap is an allocator as BlockSet has it.  In particular NULL
\* means that no gap between the live blocks is large enough: whatever was
\* freed around it has been joined again and is in the free list.
ImplementsBlockSet == Promise!Spec
=============================================================================
