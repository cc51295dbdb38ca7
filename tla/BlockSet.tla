------------------------------ MODULE BlockSet ------------------------------
(***************************************************************************)
(* What an allocator promises: it hands out disjoint, aligned blocks of    *)
(* its region that are large enough, and refuses only when no gap between  *)
(* the blocks it has handed out, tags included, would hold the block.      *)
(***************************************************************************)
EXTENDS Integers

CONSTANT Extent(_)    \* what a request of some bytes takes, tags included

VARIABLES
    region,    \* [lo, hi]: the bytes that blocks may occupy
    blocks,    \* the blocks handed out: first byte of the block |-> extent
    call       \* the last call: [op, size, at], at = 0 for a refusal

FreeAt(b, n) ==
    /\ b >= region.lo /\ b + n <= region.hi
    /\ \A o \in DOMAIN blocks : b + n <= o \/ o + blocks[o] <= b

\* Where the gaps between the blocks begin.
GapStarts == {region.lo} \cup {o + blocks[o] : o \in DOMAIN blocks}

Init ==
    /\ blocks = << >>
    /\ call = [op |-> "init", size |-> region.hi - region.lo, at |-> region.lo]

\* A gap may be up to 16 bytes larger than the block needs: a smaller rest
\* could not be a block.
Malloc ==
    /\ call'.op = "malloc" /\ region' = region
    /\ \/ /\ call'.at # 0 /\ (call'.at + 8) % 16 = 0
          /\ \E n \in {Extent(call'.size), Extent(call'.size) + 16} :
                /\ FreeAt(call'.at, n)
                /\ blocks' = [b \in DOMAIN blocks \cup {call'.at} |->
                                 IF b = call'.at THEN n ELSE blocks[b]]
       \/ /\ call'.at = 0 /\ blocks' = blocks
          /\ \A b \in GapStarts : ~FreeAt(b, Extent(call'.size))

Free ==
    /\ call'.op = "free" /\ region' = region
    /\ call'.at \in DOMAIN blocks
    /\ blocks' = [b \in DOMAIN blocks \ {call'.at} |-> blocks[b]]

\* A second mm_init forgets everything.
Reset == Init'

Next == Malloc \/ Free \/ Reset

Spec == Init /\ [][Next]_<<region, blocks, call>>
=============================================================================
