-------------------------------- MODULE Heap --------------------------------
(***************************************************************************)
(* malloc/mm.c: a heap of blocks with a header and a footer each, and the  *)
(* free blocks in a doubly linked list that lives in their payloads.  The  *)
(* memory is words of 8 bytes at byte addresses; a word holds a tag (size  *)
(* plus allocated bit), a pointer, or what the client put there.           *)
(***************************************************************************)
EXTENDS Integers, FiniteSets

CONSTANTS
    Start,       \* the address of the heap, page-aligned
    Modulus      \* 2^w, for size_t of w bits

ASSUME HeapAssumption ==
    /\ Start \in Nat \ {0} /\ Start % 16 = 0
    /\ Modulus \in Nat \ {0} /\ Modulus % 16 = 0

VARIABLES
    mem, free_list, heap_size,
    live,    \* the client's blocks: payload address |-> [size, key]
    call     \* the last call, as in BlockSet

heapVars == <<mem, free_list, heap_size, live, call>>

NULL == 0
OVERHEAD == 16
LIST_NODE == 16
ALIGN(n) == LET m == (n + 15) % Modulus IN m - (m % 16)
MAX(a, b) == IF a > b THEN a ELSE b

HDRP(bp) == bp - 8
GET_ALLOC(m, p) == m[p] % 2
GET_SIZE(m, p) == m[p] - (m[p] % 16)
NEXT_BLKP(m, bp) == bp + GET_SIZE(m, HDRP(bp))
PREV_BLKP(m, bp) == bp - GET_SIZE(m, bp - OVERHEAD)

\* set_allocated and set_unallocated: FTRP goes by the header just written.
SetTags(m, bp, size, alloc) ==
    [m EXCEPT ![HDRP(bp)] = size + alloc, ![bp + size - OVERHEAD] = size + alloc]

\* The list operations work on h = [mem, free_list].
next_of(h, n) == h.mem[n]
prev_of(h, n) == h.mem[n + 8]
PutNext(m, n, v) == IF n = NULL THEN m ELSE [m EXCEPT ![n] = v]
PutPrev(m, n, v) == IF n = NULL THEN m ELSE [m EXCEPT ![n + 8] = v]

add_to_front_list(h, n) ==
    [mem |-> PutPrev(PutPrev(PutNext(h.mem, n, h.free_list), n, NULL), h.free_list, n),
     free_list |-> n]

replace_in_list(h, old, new) ==
    LET copied == PutPrev(PutNext(h.mem, new, next_of(h, old)), new, prev_of(h, old))
    IN  [mem |-> PutNext(PutPrev(copied, next_of(h, old), new), prev_of(h, old), new),
         free_list |-> IF h.free_list = old THEN new ELSE h.free_list]

\* Not the code: the head of the list is not moved on.
DeleteBehindHead(h, n) == [h EXCEPT !.mem = PutNext(PutPrev(@, next_of(h, n), prev_of(h, n)), prev_of(h, n), next_of(h, n))]

delete_from_list(h, n) ==
    [mem |-> PutNext(PutPrev(h.mem, next_of(h, n), prev_of(h, n)), prev_of(h, n), next_of(h, n)),
     free_list |-> IF h.free_list = n THEN next_of(h, n) ELSE h.free_list]
-----------------------------------------------------------------------------
\* mm_init.  mmap hands out zeroed pages; the word below the first header stays zero.
mm_init(size) ==
    LET bp == Start + 32
        zero == [a \in {Start + 8 * i : i \in 0..(size \div 8) - 1} |-> 0]
        tagged == SetTags([zero EXCEPT ![Start] = OVERHEAD + 1, ![Start + 8] = OVERHEAD + 1],
                          bp, size - 32, 0)
    IN  [mem |-> PutPrev(PutNext([tagged EXCEPT ![HDRP(Start + size)] = 1], bp, NULL), bp, NULL),
         free_list |-> bp]

real_size(size) == ALIGN(MAX(size, LIST_NODE) + OVERHEAD)

\* Not the code: only the first free block is tried.
HeadFit(h, need) ==
    IF h.free_list = NULL \/ GET_SIZE(h.mem, HDRP(h.free_list)) < need THEN NULL ELSE h.free_list

\* Not the code: sizes are not compared.
AnyFit(h, need) == h.free_list

\* The search of mm_malloc: the first free block that is large enough, k blocks
\* at most from p on.  NULL is no address in the heap, and no list in it has more
\* blocks than it has words.
FirstFit(h, need) ==
    LET words == Cardinality(DOMAIN h.mem)
        Search[k \in 0..words] ==
            [p \in Int |-> IF k = 0 \/ p \notin DOMAIN h.mem THEN NULL
                           ELSE IF GET_SIZE(h.mem, HDRP(p)) >= need THEN p
                           ELSE Search[k - 1][next_of(h, p)]]
    IN  Search[words][h.free_list]

\* Not the code: room for a node, none for its tags.
SmallerThanNode(rest) == rest < LIST_NODE
TooSmall(rest) == rest < LIST_NODE + OVERHEAD

\* What mm_malloc makes of the free block p.
Place(h, p, need) ==
    LET available == GET_SIZE(h.mem, HDRP(p))
        head == SetTags(h.mem, p, need, 1)
        rest == NEXT_BLKP(head, p)
    IN  IF TooSmall(available - need)
        THEN delete_from_list([h EXCEPT !.mem = SetTags(h.mem, p, available, 1)], p)
        ELSE replace_in_list([h EXCEPT !.mem = SetTags(head, rest, available - need, 0)], p, rest)

\* Not the code: the block behind is never joined.
KeepsNext(m, bp) == TRUE
prev_allocated(m, bp) == GET_ALLOC(m, HDRP(PREV_BLKP(m, bp))) = 1
next_allocated(m, bp) == GET_ALLOC(m, HDRP(NEXT_BLKP(m, bp))) = 1

\* The four cases of mm_free.
Release(h, bp) ==
    LET m == h.mem
        size == GET_SIZE(m, HDRP(bp))
        after == NEXT_BLKP(m, bp)
        before == PREV_BLKP(m, bp)
        Free(at, n) == [h EXCEPT !.mem = SetTags(m, at, n, 0)]
    IN  CASE prev_allocated(m, bp) /\ next_allocated(m, bp) ->
                add_to_front_list(Free(bp, size), bp)
          [] prev_allocated(m, bp) /\ ~next_allocated(m, bp) ->
                replace_in_list(Free(bp, size + GET_SIZE(m, HDRP(after))), after, bp)
          [] ~prev_allocated(m, bp) /\ next_allocated(m, bp) ->
                Free(before, size + GET_SIZE(m, HDRP(before)))
          [] OTHER ->
                delete_from_list(Free(before, size + GET_SIZE(m, HDRP(before)) + GET_SIZE(m, HDRP(after))), after)
-----------------------------------------------------------------------------
heap == [mem |-> mem, free_list |-> free_list]
Becomes(g) == mem' = g.mem /\ free_list' = g.free_list

\* The words that size bytes at bp touch, and what fill() makes of them.
Words(bp, size) == {bp + 8 * i : i \in 0..((size + 7) \div 8) - 1}
FilledWith(key) == 4096 + (key % 256)
fill(m, bp, size, key) == [a \in DOMAIN m |-> IF a \in Words(bp, size) THEN FilledWith(key) ELSE m[a]]

init_heap(size) ==
    /\ \E g \in {mm_init(size)} : Becomes(g)
    /\ heap_size' = size
    /\ live' = << >>
    /\ call' = [op |-> "init", size |-> size - 32, at |-> Start + 24]

\* mm_malloc, and the client that fills what it is given.
mm_malloc(size, key) ==
    \E p \in {FirstFit(heap, real_size(size))} :
        /\ \/ p = NULL /\ UNCHANGED <<mem, free_list, live>>
           \/ /\ p # NULL
              /\ \E g \in {Place(heap, p, real_size(size))} :
                    Becomes([g EXCEPT !.mem = fill(g.mem, p, size, key)])
              /\ live' = [b \in DOMAIN live \cup {p} |->
                             IF b = p THEN [size |-> size, key |-> key] ELSE live[b]]
        /\ call' = [op |-> "malloc", size |-> size, at |-> IF p = NULL THEN 0 ELSE HDRP(p)]
        /\ UNCHANGED heap_size

mm_free(bp) ==
    /\ \E g \in {Release(heap, bp)} : Becomes(g)
    /\ live' = [b \in DOMAIN live \ {bp} |-> live[b]]
    /\ call' = [op |-> "free", size |-> 0, at |-> HDRP(bp)]
    /\ UNCHANGED heap_size
-----------------------------------------------------------------------------
End == Start + heap_size    \* the terminator's payload, had it one

\* The blocks as their headers chain them up, from the first one on.
Blocks ==
    LET Chain[bp \in {a + 8 : a \in DOMAIN mem}] ==
            IF bp = End THEN {}
            ELSE {bp} \cup LET n == GET_SIZE(mem, HDRP(bp))
                           IN  IF n < 32 \/ bp + n > End THEN {} ELSE Chain[bp + n]
    IN  Chain[Start + 32]

Allocated == {bp \in Blocks : GET_ALLOC(mem, HDRP(bp)) = 1}
Unallocated == Blocks \ Allocated

\* The blocks tile the heap up to its terminator, header and footer of each
\* agree, no two free blocks are neighbours, and the allocated blocks are
\* those that the client holds: however it mixes its calls.
WellTagged ==
    LET blocks == Blocks
        held == DOMAIN live
    IN  /\ \A bp \in blocks : LET n == GET_SIZE(mem, HDRP(bp)) IN
              /\ n >= 32 /\ bp + n \in blocks \cup {End}
              /\ mem[bp + n - OVERHEAD] = mem[HDRP(bp)]
              /\ bp \notin held => bp + n \in held \cup {End}
        /\ mem[HDRP(End)] = 1
        /\ Allocated = held

\* The free list is a proper doubly linked list of all free blocks: none is
\* lost, none is in it twice, and no link leads to a block that is in use.
FreeListExact ==
    LET free == Unallocated
        n == Cardinality(free)
        Node[k \in 0..n] == IF k = 0 THEN free_list
                            ELSE LET b == Node[k - 1] IN IF b \in free THEN next_of(heap, b) ELSE NULL
    IN  /\ {Node[k] : k \in 0..n - 1} = free /\ Node[n] = NULL
        /\ \A k \in 0..n - 1 : prev_of(heap, Node[k]) = IF k = 0 THEN NULL ELSE Node[k - 1]

\* The two structures in the heap, which every call reads and writes both.
HeapSound == WellTagged /\ FreeListExact

\* No call writes to a block that the client holds: check() never exits.
PayloadKept ==
    \A bp \in DOMAIN live : \A a \in Words(bp, live[bp].size) :
        a \in DOMAIN mem /\ mem[a] = FilledWith(live[bp].key)
=============================================================================
