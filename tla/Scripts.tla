------------------------------ MODULE Scripts ------------------------------
(***************************************************************************)
(* malloc/usemem.c: each test of the driver is a script of calls, laid out *)
(* round by round, on heaps without a page to spare.                       *)
(***************************************************************************)
EXTENDS Heap, SequencesExt

CONSTANTS
    Args,         \* command lines: [which, n, s, iters, compact]
    PageSize,     \* getpagesize()
    AnySizes, AnyHeap, MaxLive    \* what "any" asks for, of which heap, and its blocks

Tests == {"single", "singles", "excessive", "shrinking", "growing", "timing"}

ASSUME UseMemAssumption ==
    /\ \A a \in Args : /\ a.which \in Tests \cup {"any"} /\ a.compact \in BOOLEAN
                       /\ a.n \in Nat /\ a.s \in Nat \ {0} /\ a.iters \in Nat
    /\ PageSize \in Nat \ {0} /\ PageSize % 16 = 0

\* Calls: malloc into p[i], free p[i] (maybe only if it is not NULL), fill
\* the heap from index i on, or make a new heap.
MallocOp(i, size, key, fail_ok) == [op |-> "malloc", i |-> i, size |-> size, key |-> key, ok |-> fail_ok]
FillOp(i, size, key) == [op |-> "fill", i |-> i, size |-> size, key |-> key, ok |-> TRUE]
FreeOp(i) == [op |-> "free", i |-> i]
InitOp(size) == [op |-> "init", size |-> size]

Upto(n) == [i \in 1..n |-> i - 1]
Downto(n) == Reverse(Upto(n))
IS_ODD(i) == i % 2 = 1
IS_EVEN(i) == i % 2 = 0
Frees(is) == [k \in DOMAIN is |-> FreeOp(is[k])]
Mallocs(is, sizes, j) == [k \in DOMAIN is |-> MallocOp(is[k], sizes[k], is[k] + j, FALSE)]
All(is, size) == [k \in DOMAIN is |-> size]
OddThenEven(n, odds) == Frees(SelectSeq(odds, IS_ODD)) \o Frees(SelectSeq(Downto(n), IS_EVEN))

heap_bytes(n, min_size, total, compact) ==
    LET max_pad == ALIGN(min_size) - min_size
        need == n * ((IF compact THEN 16 ELSE 32) + max_pad) + total + 64
    IN  ((need + PageSize - 1) \div PageSize) * PageSize

single(s, j) ==
    <<MallocOp(0, s, j, FALSE), MallocOp(1, s, j + 1, TRUE), FreeOp(1), FreeOp(0)>>

\* n_ish: half of the first power of 2 that is not below n.
n_ish(n) == CHOOSE m \in {2 ^ e : e \in 0..n} : m * 2 >= n /\ \A l \in {2 ^ e : e \in 0..n} : l < m => l * 2 < n
Quarter(n) == [i \in 1..n \div 2 |-> (17 + 7 * (i - 1)) % n_ish(n)]

singles(n, s, j) ==
    Mallocs(Upto(n), All(Upto(n), s), j) \o
    CASE j % 4 = 0 -> Frees(Upto(n))
      [] j % 4 = 1 -> Frees(Downto(n))
      [] j % 4 = 2 -> OddThenEven(n, Upto(n))
      [] j % 8 = 3 -> Frees(Quarter(n)) \o Frees(SelectSeq(Upto(n), LAMBDA i : i \notin ToSet(Quarter(n))))
      [] j % 8 = 7 -> Frees(Quarter(n)) \o Mallocs(Quarter(n), All(Quarter(n), s), j) \o Frees(Upto(n))

Varied(s, j, i) == s + ((i + j) % s)

shrinking(n, s, k) ==
    LET n2 == 2 ^ (k - 1)
    IN  Mallocs(Upto(n2), All(Upto(n2), (n \div 2 ^ k) * s), 0) \o OddThenEven(n2, Downto(n2))

growing(n, s, j, k) ==
    LET m == n \div 2 ^ k
    IN  Mallocs(Upto(m), All(Upto(m), s * 2 ^ k), j) \o OddThenEven(m, Downto(m))

do_alloc_timing(n, s, j) ==
    LET odds == SelectSeq(Upto(n), IS_ODD)
            varied(is) == [k \in DOMAIN is |-> Varied(s, j, is[k])]
    IN  Mallocs(Upto(n), varied(Upto(n)), j) \o Frees(odds)
            \o Mallocs(odds, varied(odds), j) \o Frees(Upto(n))

\* The halvings of n: while (n >> k > 0).
Halvings(n) == CHOOSE k \in 0..n : n \div 2 ^ k = 0 /\ \A l \in 0..k - 1 : n \div 2 ^ l > 0

Rounds(a) ==
    CASE a.which = "any" -> 1
      [] a.which = "shrinking" -> Halvings(a.n) - 1
      [] a.which = "growing" -> a.iters * Halvings(a.n)
      [] a.which = "timing" -> 2 * a.iters
      [] OTHER -> a.iters

FirstHeap(a) ==
    CASE a.which = "any" -> InitOp(AnyHeap)
      [] a.which = "single" -> InitOp(heap_bytes(1, a.s, a.s, a.compact))
      [] a.which = "shrinking" -> InitOp(heap_bytes(a.n, 1, a.n * a.s, a.compact))
      [] a.which = "timing" -> InitOp(heap_bytes(a.n, 2 * a.s, a.n * 2 * a.s, a.compact))
      [] OTHER -> InitOp(heap_bytes(a.n, a.s, a.n * a.s, a.compact))

Script(a, r) ==
    CASE a.which = "any" -> << >>
      [] a.which = "single" -> single(a.s, r)
      [] a.which = "singles" -> singles(a.n, a.s, r)
      [] a.which = "excessive" -> <<FillOp(0, Varied(a.s, r, 0), r)>>
      [] a.which = "shrinking" -> shrinking(a.n, a.s, r + 1)
      [] a.which = "growing" -> growing(a.n, a.s, r \div Halvings(a.n), r % Halvings(a.n))
      [] a.which = "timing" /\ r < a.iters -> do_alloc_timing(a.n, a.s, r)
      [] a.which = "timing" /\ r = a.iters -> <<InitOp(heap_bytes(4 * a.n, 2 * a.s, 4 * a.n * 2 * a.s, a.compact))>>
                                                 \o do_alloc_timing(4 * a.n, a.s, 0)
      [] OTHER -> do_alloc_timing(4 * a.n, a.s, r - a.iters)

\* What makes calls legal for a client that has pointers to free at the indices
\* given: sizes that do not wrap around, heaps with room for a block, and free
\* only of what was asked for.
Fits(size) == size \in Nat /\ MAX(size, LIST_NODE) + OVERHEAD + 15 < Modulus
GoodHeap(size) == size \in Nat /\ size % 16 = 0 /\ size >= 64
Legal(s, given) ==
    \A k \in DOMAIN s :
        /\ s[k].op = "init" => k = 1 /\ GoodHeap(s[k].size)
        /\ s[k].op \in {"malloc", "fill"} => Fits(s[k].size) /\ s[k].i \in Nat /\ s[k].key \in Int
        /\ s[k].op = "fill" => k = Len(s) /\ 0..s[k].i - 1 \subseteq given
        /\ s[k].op = "free" => s[k].i \in given \/ \E l \in 1..k - 1 : s[l].op = "malloc" /\ s[l].i = s[k].i

ASSUME ScriptsAssumption ==
    /\ \A size \in AnySizes : Fits(size)
    /\ \A a \in Args : /\ GoodHeap(FirstHeap(a).size) /\ Fits(2 * a.s) /\ Rounds(a) \in Int
                       /\ \A r \in 0..Rounds(a) - 1 : LET s == Script(a, r) IN s \in Seq(ToSet(s)) /\ Legal(s, {})
=============================================================================
