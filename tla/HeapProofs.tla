----------------------------- MODULE HeapProofs -----------------------------
(***************************************************************************)
(* The allocator, for heaps of every size and clients of every kind that   *)
(* free only what they were given.                                         *)
(***************************************************************************)
EXTENDS UseMem, FiniteSetTheorems, WellFoundedInduction, TLAPS

-----------------------------------------------------------------------------
(* The inductive invariant.  A heap of hs bytes is sound if there are a     *)
(* function s from its blocks to their sizes and an enumeration l of its    *)
(* free blocks that its memory m is the picture of; lv is what the client   *)
(* holds.  Blocks and FreeListExact compute s and l from the memory.        *)

First == Start + 32
Top(hs) == Start + hs
Addrs(hs) == {Start + 8 * i : i \in 0..(hs \div 8) - 1}

\* The blocks are laid side by side, from the first one up to the terminator.
Tiles(s, hs) ==
    /\ DOMAIN s \subseteq Int /\ First \in DOMAIN s
    /\ \A b \in DOMAIN s : /\ b >= First /\ b % 16 = 0
                           /\ s[b] \in Nat /\ s[b] >= 32 /\ s[b] % 16 = 0
                           /\ b + s[b] <= Top(hs) /\ b + s[b] \in DOMAIN s \cup {Top(hs)}
    /\ \A b, c \in DOMAIN s : b < c => b + s[b] <= c
    /\ \A c \in DOMAIN s \cup {Top(hs)} : c = First \/ \E b \in DOMAIN s : b + s[b] = c

\* Header and footer of a block tell its size and whether it is in a, the
\* allocated ones; what the first block takes for the footer of a block before
\* it is zero, and the terminator is allocated.
TagOf(s, a, b) == IF b \in a THEN s[b] + 1 ELSE s[b]
Tagged(m, s, a, hs) ==
    /\ \A b \in DOMAIN s : m[b - 8] = TagOf(s, a, b) /\ m[b + s[b] - 16] = TagOf(s, a, b)
    /\ m[Start + 16] = 0 /\ m[Top(hs) - 8] = 1

\* Free blocks are no neighbours.
Joined(s, a, hs) == \A b \in DOMAIN s \ a : b + s[b] \in a \cup {Top(hs)}

\* The list through the free blocks f, l of n.
Enumerates(l, n, f) ==
    /\ n \in Nat /\ l \in [1..n -> f]
    /\ \A i, j \in 1..n : l[i] = l[j] => i = j
    /\ \A b \in f : \E i \in 1..n : l[i] = b
Linked(m, fl, l, n) ==
    /\ fl = IF n = 0 THEN NULL ELSE l[1]
    /\ \A i \in 1..n : /\ m[l[i]] = IF i = n THEN NULL ELSE l[i + 1]
                       /\ m[l[i] + 8] = IF i = 1 THEN NULL ELSE l[i - 1]

\* The two words of a node are in the heap and no other node's.
Nodes(f, A) ==
    \A x \in f : /\ x \in Int /\ x # NULL /\ x \in A /\ x + 8 \in A
                 /\ \A y \in f : x + 8 # y

IsList(m, fl, A, f) ==
    /\ m \in [A -> Int] /\ Nodes(f, A)
    /\ \E l, n : Enumerates(l, n, f) /\ Linked(m, fl, l, n)

\* The client's blocks hold what it put into them, and have room for it.
Kept(m, s, lv) ==
    \A b \in DOMAIN lv : /\ lv[b].size \in Nat /\ lv[b].size + 16 <= s[b]
                         /\ \A x \in Words(b, lv[b].size) : m[x] = FilledWith(lv[b].key)

\* What the memory says of blocks of sizes s, of which a are allocated.
Shows(m, fl, hs, s, a) ==
    /\ GoodHeap(hs) /\ m \in [Addrs(hs) -> Int]
    /\ Tiles(s, hs) /\ a \subseteq DOMAIN s
    /\ Tagged(m, s, a, hs) /\ Joined(s, a, hs)
    /\ IsList(m, fl, Addrs(hs), DOMAIN s \ a)
HeapOK(m, fl, hs, lv) == \E s : Shows(m, fl, hs, s, DOMAIN lv) /\ Kept(m, s, lv)

-----------------------------------------------------------------------------
(* Addresses and tags. *)

LEMMA StartFacts ==
    /\ Start \in Nat /\ Start > 0 /\ Start % 16 = 0 /\ First \in Nat /\ First % 16 = 0
    /\ Start >= 16
BY HeapAssumption DEF First

\* The words of the heap are the multiples of 8 in it.
LEMMA AddrsAre ==
    ASSUME NEW hs, GoodHeap(hs)
    PROVE  \A x : x \in Addrs(hs) <=> x \in Int /\ x % 8 = 0 /\ Start <= x /\ x < Top(hs)
<1>1. hs \in Nat /\ hs % 16 = 0 /\ Start \in Nat /\ Start % 16 = 0
  BY StartFacts DEF GoodHeap
<1>2. ASSUME NEW x, x \in Addrs(hs) PROVE x \in Int /\ x % 8 = 0 /\ Start <= x /\ x < Top(hs)
  <2>1. PICK i \in 0..(hs \div 8) - 1 : x = Start + 8 * i
    BY <1>2 DEF Addrs
  <2> QED
    BY <1>1, <2>1 DEF Top
<1>3. ASSUME NEW x \in Int, x % 8 = 0, Start <= x, x < Top(hs) PROVE x \in Addrs(hs)
  <2>1. (x - Start) \div 8 \in 0..(hs \div 8) - 1 /\ x = Start + 8 * ((x - Start) \div 8)
    BY <1>1, <1>3 DEF Top
  <2> QED
    BY <2>1 DEF Addrs
<1> QED
  BY <1>2, <1>3

\* A tag gives back the size and the bit it was made of.
LEMMA TagReads ==
    ASSUME NEW n \in Nat, n % 16 = 0
    PROVE  /\ n % 2 = 0 /\ n - (n % 16) = n
           /\ (n + 1) % 2 = 1 /\ (n + 1) - ((n + 1) % 16) = n
OBVIOUS

\* Two blocks share no word: what one is made of ends before the other begins.
LEMMA Apart ==
    ASSUME NEW s, NEW hs, Tiles(s, hs), NEW b \in DOMAIN s, NEW c \in DOMAIN s, b # c
    PROVE  (b + s[b] <= c /\ b + 32 <= c) \/ (c + s[c] <= b /\ c + 32 <= b)
<1>1. b \in Int /\ c \in Int /\ s[b] \in Nat /\ s[c] \in Nat /\ s[b] >= 32 /\ s[c] >= 32
  BY DEF Tiles
<1>2. (b < c => b + s[b] <= c) /\ (c < b => c + s[c] <= b)
  BY DEF Tiles
<1> QED
  BY <1>1, <1>2

\* The words of a block lie in the heap.
LEMMA InHeap ==
    ASSUME NEW s, NEW hs, GoodHeap(hs), Tiles(s, hs), NEW b \in DOMAIN s
    PROVE  /\ b - 8 \in Addrs(hs) /\ b + s[b] - 16 \in Addrs(hs) /\ b \in Addrs(hs) /\ b + 8 \in Addrs(hs)
           /\ b \in Nat /\ b # NULL /\ b % 16 = 0 /\ b >= First /\ s[b] \in Nat /\ s[b] >= 32 /\ s[b] % 16 = 0
           /\ b + s[b] <= Top(hs) /\ Top(hs) \in Nat /\ Top(hs) % 16 = 0
<1>1. /\ b \in Int /\ b % 16 = 0 /\ b >= First /\ s[b] \in Nat /\ s[b] >= 32 /\ s[b] % 16 = 0
      /\ b + s[b] <= Top(hs)
  BY DEF Tiles
<1>2. First = Start + 32 /\ Start \in Nat /\ Start % 16 = 0 /\ Top(hs) = Start + hs /\ hs \in Nat /\ hs % 16 = 0
  BY StartFacts DEF First, GoodHeap, Top
<1>3. (b - 8) % 8 = 0 /\ (b + s[b] - 16) % 8 = 0 /\ b % 8 = 0 /\ (b + 8) % 8 = 0
  BY <1>1
<1>4. Top(hs) \in Nat /\ Top(hs) % 16 = 0 /\ b # 0 /\ b \in Nat
  BY <1>1, <1>2
<1>5. /\ Start <= b - 8 /\ b - 8 < Top(hs) /\ Start <= b + s[b] - 16 /\ b + s[b] - 16 < Top(hs)
      /\ Start <= b /\ b < Top(hs) /\ Start <= b + 8 /\ b + 8 < Top(hs)
  BY <1>1, <1>2
<1>6. /\ b - 8 \in Addrs(hs) /\ b + s[b] - 16 \in Addrs(hs) /\ b \in Addrs(hs) /\ b + 8 \in Addrs(hs)
  <2>1. b - 8 \in Int /\ b + s[b] - 16 \in Int /\ b + 8 \in Int
    BY <1>1
  <2> QED
    BY <1>1, <1>3, <1>5, <2>1, AddrsAre
<1> QED
  BY <1>1, <1>4, <1>6 DEF NULL

\* What the macros read from a block's tags.
LEMMA Reads ==
    ASSUME NEW s, NEW hs, NEW m, NEW a, GoodHeap(hs), Tiles(s, hs), Tagged(m, s, a, hs), NEW b \in DOMAIN s
    PROVE  /\ GET_SIZE(m, HDRP(b)) = s[b] /\ GET_SIZE(m, b + s[b] - 16) = s[b]
           /\ GET_ALLOC(m, HDRP(b)) = (IF b \in a THEN 1 ELSE 0)
           /\ NEXT_BLKP(m, b) = b + s[b]
<1>1. s[b] \in Nat /\ s[b] % 16 = 0
  BY DEF Tiles
<1>2. m[b - 8] = TagOf(s, a, b) /\ m[b + s[b] - 16] = TagOf(s, a, b)
  BY DEF Tagged
<1>3. CASE b \in a
  <2>1. m[b - 8] = s[b] + 1 /\ m[b + s[b] - 16] = s[b] + 1
    BY <1>2, <1>3 DEF TagOf
  <2> QED
    BY <1>1, <1>3, <2>1, TagReads DEF GET_SIZE, GET_ALLOC, HDRP, NEXT_BLKP
<1>4. CASE b \notin a
  <2>1. m[b - 8] = s[b] /\ m[b + s[b] - 16] = s[b]
    BY <1>2, <1>4 DEF TagOf
  <2> QED
    BY <1>1, <1>4, <2>1, TagReads DEF GET_SIZE, GET_ALLOC, HDRP, NEXT_BLKP
<1> QED
  BY <1>3, <1>4

-----------------------------------------------------------------------------
(* The operations on the free list. *)

\* Nothing but the words of the nodes f is written.
Untouched(m, g, f) == \A x \in DOMAIN m : (\A y \in f : x # y /\ x # y + 8) => g[x] = m[x]

\* A node's links, which lead to nodes or nowhere.
LinksAt(f, l, n, m, fl, j) ==
    /\ n \in Nat /\ l[j] \in f /\ l[j] \in Int /\ l[j] # NULL
    /\ m[l[j]] = (IF j = n THEN NULL ELSE l[j + 1]) /\ m[l[j] + 8] = (IF j = 1 THEN NULL ELSE l[j - 1])
    /\ j = n \/ (j + 1 \in 1..n /\ l[j + 1] \in f /\ l[j + 1] \in Int /\ l[j + 1] # NULL /\ l[j + 1] # l[j])
    /\ j = 1 \/ (j - 1 \in 1..n /\ l[j - 1] \in f /\ l[j - 1] \in Int /\ l[j - 1] # NULL /\ l[j - 1] # l[j])
    /\ fl = l[1] /\ (fl = l[j] <=> j = 1)

LEMMA Links ==
    ASSUME NEW f, NEW l, NEW n \in Nat, NEW m, NEW fl, NEW A, Nodes(f, A), Enumerates(l, n, f), Linked(m, fl, l, n),
           NEW j \in 1..n
    PROVE  LinksAt(f, l, n, m, fl, j)
<1>1. n \in Nat /\ l \in [1..n -> f] /\ n # 0 /\ 1 \in 1..n
  BY DEF Enumerates
<1>2. j = n \/ j + 1 \in 1..n
  BY <1>1
<1>3. j = 1 \/ j - 1 \in 1..n
  BY <1>1
<1>4. \A i \in 1..n : l[i] \in f /\ l[i] \in Int /\ l[i] # NULL
  BY <1>1 DEF Nodes
<1>5. \A i \in 1..n : l[i] = l[j] => i = j
  BY DEF Enumerates
<1>6. m[l[j]] = (IF j = n THEN NULL ELSE l[j + 1]) /\ m[l[j] + 8] = (IF j = 1 THEN NULL ELSE l[j - 1])
  BY DEF Linked
<1>7. fl = l[1]
  BY <1>1 DEF Linked
<1>8. j + 1 # j /\ j - 1 # j
  BY <1>1
<1> QED
  BY <1>1, <1>2, <1>3, <1>4, <1>5, <1>6, <1>7, <1>8 DEF LinksAt

LEMMA ListAdd ==
    ASSUME NEW A, NEW f, NEW m, NEW fl, NEW h, h = [mem |-> m, free_list |-> fl], IsList(m, fl, A, f),
           NEW x, x \notin f, Nodes(f \cup {x}, A)
    PROVE  LET g == add_to_front_list(h, x)
           IN  IsList(g.mem, g.free_list, A, f \cup {x}) /\ Untouched(m, g.mem, f \cup {x})
<1> DEFINE g == add_to_front_list(h, x)
<1>1. PICK l, n : Enumerates(l, n, f) /\ Linked(m, fl, l, n)
  BY DEF IsList
<1>2. m \in [A -> Int] /\ Nodes(f, A) /\ n \in Nat /\ l \in [1..n -> f]
  BY <1>1 DEF IsList, Enumerates
<1>3. x \in Int /\ x # NULL /\ x \in A /\ x + 8 \in A
  BY DEF Nodes
<1>4. (n = 0 /\ fl = NULL) \/ (n > 0 /\ fl = l[1] /\ fl \in f /\ fl \in Int /\ fl # NULL /\ fl \in A /\ fl + 8 \in A /\ 1 \in 1..n)
  <2>1. n > 0 => 1 \in 1..n /\ l[1] \in f
    BY <1>2
  <2> QED
    BY <1>1, <1>2, <2>1 DEF Linked, Nodes
<1>5. fl \in Int /\ (fl # NULL => fl \in A /\ fl + 8 \in A)
  BY <1>4 DEF NULL
<1> DEFINE m1 == PutNext(m, x, fl)
           m2 == PutPrev(m1, x, NULL)
           m3 == PutPrev(m2, fl, x)
<1>6. m1 \in [A -> Int] /\ \A w \in A : m1[w] = IF w = x THEN fl ELSE m[w]
  <2>1. m1 \in [A -> Int] /\ \A w \in A : m1[w] = IF x # NULL /\ w = x THEN fl ELSE m[w]
    BY <1>2, <1>3, <1>5 DEF PutNext, PutPrev
  <2> QED
    BY <1>3, <2>1
<1> HIDE DEF m1
<1>7. m2 \in [A -> Int] /\ \A w \in A : m2[w] = IF w = x + 8 THEN NULL ELSE m1[w]
  <2>1. NULL \in Int
    BY DEF NULL
  <2>2. m2 \in [A -> Int] /\ \A w \in A : m2[w] = IF x # NULL /\ w = x + 8 THEN NULL ELSE m1[w]
    BY <1>3, <1>6, <2>1 DEF PutNext, PutPrev
  <2> QED
    BY <1>3, <2>2
<1> HIDE DEF m2
<1>8. m3 \in [A -> Int] /\ \A w \in A : m3[w] = IF fl # NULL /\ w = fl + 8 THEN x ELSE m2[w]
  BY <1>3, <1>5, <1>7 DEF PutNext, PutPrev
<1>9. g.mem = m3 /\ g.free_list = x
  BY DEF add_to_front_list, m1, m2
<1> HIDE DEF g, m3
<1>10. \A w \in A : g.mem[w] = IF fl # NULL /\ w = fl + 8 THEN x ELSE IF w = x + 8 THEN NULL ELSE IF w = x THEN fl ELSE m[w]
  BY <1>6, <1>7, <1>8, <1>9
<1>11. Untouched(m, g.mem, f \cup {x})
  <2>1. SUFFICES ASSUME NEW w \in A, \A y \in f \cup {x} : w # y /\ w # y + 8 PROVE g.mem[w] = m[w]
    BY <1>2 DEF Untouched
  <2> QED
    BY <1>4, <1>10, <2>1
<1> DEFINE k == [i \in 1..n + 1 |-> IF i = 1 THEN x ELSE l[i - 1]]
<1>12. Enumerates(k, n + 1, f \cup {x})
  <2>1. \A i \in 1..n + 1 : i = 1 \/ i - 1 \in 1..n
    BY <1>2
  <2>2. k \in [1..n + 1 -> f \cup {x}]
    BY <1>2, <2>1
  <2>3. \A i, j \in 1..n + 1 : k[i] = k[j] => i = j
    <3>1. SUFFICES ASSUME NEW i \in 1..n + 1, NEW j \in 1..n + 1, k[i] = k[j] PROVE i = j
      OBVIOUS
    <3>2. (i = 1 \/ i - 1 \in 1..n) /\ (j = 1 \/ j - 1 \in 1..n)
      BY <2>1
    <3>3. (i # 1 => l[i - 1] # x) /\ (j # 1 => l[j - 1] # x)
      BY <1>2, <3>2
    <3>4. i # 1 /\ j # 1 => i - 1 = j - 1
      BY <1>1, <3>1, <3>2 DEF Enumerates
    <3> QED
      BY <3>1, <3>2, <3>3, <3>4
  <2>4. \A b \in f \cup {x} : \E i \in 1..n + 1 : k[i] = b
    <3>1. k[1] = x /\ 1 \in 1..n + 1
      BY <1>2
    <3>2. ASSUME NEW b \in f PROVE \E i \in 1..n + 1 : k[i] = b
      <4>1. PICK i \in 1..n : l[i] = b
        BY <1>1 DEF Enumerates
      <4>2. i + 1 \in 1..n + 1 /\ i + 1 # 1 /\ i + 1 - 1 = i
        BY <1>2
      <4> QED
        BY <4>1, <4>2
    <3> QED
      BY <3>1, <3>2
  <2> QED
    BY <1>2, <2>2, <2>3, <2>4 DEF Enumerates
<1>13. Linked(g.mem, g.free_list, k, n + 1)
  <2>1. g.free_list = IF n + 1 = 0 THEN NULL ELSE k[1]
    BY <1>2, <1>9
  <2>2. ASSUME NEW i \in 1..n + 1
        PROVE  /\ g.mem[k[i]] = IF i = n + 1 THEN NULL ELSE k[i + 1]
               /\ g.mem[k[i] + 8] = IF i = 1 THEN NULL ELSE k[i - 1]
    <3>1. CASE i = 1
      <4>1. k[i] = x /\ (n > 0 => k[i + 1] = l[1])
        BY <1>2, <3>1
      <4>2. g.mem[x] = fl
        <5>1. fl # NULL => x # fl + 8
          BY <1>4 DEF Nodes
        <5> QED
          BY <1>3, <1>10, <5>1
      <4>3. g.mem[x + 8] = NULL
        <5>1. fl # NULL => x + 8 # fl + 8
          BY <1>3, <1>4
        <5> QED
          BY <1>3, <1>10, <5>1
      <4> QED
        BY <1>2, <1>4, <3>1, <4>1, <4>2, <4>3
    <3>2. CASE i # 1
      <4>1. PICK j \in 1..n : j = i - 1
        BY <1>2, <3>2
      <4>2. /\ l[j] \in f /\ l[j] \in Int /\ l[j] # NULL
            /\ m[l[j]] = (IF j = n THEN NULL ELSE l[j + 1]) /\ m[l[j] + 8] = (IF j = 1 THEN NULL ELSE l[j - 1])
            /\ fl = l[1] /\ (fl = l[j] <=> j = 1)
        BY <1>1, <1>2, <1>4 DEF Linked, Enumerates, Nodes
      <4>3. k[i] = l[j] /\ (i # n + 1 => k[i + 1] = l[j + 1]) /\ (k[i - 1] = IF j = 1 THEN x ELSE l[j - 1])
        BY <1>2, <4>1
      <4>4. l[j] \in A /\ l[j] + 8 \in A /\ l[j] # x /\ l[j] # x + 8 /\ l[j] + 8 # x /\ l[j] # fl + 8 /\ l[j] + 8 # x + 8
        <5>1. l[j] \in A /\ l[j] + 8 \in A /\ l[j] # x /\ l[j] + 8 # x /\ l[j] # x + 8
          BY <4>2 DEF Nodes
        <5>2. l[j] # fl + 8
          BY <1>4, <4>1, <4>2 DEF Nodes
        <5> QED
          BY <1>3, <4>2, <5>1, <5>2
      <4>5. g.mem[l[j]] = m[l[j]]
        BY <1>10, <4>4
      <4>6. g.mem[l[j] + 8] = IF j = 1 THEN x ELSE m[l[j] + 8]
        <5>1. fl + 8 = l[j] + 8 <=> j = 1
          BY <1>5, <4>2
        <5>2. fl # NULL
          BY <1>4, <4>1, <1>2
        <5> QED
          BY <1>10, <4>4, <5>1, <5>2
      <4> QED
        BY <1>2, <3>2, <4>1, <4>2, <4>3, <4>5, <4>6
    <3> QED
      BY <3>1, <3>2
  <2> QED
    BY <2>1, <2>2 DEF Linked
<1> QED
  <2>1. \E q, c : Enumerates(q, c, f \cup {x}) /\ Linked(g.mem, g.free_list, q, c)
    BY <1>12, <1>13
  <2> QED
    BY <1>8, <1>9, <1>11, <2>1 DEF IsList, g

LEMMA ListReplace ==
    ASSUME NEW A, NEW f, NEW m, NEW fl, NEW h, h = [mem |-> m, free_list |-> fl], IsList(m, fl, A, f),
           NEW old \in f, NEW x, x \notin f, Nodes(f \cup {x}, A)
    PROVE  LET g == replace_in_list(h, old, x)
           IN  IsList(g.mem, g.free_list, A, (f \ {old}) \cup {x}) /\ Untouched(m, g.mem, f \cup {x})
<1> DEFINE g == replace_in_list(h, old, x)
           e == (f \ {old}) \cup {x}
<1>1. PICK l, n : Enumerates(l, n, f) /\ Linked(m, fl, l, n)
  BY DEF IsList
<1>2. m \in [A -> Int] /\ Nodes(f, A) /\ n \in Nat /\ l \in [1..n -> f]
  BY <1>1 DEF IsList, Enumerates
<1>3. x \in Int /\ x # NULL /\ x \in A /\ x + 8 \in A
  BY DEF Nodes
<1>4. PICK j \in 1..n : l[j] = old
  BY <1>1 DEF Enumerates
<1>5. /\ old \in Int /\ old # NULL
      /\ m[old] = (IF j = n THEN NULL ELSE l[j + 1]) /\ m[old + 8] = (IF j = 1 THEN NULL ELSE l[j - 1])
      /\ j = n \/ (j + 1 \in 1..n /\ l[j + 1] \in f /\ l[j + 1] \in Int /\ l[j + 1] # NULL /\ l[j + 1] # l[j])
      /\ j = 1 \/ (j - 1 \in 1..n /\ l[j - 1] \in f /\ l[j - 1] \in Int /\ l[j - 1] # NULL /\ l[j - 1] # l[j])
      /\ fl = l[1] /\ (fl = old <=> j = 1)
  <2>1. LinksAt(f, l, n, m, fl, j)
    BY <1>1, <1>2, Links
  <2> QED
    BY <1>4, <2>1 DEF LinksAt
<1> DEFINE nx == m[old]
           pv == m[old + 8]
<1>6. /\ nx \in Int /\ (nx # NULL => nx \in f /\ nx \in A /\ nx + 8 \in A)
      /\ pv \in Int /\ (pv # NULL => pv \in f /\ pv \in A /\ pv + 8 \in A)
  BY <1>2, <1>5 DEF NULL, Nodes
<1>7. next_of(h, old) = nx /\ prev_of(h, old) = pv
  BY DEF next_of, prev_of
<1> HIDE DEF nx, pv
<1> DEFINE m1 == PutNext(m, x, nx)
           m2 == PutPrev(m1, x, pv)
           m3 == PutPrev(m2, nx, x)
           m4 == PutNext(m3, pv, x)
<1>8. m1 \in [A -> Int] /\ \A w \in A : m1[w] = IF w = x THEN nx ELSE m[w]
  <2>1. m1 \in [A -> Int] /\ \A w \in A : m1[w] = IF x # NULL /\ w = x THEN nx ELSE m[w]
    BY <1>2, <1>3, <1>6 DEF PutNext, PutPrev
  <2> QED
    BY <1>3, <2>1
<1> HIDE DEF m1
<1>9. m2 \in [A -> Int] /\ \A w \in A : m2[w] = IF w = x + 8 THEN pv ELSE m1[w]
  <2>1. m2 \in [A -> Int] /\ \A w \in A : m2[w] = IF x # NULL /\ w = x + 8 THEN pv ELSE m1[w]
    BY <1>3, <1>6, <1>8 DEF PutNext, PutPrev
  <2> QED
    BY <1>3, <2>1
<1> HIDE DEF m2
<1>10. m3 \in [A -> Int] /\ \A w \in A : m3[w] = IF nx # NULL /\ w = nx + 8 THEN x ELSE m2[w]
  BY <1>3, <1>6, <1>9 DEF PutNext, PutPrev
<1> HIDE DEF m3
<1>11. m4 \in [A -> Int] /\ \A w \in A : m4[w] = IF pv # NULL /\ w = pv THEN x ELSE m3[w]
  BY <1>3, <1>6, <1>10 DEF PutNext, PutPrev
<1>12. g.mem = m4 /\ g.free_list = IF fl = old THEN x ELSE fl
  BY <1>7 DEF replace_in_list, m1, m2, m3
<1> HIDE DEF g, m4
<1>13. \A w \in A : g.mem[w] = IF pv # NULL /\ w = pv THEN x
                               ELSE IF nx # NULL /\ w = nx + 8 THEN x
                               ELSE IF w = x + 8 THEN pv ELSE IF w = x THEN nx ELSE m[w]
  BY <1>8, <1>9, <1>10, <1>11, <1>12
<1>14. Untouched(m, g.mem, f \cup {x})
  <2>1. SUFFICES ASSUME NEW w \in A, \A y \in f \cup {x} : w # y /\ w # y + 8 PROVE g.mem[w] = m[w]
    BY <1>2 DEF Untouched
  <2> QED
    BY <1>6, <1>13, <2>1
<1> DEFINE k == [i \in 1..n |-> IF i = j THEN x ELSE l[i]]
<1>15. Enumerates(k, n, e)
  <2>1. \A i \in 1..n : i # j => l[i] # old
    BY <1>1, <1>4 DEF Enumerates
  <2>2. k \in [1..n -> e]
    BY <1>2, <2>1
  <2>3. \A i, c \in 1..n : k[i] = k[c] => i = c
    <3>1. \A i \in 1..n : l[i] # x
      BY <1>2
    <3>2. \A i, c \in 1..n : l[i] = l[c] => i = c
      BY <1>1 DEF Enumerates
    <3> QED
      BY <3>1, <3>2
  <2>4. \A b \in e : \E i \in 1..n : k[i] = b
    <3>1. k[j] = x
      OBVIOUS
    <3>2. ASSUME NEW b \in f, b # old PROVE \E i \in 1..n : k[i] = b
      <4>1. PICK i \in 1..n : l[i] = b
        BY <1>1 DEF Enumerates
      <4> QED
        BY <1>4, <3>2, <4>1
    <3> QED
      BY <3>1, <3>2
  <2> QED
    BY <1>2, <2>2, <2>3, <2>4 DEF Enumerates
<1>16. ASSUME NEW i \in 1..n, i # j
       PROVE  /\ l[i] \in A /\ l[i] + 8 \in A /\ l[i] # x /\ l[i] # x + 8 /\ l[i] + 8 # x /\ l[i] + 8 # x + 8
              /\ \A y \in f : l[i] # y + 8
              /\ m[l[i]] = (IF i = n THEN NULL ELSE l[i + 1]) /\ m[l[i] + 8] = (IF i = 1 THEN NULL ELSE l[i - 1])
              /\ (pv # NULL /\ pv = l[i]) <=> i + 1 = j
              /\ (nx # NULL /\ nx = l[i]) <=> i = j + 1
  <2>1. /\ l[i] \in f /\ l[i] \in Int /\ l[i] # NULL
        /\ m[l[i]] = (IF i = n THEN NULL ELSE l[i + 1]) /\ m[l[i] + 8] = (IF i = 1 THEN NULL ELSE l[i - 1])
    BY <1>1, <1>2 DEF Linked, Nodes
  <2>2. l[i] \in A /\ l[i] + 8 \in A /\ l[i] # x /\ l[i] # x + 8 /\ l[i] + 8 # x /\ l[i] + 8 # x + 8 /\ \A y \in f : l[i] # y + 8
    BY <1>3, <2>1 DEF Nodes
  <2>3. \A c \in 1..n : l[i] = l[c] => i = c
    BY <1>1 DEF Enumerates
  <2>4. (pv # NULL /\ pv = l[i]) <=> i + 1 = j
    <3>1. i + 1 = j => pv = l[i] /\ l[i] # NULL
      <4>1. i + 1 = j => j - 1 = i /\ j # 1
        BY <1>2
      <4> QED
        BY <1>5, <2>1, <4>1 DEF pv
    <3>2. pv # NULL /\ pv = l[i] => i = j - 1
      BY <1>5, <2>3 DEF pv
    <3> QED
      BY <1>2, <3>1, <3>2
  <2>5. (nx # NULL /\ nx = l[i]) <=> i = j + 1
    <3>1. i = j + 1 => nx = l[i]
      BY <1>2, <1>5, <2>1 DEF nx
    <3>2. nx # NULL /\ nx = l[i] => i = j + 1
      BY <1>5, <2>3 DEF nx
    <3> QED
      BY <1>2, <2>1, <3>1, <3>2
  <2> QED
    BY <2>1, <2>2, <2>4, <2>5
<1>17. Linked(g.mem, g.free_list, k, n)
  <2>1. g.free_list = IF n = 0 THEN NULL ELSE k[1]
    BY <1>2, <1>5, <1>12
  <2>2. ASSUME NEW i \in 1..n
        PROVE  /\ g.mem[k[i]] = IF i = n THEN NULL ELSE k[i + 1]
               /\ g.mem[k[i] + 8] = IF i = 1 THEN NULL ELSE k[i - 1]
    <3>1. CASE i = j
      <4>1. k[i] = x /\ (i # n => k[i + 1] = l[j + 1]) /\ (i # 1 => k[i - 1] = l[j - 1])
        BY <1>2, <3>1
      <4>2. /\ pv # NULL => x # pv /\ x + 8 # pv
            /\ nx # NULL => x # nx + 8 /\ x + 8 # nx + 8
        BY <1>3, <1>6 DEF Nodes
      <4>3. g.mem[x] = nx /\ g.mem[x + 8] = pv
        BY <1>3, <1>13, <4>2
      <4> QED
        BY <1>5, <3>1, <4>1, <4>3 DEF nx, pv
    <3>2. CASE i # j
      <4>1. k[i] = l[i] /\ (i # n => k[i + 1] = IF i + 1 = j THEN x ELSE l[i + 1])
                        /\ (i # 1 => k[i - 1] = IF i = j + 1 THEN x ELSE l[i - 1])
        BY <1>2, <3>2
      <4>2. g.mem[l[i]] = IF i + 1 = j THEN x ELSE m[l[i]]
        <5>1. nx # NULL => l[i] # nx + 8
          BY <1>6, <1>16, <3>2
        <5> QED
          BY <1>13, <1>16, <3>2, <5>1
      <4>3. g.mem[l[i] + 8] = IF i = j + 1 THEN x ELSE m[l[i] + 8]
        <5>1. pv # NULL => l[i] + 8 # pv
          <6>1. l[i] \in f
            BY <1>2
          <6> QED
            BY <1>2, <1>6, <6>1 DEF Nodes
        <5>2. (nx # NULL /\ l[i] + 8 = nx + 8) <=> i = j + 1
          <6>1. l[i] \in Int
            BY <1>2 DEF Nodes
          <6>2. l[i] + 8 = nx + 8 <=> nx = l[i]
            BY <1>6, <6>1
          <6> QED
            BY <1>16, <3>2, <6>2
        <5> QED
          BY <1>13, <1>16, <3>2, <5>1, <5>2
      <4> QED
        BY <1>2, <1>16, <3>2, <4>1, <4>2, <4>3
    <3> QED
      BY <3>1, <3>2
  <2> QED
    BY <2>1, <2>2 DEF Linked
<1> QED
  <2>1. \E q, c : Enumerates(q, c, e) /\ Linked(g.mem, g.free_list, q, c)
    BY <1>15, <1>17
  <2>2. Nodes(e, A)
    BY DEF Nodes
  <2> QED
    BY <1>11, <1>12, <1>14, <2>1, <2>2 DEF IsList, g

LEMMA ListDelete ==
    ASSUME NEW A, NEW f, NEW m, NEW fl, NEW h, h = [mem |-> m, free_list |-> fl], IsList(m, fl, A, f),
           NEW x \in f
    PROVE  LET g == delete_from_list(h, x)
           IN  IsList(g.mem, g.free_list, A, f \ {x}) /\ Untouched(m, g.mem, f)
<1> DEFINE g == delete_from_list(h, x)
           e == f \ {x}
<1>1. PICK l, n : Enumerates(l, n, f) /\ Linked(m, fl, l, n)
  BY DEF IsList
<1>2. m \in [A -> Int] /\ Nodes(f, A) /\ n \in Nat /\ l \in [1..n -> f]
  BY <1>1 DEF IsList, Enumerates
<1>3. PICK j \in 1..n : l[j] = x
  BY <1>1 DEF Enumerates
<1>4. /\ x \in Int /\ x # NULL
      /\ m[x] = (IF j = n THEN NULL ELSE l[j + 1]) /\ m[x + 8] = (IF j = 1 THEN NULL ELSE l[j - 1])
      /\ j = n \/ (j + 1 \in 1..n /\ l[j + 1] \in f /\ l[j + 1] \in Int /\ l[j + 1] # NULL /\ l[j + 1] # l[j])
      /\ j = 1 \/ (j - 1 \in 1..n /\ l[j - 1] \in f /\ l[j - 1] \in Int /\ l[j - 1] # NULL /\ l[j - 1] # l[j])
      /\ fl = l[1] /\ (fl = x <=> j = 1)
  <2>1. LinksAt(f, l, n, m, fl, j)
    BY <1>1, <1>2, Links
  <2> QED
    BY <1>3, <2>1 DEF LinksAt
<1> DEFINE nx == m[x]
           pv == m[x + 8]
<1>5. /\ nx \in Int /\ (nx # NULL => nx \in f /\ nx \in A /\ nx + 8 \in A)
      /\ pv \in Int /\ (pv # NULL => pv \in f /\ pv \in A /\ pv + 8 \in A)
  BY <1>2, <1>4 DEF NULL, Nodes
<1>6. next_of(h, x) = nx /\ prev_of(h, x) = pv
  BY DEF next_of, prev_of
<1> HIDE DEF nx, pv
<1> DEFINE m1 == PutPrev(m, nx, pv)
           m2 == PutNext(m1, pv, nx)
<1>7. m1 \in [A -> Int] /\ \A w \in A : m1[w] = IF nx # NULL /\ w = nx + 8 THEN pv ELSE m[w]
  BY <1>2, <1>5 DEF PutNext, PutPrev
<1> HIDE DEF m1
<1>8. m2 \in [A -> Int] /\ \A w \in A : m2[w] = IF pv # NULL /\ w = pv THEN nx ELSE m1[w]
  BY <1>5, <1>7 DEF PutNext, PutPrev
<1>9. g.mem = m2 /\ g.free_list = IF fl = x THEN nx ELSE fl
  BY <1>6 DEF delete_from_list, m1
<1> HIDE DEF g, m2
<1>10. \A w \in A : g.mem[w] = IF pv # NULL /\ w = pv THEN nx
                               ELSE IF nx # NULL /\ w = nx + 8 THEN pv ELSE m[w]
  BY <1>7, <1>8, <1>9
<1>11. Untouched(m, g.mem, f)
  <2>1. SUFFICES ASSUME NEW w \in A, \A y \in f : w # y /\ w # y + 8 PROVE g.mem[w] = m[w]
    BY <1>2 DEF Untouched
  <2> QED
    BY <1>5, <1>10, <2>1
<1> DEFINE k == [i \in 1..n - 1 |-> IF i < j THEN l[i] ELSE l[i + 1]]
<1>12. \A i \in 1..n - 1 : i \in 1..n /\ i + 1 \in 1..n
  BY <1>2
<1>13. Enumerates(k, n - 1, e)
  <2>1. \A i \in 1..n : i # j => l[i] # x
    BY <1>1, <1>3 DEF Enumerates
  <2>2. k \in [1..n - 1 -> e]
    <3>1. ASSUME NEW i \in 1..n - 1 PROVE k[i] \in e
      BY <1>2, <1>12, <2>1
    <3> QED
      BY <3>1
  <2>3. \A i, c \in 1..n - 1 : k[i] = k[c] => i = c
    <3>1. SUFFICES ASSUME NEW i \in 1..n - 1, NEW c \in 1..n - 1, k[i] = k[c] PROVE i = c
      OBVIOUS
    <3>2. \A u, v \in 1..n : l[u] = l[v] => u = v
      BY <1>1 DEF Enumerates
    <3>3. (i < j /\ c >= j => i = c + 1) /\ (i >= j /\ c < j => i + 1 = c)
      BY <1>12, <3>1, <3>2
    <3>4. (i < j /\ c < j => i = c) /\ (i >= j /\ c >= j => i + 1 = c + 1)
      BY <1>12, <3>1, <3>2
    <3> QED
      BY <1>2, <3>3, <3>4
  <2>4. \A b \in e : \E i \in 1..n - 1 : k[i] = b
    <3>1. SUFFICES ASSUME NEW b \in f, b # x PROVE \E i \in 1..n - 1 : k[i] = b
      OBVIOUS
    <3>2. PICK i \in 1..n : l[i] = b
      BY <1>1 DEF Enumerates
    <3>3. i # j
      BY <1>3, <3>1, <3>2
    <3>4. CASE i < j
      <4>1. i \in 1..n - 1 /\ k[i] = b
        BY <1>2, <3>2, <3>4
      <4> QED
        BY <4>1
    <3>5. CASE i > j
      <4>1. i - 1 \in 1..n - 1 /\ k[i - 1] = b
        BY <1>2, <3>2, <3>5
      <4> QED
        BY <4>1
    <3> QED
      BY <1>2, <3>3, <3>4, <3>5
  <2>5. n - 1 \in Nat
    BY <1>2
  <2> QED
    BY <2>2, <2>3, <2>4, <2>5 DEF Enumerates
<1>14. ASSUME NEW i \in 1..n, i # j
       PROVE  /\ l[i] \in f /\ l[i] \in Int /\ l[i] \in A /\ l[i] + 8 \in A
              /\ \A y \in f : l[i] # y + 8 /\ l[i] + 8 # y
              /\ m[l[i]] = (IF i = n THEN NULL ELSE l[i + 1]) /\ m[l[i] + 8] = (IF i = 1 THEN NULL ELSE l[i - 1])
              /\ (pv # NULL /\ pv = l[i]) <=> i + 1 = j
              /\ (nx # NULL /\ nx = l[i]) <=> i = j + 1
  <2>1. /\ l[i] \in f /\ l[i] \in Int /\ l[i] # NULL
        /\ m[l[i]] = (IF i = n THEN NULL ELSE l[i + 1]) /\ m[l[i] + 8] = (IF i = 1 THEN NULL ELSE l[i - 1])
    BY <1>1, <1>2 DEF Linked, Nodes
  <2>2. l[i] \in A /\ l[i] + 8 \in A /\ \A y \in f : l[i] # y + 8 /\ l[i] + 8 # y
    BY <1>2, <2>1 DEF Nodes
  <2>3. \A c \in 1..n : l[i] = l[c] => i = c
    BY <1>1 DEF Enumerates
  <2>4. (pv # NULL /\ pv = l[i]) <=> i + 1 = j
    <3>1. i + 1 = j => pv = l[i] /\ l[i] # NULL
      BY <1>2, <1>4, <2>1 DEF pv
    <3>2. pv # NULL /\ pv = l[i] => i = j - 1
      BY <1>4, <2>3 DEF pv
    <3> QED
      BY <1>2, <3>1, <3>2
  <2>5. (nx # NULL /\ nx = l[i]) <=> i = j + 1
    <3>1. i = j + 1 => nx = l[i]
      BY <1>2, <1>4, <2>1 DEF nx
    <3>2. nx # NULL /\ nx = l[i] => i = j + 1
      BY <1>4, <2>3 DEF nx
    <3> QED
      BY <1>2, <2>1, <3>1, <3>2
  <2> QED
    BY <2>1, <2>2, <2>4, <2>5
<1>15. ASSUME NEW i \in 1..n, i # j
       PROVE  /\ g.mem[l[i]] = IF i + 1 = j THEN nx ELSE m[l[i]]
              /\ g.mem[l[i] + 8] = IF i = j + 1 THEN pv ELSE m[l[i] + 8]
  <2>1. g.mem[l[i]] = IF i + 1 = j THEN nx ELSE m[l[i]]
    <3>1. nx # NULL => l[i] # nx + 8
      BY <1>5, <1>14, <1>15
    <3> QED
      BY <1>10, <1>14, <1>15, <3>1
  <2>2. g.mem[l[i] + 8] = IF i = j + 1 THEN pv ELSE m[l[i] + 8]
    <3>1. pv # NULL => l[i] + 8 # pv
      BY <1>5, <1>14, <1>15
    <3>2. l[i] + 8 = nx + 8 <=> nx = l[i]
      BY <1>5, <1>14, <1>15
    <3> QED
      BY <1>10, <1>14, <1>15, <3>1, <3>2
  <2> QED
    BY <2>1, <2>2
<1>16. Linked(g.mem, g.free_list, k, n - 1)
  <2>1. g.free_list = IF n - 1 = 0 THEN NULL ELSE k[1]
    BY <1>2, <1>4, <1>9 DEF nx
  <2>2. ASSUME NEW i \in 1..n - 1
        PROVE  /\ g.mem[k[i]] = IF i = n - 1 THEN NULL ELSE k[i + 1]
               /\ g.mem[k[i] + 8] = IF i = 1 THEN NULL ELSE k[i - 1]
    <3>1. CASE i < j
      <4>1. i \in 1..n /\ i # j /\ k[i] = l[i] /\ (i # 1 => k[i - 1] = l[i - 1])
        BY <1>2, <3>1
      <4>2. i # n - 1 => k[i + 1] = IF i + 1 = j THEN l[j + 1] ELSE l[i + 1]
        BY <1>2, <3>1
      <4>3. g.mem[l[i]] = (IF i + 1 = j THEN nx ELSE m[l[i]]) /\ g.mem[l[i] + 8] = m[l[i] + 8]
        BY <1>2, <1>15, <3>1, <4>1
      <4>4. /\ m[l[i]] = (IF i = n THEN NULL ELSE l[i + 1])
            /\ m[l[i] + 8] = (IF i = 1 THEN NULL ELSE l[i - 1])
        BY <1>14, <4>1
      <4>5. i + 1 = j => (i = n - 1 <=> j = n) /\ nx = IF j = n THEN NULL ELSE l[j + 1]
        BY <1>2, <1>4 DEF nx
      <4>6. i + 1 # j => i # n - 1
        BY <1>2, <3>1
      <4> QED
        BY <1>2, <4>1, <4>2, <4>3, <4>4, <4>5, <4>6
    <3>2. CASE i >= j
      <4>1. PICK c \in 1..n : c = i + 1 /\ c > j
        BY <1>2, <3>2
      <4>2. k[i] = l[c] /\ (i # n - 1 => k[i + 1] = l[c + 1])
        BY <1>2, <3>2, <4>1
      <4>3. i # 1 => k[i - 1] = IF c = j + 1 THEN l[j - 1] ELSE l[c - 1]
        BY <1>2, <3>2, <4>1
      <4>4. g.mem[l[c]] = m[l[c]] /\ g.mem[l[c] + 8] = IF c = j + 1 THEN pv ELSE m[l[c] + 8]
        BY <1>2, <1>15, <4>1
      <4>5. /\ m[l[c]] = (IF c = n THEN NULL ELSE l[c + 1])
            /\ m[l[c] + 8] = (IF c = 1 THEN NULL ELSE l[c - 1])
        BY <1>2, <1>14, <4>1
      <4>6. c = j + 1 => (i = 1 <=> j = 1) /\ pv = IF j = 1 THEN NULL ELSE l[j - 1]
        BY <1>2, <1>4, <4>1 DEF pv
      <4>7. c # j + 1 => i # 1
        BY <1>2, <3>2, <4>1
      <4>8. c # 1 /\ (c = n <=> i = n - 1)
        BY <1>2, <4>1
      <4> QED
        BY <4>2, <4>3, <4>4, <4>5, <4>6, <4>7, <4>8
    <3> QED
      BY <1>2, <3>1, <3>2
  <2> QED
    BY <2>1, <2>2 DEF Linked
<1> QED
  <2>1. \E q, c : Enumerates(q, c, e) /\ Linked(g.mem, g.free_list, q, c)
    BY <1>13, <1>16
  <2>2. Nodes(e, A)
    BY <1>2 DEF Nodes
  <2> QED
    BY <1>8, <1>9, <1>11, <2>1, <2>2 DEF IsList, g

-----------------------------------------------------------------------------
(* What the calls write: tags of some blocks and links of some others. *)

\* From m to g nothing changes but the headers of hd, the footers of ft and
\* the links of k.
Written(m, g, hs, s, hd, ft, k) ==
    \A x \in Addrs(hs) : \/ \E y \in hd : x = y - 8
                         \/ \E y \in ft : x = y + s[y] - 16
                         \/ \E y \in k : x = y \/ x = y + 8
                         \/ g[x] = m[x]

\* Each word of the heap has one use.
LEMMA OneUse ==
    ASSUME NEW hs, NEW s, GoodHeap(hs), Tiles(s, hs), NEW x \in DOMAIN s, NEW y \in DOMAIN s
    PROVE  /\ (x # y => x - 8 # y - 8) /\ x - 8 # y + s[y] - 16 /\ x - 8 # y /\ x - 8 # y + 8
           /\ (x # y => x + s[x] - 16 # y + s[y] - 16) /\ x + s[x] - 16 # y - 8
           /\ x + s[x] - 16 # y /\ x + s[x] - 16 # y + 8 /\ x + 8 # y
           /\ Start + 16 # y - 8 /\ Start + 16 # y + s[y] - 16 /\ Start + 16 # y /\ Start + 16 # y + 8
           /\ Top(hs) - 8 # y - 8 /\ Top(hs) - 8 # y + s[y] - 16 /\ Top(hs) - 8 # y /\ Top(hs) - 8 # y + 8
           /\ \A w \in Int : x <= w /\ w < x + s[x] - 16 =>
                 w # y - 8 /\ w # y + s[y] - 16 /\ (x # y => w # y /\ w # y + 8)
<1>1. /\ x \in Nat /\ x >= First /\ s[x] \in Nat /\ s[x] >= 32 /\ x + s[x] <= Top(hs)
      /\ y \in Nat /\ y >= First /\ s[y] \in Nat /\ s[y] >= 32 /\ y + s[y] <= Top(hs) /\ Top(hs) \in Nat
  BY InHeap
<1>2. First = Start + 32 /\ Start \in Nat
  BY StartFacts DEF First
<1>3. x = y \/ x + s[x] <= y \/ y + s[y] <= x
  BY Apart
<1>4. /\ (x # y => x - 8 # y - 8) /\ x - 8 # y + s[y] - 16 /\ x - 8 # y /\ x - 8 # y + 8
      /\ (x # y => x + s[x] - 16 # y + s[y] - 16) /\ x + s[x] - 16 # y - 8
  BY <1>1, <1>3
<1>5. x + s[x] - 16 # y /\ x + s[x] - 16 # y + 8 /\ x + 8 # y
  BY <1>1, <1>3
<1>6. Start + 16 # y - 8 /\ Start + 16 # y + s[y] - 16 /\ Start + 16 # y /\ Start + 16 # y + 8
  BY <1>1, <1>2
<1>7. Top(hs) - 8 # y - 8 /\ Top(hs) - 8 # y + s[y] - 16 /\ Top(hs) - 8 # y /\ Top(hs) - 8 # y + 8
  BY <1>1
<1>8. ASSUME NEW w \in Int, x <= w, w < x + s[x] - 16
      PROVE  w # y - 8 /\ w # y + s[y] - 16 /\ (x # y => w # y /\ w # y + 8)
  <2>1. CASE x = y
    BY <1>1, <1>8, <2>1
  <2>2. CASE x + s[x] <= y
    BY <1>1, <1>8, <2>2
  <2>3. CASE y + s[y] <= x
    BY <1>1, <1>8, <2>3
  <2> QED
    BY <1>3, <2>1, <2>2, <2>3
<1> QED
  BY <1>4, <1>5, <1>6, <1>7, <1>8

\* Free blocks have room for their links.
LEMMA FreeNodes ==
    ASSUME NEW hs, NEW s, GoodHeap(hs), Tiles(s, hs), NEW f \in SUBSET DOMAIN s
    PROVE  Nodes(f, Addrs(hs))
<1>1. ASSUME NEW x \in f
      PROVE  x \in Int /\ x # NULL /\ x \in Addrs(hs) /\ x + 8 \in Addrs(hs) /\ \A y \in f : x + 8 # y
  <2>1. x \in DOMAIN s
    OBVIOUS
  <2>2. x \in Nat /\ x # NULL /\ x \in Addrs(hs) /\ x + 8 \in Addrs(hs)
    BY <2>1, InHeap
  <2>3. ASSUME NEW y \in f PROVE x + 8 # y
    <3>1. y \in DOMAIN s
      OBVIOUS
    <3> QED
      BY <2>1, <3>1, OneUse
  <2> QED
    BY <2>2, <2>3
<1> QED
  BY <1>1 DEF Nodes

\* What a call does not write stays.
Keeps(m, g, hs, s, hd, ft, k) ==
    /\ g[Start + 16] = m[Start + 16] /\ g[Top(hs) - 8] = m[Top(hs) - 8]
    /\ \A x \in DOMAIN s : /\ x \notin hd => g[x - 8] = m[x - 8]
                           /\ x \notin ft => g[x + s[x] - 16] = m[x + s[x] - 16]
                           /\ x \notin k => \A w \in Addrs(hs) :
                                  x <= w /\ w < x + s[x] - 16 => g[w] = m[w]

LEMMA Remains ==
    ASSUME NEW hs, NEW s, GoodHeap(hs), Tiles(s, hs), NEW m, NEW g,
           NEW hd, NEW ft, NEW k, hd \subseteq DOMAIN s, ft \subseteq DOMAIN s, k \subseteq DOMAIN s,
           Written(m, g, hs, s, hd, ft, k)
    PROVE  Keeps(m, g, hs, s, hd, ft, k)
<1>1. Start + 16 \in Addrs(hs) /\ Top(hs) - 8 \in Addrs(hs)
  <2>1. /\ Start \in Nat /\ Start % 16 = 0 /\ hs \in Nat /\ hs % 16 = 0 /\ hs >= 64 /\ Top(hs) = Start + hs
    BY StartFacts DEF GoodHeap, Top
  <2>2. /\ Start + 16 \in Int /\ (Start + 16) % 8 = 0 /\ Start <= Start + 16 /\ Start + 16 < Top(hs)
        /\ Top(hs) - 8 \in Int /\ (Top(hs) - 8) % 8 = 0 /\ Start <= Top(hs) - 8 /\ Top(hs) - 8 < Top(hs)
    BY <2>1
  <2> QED
    BY <2>2, AddrsAre
<1>2. g[Start + 16] = m[Start + 16] /\ g[Top(hs) - 8] = m[Top(hs) - 8]
  <2>1. ASSUME NEW y \in DOMAIN s
        PROVE  /\ Start + 16 # y - 8 /\ Start + 16 # y + s[y] - 16 /\ Start + 16 # y /\ Start + 16 # y + 8
               /\ Top(hs) - 8 # y - 8 /\ Top(hs) - 8 # y + s[y] - 16 /\ Top(hs) - 8 # y /\ Top(hs) - 8 # y + 8
    BY OneUse
  <2> QED
    BY <1>1, <2>1 DEF Written
<1>3. ASSUME NEW x \in DOMAIN s, x \notin hd PROVE g[x - 8] = m[x - 8]
  <2>1. x - 8 \in Addrs(hs)
    BY InHeap
  <2>2. ASSUME NEW y \in DOMAIN s
        PROVE  (x # y => x - 8 # y - 8) /\ x - 8 # y + s[y] - 16 /\ x - 8 # y /\ x - 8 # y + 8
    BY OneUse
  <2> QED
    BY <1>3, <2>1, <2>2 DEF Written
<1>4. ASSUME NEW x \in DOMAIN s, x \notin ft PROVE g[x + s[x] - 16] = m[x + s[x] - 16]
  <2>1. x + s[x] - 16 \in Addrs(hs)
    BY InHeap
  <2>2. ASSUME NEW y \in DOMAIN s
        PROVE  /\ (x # y => x + s[x] - 16 # y + s[y] - 16) /\ x + s[x] - 16 # y - 8
               /\ x + s[x] - 16 # y /\ x + s[x] - 16 # y + 8
    BY OneUse
  <2> QED
    BY <1>4, <2>1, <2>2 DEF Written
<1>5. ASSUME NEW x \in DOMAIN s, x \notin k, NEW w \in Addrs(hs), x <= w, w < x + s[x] - 16
      PROVE  g[w] = m[w]
  <2>1. w \in Int
    BY AddrsAre
  <2>2. ASSUME NEW y \in DOMAIN s
        PROVE  w # y - 8 /\ w # y + s[y] - 16 /\ (x # y => w # y /\ w # y + 8)
    BY <1>5, <2>1, OneUse
  <2> QED
    BY <1>5, <2>2 DEF Written
<1> QED
  BY <1>2, <1>3, <1>4, <1>5 DEF Keeps

\* The bytes from block b to the end of block c are tagged with v.
Retagged(m, g, hs, s, b, c, v) ==
    /\ g \in [Addrs(hs) -> Int] /\ g[b - 8] = v /\ g[c + s[c] - 16] = v
    /\ Written(m, g, hs, s, {b}, {c}, {})

LEMMA TagWrite ==
    ASSUME NEW hs, NEW s, GoodHeap(hs), Tiles(s, hs), NEW m, m \in [Addrs(hs) -> Int],
           NEW b, NEW c, b \in DOMAIN s, c \in DOMAIN s, NEW z \in Nat, b + z = c + s[c], NEW t, t \in {0, 1}
    PROVE  Retagged(m, SetTags(m, b, z, t), hs, s, b, c, z + t)
<1> DEFINE g == SetTags(m, b, z, t)
<1>1. b - 8 \in Addrs(hs) /\ c + s[c] - 16 \in Addrs(hs) /\ b \in Nat /\ c \in Nat /\ s[c] \in Nat
  BY InHeap
<1>2. b + z - 16 = c + s[c] - 16
  BY <1>1
<1>3. g = [[m EXCEPT ![b - 8] = z + t] EXCEPT ![c + s[c] - 16] = z + t]
  BY <1>2 DEF SetTags, HDRP, OVERHEAD
<1>4. g \in [Addrs(hs) -> Int] /\ g[b - 8] = z + t /\ g[c + s[c] - 16] = z + t
  BY <1>1, <1>3
<1>5. \A x \in Addrs(hs) : x # b - 8 /\ x # c + s[c] - 16 => g[x] = m[x]
  BY <1>1, <1>3
<1> HIDE DEF g
<1>6. Written(m, g, hs, s, {b}, {c}, {})
  BY <1>5 DEF Written
<1> QED
  BY <1>4, <1>6 DEF Retagged, g

\* Tags are no links.
LEMMA ListStays ==
    ASSUME NEW hs, NEW s, GoodHeap(hs), Tiles(s, hs), NEW m, NEW g, g \in [Addrs(hs) -> Int],
           NEW b, NEW c, b \in DOMAIN s, c \in DOMAIN s, Written(m, g, hs, s, {b}, {c}, {}),
           NEW f, NEW fl, f \subseteq DOMAIN s, IsList(m, fl, Addrs(hs), f)
    PROVE  IsList(g, fl, Addrs(hs), f)
<1>1. PICK l, n : Enumerates(l, n, f) /\ Linked(m, fl, l, n)
  BY DEF IsList
<1>2. ASSUME NEW x \in f PROVE g[x] = m[x] /\ g[x + 8] = m[x + 8]
  <2>1. x \in DOMAIN s
    OBVIOUS
  <2>2. x \in Addrs(hs) /\ x + 8 \in Addrs(hs) /\ x \in Nat
    BY <2>1, InHeap
  <2>3. b - 8 # x /\ b - 8 # x + 8 /\ c + s[c] - 16 # x /\ c + s[c] - 16 # x + 8
    BY <2>1, OneUse
  <2> QED
    BY <2>2, <2>3 DEF Written
<1>3. Linked(g, fl, l, n)
  <2>1. \A i \in 1..n : l[i] \in f
    BY <1>1 DEF Enumerates
  <2>2. \A i \in 1..n : g[l[i]] = m[l[i]] /\ g[l[i] + 8] = m[l[i] + 8]
    BY <1>2, <2>1
  <2> QED
    BY <1>1, <2>2 DEF Linked
<1> QED
  BY <1>1, <1>3 DEF IsList

\* Two writings in a row.
LEMMA WrittenTwice ==
    ASSUME NEW hs, NEW s, NEW m, NEW g, NEW h, NEW hd, NEW ft, NEW k, NEW hd2, NEW ft2, NEW k2,
           Written(m, g, hs, s, hd, ft, k), Written(g, h, hs, s, hd2, ft2, k2)
    PROVE  Written(m, h, hs, s, hd \cup hd2, ft \cup ft2, k \cup k2)
BY DEF Written

LEMMA ListWrite ==
    ASSUME NEW hs, NEW s, NEW m, m \in [Addrs(hs) -> Int], NEW g, NEW k, Untouched(m, g, k)
    PROVE  Written(m, g, hs, s, {}, {}, k)
BY DEF Written, Untouched

-----------------------------------------------------------------------------
(* Splitting a block and joining two. *)

SplitAt(s, e, n) ==
    [x \in DOMAIN s \cup {e + n} |-> IF x = e THEN n ELSE IF x = e + n THEN s[e] - n ELSE s[x]]
JoinAt(s, b, c) == [x \in DOMAIN s \ {c} |-> IF x = b THEN s[b] + s[c] ELSE s[x]]

\* t is s with the block at e split after n bytes.
Splits(s, t, hs, e, n) ==
    /\ Tiles(t, hs) /\ e + n \notin DOMAIN s /\ DOMAIN t = DOMAIN s \cup {e + n} /\ e # e + n
    /\ t[e] = n /\ t[e + n] = s[e] - n
    /\ \A x \in DOMAIN s : x # e => x # e + n /\ t[x] = s[x]

LEMMA SplitTiles ==
    ASSUME NEW hs, NEW s, GoodHeap(hs), Tiles(s, hs), NEW e \in DOMAIN s,
           NEW n \in Nat, n % 16 = 0, n >= 32, s[e] >= n + 32
    PROVE  Splits(s, SplitAt(s, e, n), hs, e, n)
<1> DEFINE t == SplitAt(s, e, n)
           r == e + n
<1>1. /\ e \in Nat /\ e % 16 = 0 /\ e >= First /\ s[e] \in Nat /\ s[e] % 16 = 0 /\ e + s[e] <= Top(hs)
      /\ Top(hs) \in Nat /\ First \in Nat
  BY InHeap, StartFacts
<1>2. ASSUME NEW x \in DOMAIN s PROVE x # r /\ x \in Nat
  <2>1. x = e \/ e + s[e] <= x \/ x + 32 <= e
    BY Apart
  <2>2. x \in Nat
    BY InHeap
  <2> QED
    BY <1>1, <2>1, <2>2
<1>3. r \in Nat /\ r # e /\ r % 16 = 0 /\ r >= First
  BY <1>1
<1>4. DOMAIN t = DOMAIN s \cup {r} /\ t[e] = n /\ t[r] = s[e] - n
  BY <1>3 DEF SplitAt
<1>5. \A x \in DOMAIN s : x # e => x # r /\ t[x] = s[x]
  BY <1>2 DEF SplitAt
<1> HIDE DEF t
<1>6. Tiles(t, hs)
  <2>1. DOMAIN t \subseteq Int /\ First \in DOMAIN t
    BY <1>3, <1>4 DEF Tiles
  <2>2. ASSUME NEW x \in DOMAIN t
        PROVE  /\ x >= First /\ x % 16 = 0 /\ t[x] \in Nat /\ t[x] >= 32 /\ t[x] % 16 = 0
               /\ x + t[x] <= Top(hs) /\ x + t[x] \in DOMAIN t \cup {Top(hs)}
    <3>1. CASE x = e
      BY <1>1, <1>3, <1>4, <3>1
    <3>2. CASE x = r
      <4>1. s[e] - n \in Nat /\ s[e] - n >= 32 /\ (s[e] - n) % 16 = 0 /\ r + (s[e] - n) = e + s[e]
        BY <1>1
      <4>2. e + s[e] \in DOMAIN s \cup {Top(hs)}
        BY DEF Tiles
      <4> QED
        BY <1>1, <1>3, <1>4, <3>2, <4>1, <4>2
    <3>3. CASE x \in DOMAIN s /\ x # e
      BY <1>4, <1>5, <3>3 DEF Tiles
    <3> QED
      BY <1>4, <3>1, <3>2, <3>3
  <2>3. ASSUME NEW x \in DOMAIN t, NEW y \in DOMAIN t, x < y PROVE x + t[x] <= y
    <3>1. CASE x \in DOMAIN s /\ x # e /\ y \in DOMAIN s
      BY <1>5, <2>3, <3>1 DEF Tiles
    <3>2. CASE x = e /\ y \in DOMAIN s
      <4>1. e + s[e] <= y /\ y \in Nat
        BY <1>2, <2>3, <3>2 DEF Tiles
      <4> QED
        BY <1>1, <1>4, <3>2, <4>1
    <3>3. CASE x \in DOMAIN s /\ y = r
      <4>1. x = e \/ e + s[e] <= x \/ (x + s[x] <= e /\ x + 32 <= e)
        BY <3>3, Apart
      <4>2. x \in Nat /\ s[x] \in Nat
        BY <3>3, InHeap
      <4> QED
        BY <1>1, <1>4, <1>5, <2>3, <3>3, <4>1, <4>2
    <3>4. CASE x = r /\ y \in DOMAIN s
      <4>1. y = e \/ e + s[e] <= y \/ y + 32 <= e
        BY <3>4, Apart
      <4>2. y \in Nat
        BY <1>2, <3>4
      <4> QED
        BY <1>1, <1>4, <2>3, <3>4, <4>1, <4>2
    <3> QED
      BY <1>3, <1>4, <2>3, <3>1, <3>2, <3>3, <3>4
  <2>4. ASSUME NEW y \in DOMAIN t \cup {Top(hs)}, y # First PROVE \E x \in DOMAIN t : x + t[x] = y
    <3>1. CASE y = r
      BY <1>1, <1>4, <3>1
    <3>2. CASE y # r
      <4>1. PICK x \in DOMAIN s : x + s[x] = y
        BY <1>4, <2>4, <3>2 DEF Tiles
      <4>2. CASE x = e
        BY <1>1, <1>4, <4>1, <4>2
      <4>3. CASE x # e
        BY <1>4, <1>5, <4>1, <4>3
      <4> QED
        BY <4>2, <4>3
    <3> QED
      BY <3>1, <3>2
  <2> QED
    BY <2>1, <2>2, <2>3, <2>4 DEF Tiles
<1> QED
  <2>1. \A x \in DOMAIN s : x # e => x # r /\ t[x] = s[x]
    BY <1>5
  <2>2. r \notin DOMAIN s
    BY <1>2
  <2> QED
    BY <1>3, <1>4, <1>6, <2>1, <2>2 DEF t, Splits

LEMMA JoinTiles ==
    ASSUME NEW hs, NEW s, GoodHeap(hs), Tiles(s, hs), NEW b \in DOMAIN s, NEW c \in DOMAIN s, b + s[b] = c
    PROVE  LET t == JoinAt(s, b, c)
           IN  /\ Tiles(t, hs) /\ DOMAIN t = DOMAIN s \ {c} /\ b \in DOMAIN t /\ b # c /\ c # First
               /\ t[b] = s[b] + s[c] /\ b + t[b] = c + s[c]
               /\ \A x \in DOMAIN t : x # b => t[x] = s[x]
<1> DEFINE t == JoinAt(s, b, c)
<1>1. /\ b \in Nat /\ b % 16 = 0 /\ b >= First /\ s[b] \in Nat /\ s[b] >= 32 /\ s[b] % 16 = 0
      /\ c \in Nat /\ s[c] \in Nat /\ s[c] >= 32 /\ s[c] % 16 = 0 /\ c + s[c] <= Top(hs)
      /\ Top(hs) \in Nat /\ First \in Nat
  BY InHeap, StartFacts
<1>2. b # c /\ c # First /\ b < c
  BY <1>1
<1>3. DOMAIN t = DOMAIN s \ {c} /\ b \in DOMAIN t /\ t[b] = s[b] + s[c] /\ b + t[b] = c + s[c]
  BY <1>1, <1>2 DEF JoinAt
<1>4. \A x \in DOMAIN t : x # b => t[x] = s[x]
  BY DEF JoinAt
<1> HIDE DEF t
<1>5. ASSUME NEW x \in DOMAIN s, x # b PROVE x + s[x] # c
  <2>1. x \in Nat /\ s[x] \in Nat /\ s[x] >= 32
    BY InHeap
  <2>2. x + s[x] <= b \/ b + s[b] <= x
    BY <1>5, Apart
  <2> QED
    BY <1>1, <2>1, <2>2
<1>6. Tiles(t, hs)
  <2>1. DOMAIN t \subseteq Int /\ First \in DOMAIN t
    BY <1>2, <1>3 DEF Tiles
  <2>2. ASSUME NEW x \in DOMAIN t
        PROVE  /\ x >= First /\ x % 16 = 0 /\ t[x] \in Nat /\ t[x] >= 32 /\ t[x] % 16 = 0
               /\ x + t[x] <= Top(hs) /\ x + t[x] \in DOMAIN t \cup {Top(hs)}
    <3>1. CASE x = b
      <4>1. c + s[c] \in DOMAIN s \cup {Top(hs)} /\ c + s[c] # c
        BY <1>1 DEF Tiles
      <4>2. t[b] \in Nat /\ t[b] >= 32 /\ t[b] % 16 = 0
        BY <1>1, <1>3
      <4> QED
        BY <1>1, <1>3, <3>1, <4>1, <4>2
    <3>2. CASE x # b
      <4>1. x \in DOMAIN s /\ t[x] = s[x] /\ x + s[x] # c
        BY <1>3, <1>4, <1>5, <3>2
      <4> QED
        BY <1>3, <4>1 DEF Tiles
    <3> QED
      BY <3>1, <3>2
  <2>3. ASSUME NEW x \in DOMAIN t, NEW y \in DOMAIN t, x < y PROVE x + t[x] <= y
    <3>1. x \in DOMAIN s /\ y \in DOMAIN s /\ y # c
      BY <1>3
    <3>2. CASE x = b
      <4>1. b + s[b] <= y
        BY <2>3, <3>1, <3>2 DEF Tiles
      <4>2. c + s[c] <= y \/ y + 32 <= c
        BY <3>1, Apart
      <4>3. y \in Nat
        BY <3>1, InHeap
      <4> QED
        BY <1>1, <1>3, <3>2, <4>1, <4>2, <4>3
    <3>3. CASE x # b
      BY <1>4, <2>3, <3>1, <3>3 DEF Tiles
    <3> QED
      BY <3>2, <3>3
  <2>4. ASSUME NEW y \in DOMAIN t \cup {Top(hs)}, y # First PROVE \E x \in DOMAIN t : x + t[x] = y
    <3>1. y # c
      BY <1>1, <1>3, <2>4
    <3>2. PICK x \in DOMAIN s : x + s[x] = y
      BY <1>3, <2>4 DEF Tiles
    <3>3. x # b
      BY <3>1, <3>2
    <3>4. CASE x = c
      BY <1>3, <3>2, <3>4
    <3>5. CASE x # c
      BY <1>3, <1>4, <3>2, <3>3, <3>5
    <3> QED
      BY <3>4, <3>5
  <2> QED
    BY <2>1, <2>2, <2>3, <2>4 DEF Tiles
<1> QED
  BY <1>2, <1>3, <1>4, <1>6 DEF t

-----------------------------------------------------------------------------
(* The search for a free block. *)

LEMMA LeastOf ==
    ASSUME NEW T \in SUBSET Nat, T # {}
    PROVE  \E x \in T : \A y \in T : x <= y
<1>1. PICK x \in T : \A y \in T : ~(<<y, x>> \in OpToRel(<, Nat))
  BY NatLessThanWellFounded, WFMin
<1>2. \A y \in T : ~(y < x)
  BY <1>1 DEF OpToRel
<1> QED
  BY <1>2

\* One step of the search, for which the rest of it is f.
SearchStep(A, m, need, k, f, q) ==
    IF k = 0 \/ q \notin A THEN NULL ELSE IF GET_SIZE(m, HDRP(q)) >= need THEN q ELSE f[m[q]]

\* The equation that defines Search in FirstFit, for at most c steps.
IsSearch(f, c, A, m, need) ==
    f = [k \in 0..c |-> [q \in Int |-> SearchStep(A, m, need, k, f[k - 1], q)]]

LEMMA SearchExists ==
    ASSUME NEW A, NEW m \in [A -> Int], NEW need, NEW c \in Nat
    PROVE  \E f : IsSearch(f, c, A, m, need)
<1> DEFINE T == {j \in Nat : ~\E f : IsSearch(f, j, A, m, need)}
<1>1. SUFFICES ASSUME T # {} PROVE FALSE
  OBVIOUS
<1>2. PICK j \in T : \A i \in T : j <= i
  BY <1>1, LeastOf
<1>3. j # 0
  <2> DEFINE f == [k \in 0..0 |-> [q \in Int |-> NULL]]
  <2>1. \A k \in 0..0, q \in Int : SearchStep(A, m, need, k, f[k - 1], q) = NULL
    BY DEF SearchStep
  <2>2. IsSearch(f, 0, A, m, need)
    BY <2>1 DEF IsSearch
  <2> QED
    BY <1>2, <2>2
<1>4. j - 1 \in Nat /\ j - 1 \notin T /\ j \in Nat
  BY <1>2, <1>3
<1>5. PICK f : IsSearch(f, j - 1, A, m, need)
  BY <1>4
<1> DEFINE g == [k \in 0..j |-> [q \in Int |-> SearchStep(A, m, need, k, f[k - 1], q)]]
<1>6. \A k \in 0..j - 1 : f[k] = g[k]
  <2>1. SUFFICES ASSUME NEW k \in 0..j - 1 PROVE f[k] = g[k]
    OBVIOUS
  <2>2. k \in 0..j
    BY <1>4
  <2>3. f[k] = [q \in Int |-> SearchStep(A, m, need, k, f[k - 1], q)]
    BY <1>5 DEF IsSearch
  <2> QED
    BY <2>2, <2>3
<1>7. \A k \in 0..j : k # 0 => f[k - 1] = g[k - 1]
  <2>1. SUFFICES ASSUME NEW k \in 0..j, k # 0 PROVE f[k - 1] = g[k - 1]
    OBVIOUS
  <2>2. k - 1 \in 0..j - 1
    BY <1>4, <2>1
  <2> QED
    BY <1>6, <2>2
<1>8. \A k \in 0..j : g[k] = [q \in Int |-> SearchStep(A, m, need, k, f[k - 1], q)]
  OBVIOUS
<1>9. \A k \in 0..j, q \in Int : SearchStep(A, m, need, k, f[k - 1], q) = SearchStep(A, m, need, k, g[k - 1], q)
  BY <1>7 DEF SearchStep
<1> HIDE DEF g
<1>10. g = [k \in 0..j |-> g[k]]
  BY DEF g
<1>11. \A k \in 0..j : g[k] = [q \in Int |-> SearchStep(A, m, need, k, g[k - 1], q)]
  BY <1>8, <1>9
<1>12. g = [k \in 0..j |-> [q \in Int |-> SearchStep(A, m, need, k, g[k - 1], q)]]
  BY <1>10, <1>11
<1>13. IsSearch(g, j, A, m, need)
  BY <1>12 DEF IsSearch
<1> QED
  BY <1>2, <1>13

\* A list through f has a node for each of its members.
LEMMA ListCounts ==
    ASSUME NEW f, NEW l, NEW n \in Nat, Enumerates(l, n, f)
    PROVE  Cardinality(f) = n
<1>1. l \in [1..n -> f] /\ \A i, j \in 1..n : l[i] = l[j] => i = j
  BY DEF Enumerates
<1>2. \A b \in f : \E i \in 1..n : l[i] = b
  BY DEF Enumerates
<1>3. l \in Injection(1..n, f)
  BY <1>1 DEF Injection, IsInjective
<1>4. l \in Surjection(1..n, f)
  BY <1>1, <1>2 DEF Surjection
<1>5. ExistsBijection(1..n, f)
  BY <1>3, <1>4 DEF ExistsBijection, Bijection
<1> QED
  BY <1>5, FS_CountingElements

\* The search meets the free blocks in the order of the list.
LEMMA FirstFitFinds ==
    ASSUME NEW A, NEW f \in SUBSET A, IsFiniteSet(A), NEW m, NEW fl, NULL \notin A, IsList(m, fl, A, f), NEW need
    PROVE  LET v == FirstFit([mem |-> m, free_list |-> fl], need)
           IN  \/ v \in f /\ v # NULL /\ GET_SIZE(m, HDRP(v)) >= need
               \/ v = NULL /\ \A b \in f : ~(GET_SIZE(m, HDRP(b)) >= need)
<1>1. PICK l, n : Enumerates(l, n, f) /\ Linked(m, fl, l, n)
  BY DEF IsList
<1>2. m \in [A -> Int] /\ Nodes(f, A) /\ n \in Nat /\ l \in [1..n -> f] /\ DOMAIN m = A
  BY <1>1 DEF IsList, Enumerates
<1>3. PICK c : c = Cardinality(A)
  OBVIOUS
<1>4. c \in Nat /\ n <= c
  <2>1. Cardinality(f) = n
    BY <1>1, <1>2, ListCounts
  <2> QED
    BY <1>3, <2>1, FS_Subset, FS_CardinalityType
<1> DEFINE S == CHOOSE S : S = [k \in 0..c |-> [q \in Int |->
                    IF k = 0 \/ q \notin A THEN NULL
                    ELSE IF GET_SIZE(m, HDRP(q)) >= need THEN q ELSE S[k - 1][m[q]]]]
<1>5. FirstFit([mem |-> m, free_list |-> fl], need) = S[c][fl]
  BY <1>2, <1>3 DEF FirstFit, next_of
<1>6. IsSearch(S, c, A, m, need)
  <2>1. \E g : g = [k \in 0..c |-> [q \in Int |->
                    IF k = 0 \/ q \notin A THEN NULL
                    ELSE IF GET_SIZE(m, HDRP(q)) >= need THEN q ELSE g[k - 1][m[q]]]]
    <3>1. PICK g : IsSearch(g, c, A, m, need)
      BY <1>2, <1>4, SearchExists
    <3>2. g = [k \in 0..c |-> [q \in Int |->
                    IF k = 0 \/ q \notin A THEN NULL
                    ELSE IF GET_SIZE(m, HDRP(q)) >= need THEN q ELSE g[k - 1][m[q]]]]
      BY <3>1 DEF IsSearch, SearchStep
    <3> QED
      BY <3>2
  <2>2. S = [k \in 0..c |-> [q \in Int |->
                    IF k = 0 \/ q \notin A THEN NULL
                    ELSE IF GET_SIZE(m, HDRP(q)) >= need THEN q ELSE S[k - 1][m[q]]]]
    BY <2>1
  <2> QED
    BY <2>2 DEF IsSearch, SearchStep
<1> HIDE DEF S
<1>7. \A k \in 0..c, q \in Int : S[k][q] = SearchStep(A, m, need, k, S[k - 1], q)
  <2>1. SUFFICES ASSUME NEW k \in 0..c, NEW q \in Int PROVE S[k][q] = SearchStep(A, m, need, k, S[k - 1], q)
    OBVIOUS
  <2>2. S = [i \in 0..c |-> [x \in Int |-> SearchStep(A, m, need, i, S[i - 1], x)]]
    BY <1>6 DEF IsSearch
  <2>3. S[k] = [x \in Int |-> SearchStep(A, m, need, k, S[k - 1], x)]
    BY <2>2
  <2> QED
    BY <2>3
\* From the i-th block before the end of the list on, in k steps.
<1> DEFINE Met(i, v) == \/ v \in f /\ v # NULL /\ GET_SIZE(m, HDRP(v)) >= need
                        \/ v = NULL /\ \A u \in n - i + 1..n : ~(GET_SIZE(m, HDRP(l[u])) >= need)
           At(i) == IF i = 0 THEN NULL ELSE l[n - i + 1]
           T == {i \in 0..n : \E k \in i..c : ~Met(i, S[k][At(i)])}
<1>8. T = {}
  <2>1. SUFFICES ASSUME T # {} PROVE FALSE
    OBVIOUS
  <2>2. PICK i \in T : \A j \in T : i <= j
    <3>1. T \subseteq Nat
      OBVIOUS
    <3> QED
      BY <2>1, <3>1, LeastOf
  <2>3. i \in 0..n
    OBVIOUS
  <2>4. PICK k \in i..c : ~Met(i, S[k][At(i)])
    OBVIOUS
  <2>5. CASE i = 0
    <3>1. S[k][NULL] = NULL
      BY <1>4, <1>7, <2>4, <2>5 DEF SearchStep, NULL
    <3> QED
      BY <1>2, <2>4, <2>5, <3>1
  <2>6. CASE i # 0
    <3>1. i - 1 \in 0..n /\ i - 1 \notin T /\ k - 1 \in i - 1..c /\ k \in 0..c /\ k # 0
      <4>1. i - 1 \in 0..n /\ k - 1 \in i - 1..c /\ k \in 0..c /\ k # 0 /\ ~(i <= i - 1)
        BY <1>2, <1>4, <2>3, <2>4, <2>6
      <4> QED
        BY <2>2, <4>1
    <3>2. PICK j \in 1..n : j = n - i + 1
      BY <1>2, <2>3, <2>6
    <3>3. At(i) = l[j] /\ l[j] \in f /\ l[j] \in A /\ l[j] # NULL /\ l[j] \in Int
      BY <1>2, <2>6, <3>2 DEF Nodes
    <3>4. m[l[j]] = At(i - 1)
      BY <1>1, <1>2, <2>3, <2>6, <3>2 DEF Linked
    <3>5. S[k][l[j]] = IF GET_SIZE(m, HDRP(l[j])) >= need THEN l[j] ELSE S[k - 1][At(i - 1)]
      BY <1>7, <3>1, <3>3, <3>4 DEF SearchStep
    <3>6. Met(i - 1, S[k - 1][At(i - 1)])
      BY <3>1
    <3>7. \A u \in n - i + 1..n : u = j \/ u \in n - (i - 1) + 1..n
      BY <1>2, <2>3, <3>2
    <3> HIDE DEF At
    <3>8. Met(i, S[k][At(i)])
      BY <3>3, <3>5, <3>6, <3>7
    <3> QED
      BY <2>4, <3>8
  <2> QED
    BY <2>5, <2>6
<1>9. Met(n, S[c][At(n)])
  <2>1. n \in 0..n /\ c \in n..c
    BY <1>2, <1>4
  <2> QED
    BY <1>8, <2>1
<1>10. At(n) = fl
  BY <1>1, <1>2 DEF Linked
<1>11. ASSUME NEW b \in f PROVE \E u \in n - n + 1..n : l[u] = b
  <2>1. PICK u \in 1..n : l[u] = b
    BY <1>1 DEF Enumerates
  <2> QED
    BY <1>2, <2>1
<1> HIDE DEF At
<1> QED
  BY <1>5, <1>9, <1>10, <1>11

-----------------------------------------------------------------------------
(* mm_malloc. *)

LEMMA RealSize ==
    ASSUME NEW size, Fits(size)
    PROVE  /\ size \in Nat /\ real_size(size) \in Nat /\ real_size(size) % 16 = 0
           /\ real_size(size) >= 32 /\ real_size(size) >= size + 16
<1>1. PICK x : x = MAX(size, LIST_NODE)
  OBVIOUS
<1>2. size \in Nat /\ x \in Nat /\ x >= size /\ x >= 16 /\ x + 31 < Modulus /\ Modulus \in Nat
  BY <1>1, HeapAssumption DEF Fits, MAX, LIST_NODE, OVERHEAD
<1>3. (x + 16 + 15) % Modulus = x + 31
  BY <1>2
<1>4. real_size(size) = (x + 31) - ((x + 31) % 16)
  BY <1>1, <1>2, <1>3 DEF real_size, ALIGN, OVERHEAD
<1> QED
  BY <1>2, <1>4

\* The tags of the blocks n are new, those of the others are kept.
OldTags(m, g, s, t, a, a2, n) ==
    \A x \in DOMAIN t \ n : /\ x \in DOMAIN s /\ t[x] = s[x] /\ (x \in a2 <=> x \in a)
                            /\ g[x - 8] = m[x - 8] /\ g[x + t[x] - 16] = m[x + t[x] - 16]
FreshTags(g, t, a2, n) == \A x \in n : g[x - 8] = TagOf(t, a2, x) /\ g[x + t[x] - 16] = TagOf(t, a2, x)

LEMMA NewTags ==
    ASSUME NEW hs, NEW s, NEW a, NEW m, NEW g, NEW t, NEW a2, NEW n, Tagged(m, s, a, hs),
           OldTags(m, g, s, t, a, a2, n), FreshTags(g, t, a2, n),
           g[Start + 16] = m[Start + 16], g[Top(hs) - 8] = m[Top(hs) - 8]
    PROVE  Tagged(g, t, a2, hs)
<1>1. ASSUME NEW x \in DOMAIN t PROVE g[x - 8] = TagOf(t, a2, x) /\ g[x + t[x] - 16] = TagOf(t, a2, x)
  <2>1. CASE x \in n
    BY <2>1 DEF FreshTags
  <2>2. CASE x \notin n
    <3>1. x \in DOMAIN s /\ t[x] = s[x] /\ g[x - 8] = m[x - 8] /\ g[x + t[x] - 16] = m[x + t[x] - 16]
      BY <2>2 DEF OldTags
    <3>2. TagOf(t, a2, x) = TagOf(s, a, x)
      BY <2>2, <3>1 DEF TagOf, OldTags
    <3>3. m[x - 8] = TagOf(s, a, x) /\ m[x + s[x] - 16] = TagOf(s, a, x)
      BY <3>1 DEF Tagged
    <3> QED
      BY <3>1, <3>2, <3>3
  <2> QED
    BY <2>1, <2>2
<1>2. g[Start + 16] = 0 /\ g[Top(hs) - 8] = 1
  BY DEF Tagged
<1> QED
  BY <1>1, <1>2 DEF Tagged

\* The payload of the blocks a is as it was.
Spares(m, g, hs, s, a) ==
    \A b \in a : \A w \in Addrs(hs) : b <= w /\ w < b + s[b] - 16 => g[w] = m[w]

\* The whole of a free block is handed out.
LEMMA TakesWhole ==
    ASSUME NEW m, NEW fl, NEW hs, NEW s, NEW a, Shows(m, fl, hs, s, a), NEW b \in DOMAIN s \ a
    PROVE  LET g == delete_from_list([mem |-> SetTags(m, b, s[b], 1), free_list |-> fl], b)
           IN  Shows(g.mem, g.free_list, hs, s, a \cup {b}) /\ Spares(m, g.mem, hs, s, a)
<1> DEFINE g == delete_from_list([mem |-> SetTags(m, b, s[b], 1), free_list |-> fl], b)
<1>1. PICK f : f = DOMAIN s \ a
  OBVIOUS
<1>2. /\ GoodHeap(hs) /\ m \in [Addrs(hs) -> Int] /\ Tiles(s, hs) /\ a \subseteq DOMAIN s
      /\ Tagged(m, s, a, hs) /\ Joined(s, a, hs) /\ IsList(m, fl, Addrs(hs), f) /\ f \subseteq DOMAIN s
  BY <1>1 DEF Shows
<1>3. b \in DOMAIN s /\ b \in f
  BY <1>1
<1>4. PICK z \in Nat : z = s[b]
  BY <1>2, <1>3, InHeap
<1>5. PICK m1 : m1 = SetTags(m, b, z, 1)
  OBVIOUS
<1>6. /\ m1 \in [Addrs(hs) -> Int] /\ m1[b - 8] = z + 1 /\ m1[b + s[b] - 16] = z + 1
      /\ Written(m, m1, hs, s, {b}, {b}, {})
  <2>1. m \in [Addrs(hs) -> Int] /\ b + z = b + s[b] /\ 1 \in {0, 1}
    BY <1>2, <1>4
  <2>2. Retagged(m, m1, hs, s, b, b, z + 1)
    BY ONLY <2>1, <1>2, <1>3, z \in Nat, <1>5, TagWrite
  <2> QED
    BY <2>2 DEF Retagged
<1>7. IsList(m1, fl, Addrs(hs), f)
  BY <1>2, <1>3, <1>6, ListStays
<1>8. PICK h : h = [mem |-> m1, free_list |-> fl]
  OBVIOUS
<1>9. PICK g1 : g1 = delete_from_list(h, b)
  OBVIOUS
<1>10. IsList(g1.mem, g1.free_list, Addrs(hs), f \ {b}) /\ Untouched(m1, g1.mem, f)
  BY <1>3, <1>7, <1>8, <1>9, ListDelete
<1>11. PICK m2 : m2 = g1.mem
  OBVIOUS
<1>12. m2 \in [Addrs(hs) -> Int] /\ Written(m1, m2, hs, s, {}, {}, f)
  BY <1>6, <1>10, <1>11, ListWrite DEF IsList
<1>13. Keeps(m1, m2, hs, s, {}, {}, f)
  BY <1>2, <1>12, Remains
<1>14. Keeps(m, m2, hs, s, {b}, {b}, f)
  <2>1. Written(m, m2, hs, s, {b} \cup {}, {b} \cup {}, {} \cup f)
    BY <1>6, <1>12, WrittenTwice
  <2>2. Written(m, m2, hs, s, {b}, {b}, f)
    BY <2>1
  <2> QED
    BY <1>2, <1>3, <2>2, Remains
<1>15. Tagged(m2, s, a \cup {b}, hs)
  <2>1. FreshTags(m2, s, a \cup {b}, {b})
    <3>1. TagOf(s, a \cup {b}, b) = z + 1
      BY <1>4 DEF TagOf
    <3>2. m2[b - 8] = m1[b - 8] /\ m2[b + s[b] - 16] = m1[b + s[b] - 16]
      BY <1>3, <1>13 DEF Keeps
    <3> QED
      BY <1>6, <3>1, <3>2 DEF FreshTags
  <2>2. OldTags(m, m2, s, s, a, a \cup {b}, {b})
    BY <1>14 DEF OldTags, Keeps
  <2>3. m2[Start + 16] = m[Start + 16] /\ m2[Top(hs) - 8] = m[Top(hs) - 8]
    BY <1>14 DEF Keeps
  <2> QED
    BY <1>2, <2>1, <2>2, <2>3, NewTags
<1>16. Joined(s, a \cup {b}, hs)
  BY <1>2 DEF Joined
<1>17. f \ {b} = DOMAIN s \ (a \cup {b}) /\ a \cup {b} \subseteq DOMAIN s
  BY <1>1, <1>2
<1>18. Shows(g1.mem, g1.free_list, hs, s, a \cup {b})
  BY <1>2, <1>10, <1>11, <1>12, <1>15, <1>16, <1>17 DEF Shows
<1>19. Spares(m, g1.mem, hs, s, a)
  BY <1>1, <1>2, <1>11, <1>14 DEF Spares, Keeps
<1>20. g = g1
  BY <1>4, <1>5, <1>8, <1>9
<1> QED
  BY <1>18, <1>19, <1>20

\* A free block is split and its first part handed out.
LEMMA TakesPart ==
    ASSUME NEW m, NEW fl, NEW hs, NEW s, NEW a, Shows(m, fl, hs, s, a), NEW b \in DOMAIN s \ a,
           NEW n \in Nat, n % 16 = 0, n >= 32, s[b] >= n + 32
    PROVE  LET g == replace_in_list([mem |-> SetTags(SetTags(m, b, n, 1), b + n, s[b] - n, 0),
                                     free_list |-> fl], b, b + n)
               t == SplitAt(s, b, n)
           IN  Shows(g.mem, g.free_list, hs, t, a \cup {b}) /\ Spares(m, g.mem, hs, s, a)
<1> DEFINE g == replace_in_list([mem |-> SetTags(SetTags(m, b, n, 1), b + n, s[b] - n, 0),
                                     free_list |-> fl], b, b + n)
<1>1. PICK f : f = DOMAIN s \ a
  OBVIOUS
<1>2. /\ GoodHeap(hs) /\ m \in [Addrs(hs) -> Int] /\ Tiles(s, hs) /\ a \subseteq DOMAIN s
      /\ Tagged(m, s, a, hs) /\ Joined(s, a, hs) /\ IsList(m, fl, Addrs(hs), f) /\ f \subseteq DOMAIN s
  BY <1>1 DEF Shows
<1>3. b \in DOMAIN s /\ b \in f /\ s[b] \in Nat /\ b \in Nat
  BY <1>1, <1>2, InHeap
<1>4. PICK t : t = SplitAt(s, b, n)
  OBVIOUS
<1>5. PICK r \in Nat : r = b + n
  BY <1>3
<1>6. /\ Tiles(t, hs) /\ r \notin DOMAIN s /\ DOMAIN t = DOMAIN s \cup {r} /\ b # r
      /\ t[b] = n /\ t[r] = s[b] - n /\ \A x \in DOMAIN s : x # b => x # r /\ t[x] = s[x]
  <2>1. Splits(s, SplitAt(s, b, n), hs, b, n)
    BY <1>2, <1>3, SplitTiles
  <2> QED
    BY <1>4, <1>5, <2>1 DEF Splits
<1>7. b \in DOMAIN t /\ r \in DOMAIN t /\ f \subseteq DOMAIN t /\ r \notin f
  BY <1>2, <1>3, <1>6
<1>8. PICK z \in Nat : z = s[b] - n
  BY <1>3
<1>9. PICK m1 : m1 = SetTags(m, b, n, 1)
  OBVIOUS
<1>10. /\ m1 \in [Addrs(hs) -> Int] /\ m1[b - 8] = n + 1 /\ m1[b + t[b] - 16] = n + 1
       /\ Written(m, m1, hs, t, {b}, {b}, {})
  <2>1. m \in [Addrs(hs) -> Int] /\ b + n = b + t[b] /\ 1 \in {0, 1}
    BY <1>2, <1>6
  <2>2. Retagged(m, m1, hs, t, b, b, n + 1)
    BY ONLY <2>1, <1>2, <1>6, <1>7, n \in Nat, <1>9, TagWrite
  <2> QED
    BY <2>2 DEF Retagged
<1>11. IsList(m1, fl, Addrs(hs), f)
  BY <1>2, <1>6, <1>7, <1>10, ListStays
<1>12. PICK m2 : m2 = SetTags(m1, r, z, 0)
  OBVIOUS
<1>13. /\ m2 \in [Addrs(hs) -> Int] /\ m2[r - 8] = z + 0 /\ m2[r + t[r] - 16] = z + 0
       /\ Written(m1, m2, hs, t, {r}, {r}, {})
  <2>1. m1 \in [Addrs(hs) -> Int] /\ r + z = r + t[r] /\ 0 \in {0, 1}
    BY <1>6, <1>8, <1>10
  <2>2. Retagged(m1, m2, hs, t, r, r, z + 0)
    BY ONLY <2>1, <1>2, <1>6, <1>7, z \in Nat, <1>12, TagWrite
  <2> QED
    BY <2>2 DEF Retagged
<1>14. IsList(m2, fl, Addrs(hs), f)
  BY <1>2, <1>6, <1>7, <1>11, <1>13, ListStays
<1>15. PICK h : h = [mem |-> m2, free_list |-> fl]
  OBVIOUS
<1>16. PICK g1 : g1 = replace_in_list(h, b, r)
  OBVIOUS
<1>17. PICK k : k = f \cup {r}
  OBVIOUS
<1>18. k \subseteq DOMAIN t
  BY <1>7, <1>17
<1>19. Nodes(k, Addrs(hs))
  BY <1>2, <1>6, <1>18, FreeNodes
<1>20. IsList(g1.mem, g1.free_list, Addrs(hs), (f \ {b}) \cup {r}) /\ Untouched(m2, g1.mem, k)
  BY <1>3, <1>7, <1>14, <1>15, <1>16, <1>17, <1>19, ListReplace
<1>21. PICK m3 : m3 = g1.mem
  OBVIOUS
<1>22. m3 \in [Addrs(hs) -> Int] /\ Written(m2, m3, hs, t, {}, {}, k)
  BY <1>13, <1>20, <1>21, ListWrite DEF IsList
<1>23. Written(m1, m3, hs, t, {r}, {r}, k)
  <2>1. Written(m1, m3, hs, t, {r} \cup {}, {r} \cup {}, {} \cup k)
    BY <1>13, <1>22, WrittenTwice
  <2> QED
    BY <2>1
<1>24. Keeps(m, m3, hs, t, {b} \cup {r}, {b} \cup {r}, k)
  <2>1. Written(m, m3, hs, t, {b} \cup {r}, {b} \cup {r}, {} \cup k)
    BY <1>10, <1>23, WrittenTwice
  <2>2. Written(m, m3, hs, t, {b} \cup {r}, {b} \cup {r}, k)
    BY <2>1
  <2>3. {b} \cup {r} \subseteq DOMAIN t
    BY <1>7
  <2> QED
    BY <1>2, <1>6, <1>18, <2>2, <2>3, Remains
<1>25. m3[b - 8] = n + 1 /\ m3[b + t[b] - 16] = n + 1
  <2>1. Keeps(m1, m3, hs, t, {r}, {r}, k)
    BY <1>2, <1>6, <1>7, <1>18, <1>23, Remains
  <2>2. m3[b - 8] = m1[b - 8] /\ m3[b + t[b] - 16] = m1[b + t[b] - 16]
    BY <1>6, <1>7, <2>1 DEF Keeps
  <2> QED
    BY <1>10, <2>2
<1>26. m3[r - 8] = t[r] /\ m3[r + t[r] - 16] = t[r]
  <2>1. Keeps(m2, m3, hs, t, {}, {}, k)
    BY <1>2, <1>6, <1>18, <1>22, Remains
  <2>2. m3[r - 8] = m2[r - 8] /\ m3[r + t[r] - 16] = m2[r + t[r] - 16]
    BY <1>7, <2>1 DEF Keeps
  <2> QED
    BY <1>6, <1>8, <1>13, <2>2
<1>27. Tagged(m3, t, a \cup {b}, hs)
  <2>1. FreshTags(m3, t, a \cup {b}, {b} \cup {r})
    <3>1. TagOf(t, a \cup {b}, b) = n + 1
      BY <1>6 DEF TagOf
    <3>2. TagOf(t, a \cup {b}, r) = t[r]
      BY <1>2, <1>6 DEF TagOf
    <3> QED
      BY <1>25, <1>26, <3>1, <3>2 DEF FreshTags
  <2>2. OldTags(m, m3, s, t, a, a \cup {b}, {b} \cup {r})
    BY <1>6, <1>24 DEF OldTags, Keeps
  <2>3. m3[Start + 16] = m[Start + 16] /\ m3[Top(hs) - 8] = m[Top(hs) - 8]
    BY <1>24 DEF Keeps
  <2> QED
    BY <1>2, <2>1, <2>2, <2>3, NewTags
<1>28. Joined(t, a \cup {b}, hs)
  <2>1. SUFFICES ASSUME NEW x \in DOMAIN t \ (a \cup {b}) PROVE x + t[x] \in (a \cup {b}) \cup {Top(hs)}
    BY DEF Joined
  <2>2. CASE x = r
    <3>1. r + t[r] = b + s[b]
      BY <1>3, <1>5, <1>6
    <3>2. b + s[b] \in a \cup {Top(hs)}
      BY <1>2, <1>3 DEF Joined
    <3> QED
      BY <2>2, <3>1, <3>2
  <2>3. CASE x # r
    <3>1. x \in DOMAIN s \ a /\ t[x] = s[x]
      BY <1>6, <2>3
    <3> QED
      BY <1>2, <3>1 DEF Joined
  <2> QED
    BY <2>2, <2>3
<1>29. (f \ {b}) \cup {r} = DOMAIN t \ (a \cup {b}) /\ a \cup {b} \subseteq DOMAIN t
  BY <1>1, <1>2, <1>3, <1>6
<1>30. Shows(g1.mem, g1.free_list, hs, t, a \cup {b})
  BY <1>2, <1>6, <1>20, <1>21, <1>22, <1>27, <1>28, <1>29 DEF Shows
<1>31. Spares(m, g1.mem, hs, s, a)
  <2>1. \A x \in a : x \in DOMAIN t /\ x \notin k /\ t[x] = s[x]
    BY <1>1, <1>2, <1>6, <1>17
  <2> QED
    BY <1>21, <1>24, <2>1 DEF Spares, Keeps
<1>32. g = g1
  BY <1>5, <1>8, <1>9, <1>12, <1>15, <1>16
<1> QED
  BY <1>4, <1>30, <1>31, <1>32


-----------------------------------------------------------------------------
(* mm_free. *)

\* What mm_free learns of the block before, and of the one behind.
Before(m, s, a, b) ==
    \/ prev_allocated(m, b) /\ \A d \in DOMAIN s \ a : d + s[d] # b
    \/ /\ ~prev_allocated(m, b)
       /\ \E d \in DOMAIN s \ a : d = PREV_BLKP(m, b) /\ d + s[d] = b /\ GET_SIZE(m, HDRP(d)) = s[d]
Behind(m, s, a, hs, b) ==
    \/ next_allocated(m, b) /\ b + s[b] \in a \cup {Top(hs)}
    \/ /\ ~next_allocated(m, b)
       /\ \E c \in DOMAIN s \ a : c = NEXT_BLKP(m, b) /\ c = b + s[b] /\ GET_SIZE(m, HDRP(c)) = s[c]

LEMMA Neighbours ==
    ASSUME NEW m, NEW fl, NEW hs, NEW s, NEW a, Shows(m, fl, hs, s, a), NEW b, b \in a
    PROVE  /\ GET_SIZE(m, HDRP(b)) = s[b] /\ NEXT_BLKP(m, b) = b + s[b]
           /\ Before(m, s, a, b) /\ Behind(m, s, a, hs, b)
<1>1. GoodHeap(hs) /\ Tiles(s, hs) /\ Tagged(m, s, a, hs) /\ b \in DOMAIN s
  BY DEF Shows
<1>2. ASSUME NEW x, x \in DOMAIN s
      PROVE  /\ GET_SIZE(m, HDRP(x)) = s[x] /\ GET_SIZE(m, x + s[x] - 16) = s[x]
             /\ GET_ALLOC(m, HDRP(x)) = (IF x \in a THEN 1 ELSE 0) /\ NEXT_BLKP(m, x) = x + s[x]
  BY <1>1, <1>2, Reads
<1>3. b \in Nat /\ s[b] \in Nat /\ s[b] >= 32 /\ b + s[b] <= Top(hs) /\ Top(hs) \in Nat
  BY <1>1, InHeap
<1>4. ASSUME b = First PROVE Before(m, s, a, b)
  <2>1. GET_SIZE(m, b - 16) = 0
    <3>1. b - 16 = Start + 16
      BY <1>4, StartFacts DEF First
    <3>2. m[b - 16] = 0
      BY <1>1, <3>1 DEF Tagged
    <3> QED
      BY <3>2 DEF GET_SIZE
  <2>2. PREV_BLKP(m, b) = b
    BY <1>3, <2>1 DEF PREV_BLKP, OVERHEAD
  <2>3. prev_allocated(m, b)
    BY <1>1, <1>2, <2>2 DEF prev_allocated
  <2>4. ASSUME NEW d \in DOMAIN s, d + s[d] = b PROVE FALSE
    <3>1. d \in Nat /\ d >= First /\ s[d] \in Nat /\ s[d] >= 32
      BY <1>1, InHeap
    <3> QED
      BY <1>3, <1>4, <2>4, <3>1
  <2> QED
    BY <2>3, <2>4 DEF Before
<1>5. ASSUME b # First PROVE Before(m, s, a, b)
  <2>1. PICK d : d \in DOMAIN s /\ d + s[d] = b
    BY <1>1, <1>5 DEF Tiles
  <2>2. d \in Nat /\ s[d] \in Nat /\ s[d] >= 32
    BY <1>1, <2>1, InHeap
  <2>3. GET_SIZE(m, b - 16) = s[d]
    <3>1. GET_SIZE(m, d + s[d] - 16) = s[d]
      BY <1>2, <2>1
    <3>2. d + s[d] - 16 = b - 16
      BY <2>1, <2>2
    <3> QED
      BY ONLY <3>1, <3>2
  <2>4. PREV_BLKP(m, b) = d
    BY <2>1, <2>2, <2>3 DEF PREV_BLKP, OVERHEAD
  <2>5. prev_allocated(m, b) <=> d \in a
    BY <1>2, <2>1, <2>4 DEF prev_allocated
  <2>6. ASSUME NEW x \in DOMAIN s, x + s[x] = b PROVE x = d
    <3>1. x = d \/ x + s[x] <= d \/ d + s[d] <= x
      BY <1>1, <2>1, Apart
    <3>2. x \in Nat /\ s[x] \in Nat /\ s[x] >= 32
      BY <1>1, InHeap
    <3> QED
      BY <2>1, <2>2, <2>6, <3>1, <3>2
  <2>7. prev_allocated(m, b) => \A x \in DOMAIN s \ a : x + s[x] # b
    BY <2>5, <2>6
  <2>8. GET_SIZE(m, HDRP(d)) = s[d]
    BY <1>2, <2>1
  <2> QED
    BY <2>1, <2>4, <2>5, <2>7, <2>8 DEF Before
<1>6. NEXT_BLKP(m, b) = b + s[b] /\ GET_SIZE(m, HDRP(b)) = s[b]
  BY <1>1, <1>2
<1>7. ASSUME b + s[b] = Top(hs) PROVE Behind(m, s, a, hs, b)
  <2>1. m[Top(hs) - 8] = 1
    BY <1>1 DEF Tagged
  <2>2. next_allocated(m, b)
    BY <1>6, <1>7, <2>1 DEF next_allocated, GET_ALLOC, HDRP
  <2> QED
    BY <1>7, <2>2 DEF Behind
<1>8. ASSUME b + s[b] # Top(hs) PROVE Behind(m, s, a, hs, b)
  <2>1. PICK c : c = b + s[b] /\ c \in DOMAIN s
    BY <1>1, <1>8 DEF Tiles
  <2>2. next_allocated(m, b) <=> c \in a
    BY <1>2, <1>6, <2>1 DEF next_allocated
  <2>3. GET_SIZE(m, HDRP(c)) = s[c]
    BY <1>2, <2>1
  <2> QED
    BY <1>6, <2>1, <2>2, <2>3 DEF Behind
<1> QED
  BY <1>4, <1>5, <1>6, <1>7, <1>8

\* A block has one before it at most.
LEMMA OneBefore ==
    ASSUME NEW hs, NEW s, GoodHeap(hs), Tiles(s, hs), NEW b, NEW c, b \in DOMAIN s, c \in DOMAIN s, b + s[b] = c + s[c]
    PROVE  b = c
<1>1. b = c \/ b + s[b] <= c \/ c + s[c] <= b
  BY Apart
<1>2. b \in Nat /\ c \in Nat /\ s[b] \in Nat /\ s[c] \in Nat /\ s[b] >= 32 /\ s[c] >= 32
  BY InHeap
<1> QED
  BY <1>1, <1>2

\* What freeing b makes of the heap: the other allocated blocks stay as they are.
GivesBack(m, g, hs, s, a, b) ==
    /\ Spares(m, g.mem, hs, s, a \ {b})
    /\ \E t : /\ Shows(g.mem, g.free_list, hs, t, a \ {b})
              /\ \A x \in a \ {b} : t[x] = s[x]

\* Both neighbours are in use.
LEMMA GivesAlone ==
    ASSUME NEW m, NEW fl, NEW hs, NEW s, NEW a, Shows(m, fl, hs, s, a), NEW b, b \in a,
           \A d \in DOMAIN s \ a : d + s[d] # b, b + s[b] \in a \cup {Top(hs)}
    PROVE  GivesBack(m, add_to_front_list([mem |-> SetTags(m, b, s[b], 0), free_list |-> fl], b), hs, s, a, b)
<1>1. PICK f : f = DOMAIN s \ a
  OBVIOUS
<1>2. /\ GoodHeap(hs) /\ m \in [Addrs(hs) -> Int] /\ Tiles(s, hs) /\ a \subseteq DOMAIN s
      /\ Tagged(m, s, a, hs) /\ Joined(s, a, hs) /\ IsList(m, fl, Addrs(hs), f) /\ f \subseteq DOMAIN s
  BY <1>1 DEF Shows
<1>3. b \in DOMAIN s /\ b \notin f /\ s[b] \in Nat /\ b \in Nat /\ s[b] >= 32
  <2>1. b \in DOMAIN s
    BY <1>2
  <2> QED
    BY <1>1, <1>2, <2>1, InHeap
<1>4. PICK z \in Nat : z = s[b]
  BY <1>3
<1>5. PICK m1 : m1 = SetTags(m, b, z, 0)
  OBVIOUS
<1>6. /\ m1 \in [Addrs(hs) -> Int] /\ m1[b - 8] = z /\ m1[b + s[b] - 16] = z
      /\ Written(m, m1, hs, s, {b}, {b}, {})
  <2>1. m \in [Addrs(hs) -> Int] /\ b + z = b + s[b] /\ 0 \in {0, 1} /\ z + 0 = z
    BY <1>2, <1>4
  <2>2. Retagged(m, m1, hs, s, b, b, z + 0)
    BY ONLY <2>1, <1>2, <1>3, z \in Nat, <1>5, TagWrite
  <2> QED
    BY <2>1, <2>2 DEF Retagged
<1>7. IsList(m1, fl, Addrs(hs), f)
  BY <1>2, <1>3, <1>6, ListStays
<1>8. PICK h : h = [mem |-> m1, free_list |-> fl]
  OBVIOUS
<1>9. PICK g1 : g1 = add_to_front_list(h, b)
  OBVIOUS
<1>10. PICK k : k = f \cup {b}
  OBVIOUS
<1>11. k \subseteq DOMAIN s
  BY <1>2, <1>3, <1>10
<1>12. Nodes(k, Addrs(hs))
  BY <1>2, <1>11, FreeNodes
<1>13. IsList(g1.mem, g1.free_list, Addrs(hs), k) /\ Untouched(m1, g1.mem, k)
  BY <1>3, <1>7, <1>8, <1>9, <1>10, <1>12, ListAdd
<1>14. PICK m2 : m2 = g1.mem
  OBVIOUS
<1>15. m2 \in [Addrs(hs) -> Int] /\ Written(m1, m2, hs, s, {}, {}, k)
  BY <1>6, <1>13, <1>14, ListWrite DEF IsList
<1>16. Keeps(m1, m2, hs, s, {}, {}, k)
  BY <1>2, <1>11, <1>15, Remains
<1>17. Keeps(m, m2, hs, s, {b}, {b}, k)
  <2>1. Written(m, m2, hs, s, {b} \cup {}, {b} \cup {}, {} \cup k)
    BY <1>6, <1>15, WrittenTwice
  <2>2. Written(m, m2, hs, s, {b}, {b}, k)
    BY <2>1
  <2>3. {b} \subseteq DOMAIN s
    BY <1>3
  <2> QED
    BY <1>2, <1>11, <2>2, <2>3, Remains
<1>18. Tagged(m2, s, a \ {b}, hs)
  <2>1. FreshTags(m2, s, a \ {b}, {b})
    <3>1. TagOf(s, a \ {b}, b) = z
      BY <1>4 DEF TagOf
    <3>2. m2[b - 8] = m1[b - 8] /\ m2[b + s[b] - 16] = m1[b + s[b] - 16]
      BY <1>3, <1>16 DEF Keeps
    <3> QED
      BY <1>6, <3>1, <3>2 DEF FreshTags
  <2>2. OldTags(m, m2, s, s, a, a \ {b}, {b})
    BY <1>17 DEF OldTags, Keeps
  <2>3. m2[Start + 16] = m[Start + 16] /\ m2[Top(hs) - 8] = m[Top(hs) - 8]
    BY <1>17 DEF Keeps
  <2> QED
    BY <1>2, <2>1, <2>2, <2>3, NewTags
<1>19. Joined(s, a \ {b}, hs)
  <2>1. SUFFICES ASSUME NEW x \in DOMAIN s \ (a \ {b}) PROVE x + s[x] \in (a \ {b}) \cup {Top(hs)}
    BY DEF Joined
  <2>2. CASE x = b
    <3>1. b + s[b] # b
      BY <1>3
    <3> QED
      BY <2>2, <3>1
  <2>3. CASE x # b
    BY <1>2, <2>3 DEF Joined
  <2> QED
    BY <2>2, <2>3
<1>20. k = DOMAIN s \ (a \ {b}) /\ a \ {b} \subseteq DOMAIN s
  BY <1>1, <1>2, <1>3, <1>10
<1>21. Shows(g1.mem, g1.free_list, hs, s, a \ {b})
  BY <1>2, <1>13, <1>14, <1>15, <1>18, <1>19, <1>20 DEF Shows
<1>22. Spares(m, g1.mem, hs, s, a \ {b})
  <2>1. \A x \in a \ {b} : x \in DOMAIN s /\ x \notin k
    BY <1>20
  <2> QED
    BY <1>14, <1>17, <2>1 DEF Spares, Keeps
<1>23. g1 = add_to_front_list([mem |-> SetTags(m, b, s[b], 0), free_list |-> fl], b)
  BY <1>4, <1>5, <1>8, <1>9
<1>24. GivesBack(m, g1, hs, s, a, b)
  BY <1>21, <1>22 DEF GivesBack
<1> QED
  BY <1>23, <1>24

\* The block behind is free: b takes its place in the list.
LEMMA GivesWithNext ==
    ASSUME NEW m, NEW fl, NEW hs, NEW s, NEW a, Shows(m, fl, hs, s, a), NEW b, b \in a,
           \A d \in DOMAIN s \ a : d + s[d] # b, NEW c \in DOMAIN s \ a, c = b + s[b]
    PROVE  GivesBack(m, replace_in_list([mem |-> SetTags(m, b, s[b] + s[c], 0), free_list |-> fl], c, b), hs, s, a, b)
<1>1. PICK f : f = DOMAIN s \ a
  OBVIOUS
<1>2. /\ GoodHeap(hs) /\ m \in [Addrs(hs) -> Int] /\ Tiles(s, hs) /\ a \subseteq DOMAIN s
      /\ Tagged(m, s, a, hs) /\ Joined(s, a, hs) /\ IsList(m, fl, Addrs(hs), f) /\ f \subseteq DOMAIN s
  BY <1>1 DEF Shows
<1>3. b \in DOMAIN s /\ b \notin f /\ s[b] \in Nat /\ b \in Nat /\ s[b] >= 32
  <2>1. b \in DOMAIN s
    BY <1>2
  <2> QED
    BY <1>1, <1>2, <2>1, InHeap
<1>4. c \in DOMAIN s /\ c \in f /\ s[c] \in Nat /\ c \in Nat /\ s[c] >= 32
  <2>1. c \in DOMAIN s
    OBVIOUS
  <2> QED
    BY <1>1, <1>2, <2>1, InHeap
<1>5. PICK z \in Nat : z = s[b] + s[c]
  BY <1>3, <1>4
<1>6. PICK t : t = JoinAt(s, b, c)
  OBVIOUS
<1>7. /\ Tiles(t, hs) /\ DOMAIN t = DOMAIN s \ {c} /\ b \in DOMAIN t /\ b # c
      /\ t[b] = z /\ b + t[b] = c + s[c] /\ \A x \in DOMAIN t : x # b => t[x] = s[x]
  <2>1. b + s[b] = c
    OBVIOUS
  <2> QED
    BY <1>2, <1>3, <1>4, <1>5, <1>6, <2>1, JoinTiles
<1>8. PICK m1 : m1 = SetTags(m, b, z, 0)
  OBVIOUS
<1>9. /\ m1 \in [Addrs(hs) -> Int] /\ m1[b - 8] = z /\ m1[c + s[c] - 16] = z
      /\ Written(m, m1, hs, s, {b}, {c}, {})
  <2>1. m \in [Addrs(hs) -> Int] /\ b + z = c + s[c] /\ 0 \in {0, 1} /\ z + 0 = z
    BY <1>2, <1>7
  <2>2. Retagged(m, m1, hs, s, b, c, z + 0)
    BY ONLY <2>1, <1>2, <1>3, <1>4, z \in Nat, <1>8, TagWrite
  <2> QED
    BY <2>1, <2>2 DEF Retagged
<1>10. IsList(m1, fl, Addrs(hs), f)
  BY <1>2, <1>3, <1>4, <1>9, ListStays
<1>11. PICK h : h = [mem |-> m1, free_list |-> fl]
  OBVIOUS
<1>12. PICK g1 : g1 = replace_in_list(h, c, b)
  OBVIOUS
<1>13. PICK k : k = f \cup {b}
  OBVIOUS
<1>14. k \subseteq DOMAIN s
  BY <1>2, <1>3, <1>13
<1>15. Nodes(k, Addrs(hs))
  BY <1>2, <1>14, FreeNodes
<1>16. IsList(g1.mem, g1.free_list, Addrs(hs), (f \ {c}) \cup {b}) /\ Untouched(m1, g1.mem, k)
  BY <1>3, <1>4, <1>10, <1>11, <1>12, <1>13, <1>15, ListReplace
<1>17. PICK m2 : m2 = g1.mem
  OBVIOUS
<1>18. m2 \in [Addrs(hs) -> Int] /\ Written(m1, m2, hs, s, {}, {}, k)
  BY <1>9, <1>16, <1>17, ListWrite DEF IsList
<1>19. Keeps(m1, m2, hs, s, {}, {}, k)
  BY <1>2, <1>14, <1>18, Remains
<1>20. Keeps(m, m2, hs, s, {b}, {c}, k)
  <2>1. Written(m, m2, hs, s, {b} \cup {}, {c} \cup {}, {} \cup k)
    BY <1>9, <1>18, WrittenTwice
  <2>2. Written(m, m2, hs, s, {b}, {c}, k)
    BY <2>1
  <2>3. {b} \subseteq DOMAIN s /\ {c} \subseteq DOMAIN s
    BY <1>3, <1>4
  <2> QED
    BY <1>2, <1>14, <2>2, <2>3, Remains
<1>21. Tagged(m2, t, a \ {b}, hs)
  <2>1. FreshTags(m2, t, a \ {b}, {b})
    <3>1. TagOf(t, a \ {b}, b) = z
      BY <1>7 DEF TagOf
    <3>2. m2[b - 8] = m1[b - 8] /\ m2[c + s[c] - 16] = m1[c + s[c] - 16]
      BY <1>3, <1>4, <1>19 DEF Keeps
    <3>3. b + t[b] - 16 = c + s[c] - 16
      BY <1>3, <1>4, <1>5, <1>7
    <3>4. m2[b - 8] = z /\ m2[b + t[b] - 16] = z
      BY ONLY <1>9, <3>2, <3>3
    <3> QED
      BY <3>1, <3>4 DEF FreshTags
  <2>2. OldTags(m, m2, s, t, a, a \ {b}, {b})
    BY <1>7, <1>20 DEF OldTags, Keeps
  <2>3. m2[Start + 16] = m[Start + 16] /\ m2[Top(hs) - 8] = m[Top(hs) - 8]
    BY <1>20 DEF Keeps
  <2> QED
    BY <1>2, <2>1, <2>2, <2>3, NewTags
<1>22. Joined(t, a \ {b}, hs)
  <2>1. SUFFICES ASSUME NEW x \in DOMAIN t \ (a \ {b}) PROVE x + t[x] \in (a \ {b}) \cup {Top(hs)}
    BY DEF Joined
  <2>2. CASE x = b
    <3>1. c + s[c] \in a \cup {Top(hs)}
      BY <1>2 DEF Joined
    <3>2. c + s[c] # b
      BY <1>3, <1>4
    <3> QED
      BY <1>7, <2>2, <3>1, <3>2
  <2>3. CASE x # b
    <3>1. x \in DOMAIN s \ a /\ t[x] = s[x]
      BY <1>7, <2>3
    <3> QED
      BY <1>2, <3>1 DEF Joined
  <2> QED
    BY <2>2, <2>3
<1>23. (f \ {c}) \cup {b} = DOMAIN t \ (a \ {b}) /\ a \ {b} \subseteq DOMAIN t
  BY <1>1, <1>2, <1>3, <1>4, <1>7
<1>24. Shows(g1.mem, g1.free_list, hs, t, a \ {b})
  BY <1>2, <1>7, <1>16, <1>17, <1>18, <1>21, <1>22, <1>23 DEF Shows
<1>25. Spares(m, g1.mem, hs, s, a \ {b})
  <2>1. \A x \in a \ {b} : x \in DOMAIN s /\ x \notin k
    BY <1>1, <1>2, <1>13
  <2> QED
    BY <1>17, <1>20, <2>1 DEF Spares, Keeps
<1>26. g1 = replace_in_list([mem |-> SetTags(m, b, s[b] + s[c], 0), free_list |-> fl], c, b)
  BY <1>5, <1>8, <1>11, <1>12
<1>27. \A x \in a \ {b} : t[x] = s[x]
  BY <1>7, <1>23
<1>28. GivesBack(m, g1, hs, s, a, b)
  BY <1>24, <1>25, <1>27 DEF GivesBack
<1> QED
  BY <1>26, <1>28

\* The block before is free: it stays where it is in the list.
LEMMA GivesToPrev ==
    ASSUME NEW m, NEW fl, NEW hs, NEW s, NEW a, Shows(m, fl, hs, s, a), NEW b, b \in a,
           b + s[b] \in a \cup {Top(hs)}, NEW d \in DOMAIN s \ a, d + s[d] = b
    PROVE  GivesBack(m, [mem |-> SetTags(m, d, s[b] + s[d], 0), free_list |-> fl], hs, s, a, b)
<1>1. PICK f : f = DOMAIN s \ a
  OBVIOUS
<1>2. /\ GoodHeap(hs) /\ m \in [Addrs(hs) -> Int] /\ Tiles(s, hs) /\ a \subseteq DOMAIN s
      /\ Tagged(m, s, a, hs) /\ Joined(s, a, hs) /\ IsList(m, fl, Addrs(hs), f) /\ f \subseteq DOMAIN s
  BY <1>1 DEF Shows
<1>3. b \in DOMAIN s /\ b \notin f /\ s[b] \in Nat /\ b \in Nat /\ s[b] >= 32
  <2>1. b \in DOMAIN s
    BY <1>2
  <2> QED
    BY <1>1, <1>2, <2>1, InHeap
<1>4. d \in DOMAIN s /\ d \in f /\ s[d] \in Nat /\ d \in Nat /\ s[d] >= 32
  <2>1. d \in DOMAIN s
    OBVIOUS
  <2> QED
    BY <1>1, <1>2, <2>1, InHeap
<1>5. PICK z \in Nat : z = s[b] + s[d]
  BY <1>3, <1>4
<1>6. PICK t : t = JoinAt(s, d, b)
  OBVIOUS
<1>7. /\ Tiles(t, hs) /\ DOMAIN t = DOMAIN s \ {b} /\ d \in DOMAIN t /\ d # b
      /\ t[d] = z /\ d + t[d] = b + s[b] /\ \A x \in DOMAIN t : x # d => t[x] = s[x]
  <2>1. /\ Tiles(t, hs) /\ DOMAIN t = DOMAIN s \ {b} /\ d \in DOMAIN t /\ d # b
        /\ t[d] = s[d] + s[b] /\ d + t[d] = b + s[b] /\ \A x \in DOMAIN t : x # d => t[x] = s[x]
    BY <1>2, <1>3, <1>4, <1>6, JoinTiles
  <2>2. s[d] + s[b] = z
    BY <1>3, <1>4, <1>5
  <2> QED
    BY ONLY <2>1, <2>2
<1>8. PICK m1 : m1 = SetTags(m, d, z, 0)
  OBVIOUS
<1>9. /\ m1 \in [Addrs(hs) -> Int] /\ m1[d - 8] = z /\ m1[b + s[b] - 16] = z
      /\ Written(m, m1, hs, s, {d}, {b}, {})
  <2>1. m \in [Addrs(hs) -> Int] /\ d + z = b + s[b] /\ 0 \in {0, 1} /\ z + 0 = z
    BY <1>2, <1>7
  <2>2. Retagged(m, m1, hs, s, d, b, z + 0)
    BY ONLY <2>1, <1>2, <1>3, <1>4, z \in Nat, <1>8, TagWrite
  <2> QED
    BY <2>1, <2>2 DEF Retagged
<1>10. IsList(m1, fl, Addrs(hs), f)
  BY <1>2, <1>3, <1>4, <1>9, ListStays
<1>11. Keeps(m, m1, hs, s, {d}, {b}, {})
  <2>1. {b} \subseteq DOMAIN s /\ {d} \subseteq DOMAIN s /\ {} \subseteq DOMAIN s
    BY <1>3, <1>4
  <2> QED
    BY <1>2, <1>9, <2>1, Remains
<1>12. Tagged(m1, t, a \ {b}, hs)
  <2>1. FreshTags(m1, t, a \ {b}, {d})
    <3>1. TagOf(t, a \ {b}, d) = z
      BY <1>7 DEF TagOf
    <3>2. d + t[d] - 16 = b + s[b] - 16
      BY <1>3, <1>4, <1>5, <1>7
    <3>3. m1[d - 8] = z /\ m1[d + t[d] - 16] = z
      BY ONLY <1>9, <3>2
    <3> QED
      BY <3>1, <3>3 DEF FreshTags
  <2>2. OldTags(m, m1, s, t, a, a \ {b}, {d})
    BY <1>7, <1>11 DEF OldTags, Keeps
  <2>3. m1[Start + 16] = m[Start + 16] /\ m1[Top(hs) - 8] = m[Top(hs) - 8]
    BY <1>11 DEF Keeps
  <2> QED
    BY <1>2, <2>1, <2>2, <2>3, NewTags
<1>13. Joined(t, a \ {b}, hs)
  <2>1. SUFFICES ASSUME NEW x \in DOMAIN t \ (a \ {b}) PROVE x + t[x] \in (a \ {b}) \cup {Top(hs)}
    BY DEF Joined
  <2>2. CASE x = d
    <3>1. b + s[b] # b
      BY <1>3
    <3> QED
      BY <1>7, <2>2, <3>1
  <2>3. CASE x # d
    <3>1. x \in DOMAIN s \ a /\ t[x] = s[x] /\ x \in DOMAIN s
      BY <1>7, <2>3
    <3>2. x + s[x] # b
      BY <1>2, <1>4, <2>3, <3>1, OneBefore
    <3> QED
      BY <1>2, <3>1, <3>2 DEF Joined
  <2> QED
    BY <2>2, <2>3
<1>14. f = DOMAIN t \ (a \ {b}) /\ a \ {b} \subseteq DOMAIN t
  BY <1>1, <1>2, <1>3, <1>7
<1>15. Shows(m1, fl, hs, t, a \ {b})
  BY <1>2, <1>7, <1>9, <1>10, <1>12, <1>13, <1>14 DEF Shows
<1>16. Spares(m, m1, hs, s, a \ {b})
  <2>1. \A x \in a \ {b} : x \in DOMAIN s /\ x \notin {}
    BY <1>2
  <2> QED
    BY <1>11, <2>1 DEF Spares, Keeps
<1>17. m1 = SetTags(m, d, s[b] + s[d], 0)
  BY <1>5, <1>8
<1>18. \A x \in a \ {b} : t[x] = s[x]
  BY <1>1, <1>4, <1>7, <1>14
<1>19. PICK g : g = [mem |-> m1, free_list |-> fl]
  OBVIOUS
<1>20. GivesBack(m, g, hs, s, a, b)
  BY <1>15, <1>16, <1>18, <1>19 DEF GivesBack
<1> QED
  BY <1>17, <1>19, <1>20

\* Both are free: the one before grows over b and the one behind, which leaves the list.
LEMMA GivesBetween ==
    ASSUME NEW m, NEW fl, NEW hs, NEW s, NEW a, Shows(m, fl, hs, s, a), NEW b, b \in a,
           NEW c \in DOMAIN s \ a, c = b + s[b], NEW d \in DOMAIN s \ a, d + s[d] = b
    PROVE  GivesBack(m, delete_from_list([mem |-> SetTags(m, d, s[b] + s[d] + s[c], 0), free_list |-> fl], c),
                     hs, s, a, b)
<1>1. PICK f : f = DOMAIN s \ a
  OBVIOUS
<1>2. /\ GoodHeap(hs) /\ m \in [Addrs(hs) -> Int] /\ Tiles(s, hs) /\ a \subseteq DOMAIN s
      /\ Tagged(m, s, a, hs) /\ Joined(s, a, hs) /\ IsList(m, fl, Addrs(hs), f) /\ f \subseteq DOMAIN s
  BY <1>1 DEF Shows
<1>3. b \in DOMAIN s /\ b \notin f /\ s[b] \in Nat /\ b \in Nat /\ s[b] >= 32
  <2>1. b \in DOMAIN s
    BY <1>2
  <2> QED
    BY <1>1, <1>2, <2>1, InHeap
<1>4. d \in DOMAIN s /\ d \in f /\ s[d] \in Nat /\ d \in Nat /\ s[d] >= 32
  <2>1. d \in DOMAIN s
    OBVIOUS
  <2> QED
    BY <1>1, <1>2, <2>1, InHeap
<1>5. c \in DOMAIN s /\ c \in f /\ s[c] \in Nat /\ c \in Nat /\ s[c] >= 32
  <2>1. c \in DOMAIN s
    OBVIOUS
  <2> QED
    BY <1>1, <1>2, <2>1, InHeap
<1>6. PICK z \in Nat : z = s[b] + s[d] + s[c]
  BY <1>3, <1>4, <1>5
<1>7. PICK t1 : t1 = JoinAt(s, b, c)
  OBVIOUS
<1>8. /\ Tiles(t1, hs) /\ DOMAIN t1 = DOMAIN s \ {c} /\ b \in DOMAIN t1 /\ b # c
      /\ t1[b] = s[b] + s[c] /\ b + t1[b] = c + s[c] /\ \A x \in DOMAIN t1 : x # b => t1[x] = s[x]
  <2>1. b + s[b] = c
    OBVIOUS
  <2> QED
    BY <1>2, <1>3, <1>5, <1>7, <2>1, JoinTiles
<1>9. d # b /\ d # c /\ d \in DOMAIN t1 /\ t1[d] = s[d] /\ d + t1[d] = b
  <2>1. d # b /\ d # c
    BY <1>3, <1>4, <1>5
  <2> QED
    BY <1>4, <1>8, <2>1
<1>10. PICK t : t = JoinAt(t1, d, b)
  OBVIOUS
<1>11. /\ Tiles(t, hs) /\ DOMAIN t = DOMAIN s \ {b, c} /\ d \in DOMAIN t
       /\ t[d] = z /\ d + t[d] = c + s[c] /\ \A x \in DOMAIN t : x # d => t[x] = s[x]
  <2>1. /\ Tiles(t, hs) /\ DOMAIN t = DOMAIN t1 \ {b} /\ d \in DOMAIN t
        /\ t[d] = t1[d] + t1[b] /\ d + t[d] = b + t1[b] /\ \A x \in DOMAIN t : x # d => t[x] = t1[x]
    BY <1>2, <1>8, <1>9, <1>10, JoinTiles
  <2>2. t[d] = z
    BY <1>3, <1>4, <1>5, <1>6, <1>8, <1>9, <2>1
  <2>3. DOMAIN t = DOMAIN s \ {b, c}
    BY <1>8, <2>1
  <2>4. \A x \in DOMAIN t : x # d => t[x] = s[x]
    BY <1>8, <2>1
  <2> QED
    BY <1>8, <2>1, <2>2, <2>3, <2>4
<1>12. PICK m1 : m1 = SetTags(m, d, z, 0)
  OBVIOUS
<1>13. /\ m1 \in [Addrs(hs) -> Int] /\ m1[d - 8] = z /\ m1[c + s[c] - 16] = z
       /\ Written(m, m1, hs, s, {d}, {c}, {})
  <2>1. m \in [Addrs(hs) -> Int] /\ d + z = c + s[c] /\ 0 \in {0, 1} /\ z + 0 = z
    BY <1>2, <1>11
  <2>2. Retagged(m, m1, hs, s, d, c, z + 0)
    BY ONLY <2>1, <1>2, <1>4, <1>5, z \in Nat, <1>12, TagWrite
  <2> QED
    BY <2>1, <2>2 DEF Retagged
<1>14. IsList(m1, fl, Addrs(hs), f)
  BY <1>2, <1>4, <1>5, <1>13, ListStays
<1>15. PICK h : h = [mem |-> m1, free_list |-> fl]
  OBVIOUS
<1>16. PICK g1 : g1 = delete_from_list(h, c)
  OBVIOUS
<1>17. IsList(g1.mem, g1.free_list, Addrs(hs), f \ {c}) /\ Untouched(m1, g1.mem, f)
  BY <1>5, <1>14, <1>15, <1>16, ListDelete
<1>18. PICK m2 : m2 = g1.mem
  OBVIOUS
<1>19. m2 \in [Addrs(hs) -> Int] /\ Written(m1, m2, hs, s, {}, {}, f)
  BY <1>13, <1>17, <1>18, ListWrite DEF IsList
<1>20. Keeps(m1, m2, hs, s, {}, {}, f)
  BY <1>2, <1>19, Remains
<1>21. Keeps(m, m2, hs, s, {d}, {c}, f)
  <2>1. Written(m, m2, hs, s, {d} \cup {}, {c} \cup {}, {} \cup f)
    BY <1>13, <1>19, WrittenTwice
  <2>2. Written(m, m2, hs, s, {d}, {c}, f)
    BY <2>1
  <2>3. {d} \subseteq DOMAIN s /\ {c} \subseteq DOMAIN s
    BY <1>4, <1>5
  <2> QED
    BY <1>2, <2>2, <2>3, Remains
<1>22. Tagged(m2, t, a \ {b}, hs)
  <2>1. FreshTags(m2, t, a \ {b}, {d})
    <3>1. TagOf(t, a \ {b}, d) = z
      BY <1>11 DEF TagOf
    <3>2. m2[d - 8] = m1[d - 8] /\ m2[c + s[c] - 16] = m1[c + s[c] - 16]
      BY <1>4, <1>5, <1>20 DEF Keeps
    <3>3. d + t[d] - 16 = c + s[c] - 16
      BY <1>4, <1>5, <1>6, <1>11
    <3>4. m2[d - 8] = z /\ m2[d + t[d] - 16] = z
      BY ONLY <1>13, <3>2, <3>3
    <3> QED
      BY <3>1, <3>4 DEF FreshTags
  <2>2. OldTags(m, m2, s, t, a, a \ {b}, {d})
    BY <1>11, <1>21 DEF OldTags, Keeps
  <2>3. m2[Start + 16] = m[Start + 16] /\ m2[Top(hs) - 8] = m[Top(hs) - 8]
    BY <1>21 DEF Keeps
  <2> QED
    BY <1>2, <2>1, <2>2, <2>3, NewTags
<1>23. Joined(t, a \ {b}, hs)
  <2>1. SUFFICES ASSUME NEW x \in DOMAIN t \ (a \ {b}) PROVE x + t[x] \in (a \ {b}) \cup {Top(hs)}
    BY DEF Joined
  <2>2. CASE x = d
    <3>1. c + s[c] \in a \cup {Top(hs)}
      BY <1>2 DEF Joined
    <3>2. c + s[c] # b
      BY <1>3, <1>5
    <3> QED
      BY <1>11, <2>2, <3>1, <3>2
  <2>3. CASE x # d
    <3>1. x \in DOMAIN s \ a /\ t[x] = s[x] /\ x \in DOMAIN s
      BY <1>11, <2>3
    <3>2. x + s[x] # b
      BY <1>2, <1>4, <2>3, <3>1, OneBefore
    <3> QED
      BY <1>2, <3>1, <3>2 DEF Joined
  <2> QED
    BY <2>2, <2>3
<1>24. f \ {c} = DOMAIN t \ (a \ {b}) /\ a \ {b} \subseteq DOMAIN t
  BY <1>1, <1>2, <1>3, <1>5, <1>11
<1>25. Shows(g1.mem, g1.free_list, hs, t, a \ {b})
  BY <1>2, <1>11, <1>17, <1>18, <1>19, <1>22, <1>23, <1>24 DEF Shows
<1>26. Spares(m, g1.mem, hs, s, a \ {b})
  <2>1. \A x \in a \ {b} : x \in DOMAIN s /\ x \notin f
    BY <1>1, <1>2
  <2> QED
    BY <1>18, <1>21, <2>1 DEF Spares, Keeps
<1>27. g1 = delete_from_list([mem |-> SetTags(m, d, s[b] + s[d] + s[c], 0), free_list |-> fl], c)
  BY <1>6, <1>12, <1>15, <1>16
<1>28. \A x \in a \ {b} : t[x] = s[x]
  BY <1>1, <1>4, <1>11, <1>24
<1>29. GivesBack(m, g1, hs, s, a, b)
  BY <1>25, <1>26, <1>28 DEF GivesBack
<1> QED
  BY <1>27, <1>29

\* Whatever the neighbours of b are, mm_free gives it back.
LEMMA ReleaseGivesBack ==
    ASSUME NEW m, NEW fl, NEW hs, NEW s, NEW a, Shows(m, fl, hs, s, a), NEW b, b \in a
    PROVE  GivesBack(m, Release([mem |-> m, free_list |-> fl], b), hs, s, a, b)
<1>1. PICK h : h = [mem |-> m, free_list |-> fl]
  OBVIOUS
<1>2. /\ GET_SIZE(m, HDRP(b)) = s[b] /\ NEXT_BLKP(m, b) = b + s[b]
      /\ Before(m, s, a, b) /\ Behind(m, s, a, hs, b)
  BY Neighbours
<1>3. h.mem = m /\ \A v, w : [h EXCEPT !.mem = SetTags(m, v, w, 0)] = [mem |-> SetTags(m, v, w, 0), free_list |-> fl]
  BY <1>1
<1>4. CASE prev_allocated(m, b) /\ next_allocated(m, b)
  <2>1. (\A d \in DOMAIN s \ a : d + s[d] # b) /\ b + s[b] \in a \cup {Top(hs)}
    BY <1>2, <1>4 DEF Before, Behind
  <2>2. Release(h, b) = add_to_front_list([mem |-> SetTags(m, b, s[b], 0), free_list |-> fl], b)
    BY <1>2, <1>3, <1>4 DEF Release
  <2> QED
    BY <1>1, <2>1, <2>2, GivesAlone
<1>5. CASE prev_allocated(m, b) /\ ~next_allocated(m, b)
  <2>1. (\A d \in DOMAIN s \ a : d + s[d] # b)
    BY <1>2, <1>5 DEF Before
  <2>2. PICK c \in DOMAIN s \ a : c = NEXT_BLKP(m, b) /\ c = b + s[b] /\ GET_SIZE(m, HDRP(c)) = s[c]
    BY <1>2, <1>5 DEF Behind
  <2>3. Release(h, b) = replace_in_list([mem |-> SetTags(m, b, s[b] + s[c], 0), free_list |-> fl], c, b)
    BY <1>2, <1>3, <1>5, <2>2 DEF Release
  <2> QED
    BY <1>1, <2>1, <2>2, <2>3, GivesWithNext
<1>6. CASE ~prev_allocated(m, b) /\ next_allocated(m, b)
  <2>1. b + s[b] \in a \cup {Top(hs)}
    BY <1>2, <1>6 DEF Behind
  <2>2. PICK d \in DOMAIN s \ a : d = PREV_BLKP(m, b) /\ d + s[d] = b /\ GET_SIZE(m, HDRP(d)) = s[d]
    BY <1>2, <1>6 DEF Before
  <2>3. Release(h, b) = [mem |-> SetTags(m, d, s[b] + s[d], 0), free_list |-> fl]
    BY <1>2, <1>3, <1>6, <2>2 DEF Release
  <2> QED
    BY <1>1, <2>1, <2>2, <2>3, GivesToPrev
<1>7. CASE ~prev_allocated(m, b) /\ ~next_allocated(m, b)
  <2>1. PICK c \in DOMAIN s \ a : c = NEXT_BLKP(m, b) /\ c = b + s[b] /\ GET_SIZE(m, HDRP(c)) = s[c]
    BY <1>2, <1>7 DEF Behind
  <2>2. PICK d \in DOMAIN s \ a : d = PREV_BLKP(m, b) /\ d + s[d] = b /\ GET_SIZE(m, HDRP(d)) = s[d]
    BY <1>2, <1>7 DEF Before
  <2>3. Release(h, b) = delete_from_list([mem |-> SetTags(m, d, s[b] + s[d] + s[c], 0), free_list |-> fl], c)
    BY <1>2, <1>3, <1>7, <2>1, <2>2 DEF Release
  <2> QED
    BY <1>1, <2>1, <2>2, <2>3, GivesBetween
<1> QED
  BY <1>4, <1>5, <1>6, <1>7

-----------------------------------------------------------------------------
(* What mm_malloc makes of a free block, and the client of what it is given. *)

Takes(m, g, hs, s, a, b, need) ==
    /\ Spares(m, g.mem, hs, s, a)
    /\ \E t : /\ Shows(g.mem, g.free_list, hs, t, a \cup {b})
              /\ t[b] \in {need, need + 16} /\ \A x \in a : t[x] = s[x]

LEMMA PlaceTakes ==
    ASSUME NEW m, NEW fl, NEW hs, NEW s, NEW a, Shows(m, fl, hs, s, a), NEW b \in DOMAIN s \ a,
           NEW n \in Nat, n % 16 = 0, n >= 32, s[b] >= n
    PROVE  Takes(m, Place([mem |-> m, free_list |-> fl], b, n), hs, s, a, b, n)
<1>1. PICK h : h = [mem |-> m, free_list |-> fl]
  OBVIOUS
<1>2. GoodHeap(hs) /\ m \in [Addrs(hs) -> Int] /\ Tiles(s, hs) /\ Tagged(m, s, a, hs) /\ a \subseteq DOMAIN s
  BY DEF Shows
<1>3. b \in DOMAIN s
  OBVIOUS
<1>4. b \in Nat /\ s[b] \in Nat /\ s[b] % 16 = 0 /\ b - 8 \in Addrs(hs)
  BY <1>2, <1>3, InHeap
<1>5. GET_SIZE(m, HDRP(b)) = s[b]
  BY <1>2, <1>3, Reads
<1>6. h.mem = m /\ \A v : [h EXCEPT !.mem = v] = [mem |-> v, free_list |-> fl]
  BY <1>1
<1>7. TooSmall(s[b] - n) <=> s[b] < n + 32
  BY <1>4 DEF TooSmall, LIST_NODE, OVERHEAD
<1>8. CASE s[b] < n + 32
  <2>1. PICK g : g = delete_from_list([mem |-> SetTags(m, b, s[b], 1), free_list |-> fl], b)
    OBVIOUS
  <2>2. Place(h, b, n) = g
    BY <1>5, <1>6, <1>7, <1>8, <2>1 DEF Place
  <2>3. Shows(g.mem, g.free_list, hs, s, a \cup {b}) /\ Spares(m, g.mem, hs, s, a)
    BY <2>1, TakesWhole
  <2>4. s[b] \in {n, n + 16}
    BY <1>4, <1>8
  <2>5. Takes(m, g, hs, s, a, b, n)
    BY <2>3, <2>4 DEF Takes
  <2> QED
    BY <1>1, <2>2, <2>5
<1>9. CASE ~(s[b] < n + 32)
  <2>1. s[b] >= n + 32
    BY <1>4, <1>9
  <2>2. PICK head : head = SetTags(m, b, n, 1)
    OBVIOUS
  <2>3. NEXT_BLKP(head, b) = b + n
    <3>1. b + n - 16 # b - 8
      BY <1>4
    <3>2. head[b - 8] = n + 1
      <4>1. head = [[m EXCEPT ![b - 8] = n + 1] EXCEPT ![b + n - 16] = n + 1]
        BY <2>2 DEF SetTags, HDRP, OVERHEAD
      <4> QED
        BY <1>2, <1>4, <3>1, <4>1
    <3>3. (n + 1) - ((n + 1) % 16) = n
      BY TagReads
    <3> QED
      BY <3>2, <3>3 DEF NEXT_BLKP, GET_SIZE, HDRP
  <2>4. PICK g : g = replace_in_list([mem |-> SetTags(SetTags(m, b, n, 1), b + n, s[b] - n, 0),
                                     free_list |-> fl], b, b + n)
    OBVIOUS
  <2>5. Place(h, b, n) = g
    BY <1>5, <1>6, <1>7, <1>9, <2>2, <2>3, <2>4 DEF Place
  <2>6. PICK t : t = SplitAt(s, b, n)
    OBVIOUS
  <2>7. Shows(g.mem, g.free_list, hs, t, a \cup {b}) /\ Spares(m, g.mem, hs, s, a)
    BY <2>1, <2>4, <2>6, TakesPart
  <2>8. t[b] = n /\ \A x \in DOMAIN s : x # b => t[x] = s[x]
    <3>1. GoodHeap(hs) /\ Tiles(s, hs) /\ b \in DOMAIN s /\ n \in Nat /\ n % 16 = 0 /\ n >= 32 /\ s[b] >= n + 32
      BY <1>2, <1>3, <2>1
    <3>2. Splits(s, SplitAt(s, b, n), hs, b, n)
      BY ONLY <3>1, SplitTiles
    <3> QED
      BY <2>6, <3>2 DEF Splits
  <2>9. \A x \in a : t[x] = s[x]
    BY <1>2, <2>8
  <2>10. Takes(m, g, hs, s, a, b, n)
    BY <2>7, <2>8, <2>9 DEF Takes
  <2> QED
    BY <1>1, <2>5, <2>10
<1> QED
  BY <1>8, <1>9

\* What the client puts into a block stays within it.
LEMMA WordsInside ==
    ASSUME NEW hs, NEW s, GoodHeap(hs), Tiles(s, hs), NEW b, b \in DOMAIN s, NEW size \in Nat, size + 16 <= s[b],
           NEW w, w \in Words(b, size)
    PROVE  w \in Int /\ w \in Addrs(hs) /\ b <= w /\ w < b + s[b] - 16
<1>1. /\ b \in Nat /\ b % 16 = 0 /\ b >= First /\ s[b] \in Nat /\ b + s[b] <= Top(hs) /\ Top(hs) \in Nat
      /\ First = Start + 32 /\ Start \in Nat
  BY InHeap, StartFacts DEF First
<1>2. PICK i \in 0..((size + 7) \div 8) - 1 : w = b + 8 * i
  BY DEF Words
<1>3. i \in Nat /\ 8 * i + 8 <= size + 7
  BY <1>2
<1>4. w \in Int /\ b <= w /\ w < b + s[b] - 16 /\ w % 8 = 0
  BY <1>1, <1>2, <1>3
<1>5. Start <= w /\ w < Top(hs)
  BY <1>1, <1>4
<1> QED
  BY <1>4, <1>5, AddrsAre

Filled(m, g, fl, hs, s, a, b, size, key) ==
    /\ Shows(g, fl, hs, s, a) /\ Spares(m, g, hs, s, a \ {b})
    /\ \A w \in Words(b, size) : g[w] = FilledWith(key)

LEMMA Fills ==
    ASSUME NEW m, NEW fl, NEW hs, NEW s, NEW a, Shows(m, fl, hs, s, a), NEW b, b \in a,
           NEW size \in Nat, size + 16 <= s[b], NEW key \in Int, NEW g, g = fill(m, b, size, key)
    PROVE  Filled(m, g, fl, hs, s, a, b, size, key)
<1>1. g = fill(m, b, size, key)
  OBVIOUS
<1>2. /\ GoodHeap(hs) /\ m \in [Addrs(hs) -> Int] /\ Tiles(s, hs) /\ a \subseteq DOMAIN s
      /\ Tagged(m, s, a, hs) /\ Joined(s, a, hs) /\ IsList(m, fl, Addrs(hs), DOMAIN s \ a)
  BY DEF Shows
<1>3. b \in DOMAIN s
  BY <1>2
<1>4. \A w \in Words(b, size) : w \in Int /\ w \in Addrs(hs) /\ b <= w /\ w < b + s[b] - 16
  BY <1>2, <1>3, WordsInside
<1>5. FilledWith(key) \in Int
  BY DEF FilledWith
<1>6. /\ g \in [Addrs(hs) -> Int] /\ \A w \in Words(b, size) : g[w] = FilledWith(key)
      /\ \A w \in Addrs(hs) : w \notin Words(b, size) => g[w] = m[w]
  <2>1. g = [w \in Addrs(hs) |-> IF w \in Words(b, size) THEN FilledWith(key) ELSE m[w]]
    BY <1>1, <1>2 DEF fill
  <2> QED
    BY <1>2, <1>4, <1>5, <2>1
<1>7. ASSUME NEW y \in DOMAIN s
      PROVE  /\ g[y - 8] = m[y - 8] /\ g[y + s[y] - 16] = m[y + s[y] - 16]
             /\ y # b => g[y] = m[y] /\ g[y + 8] = m[y + 8]
             /\ g[Start + 16] = m[Start + 16] /\ g[Top(hs) - 8] = m[Top(hs) - 8]
  <2>1. y - 8 \in Addrs(hs) /\ y + s[y] - 16 \in Addrs(hs) /\ y \in Addrs(hs) /\ y + 8 \in Addrs(hs)
    BY <1>2, InHeap
  <2>2. \A w \in Int : b <= w /\ w < b + s[b] - 16 =>
           w # y - 8 /\ w # y + s[y] - 16 /\ (b # y => w # y /\ w # y + 8)
    BY <1>2, <1>3, OneUse
  <2>3. \A w \in Words(b, size) : w # y - 8 /\ w # y + s[y] - 16 /\ (b # y => w # y /\ w # y + 8)
    BY <1>4, <2>2
  <2>4. Start + 16 \notin Words(b, size) /\ Top(hs) - 8 \notin Words(b, size)
    <3>1. /\ b \in Nat /\ b >= First /\ s[b] \in Nat /\ b + s[b] <= Top(hs) /\ Top(hs) \in Nat
          /\ First = Start + 32 /\ Start \in Nat
      BY <1>2, <1>3, InHeap, StartFacts DEF First
    <3>2. ~(b <= Start + 16) /\ ~(Top(hs) - 8 < b + s[b] - 16)
      BY <3>1
    <3> QED
      BY <1>4, <3>2
  <2>5. Start + 16 \in Addrs(hs) /\ Top(hs) - 8 \in Addrs(hs)
    <3>1. Start \in Nat /\ Start % 16 = 0 /\ Top(hs) = Start + hs /\ hs \in Nat /\ hs >= 64 /\ hs % 16 = 0
      BY <1>2, StartFacts DEF GoodHeap, Top
    <3>2. /\ Start + 16 \in Int /\ (Start + 16) % 8 = 0 /\ Start <= Start + 16 /\ Start + 16 < Top(hs)
          /\ Top(hs) - 8 \in Int /\ (Top(hs) - 8) % 8 = 0 /\ Start <= Top(hs) - 8 /\ Top(hs) - 8 < Top(hs)
      BY <3>1
    <3> QED
      BY <1>2, <3>2, AddrsAre
  <2> QED
    BY <1>6, <2>1, <2>3, <2>4, <2>5
<1>8. Tagged(g, s, a, hs)
  BY <1>2, <1>3, <1>7 DEF Tagged
<1>9. IsList(g, fl, Addrs(hs), DOMAIN s \ a)
  <2>1. PICK l, n : Enumerates(l, n, DOMAIN s \ a) /\ Linked(m, fl, l, n)
    BY <1>2 DEF IsList
  <2>2. \A i \in 1..n : g[l[i]] = m[l[i]] /\ g[l[i] + 8] = m[l[i] + 8]
    <3>1. \A i \in 1..n : l[i] \in DOMAIN s \ a
      BY <2>1 DEF Enumerates
    <3>2. \A i \in 1..n : l[i] \in DOMAIN s /\ l[i] # b
      BY <3>1
    <3> QED
      BY <1>7, <3>2
  <2>3. Linked(g, fl, l, n)
    BY <2>1, <2>2 DEF Linked
  <2> QED
    BY <1>2, <1>6, <2>1, <2>3 DEF IsList
<1>10. Shows(g, fl, hs, s, a)
  BY <1>2, <1>6, <1>8, <1>9 DEF Shows
<1>11. Spares(m, g, hs, s, a \ {b})
  <2>1. ASSUME NEW y \in a \ {b}, NEW w \in Addrs(hs), y <= w, w < y + s[y] - 16 PROVE w \notin Words(b, size)
    <3>1. y \in DOMAIN s /\ y # b
      BY <1>2
    <3>2. y \in Nat /\ b \in Nat /\ s[y] \in Nat /\ s[b] \in Nat /\ w \in Int
      BY <1>2, <1>3, <3>1, InHeap, AddrsAre
    <3>3. y + s[y] <= b \/ b + s[b] <= y
      BY <1>2, <1>3, <3>1, Apart
    <3>4. ~(b <= w /\ w < b + s[b] - 16)
      BY <2>1, <3>2, <3>3
    <3> QED
      BY <1>4, <3>4
  <2> QED
    BY <1>6, <2>1 DEF Spares
<1> QED
  BY <1>6, <1>10, <1>11 DEF Filled

-----------------------------------------------------------------------------
(* What the calls make of a heap that is sound. *)

KeptOn(m, s, lv, e) ==
    \A b \in e : /\ lv[b].size \in Nat /\ lv[b].size + 16 <= s[b]
                 /\ \A w \in Words(b, lv[b].size) : m[w] = FilledWith(lv[b].key)

LEMMA KeptStays ==
    ASSUME NEW m, NEW g, NEW hs, NEW s, NEW t, NEW lv, NEW e, GoodHeap(hs), Tiles(s, hs), KeptOn(m, s, lv, e),
           e \subseteq DOMAIN s, Spares(m, g, hs, s, e), \A b \in e : t[b] = s[b]
    PROVE  KeptOn(g, t, lv, e)
<1>1. ASSUME NEW b \in e, NEW w \in Words(b, lv[b].size) PROVE g[w] = FilledWith(lv[b].key)
  <2>1. PICK z \in Nat : z = lv[b].size
    BY DEF KeptOn
  <2>2. b \in DOMAIN s /\ z + 16 <= s[b]
    BY <2>1 DEF KeptOn
  <2>3. w \in Addrs(hs) /\ b <= w /\ w < b + s[b] - 16
    BY <2>1, <2>2, WordsInside
  <2>4. g[w] = m[w]
    BY <2>3 DEF Spares
  <2> QED
    BY <2>4 DEF KeptOn
<1> QED
  BY <1>1 DEF KeptOn

\* NULL is no word of the heap, which has finitely many.
LEMMA AddrsFinite ==
    ASSUME NEW hs, GoodHeap(hs)
    PROVE  IsFiniteSet(Addrs(hs)) /\ NULL \notin Addrs(hs)
<1>1. hs \in Nat /\ hs >= 64 /\ hs % 16 = 0 /\ Start \in Nat /\ Start > 0
  BY StartFacts DEF GoodHeap
<1>2. NULL \notin Addrs(hs)
  <2>1. ~(Start <= 0)
    BY <1>1
  <2> QED
    BY <2>1, AddrsAre DEF NULL
<1>3. IsFiniteSet(0..(hs \div 8) - 1)
  BY <1>1, FS_Interval
<1> DEFINE word == [i \in 0..(hs \div 8) - 1 |-> Start + 8 * i]
<1>4. word \in Surjection(0..(hs \div 8) - 1, Addrs(hs))
  BY DEF Surjection, Addrs
<1>5. IsFiniteSet(Addrs(hs))
  BY <1>3, <1>4, FS_Surjection
<1> QED
  BY <1>2, <1>5

\* mm_malloc has looked at every free block when it refuses.
Refused(s, lv, size) == \A b \in DOMAIN s \ DOMAIN lv : ~(s[b] >= real_size(size))
With(lv, v, size, key) == [b \in DOMAIN lv \cup {v} |-> IF b = v THEN [size |-> size, key |-> key] ELSE lv[b]]
Granted(m, fl, hs, s, lv, v, size, lv2) ==
    /\ v \in DOMAIN s \ DOMAIN lv
    /\ \E t : /\ Shows(m, fl, hs, t, DOMAIN lv2) /\ Kept(m, t, lv2)
              /\ t[v] \in {real_size(size), real_size(size) + 16} /\ \A x \in DOMAIN lv : t[x] = s[x]
Freed(m, fl, hs, s, lv2) ==
    \E t : /\ Shows(m, fl, hs, t, DOMAIN lv2) /\ Kept(m, t, lv2)
           /\ \A x \in DOMAIN lv2 : t[x] = s[x]

LEMMA MallocFinds ==
    ASSUME NEW m, NEW fl, NEW hs, NEW s, NEW lv, Shows(m, fl, hs, s, DOMAIN lv), Kept(m, s, lv), NEW size, Fits(size)
    PROVE  LET v == FirstFit([mem |-> m, free_list |-> fl], real_size(size))
           IN  \/ v = NULL /\ Refused(s, lv, size)
               \/ v # NULL /\ v \in DOMAIN s \ DOMAIN lv /\ s[v] >= real_size(size)
<1>1. PICK v : v = FirstFit([mem |-> m, free_list |-> fl], real_size(size))
  OBVIOUS
<1>2. PICK f : f = DOMAIN s \ DOMAIN lv
  OBVIOUS
<1>3. /\ GoodHeap(hs) /\ Tiles(s, hs) /\ Tagged(m, s, DOMAIN lv, hs) /\ IsList(m, fl, Addrs(hs), f)
  BY <1>2 DEF Shows
<1>4. \A b \in DOMAIN s : b \in Addrs(hs) /\ GET_SIZE(m, HDRP(b)) = s[b]
  BY <1>3, InHeap, Reads
<1>5. PICK A : A = Addrs(hs)
  OBVIOUS
<1>6. f \in SUBSET A /\ IsFiniteSet(A) /\ NULL \notin A /\ IsList(m, fl, A, f)
  BY <1>2, <1>3, <1>4, <1>5, AddrsFinite
<1>7. PICK need : need = real_size(size)
  OBVIOUS
<1>8. \/ v \in f /\ v # NULL /\ GET_SIZE(m, HDRP(v)) >= need
      \/ v = NULL /\ \A b \in f : ~(GET_SIZE(m, HDRP(b)) >= need)
  <2>1. v = FirstFit([mem |-> m, free_list |-> fl], need)
    BY <1>1, <1>7
  <2> QED
    BY ONLY <1>6, <2>1, FirstFitFinds
<1>9. \/ v = NULL /\ Refused(s, lv, size)
      \/ v # NULL /\ v \in DOMAIN s \ DOMAIN lv /\ s[v] >= real_size(size)
  BY <1>2, <1>4, <1>7, <1>8 DEF Refused
<1> QED
  BY <1>1, <1>9

LEMMA MallocGrants ==
    ASSUME NEW m, NEW fl, NEW hs, NEW s, NEW lv, Shows(m, fl, hs, s, DOMAIN lv), Kept(m, s, lv), NEW size, Fits(size),
           NEW key \in Int, NEW v \in DOMAIN s \ DOMAIN lv, s[v] >= real_size(size)
    PROVE  LET g == Place([mem |-> m, free_list |-> fl], v, real_size(size))
           IN  Granted(fill(g.mem, v, size, key), g.free_list, hs, s, lv, v, size, With(lv, v, size, key))
<1>1. PICK a : a = DOMAIN lv
  OBVIOUS
<1>2. PICK n : n = real_size(size)
  OBVIOUS
<1>3. size \in Nat /\ n \in Nat /\ n % 16 = 0 /\ n >= 32 /\ n >= size + 16
  BY <1>2, RealSize
<1>4. PICK g : g = Place([mem |-> m, free_list |-> fl], v, n)
  OBVIOUS
<1>5. Takes(m, g, hs, s, a, v, n)
  <2>1. Shows(m, fl, hs, s, a) /\ v \in DOMAIN s \ a /\ s[v] >= n
    BY <1>1, <1>2
  <2> QED
    BY ONLY <1>3, <1>4, <2>1, PlaceTakes
<1>6. PICK t : Shows(g.mem, g.free_list, hs, t, a \cup {v}) /\ t[v] \in {n, n + 16} /\ \A x \in a : t[x] = s[x]
  BY <1>5 DEF Takes
<1>7. PICK m1 : m1 = fill(g.mem, v, size, key)
  OBVIOUS
<1>8. /\ Shows(m1, g.free_list, hs, t, a \cup {v}) /\ Spares(g.mem, m1, hs, t, (a \cup {v}) \ {v})
      /\ \A w \in Words(v, size) : m1[w] = FilledWith(key)
  <2>1. PICK e : e = a \cup {v}
    OBVIOUS
  <2>2. v \in e /\ size + 16 <= t[v] /\ Shows(g.mem, g.free_list, hs, t, e)
    BY <1>3, <1>6, <2>1
  <2>3. size \in Nat /\ key \in Int
    BY <1>3
  <2>4. PICK m2, fl2 : m2 = g.mem /\ fl2 = g.free_list
    OBVIOUS
  <2>5. Shows(m2, fl2, hs, t, e) /\ v \in e /\ size + 16 <= t[v] /\ m1 = fill(m2, v, size, key)
    BY <1>7, <2>2, <2>4
  <2>6. Filled(m2, m1, fl2, hs, t, e, v, size, key)
    BY ONLY <2>3, <2>5, Fills
  <2> QED
    BY <2>1, <2>4, <2>6 DEF Filled
<1>9. v \notin a /\ (a \cup {v}) \ {v} = a
  BY <1>1
<1>10. GoodHeap(hs) /\ Tiles(s, hs) /\ Tiles(t, hs) /\ a \subseteq DOMAIN s /\ a \subseteq DOMAIN t
  BY <1>1, <1>6 DEF Shows
<1>11. KeptOn(m1, t, lv, a)
  <2>1. KeptOn(m, s, lv, a)
    BY <1>1 DEF KeptOn, Kept
  <2>2. KeptOn(g.mem, t, lv, a)
    BY <1>5, <1>6, <1>10, <2>1, KeptStays DEF Takes
  <2> QED
    BY <1>8, <1>9, <1>10, <2>2, KeptStays
<1>12. PICK lv2 : lv2 = With(lv, v, size, key)
  OBVIOUS
<1>13. DOMAIN lv2 = a \cup {v} /\ lv2[v] = [size |-> size, key |-> key] /\ \A b \in a : lv2[b] = lv[b]
  BY <1>1, <1>9, <1>12 DEF With
<1>14. Kept(m1, t, lv2)
  <2>1. size + 16 <= t[v]
    BY <1>3, <1>6
  <2>2. lv2[v].size = size /\ lv2[v].key = key
    BY <1>13
  <2>3. ASSUME NEW b, b \in DOMAIN lv2
        PROVE  /\ lv2[b].size \in Nat /\ lv2[b].size + 16 <= t[b]
               /\ \A w \in Words(b, lv2[b].size) : m1[w] = FilledWith(lv2[b].key)
    <3>1. CASE b = v
      BY <1>3, <1>8, <2>1, <2>2, <3>1
    <3>2. CASE b # v
      BY <1>11, <1>13, <2>3, <3>2 DEF KeptOn
    <3> QED
      BY <3>1, <3>2
  <2> QED
    BY <2>3 DEF Kept
<1>15. Granted(m1, g.free_list, hs, s, lv, v, size, lv2)
  BY <1>1, <1>2, <1>6, <1>8, <1>13, <1>14 DEF Granted
<1> QED
  BY <1>2, <1>4, <1>7, <1>12, <1>15

LEMMA ReleaseFrees ==
    ASSUME NEW m, NEW fl, NEW hs, NEW s, NEW lv, Shows(m, fl, hs, s, DOMAIN lv), Kept(m, s, lv), NEW b, b \in DOMAIN lv
    PROVE  LET g == Release([mem |-> m, free_list |-> fl], b)
           IN  Freed(g.mem, g.free_list, hs, s, [x \in DOMAIN lv \ {b} |-> lv[x]])
<1>1. PICK a : a = DOMAIN lv
  OBVIOUS
<1>2. PICK g : g = Release([mem |-> m, free_list |-> fl], b)
  OBVIOUS
<1>3. GivesBack(m, g, hs, s, a, b)
  BY <1>1, <1>2, ReleaseGivesBack
<1>4. PICK t : Shows(g.mem, g.free_list, hs, t, a \ {b}) /\ \A x \in a \ {b} : t[x] = s[x]
  BY <1>3 DEF GivesBack
<1>5. GoodHeap(hs) /\ Tiles(s, hs) /\ a \subseteq DOMAIN s
  BY <1>1 DEF Shows
<1>6. KeptOn(g.mem, t, lv, a \ {b})
  <2>1. KeptOn(m, s, lv, a \ {b})
    BY <1>1 DEF KeptOn, Kept
  <2>2. a \ {b} \subseteq DOMAIN s
    BY <1>5
  <2> QED
    BY <1>3, <1>4, <1>5, <2>1, <2>2, KeptStays DEF GivesBack
<1>7. PICK lv2 : lv2 = [x \in DOMAIN lv \ {b} |-> lv[x]]
  OBVIOUS
<1>8. DOMAIN lv2 = a \ {b} /\ \A x \in a \ {b} : lv2[x] = lv[x]
  BY <1>1, <1>7
<1>9. Kept(g.mem, t, lv2)
  BY <1>6, <1>8 DEF Kept, KeptOn
<1>10. Freed(g.mem, g.free_list, hs, s, lv2)
  BY <1>4, <1>8, <1>9 DEF Freed
<1> QED
  BY <1>2, <1>7, <1>10

\* A new heap is one free block.
LEMMA InitShows ==
    ASSUME NEW hs, GoodHeap(hs)
    PROVE  /\ Shows(mm_init(hs).mem, mm_init(hs).free_list, hs, [b \in {First} |-> hs - 32], DOMAIN << >>)
           /\ Kept(mm_init(hs).mem, [b \in {First} |-> hs - 32], << >>)
<1>1. hs \in Nat /\ hs >= 64 /\ hs % 16 = 0 /\ Start \in Nat /\ Start > 0 /\ Start % 16 = 0 /\ First = Start + 32
      /\ Top(hs) = Start + hs
  BY StartFacts DEF GoodHeap, First, Top
<1>2. PICK s : s = [b \in {First} |-> hs - 32]
  OBVIOUS
<1>3. DOMAIN s = {First} /\ s[First] = hs - 32
  BY <1>2
<1>4. Tiles(s, hs)
  <2>1. /\ First \in Int /\ First >= First /\ First % 16 = 0 /\ hs - 32 \in Nat /\ hs - 32 >= 32 /\ (hs - 32) % 16 = 0
        /\ First + (hs - 32) = Top(hs) /\ Top(hs) <= Top(hs) /\ ~(First < First)
    BY <1>1
  <2> QED
    BY <1>3, <2>1 DEF Tiles
<1>5. PICK z : z = [a \in Addrs(hs) |-> 0]
  OBVIOUS
<1>6. PICK n \in Nat : n = hs - 32
  BY <1>1
<1>7. /\ Start \in Addrs(hs) /\ Start + 8 \in Addrs(hs) /\ Start + 16 \in Addrs(hs) /\ Start + 24 \in Addrs(hs)
      /\ First \in Addrs(hs) /\ First + 8 \in Addrs(hs) /\ First + n - 16 \in Addrs(hs) /\ Top(hs) - 8 \in Addrs(hs)
  <2>1. \A x \in {Start, Start + 8, Start + 16, Start + 24, First, First + 8, First + n - 16, Top(hs) - 8} :
            x \in Int /\ x % 8 = 0 /\ Start <= x /\ x < Top(hs)
    BY <1>1, <1>6
  <2> QED
    BY <2>1, AddrsAre
<1>8. PICK m0 : m0 = [z EXCEPT ![Start] = OVERHEAD + 1, ![Start + 8] = OVERHEAD + 1]
  OBVIOUS
<1>9. PICK m1 : m1 = SetTags(m0, First, n, 0)
  OBVIOUS
<1>10. PICK m2 : m2 = [m1 EXCEPT ![Top(hs) - 8] = 1]
  OBVIOUS
<1>11. PICK m3 : m3 = PutPrev(PutNext(m2, First, NULL), First, NULL)
  OBVIOUS
<1>12. mm_init(hs) = [mem |-> m3, free_list |-> First]
  <2>1. z = [a \in {Start + 8 * i : i \in 0..(hs \div 8) - 1} |-> 0]
    BY <1>5 DEF Addrs
  <2>2. HDRP(Start + hs) = Top(hs) - 8
    BY <1>1 DEF HDRP
  <2> QED
    BY <1>6, <1>8, <1>9, <1>10, <1>11, <2>1, <2>2 DEF mm_init, First
<1>13. m0 \in [Addrs(hs) -> Int] /\ m0[Start + 16] = 0
  <2>1. Start # Start + 16 /\ Start + 8 # Start + 16
    BY <1>1
  <2>2. OVERHEAD + 1 = 17
    BY DEF OVERHEAD
  <2> QED
    BY <1>5, <1>7, <1>8, <2>1, <2>2
<1>14. /\ m1 \in [Addrs(hs) -> Int] /\ m1[Start + 16] = 0 /\ m1[First - 8] = n /\ m1[First + n - 16] = n
  <2>1. m1 = [[m0 EXCEPT ![First - 8] = n] EXCEPT ![First + n - 16] = n]
    BY <1>9 DEF SetTags, HDRP, OVERHEAD
  <2>2. First - 8 # Start + 16 /\ First + n - 16 # Start + 16 /\ First - 8 = Start + 24
    BY <1>1, <1>6
  <2> QED
    BY <1>7, <1>13, <2>1, <2>2
<1>15. /\ m2 \in [Addrs(hs) -> Int] /\ m2[Start + 16] = 0 /\ m2[First - 8] = n /\ m2[First + n - 16] = n
       /\ m2[Top(hs) - 8] = 1
  <2>1. Top(hs) - 8 # Start + 16 /\ Top(hs) - 8 # First - 8 /\ Top(hs) - 8 # First + n - 16 /\ First - 8 = Start + 24
    BY <1>1, <1>6
  <2> QED
    BY <1>7, <1>10, <1>14, <2>1
<1>16. /\ m3 \in [Addrs(hs) -> Int] /\ m3[Start + 16] = 0 /\ m3[First - 8] = n /\ m3[First + n - 16] = n
       /\ m3[Top(hs) - 8] = 1 /\ m3[First] = 0 /\ m3[First + 8] = 0
  <2>1. m3 = [[m2 EXCEPT ![First] = 0] EXCEPT ![First + 8] = 0]
    <3>1. First # 0
      BY <1>1
    <3> QED
      BY <1>11, <3>1 DEF PutPrev, PutNext, NULL
  <2>2. /\ First # Start + 16 /\ First # First - 8 /\ First # First + n - 16 /\ First # Top(hs) - 8
        /\ First + 8 # Start + 16 /\ First + 8 # First - 8 /\ First + 8 # First + n - 16 /\ First + 8 # Top(hs) - 8
        /\ First # First + 8 /\ First - 8 = Start + 24
    BY <1>1, <1>6
  <2> QED
    BY <1>7, <1>15, <2>1, <2>2
<1>17. Tagged(m3, s, {}, hs)
  <2>1. TagOf(s, {}, First) = n
    BY <1>3, <1>6 DEF TagOf
  <2> QED
    BY <1>3, <1>6, <1>16, <2>1 DEF Tagged
<1>18. Joined(s, {}, hs)
  <2>1. First + s[First] = Top(hs)
    BY <1>1, <1>3
  <2> QED
    BY <1>3, <2>1 DEF Joined
<1>19. IsList(m3, First, Addrs(hs), {First})
  <2>1. Nodes({First}, Addrs(hs))
    <3>1. First \in Int /\ First # 0 /\ First + 8 # First
      BY <1>1
    <3> QED
      BY <1>7, <3>1 DEF Nodes, NULL
  <2>2. PICK l : l = [i \in 1..1 |-> First]
    OBVIOUS
  <2>3. \A i \in 1..1 : i = 1 /\ l[i] = First
    BY <2>2
  <2>4. l[1] = First /\ 1 \in 1..1
    BY <2>2
  <2>5. Enumerates(l, 1, {First})
    BY <2>2, <2>3, <2>4 DEF Enumerates
  <2>6. Linked(m3, First, l, 1)
    BY <1>16, <2>3, <2>4 DEF Linked, NULL
  <2> QED
    BY <1>16, <2>1, <2>5, <2>6 DEF IsList
<1>20. DOMAIN << >> = {} /\ DOMAIN s \ {} = {First} /\ {} \subseteq DOMAIN s
  BY <1>3
<1>21. Shows(m3, First, hs, s, {})
  BY <1>4, <1>16, <1>17, <1>18, <1>19, <1>20 DEF Shows
<1>22. Kept(m3, s, << >>)
  BY <1>20 DEF Kept
<1> QED
  BY <1>2, <1>12, <1>20, <1>21, <1>22

-----------------------------------------------------------------------------
(* What Blocks and FreeListExact compute from a heap that is sound. *)

Payloads(hs) == {w + 8 : w \in Addrs(hs)}

LEMMA PayloadsAre ==
    ASSUME NEW hs, GoodHeap(hs)
    PROVE  \A x : x \in Payloads(hs) <=> x \in Int /\ x % 8 = 0 /\ Start + 8 <= x /\ x <= Top(hs)
<1>1. Start \in Nat /\ Start % 16 = 0 /\ Top(hs) \in Nat /\ Top(hs) % 16 = 0
  BY StartFacts DEF GoodHeap, Top
<1>2. ASSUME NEW x, x \in Payloads(hs) PROVE x \in Int /\ x % 8 = 0 /\ Start + 8 <= x /\ x <= Top(hs)
  <2>1. PICK w \in Addrs(hs) : x = w + 8
    BY <1>2 DEF Payloads
  <2>2. w \in Int /\ w % 8 = 0 /\ Start <= w /\ w < Top(hs)
    BY AddrsAre
  <2> QED
    BY <1>1, <2>1, <2>2
<1>3. ASSUME NEW x \in Int, x % 8 = 0, Start + 8 <= x, x <= Top(hs) PROVE x \in Payloads(hs)
  <2>1. x - 8 \in Int /\ (x - 8) % 8 = 0 /\ Start <= x - 8 /\ x - 8 < Top(hs) /\ x = (x - 8) + 8
    BY <1>1, <1>3
  <2>2. x - 8 \in Addrs(hs)
    BY <2>1, AddrsAre
  <2> QED
    BY <2>1, <2>2 DEF Payloads
<1> QED
  BY <1>2, <1>3

\* One link of the chain in Blocks, for which the rest of it is f.
ChainStep(m, top, f, x) ==
    IF x = top THEN {}
    ELSE {x} \cup (IF GET_SIZE(m, HDRP(x)) < 32 \/ x + GET_SIZE(m, HDRP(x)) > top THEN {}
                   ELSE f[x + GET_SIZE(m, HDRP(x))])
IsChain(f, D, m, top) == f = [x \in D |-> ChainStep(m, top, f, x)]

\* The chain as far as it starts j bytes before the end of the heap or later.
LEMMA ChainExists ==
    ASSUME NEW hs, GoodHeap(hs), NEW m, m \in [Addrs(hs) -> Int]
    PROVE  \E f : IsChain(f, Payloads(hs), m, Top(hs))
<1>1. PICK top \in Nat : top = Top(hs)
  BY StartFacts DEF GoodHeap, Top
<1> DEFINE Late(j) == {x \in Payloads(hs) : top - x <= j}
           T == {j \in Nat : ~\E f : IsChain(f, Late(j), m, top)}
<1>2. \A x \in Payloads(hs) : x \in Int /\ x <= top /\ x >= 0 /\ x % 8 = 0
  BY <1>1, PayloadsAre, StartFacts
<1>3. ASSUME NEW x \in Payloads(hs), NEW n, n = GET_SIZE(m, HDRP(x)), ~(n < 32), ~(x + n > top)
      PROVE  n \in Int /\ n >= 32 /\ x + n \in Payloads(hs)
  <2>1. x \in Int /\ x % 8 = 0 /\ Start + 8 <= x /\ x <= Top(hs)
    BY PayloadsAre
  <2>2. PICK w \in Addrs(hs) : x = w + 8
    BY DEF Payloads
  <2>3. w \in Int
    BY AddrsAre
  <2>4. x - 8 = w
    BY <2>2, <2>3
  <2>5. PICK v \in Int : v = m[x - 8]
    BY <2>4
  <2>6. n = v - (v % 16)
    BY <1>3, <2>5 DEF GET_SIZE, HDRP
  <2>7. n \in Int /\ n % 16 = 0
    BY <2>6
  <2>8. n >= 32 /\ x + n <= top
    BY <1>1, <1>3, <2>1, <2>7
  <2>9. x + n \in Int /\ (x + n) % 8 = 0 /\ Start + 8 <= x + n /\ x + n <= Top(hs)
    BY <1>1, <2>1, <2>7, <2>8, StartFacts
  <2> QED
    BY <2>7, <2>8, <2>9, PayloadsAre
<1>4. T = {}
  <2>1. SUFFICES ASSUME T # {} PROVE FALSE
    OBVIOUS
  <2>2. PICK j \in T : \A i \in T : j <= i
    BY <2>1, LeastOf
  <2>3. j # 0
    <3> DEFINE f == [x \in Late(0) |-> {}]
    <3>1. ASSUME NEW x \in Late(0) PROVE ChainStep(m, top, f, x) = {}
      <4>1. x = top
        BY <1>2
      <4> QED
        BY <4>1 DEF ChainStep
    <3>2. f = [x \in Late(0) |-> ChainStep(m, top, f, x)]
      BY <3>1
    <3>3. IsChain(f, Late(0), m, top)
      BY <3>2 DEF IsChain
    <3> QED
      BY <2>2, <3>3
  <2>4. j - 1 \in Nat /\ j - 1 \notin T /\ j \in Nat
    <3>1. j \in Nat
      BY <2>2
    <3>2. j - 1 \in Nat /\ ~(j <= j - 1)
      BY <2>3, <3>1
    <3> HIDE DEF T
    <3> QED
      BY <2>2, <3>1, <3>2
  <2>5. PICK f : IsChain(f, Late(j - 1), m, top)
    BY <2>4
  <2> DEFINE g == [x \in Late(j) |-> ChainStep(m, top, f, x)]
  <2>6. \A x \in Late(j - 1) : f[x] = g[x]
    <3>1. \A x \in Late(j - 1) : x \in Late(j)
      BY <1>2, <2>4
    <3>2. \A x \in Late(j - 1) : f[x] = ChainStep(m, top, f, x)
      BY <2>5 DEF IsChain
    <3> QED
      BY <3>1, <3>2
  <2>7. ASSUME NEW x \in Late(j) PROVE ChainStep(m, top, f, x) = ChainStep(m, top, g, x)
    <3>1. PICK n : n = GET_SIZE(m, HDRP(x))
      OBVIOUS
    <3>2. CASE n < 32 \/ x + n > top
      BY <3>1, <3>2 DEF ChainStep
    <3>3. CASE ~(n < 32) /\ ~(x + n > top)
      <4>1. n \in Int /\ n >= 32 /\ x + n \in Payloads(hs)
        BY <1>3, <3>1, <3>3
      <4>2. top - (x + n) <= j - 1
        BY <1>2, <2>4, <4>1
      <4>3. f[x + n] = g[x + n]
        BY <2>6, <4>1, <4>2
      <4> HIDE DEF g
      <4> QED
        BY <3>1, <4>3 DEF ChainStep
    <3> QED
      BY <3>2, <3>3
  <2>8. g = [x \in Late(j) |-> ChainStep(m, top, g, x)]
    <3>1. \A x \in Late(j) : g[x] = ChainStep(m, top, g, x)
      BY <2>7
    <3>2. g = [x \in Late(j) |-> g[x]]
      OBVIOUS
    <3> HIDE DEF g, Late
    <3> QED
      BY <3>1, <3>2
  <2>9. IsChain(g, Late(j), m, top)
    BY <2>8 DEF IsChain
  <2> QED
    BY <2>2, <2>9
<1>5. Late(top) = Payloads(hs)
  BY <1>2
<1> QED
  BY <1>1, <1>4, <1>5

\* From a block on, the chain is the blocks that are left.
LEMMA ChainOf ==
    ASSUME NEW m, NEW hs, NEW s, NEW a, GoodHeap(hs), Tiles(s, hs), Tagged(m, s, a, hs),
           NEW f, IsChain(f, Payloads(hs), m, Top(hs))
    PROVE  f[First] = DOMAIN s
<1>1. PICK top \in Nat : top = Top(hs)
  BY StartFacts DEF GoodHeap, Top
<1>2. ASSUME NEW b \in DOMAIN s
      PROVE  /\ b \in Nat /\ s[b] \in Nat /\ s[b] >= 32 /\ b + s[b] <= top /\ b >= First
             /\ GET_SIZE(m, HDRP(b)) = s[b] /\ b \in Payloads(hs)
  <2>1. /\ b \in Nat /\ s[b] \in Nat /\ s[b] >= 32 /\ b + s[b] <= Top(hs) /\ b >= First /\ b - 8 \in Addrs(hs)
    BY InHeap
  <2>2. b = (b - 8) + 8
    BY <2>1
  <2>3. b \in Payloads(hs)
    BY <2>1, <2>2 DEF Payloads
  <2> QED
    BY <1>1, <2>1, <2>3, Reads
<1>3. \A x \in Payloads(hs) : f[x] = ChainStep(m, top, f, x)
  BY <1>1 DEF IsChain
<1>4. f[top] = {}
  <2>1. Top(hs) \in Payloads(hs)
    <3>1. Top(hs) \in Int /\ Top(hs) % 8 = 0 /\ Start + 8 <= Top(hs) /\ Top(hs) <= Top(hs)
      BY StartFacts DEF GoodHeap, Top
    <3> QED
      BY <3>1, PayloadsAre
  <2> QED
    BY <1>1, <1>3, <2>1 DEF ChainStep
<1> DEFINE Rest(b) == {c \in DOMAIN s : c >= b}
           T == {j \in Nat : \E b \in DOMAIN s : j = top - b /\ f[b] # Rest(b)}
<1>5. T = {}
  <2>1. SUFFICES ASSUME T # {} PROVE FALSE
    OBVIOUS
  <2>2. PICK j \in T : \A i \in T : j <= i
    BY <2>1, LeastOf
  <2>3. PICK b \in DOMAIN s : j = top - b /\ f[b] # Rest(b)
    BY <2>2
  <2>4. /\ b \in Nat /\ s[b] \in Nat /\ s[b] >= 32 /\ b + s[b] <= top
        /\ GET_SIZE(m, HDRP(b)) = s[b] /\ b \in Payloads(hs)
    BY <1>2
  <2>5. f[b] = {b} \cup f[b + s[b]]
    <3>1. b # top /\ ~(s[b] < 32) /\ ~(b + s[b] > top)
      BY <2>4
    <3>2. f[b] = ChainStep(m, top, f, b)
      BY <1>3, <2>4
    <3> QED
      BY <2>4, <3>1, <3>2 DEF ChainStep
  <2>6. ASSUME NEW c \in DOMAIN s, c >= b PROVE c = b \/ c >= b + s[b]
    <3>1. c \in Nat /\ (b < c => b + s[b] <= c)
      BY <1>2 DEF Tiles
    <3> QED
      BY <2>4, <2>6, <3>1
  <2>7. CASE b + s[b] = top
    <3>1. ASSUME NEW c \in DOMAIN s PROVE ~(c >= b + s[b])
      BY <1>2, <2>4, <2>7
    <3>2. Rest(b) = {b}
      BY <2>4, <2>6, <3>1
    <3> QED
      BY <1>4, <2>3, <2>5, <2>7, <3>2
  <2>8. CASE b + s[b] # top
    <3>1. PICK c : c = b + s[b] /\ c \in DOMAIN s
      BY <1>1, <2>8 DEF Tiles
    <3>2. c \in Nat /\ c <= top
      BY <1>2, <3>1
    <3>3. top - c \in Nat /\ ~(j <= top - c)
      BY <2>3, <2>4, <3>1, <3>2
    <3>4. f[c] = Rest(c)
      BY <2>2, <3>1, <3>3
    <3>5. ASSUME NEW x \in DOMAIN s PROVE x >= b <=> x = b \/ x >= c
      BY <1>2, <2>4, <2>6, <3>1
    <3>6. Rest(b) = {b} \cup Rest(c)
      BY <3>5
    <3> QED
      BY <2>3, <2>5, <3>1, <3>4, <3>6
  <2> QED
    BY <2>7, <2>8
<1>6. First \in DOMAIN s /\ First \in Nat
  BY StartFacts DEF Tiles
<1>7. top - First \in Nat
  BY <1>2, <1>6
<1>8. f[First] = Rest(First)
  BY <1>5, <1>6, <1>7
<1>9. Rest(First) = DOMAIN s
  BY <1>2
<1> QED
  BY <1>8, <1>9

\* Blocks finds the blocks.
LEMMA BlocksAre ==
    ASSUME NEW s, Shows(mem, free_list, heap_size, s, DOMAIN live)
    PROVE  Blocks = DOMAIN s
<1>1. GoodHeap(heap_size) /\ mem \in [Addrs(heap_size) -> Int] /\ Tiles(s, heap_size) /\ Tagged(mem, s, DOMAIN live, heap_size)
  BY DEF Shows
<1>2. PICK D : D = Payloads(heap_size)
  OBVIOUS
<1>3. D = {a + 8 : a \in DOMAIN mem}
  BY <1>1, <1>2 DEF Payloads
<1>4. PICK top : top = End
  OBVIOUS
<1>5. top = Top(heap_size) /\ First = Start + 32
  BY <1>4 DEF End, Top, First
<1> DEFINE C == CHOOSE C : C = [bp \in D |->
                    IF bp = top THEN {}
                    ELSE {bp} \cup LET n == GET_SIZE(mem, HDRP(bp))
                                   IN  IF n < 32 \/ bp + n > top THEN {} ELSE C[bp + n]]
<1>6. Blocks = C[First]
  BY <1>3, <1>4, <1>5 DEF Blocks
<1>7. IsChain(C, D, mem, top)
  <2>1. \E g : IsChain(g, D, mem, top)
    BY <1>1, <1>2, <1>5, ChainExists
  <2>2. \E g : g = [bp \in D |->
                    IF bp = top THEN {}
                    ELSE {bp} \cup LET n == GET_SIZE(mem, HDRP(bp))
                                   IN  IF n < 32 \/ bp + n > top THEN {} ELSE g[bp + n]]
    BY <2>1 DEF IsChain, ChainStep
  <2>3. C = [bp \in D |->
                    IF bp = top THEN {}
                    ELSE {bp} \cup LET n == GET_SIZE(mem, HDRP(bp))
                                   IN  IF n < 32 \/ bp + n > top THEN {} ELSE C[bp + n]]
    BY <2>2
  <2> HIDE DEF C
  <2> QED
    BY <2>3 DEF IsChain, ChainStep
<1> HIDE DEF C
<1>8. C[First] = DOMAIN s
  <2>1. PICK c : c = C
    OBVIOUS
  <2>2. IsChain(c, Payloads(heap_size), mem, Top(heap_size))
    BY <1>2, <1>5, <1>7, <2>1
  <2>3. PICK hs, a : hs = heap_size /\ a = DOMAIN live
    OBVIOUS
  <2>4. c[First] = DOMAIN s
    BY <1>1, <2>2, <2>3, ChainOf
  <2> QED
    BY <2>1, <2>4
<1> QED
  BY <1>6, <1>8

\* The nodes of a list, counted from 0.
LEMMA NodesAre ==
    ASSUME NEW m, NEW fl, NEW f, NEW l, NEW n \in Nat, Enumerates(l, n, f), Linked(m, fl, l, n),
           NEW d, d = [k \in 0..n |-> IF k = 0 THEN fl ELSE IF d[k - 1] \in f THEN m[d[k - 1]] ELSE NULL]
    PROVE  \A k \in 0..n : d[k] = IF k < n THEN l[k + 1] ELSE NULL
<1> DEFINE T == {j \in Nat : j \in 0..n /\ d[j] # (IF j < n THEN l[j + 1] ELSE NULL)}
<1>1. T = {}
  <2>1. SUFFICES ASSUME T # {} PROVE FALSE
    OBVIOUS
  <2>2. PICK j \in T : \A i \in T : j <= i
    BY <2>1, LeastOf
  <2>3. j \in 0..n /\ d[j] # (IF j < n THEN l[j + 1] ELSE NULL)
    BY <2>2
  <2>4. d[j] = IF j = 0 THEN fl ELSE IF d[j - 1] \in f THEN m[d[j - 1]] ELSE NULL
    BY <2>3
  <2>5. CASE j = 0
    <3>1. fl = IF n = 0 THEN NULL ELSE l[1]
      BY DEF Linked
    <3>2. n = 0 <=> ~(j < n)
      BY <2>5
    <3>3. j + 1 = 1
      BY <2>5
    <3> QED
      BY <2>3, <2>4, <2>5, <3>1, <3>2, <3>3
  <2>6. CASE j # 0
    <3>1. j - 1 \in Nat /\ j - 1 \in 0..n /\ ~(j <= j - 1) /\ j - 1 < n /\ (j - 1) + 1 = j /\ j \in 1..n
      BY <2>3, <2>6
    <3>2. j - 1 \notin T
      BY <2>2, <3>1
    <3>3. d[j - 1] = l[j]
      BY <3>1, <3>2
    <3>4. l[j] \in f
      BY <3>1 DEF Enumerates
    <3>5. m[l[j]] = IF j = n THEN NULL ELSE l[j + 1]
      BY <3>1 DEF Linked
    <3>6. j = n <=> ~(j < n)
      BY <2>3
    <3> QED
      BY <2>3, <2>4, <2>6, <3>3, <3>4, <3>5, <3>6
  <2> QED
    BY <2>5, <2>6
<1>2. ASSUME NEW k \in 0..n PROVE d[k] = IF k < n THEN l[k + 1] ELSE NULL
  <2>1. k \in Nat
    OBVIOUS
  <2>2. k \notin T
    <3> HIDE DEF T
    <3> QED
      BY <1>1
  <2> QED
    BY <2>1, <2>2
<1> HIDE DEF T
<1> QED
  BY <1>2

LEMMA ListSound ==
    ASSUME NEW s, Shows(mem, free_list, heap_size, s, DOMAIN live), Unallocated = DOMAIN s \ DOMAIN live
    PROVE  FreeListExact
<1>1. PICK f : f = DOMAIN s \ DOMAIN live
  OBVIOUS
<1>2. IsList(mem, free_list, Addrs(heap_size), f)
  BY <1>1 DEF Shows
<1>3. PICK l, n : Enumerates(l, n, f) /\ Linked(mem, free_list, l, n)
  BY <1>2 DEF IsList
<1>4. n \in Nat /\ l \in [1..n -> f] /\ Cardinality(f) = n
  BY <1>3, ListCounts DEF Enumerates
<1> DEFINE d == CHOOSE d : d = [k \in 0..Cardinality(Unallocated) |-> IF k = 0 THEN free_list
                            ELSE LET b == d[k - 1] IN IF b \in Unallocated THEN next_of(heap, b) ELSE NULL]
<1>5. d = [k \in 0..n |-> IF k = 0 THEN free_list ELSE IF d[k - 1] \in f THEN mem[d[k - 1]] ELSE NULL]
  <2> DEFINE g == [k \in 0..n |-> IF k < n THEN l[k + 1] ELSE NULL]
  <2>1. ASSUME NEW k \in 0..n
        PROVE  (IF k < n THEN l[k + 1] ELSE NULL) =
               IF k = 0 THEN free_list ELSE IF g[k - 1] \in f THEN mem[g[k - 1]] ELSE NULL
    <3>1. CASE k = 0
      <4>1. free_list = IF n = 0 THEN NULL ELSE l[1]
        BY <1>3 DEF Linked
      <4>2. n = 0 <=> ~(k < n)
        BY <1>4, <3>1
      <4>3. k + 1 = 1
        BY <3>1
      <4> QED
        BY <3>1, <4>1, <4>2, <4>3
    <3>2. CASE k # 0
      <4>1. k - 1 \in 0..n /\ k - 1 < n /\ (k - 1) + 1 = k /\ k \in 1..n
        BY <1>4, <3>2
      <4>2. g[k - 1] = l[k]
        BY <4>1
      <4>3. l[k] \in f
        BY <1>4, <4>1
      <4>4. mem[l[k]] = IF k = n THEN NULL ELSE l[k + 1]
        BY <1>3, <4>1 DEF Linked
      <4>5. k = n <=> ~(k < n)
        BY <1>4
      <4> HIDE DEF g
      <4> QED
        BY <3>2, <4>2, <4>3, <4>4, <4>5
    <3> QED
      BY <3>1, <3>2
  <2>2. g = [k \in 0..n |-> IF k = 0 THEN free_list ELSE IF g[k - 1] \in f THEN mem[g[k - 1]] ELSE NULL]
    <3>1. \A k \in 0..n : g[k] = IF k = 0 THEN free_list ELSE IF g[k - 1] \in f THEN mem[g[k - 1]] ELSE NULL
      BY <2>1
    <3>2. g = [k \in 0..n |-> g[k]]
      OBVIOUS
    <3> HIDE DEF g
    <3> QED
      BY <3>1, <3>2
  <2> HIDE DEF g
  <2>3. Unallocated = f /\ Cardinality(Unallocated) = n
    BY <1>1, <1>4
  <2>4. \E h : h = [k \in 0..Cardinality(Unallocated) |-> IF k = 0 THEN free_list
                            ELSE LET b == h[k - 1] IN IF b \in Unallocated THEN next_of(heap, b) ELSE NULL]
    <3>1. \A b : next_of(heap, b) = mem[b]
      BY DEF next_of, heap
    <3>2. g = [k \in 0..Cardinality(Unallocated) |-> IF k = 0 THEN free_list
                            ELSE LET b == g[k - 1] IN IF b \in Unallocated THEN next_of(heap, b) ELSE NULL]
      BY <2>2, <2>3, <3>1
    <3> QED
      BY <3>2
  <2>5. d = [k \in 0..Cardinality(Unallocated) |-> IF k = 0 THEN free_list
                            ELSE LET b == d[k - 1] IN IF b \in Unallocated THEN next_of(heap, b) ELSE NULL]
    BY <2>4
  <2> HIDE DEF d
  <2> QED
    BY <2>3, <2>5 DEF next_of, heap
<1>6. FreeListExact <=> /\ {d[k] : k \in 0..n - 1} = f /\ d[n] = NULL
                        /\ \A k \in 0..n - 1 : mem[d[k] + 8] = IF k = 0 THEN NULL ELSE d[k - 1]
  <2>1. Unallocated = f /\ Cardinality(Unallocated) = n
    BY <1>1, <1>4
  <2>2. FreeListExact <=>
           /\ {d[k] : k \in 0..Cardinality(Unallocated) - 1} = Unallocated /\ d[Cardinality(Unallocated)] = NULL
           /\ \A k \in 0..Cardinality(Unallocated) - 1 : prev_of(heap, d[k]) = IF k = 0 THEN NULL ELSE d[k - 1]
    BY DEF FreeListExact
  <2>3. \A k \in 0..n - 1 : prev_of(heap, d[k]) = mem[d[k] + 8]
    BY DEF prev_of, heap
  <2> HIDE DEF d
  <2> QED
    BY <2>1, <2>2, <2>3
<1> HIDE DEF d
<1>7. \A k \in 0..n : d[k] = IF k < n THEN l[k + 1] ELSE NULL
  <2>1. PICK e : e = d
    OBVIOUS
  <2>2. e = [k \in 0..n |-> IF k = 0 THEN free_list ELSE IF e[k - 1] \in f THEN mem[e[k - 1]] ELSE NULL]
    BY <1>5, <2>1
  <2>3. \A k \in 0..n : e[k] = IF k < n THEN l[k + 1] ELSE NULL
    BY ONLY <1>3, <1>4, <2>2, NodesAre, SMTT(30)
  <2> QED
    BY <2>1, <2>3
<1>8. d[n] = NULL /\ \A k \in 0..n - 1 : k \in 0..n /\ k + 1 \in 1..n /\ d[k] = l[k + 1]
  BY <1>4, <1>7
<1>9. {d[k] : k \in 0..n - 1} = f
  <2>1. ASSUME NEW b \in f PROVE \E k \in 0..n - 1 : d[k] = b
    <3>1. PICK i \in 1..n : l[i] = b
      BY <1>3 DEF Enumerates
    <3>2. i - 1 \in 0..n - 1 /\ (i - 1) + 1 = i
      BY <1>4, <3>1
    <3>3. d[i - 1] = b
      BY <1>8, <3>1, <3>2
    <3> QED
      BY <3>2, <3>3
  <2>2. \A k \in 0..n - 1 : d[k] \in f
    BY <1>4, <1>8
  <2> QED
    BY <2>1, <2>2
<1>10. ASSUME NEW k \in 0..n - 1 PROVE mem[d[k] + 8] = IF k = 0 THEN NULL ELSE d[k - 1]
  <2>1. k + 1 \in 1..n /\ d[k] = l[k + 1]
    BY <1>8
  <2>2. mem[l[k + 1] + 8] = IF k + 1 = 1 THEN NULL ELSE l[(k + 1) - 1]
    BY <1>3, <2>1 DEF Linked
  <2>3. (k + 1 = 1 <=> k = 0) /\ (k + 1) - 1 = k
    BY <1>4
  <2>4. k # 0 => d[k - 1] = l[k]
    <3>1. k # 0 => k - 1 \in 0..n - 1 /\ (k - 1) + 1 = k
      BY <1>4
    <3> QED
      BY <1>8, <3>1
  <2> QED
    BY <2>1, <2>2, <2>3, <2>4
<1> QED
  BY <1>6, <1>8, <1>9, <1>10

\* What the runs check follows from the picture.
LEMMA ShowsSound ==
    ASSUME HeapOK(mem, free_list, heap_size, live)
    PROVE  HeapSound /\ PayloadKept
<1>1. PICK s : Shows(mem, free_list, heap_size, s, DOMAIN live) /\ Kept(mem, s, live)
  BY DEF HeapOK
<1>2. PICK held : held = DOMAIN live
  OBVIOUS
<1>3. /\ GoodHeap(heap_size) /\ mem \in [Addrs(heap_size) -> Int] /\ Tiles(s, heap_size) /\ held \subseteq DOMAIN s
      /\ Tagged(mem, s, held, heap_size) /\ Joined(s, held, heap_size) /\ DOMAIN mem = Addrs(heap_size)
  BY <1>1, <1>2 DEF Shows
<1>4. ASSUME NEW b, b \in DOMAIN s
      PROVE  /\ GET_SIZE(mem, HDRP(b)) = s[b] /\ GET_ALLOC(mem, HDRP(b)) = (IF b \in held THEN 1 ELSE 0)
             /\ s[b] >= 32 /\ b + s[b] \in DOMAIN s \cup {End}
             /\ mem[b + s[b] - OVERHEAD] = mem[HDRP(b)]
             /\ b \notin held => b + s[b] \in held \cup {End}
  <2>1. GET_SIZE(mem, HDRP(b)) = s[b] /\ GET_ALLOC(mem, HDRP(b)) = (IF b \in held THEN 1 ELSE 0)
    BY <1>3, <1>4, Reads
  <2>2. s[b] >= 32 /\ b + s[b] \in DOMAIN s \cup {End}
    BY <1>3, <1>4 DEF Tiles, End, Top
  <2>3. mem[b + s[b] - OVERHEAD] = mem[HDRP(b)]
    BY <1>3, <1>4 DEF Tagged, OVERHEAD, HDRP
  <2>4. b \notin held => b + s[b] \in held \cup {End}
    BY <1>3, <1>4 DEF Joined, End, Top
  <2> QED
    BY <2>1, <2>2, <2>3, <2>4
<1>5. Blocks = DOMAIN s
  BY <1>1, BlocksAre
<1>6. Allocated = held /\ Unallocated = DOMAIN s \ held
  <2>1. Allocated = held
    BY <1>3, <1>4, <1>5 DEF Allocated
  <2> QED
    BY <1>5, <2>1 DEF Unallocated
<1>7. mem[HDRP(End)] = 1
  BY <1>3 DEF Tagged, HDRP, End, Top
<1>8. WellTagged
  BY <1>2, <1>4, <1>5, <1>6, <1>7 DEF WellTagged
<1>9. FreeListExact
  BY <1>1, <1>2, <1>6, ListSound
<1>10. PayloadKept
  <2>1. ASSUME NEW b, b \in DOMAIN live, NEW w, w \in Words(b, live[b].size)
        PROVE  w \in DOMAIN mem /\ mem[w] = FilledWith(live[b].key)
    <3>1. PICK z \in Nat : z = live[b].size
      BY <1>1, <2>1 DEF Kept
    <3>2. z + 16 <= s[b] /\ b \in DOMAIN s /\ w \in Words(b, z)
      BY <1>1, <1>2, <1>3, <2>1, <3>1 DEF Kept
    <3>3. w \in Addrs(heap_size)
      BY <1>3, <3>2, WordsInside
    <3> QED
      BY <1>1, <1>3, <2>1, <3>3 DEF Kept
  <2> QED
    BY <2>1 DEF PayloadKept
<1> QED
  BY <1>8, <1>9, <1>10 DEF HeapSound

-----------------------------------------------------------------------------
(* The driver frees only what it was given, and each block once. *)

\* A pointer is NULL or its block is live, and it is the only one to it.
Held(q, lv) ==
    /\ \A i \in DOMAIN q : q[i] = NULL \/ q[i] \in DOMAIN lv
    /\ \A i, j \in DOMAIN q : q[i] # NULL /\ q[i] = q[j] => i = j

\* A new heap comes first in what is left to do, if it does, and takes all pointers.
Given(t, q) == IF t # << >> /\ t[1].op = "init" THEN {} ELSE DOMAIN q
Plan(t, q) == (\E S : t \in Seq(S)) /\ Legal(t, Given(t, q))

Driving ==
    /\ arg \in Args /\ round \in Nat
    /\ Held(p, live) /\ Plan(calls, p)
    /\ arg.which = "any" => calls = << >> /\ DOMAIN p = {}
IInv == HeapOK(mem, free_list, heap_size, live) /\ Driving

LEMMA PlanGoesOn ==
    ASSUME NEW t, NEW q, NEW q2, Plan(t, q), t # << >>,
           t[1].op = "init" \/ DOMAIN q \subseteq DOMAIN q2,
           t[1].op = "malloc" => t[1].i \in DOMAIN q2
    PROVE  Plan(Tail(t), q2)
<1>1. PICK S : t \in Seq(S)
  BY DEF Plan
<1>2. PICK g : g = Given(t, q)
  OBVIOUS
<1>3. g \subseteq DOMAIN q2
  BY <1>2 DEF Given
<1>4. PICK u : u = Tail(t)
  OBVIOUS
<1>5. /\ Len(t) \in Nat /\ Len(t) >= 1 /\ u \in Seq(S) /\ Len(u) = Len(t) - 1
      /\ DOMAIN t = 1..Len(t) /\ DOMAIN u = 1..Len(u)
  BY <1>1, <1>4
<1>6. \A k \in 1..Len(u) : u[k] = t[k + 1] /\ k + 1 \in DOMAIN t /\ k \in Nat /\ k >= 1
  BY <1>1, <1>4, <1>5
<1>7. \A k \in DOMAIN t :
        /\ t[k].op = "init" => k = 1 /\ GoodHeap(t[k].size)
        /\ t[k].op \in {"malloc", "fill"} => Fits(t[k].size) /\ t[k].i \in Nat /\ t[k].key \in Int
        /\ t[k].op = "fill" => k = Len(t) /\ 0..t[k].i - 1 \subseteq g
        /\ t[k].op = "free" => t[k].i \in g \/ \E l \in 1..k - 1 : t[l].op = "malloc" /\ t[l].i = t[k].i
  BY <1>2 DEF Plan, Legal
<1>8. ASSUME NEW k \in DOMAIN u
      PROVE  /\ u[k].op # "init"
             /\ u[k].op \in {"malloc", "fill"} => Fits(u[k].size) /\ u[k].i \in Nat /\ u[k].key \in Int
             /\ u[k].op = "fill" => k = Len(u) /\ 0..u[k].i - 1 \subseteq DOMAIN q2
  <2>1. u[k] = t[k + 1] /\ k + 1 \in DOMAIN t /\ k \in Nat /\ k >= 1 /\ k + 1 # 1
    BY <1>5, <1>6
  <2>2. /\ t[k + 1].op = "init" => k + 1 = 1
        /\ t[k + 1].op \in {"malloc", "fill"} => Fits(t[k + 1].size) /\ t[k + 1].i \in Nat /\ t[k + 1].key \in Int
        /\ t[k + 1].op = "fill" => k + 1 = Len(t) /\ 0..t[k + 1].i - 1 \subseteq g
    BY <1>7, <2>1
  <2>3. k + 1 = Len(t) => k = Len(u)
    BY <1>5, <2>1
  <2> QED
    BY <1>3, <2>1, <2>2, <2>3
<1>9. ASSUME NEW k \in DOMAIN u, u[k].op = "free"
      PROVE  u[k].i \in DOMAIN q2 \/ \E l \in 1..k - 1 : u[l].op = "malloc" /\ u[l].i = u[k].i
  <2>1. u[k] = t[k + 1] /\ k + 1 \in DOMAIN t /\ k \in Nat /\ k >= 1 /\ k <= Len(u)
    BY <1>5, <1>6
  <2>2. t[k + 1].i \in g \/ \E l \in 1..(k + 1) - 1 : t[l].op = "malloc" /\ t[l].i = t[k + 1].i
    BY <1>7, <1>9, <2>1
  <2>3. CASE t[k + 1].i \in g
    BY <1>3, <2>1, <2>3
  <2>4. ASSUME NEW l \in 1..(k + 1) - 1, t[l].op = "malloc", t[l].i = t[k + 1].i
        PROVE  u[k].i \in DOMAIN q2 \/ \E i \in 1..k - 1 : u[i].op = "malloc" /\ u[i].i = u[k].i
    <3>1. CASE l = 1
      BY <2>1, <2>4, <3>1
    <3>2. CASE l # 1
      <4>1. l - 1 \in 1..k - 1 /\ l - 1 \in 1..Len(u) /\ (l - 1) + 1 = l
        BY <1>5, <2>1, <3>2
      <4>2. u[l - 1] = t[l]
        BY <1>6, <4>1
      <4> QED
        BY <2>1, <2>4, <4>1, <4>2
    <3> QED
      BY <3>1, <3>2
  <2> QED
    BY <2>2, <2>3, <2>4
<1>10. Given(u, q2) = DOMAIN q2
  <2>1. u # << >> => 1 \in DOMAIN u
    BY <1>5
  <2> QED
    BY <1>8, <2>1 DEF Given
<1>11. Legal(u, DOMAIN q2)
  BY <1>8, <1>9 DEF Legal
<1> QED
  BY <1>4, <1>5, <1>10, <1>11 DEF Plan

\* A script asks for all that it frees, so it is legal whatever pointers there are.
LEMMA ScriptPlanned ==
    ASSUME NEW t, NEW q, t \in Seq(ToSet(t)), Legal(t, {})
    PROVE  Plan(t, q)
<1>1. PICK g : g = Given(t, q)
  OBVIOUS
<1>2. Legal(t, g)
  BY DEF Legal
<1> QED
  BY <1>1, <1>2 DEF Plan

LEMMA FreesPlanned ==
    ASSUME NEW n \in Nat, NEW q, 0..n - 1 \subseteq DOMAIN q
    PROVE  Plan(Frees(Upto(n)), q)
<1>1. PICK t : t = Frees(Upto(n))
  OBVIOUS
<1>2. t = [k \in 1..n |-> [op |-> "free", i |-> k - 1]]
  BY <1>1 DEF Frees, Upto, FreeOp
<1>3. t \in Seq({[op |-> "free", i |-> k] : k \in 0..n - 1})
  <2>1. \A k \in 1..n : k - 1 \in 0..n - 1
    OBVIOUS
  <2>2. PICK S : S = {[op |-> "free", i |-> k] : k \in 0..n - 1}
    OBVIOUS
  <2>3. t \in [1..n -> S]
    BY <1>2, <2>1, <2>2
  <2>4. t \in Seq(S)
    BY <2>3
  <2> QED
    BY <2>2, <2>4
<1>4. DOMAIN t = 1..n /\ \A k \in 1..n : t[k].op = "free" /\ t[k].i = k - 1 /\ t[k].i \in DOMAIN q
  BY <1>2
<1>5. Legal(t, DOMAIN q)
  BY <1>4 DEF Legal
<1>6. Given(t, q) = DOMAIN q
  <2>1. t # << >> => 1 \in DOMAIN t
    BY <1>3
  <2> QED
    BY <1>4, <2>1 DEF Given
<1> QED
  BY <1>1, <1>3, <1>5, <1>6 DEF Plan

LEMMA FillPlanned ==
    ASSUME NEW n \in Nat, NEW size, NEW key, Fits(size), key \in Int, NEW q, 0..n - 1 \subseteq DOMAIN q
    PROVE  Plan(<<FillOp(n, size, key)>>, q)
<1>1. PICK c : c = FillOp(n, size, key)
  OBVIOUS
<1>2. c.op = "fill" /\ c.i = n /\ c.size = size /\ c.key = key
  BY <1>1 DEF FillOp
<1>3. PICK t : t = <<c>>
  OBVIOUS
<1>4. t \in Seq({c}) /\ DOMAIN t = {1} /\ t[1] = c /\ Len(t) = 1
  BY <1>3
<1>5. Legal(t, DOMAIN q)
  BY <1>2, <1>4 DEF Legal
<1>6. Given(t, q) = DOMAIN q
  BY <1>2, <1>4 DEF Given
<1> QED
  BY <1>1, <1>3, <1>4, <1>5, <1>6 DEF Plan

-----------------------------------------------------------------------------
(* The calls as steps. *)

MallocDone(s, v, size, key) ==
    /\ v \in DOMAIN s \ DOMAIN live
    /\ call' = [op |-> "malloc", size |-> size, at |-> HDRP(v)]
    /\ live' = With(live, v, size, key)
    /\ Granted(mem', free_list', heap_size, s, live, v, size, live')
    /\ heap_size' = heap_size
MallocRefused(s, size) ==
    /\ Refused(s, live, size)
    /\ call' = [op |-> "malloc", size |-> size, at |-> 0]
    /\ UNCHANGED <<mem, free_list, live, heap_size>>

LEMMA MallocStep ==
    ASSUME NEW s, Shows(mem, free_list, heap_size, s, DOMAIN live), Kept(mem, s, live),
           NEW size, Fits(size), NEW key \in Int, mm_malloc(size, key)
    PROVE  MallocRefused(s, size) \/ \E v : MallocDone(s, v, size, key)
<1>1. PICK n : n = real_size(size)
  OBVIOUS
<1>2. PICK v : v = FirstFit(heap, n)
  OBVIOUS
<1>3. heap = [mem |-> mem, free_list |-> free_list]
  BY DEF heap
<1>4. \/ v = NULL /\ Refused(s, live, size)
      \/ v # NULL /\ v \in DOMAIN s \ DOMAIN live /\ s[v] >= real_size(size)
  BY <1>1, <1>2, <1>3, MallocFinds
<1>5. /\ \/ v = NULL /\ UNCHANGED <<mem, free_list, live>>
         \/ /\ v # NULL
            /\ \E g \in {Place(heap, v, n)} : Becomes([g EXCEPT !.mem = fill(g.mem, v, size, key)])
            /\ live' = [b \in DOMAIN live \cup {v} |-> IF b = v THEN [size |-> size, key |-> key] ELSE live[b]]
      /\ call' = [op |-> "malloc", size |-> size, at |-> IF v = NULL THEN 0 ELSE HDRP(v)]
      /\ heap_size' = heap_size
  BY <1>1, <1>2 DEF mm_malloc
<1>6. CASE v = NULL
  BY <1>4, <1>5, <1>6 DEF MallocRefused
<1>7. CASE v # NULL
  <2>1. PICK g : g = Place([mem |-> mem, free_list |-> free_list], v, real_size(size))
    OBVIOUS
  <2>2. mem' = fill(g.mem, v, size, key) /\ free_list' = g.free_list
    <3>1. Becomes([g EXCEPT !.mem = fill(g.mem, v, size, key)])
      BY <1>1, <1>3, <1>5, <1>7, <2>1
    <3>2. PICK h, e : h = [mem |-> mem, free_list |-> free_list] /\ e = real_size(size)
      OBVIOUS
    <3>3. g = IF TooSmall(GET_SIZE(mem, HDRP(v)) - e)
              THEN delete_from_list([h EXCEPT !.mem = SetTags(mem, v, GET_SIZE(mem, HDRP(v)), 1)], v)
              ELSE replace_in_list([h EXCEPT !.mem = SetTags(SetTags(mem, v, e, 1), NEXT_BLKP(SetTags(mem, v, e, 1), v),
                                        GET_SIZE(mem, HDRP(v)) - e, 0)], v, NEXT_BLKP(SetTags(mem, v, e, 1), v))
      BY <2>1, <3>2 DEF Place
    <3>4. g = [mem |-> g.mem, free_list |-> g.free_list]
      BY <3>3 DEF delete_from_list, replace_in_list
    <3> QED
      BY <3>1, <3>4 DEF Becomes
  <2>3. live' = With(live, v, size, key)
    BY <1>5, <1>7 DEF With
  <2>4. Granted(mem', free_list', heap_size, s, live, v, size, live')
    BY <1>4, <1>7, <2>1, <2>2, <2>3, MallocGrants
  <2>5. MallocDone(s, v, size, key)
    BY <1>4, <1>5, <1>7, <2>3, <2>4 DEF MallocDone
  <2> QED
    BY <2>5
<1> QED
  BY <1>6, <1>7

LEMMA FreeStep ==
    ASSUME NEW s, Shows(mem, free_list, heap_size, s, DOMAIN live), Kept(mem, s, live),
           NEW b, b \in DOMAIN live, mm_free(b)
    PROVE  /\ Freed(mem', free_list', heap_size, s, live')
           /\ live' = [x \in DOMAIN live \ {b} |-> live[x]]
           /\ call' = [op |-> "free", size |-> 0, at |-> HDRP(b)] /\ heap_size' = heap_size
<1>1. PICK g : g = Release([mem |-> mem, free_list |-> free_list], b)
  OBVIOUS
<1>2. /\ mem' = g.mem /\ free_list' = g.free_list /\ live' = [x \in DOMAIN live \ {b} |-> live[x]]
      /\ call' = [op |-> "free", size |-> 0, at |-> HDRP(b)] /\ heap_size' = heap_size
  BY <1>1 DEF mm_free, Becomes, heap
<1>3. Freed(g.mem, g.free_list, heap_size, s, [x \in DOMAIN live \ {b} |-> live[x]])
  BY <1>1, ReleaseFrees
<1> QED
  BY <1>2, <1>3

\* Both leave the heap sound.
LEMMA MallocSound ==
    ASSUME NEW size, NEW key, HeapOK(mem, free_list, heap_size, live), Fits(size), key \in Int, mm_malloc(size, key)
    PROVE  /\ HeapOK(mem, free_list, heap_size, live)'
           /\ \/ call'.at = 0 /\ live' = live
              \/ \E v : /\ call'.at = HDRP(v) /\ v \in Nat /\ v >= First /\ v \notin DOMAIN live
                        /\ live' = With(live, v, size, key)
<1>1. PICK s : Shows(mem, free_list, heap_size, s, DOMAIN live) /\ Kept(mem, s, live)
  BY DEF HeapOK
<1>2. MallocRefused(s, size) \/ \E v : MallocDone(s, v, size, key)
  BY <1>1, MallocStep
<1>3. CASE MallocRefused(s, size)
  BY <1>1, <1>3 DEF MallocRefused, HeapOK
<1>4. ASSUME NEW v, MallocDone(s, v, size, key)
      PROVE  /\ HeapOK(mem, free_list, heap_size, live)'
             /\ call'.at = HDRP(v) /\ v \in Nat /\ v >= First /\ v \notin DOMAIN live
             /\ live' = With(live, v, size, key)
  <2>1. \E t : Shows(mem', free_list', heap_size, t, DOMAIN live') /\ Kept(mem', t, live')
    BY <1>4 DEF MallocDone, Granted
  <2>2. v \in DOMAIN s /\ GoodHeap(heap_size) /\ Tiles(s, heap_size)
    BY <1>1, <1>4 DEF MallocDone, Shows
  <2>3. v \in Nat /\ v >= First
    BY <2>2, InHeap
  <2> QED
    BY <1>4, <2>1, <2>3 DEF MallocDone, HeapOK
<1> QED
  BY <1>2, <1>3, <1>4

LEMMA FreeSound ==
    ASSUME NEW b, HeapOK(mem, free_list, heap_size, live), b \in DOMAIN live, mm_free(b)
    PROVE  HeapOK(mem, free_list, heap_size, live)' /\ live' = [x \in DOMAIN live \ {b} |-> live[x]]
<1>1. PICK s : Shows(mem, free_list, heap_size, s, DOMAIN live) /\ Kept(mem, s, live)
  BY DEF HeapOK
<1>2. /\ Freed(mem', free_list', heap_size, s, live')
      /\ live' = [x \in DOMAIN live \ {b} |-> live[x]] /\ heap_size' = heap_size
  BY <1>1, FreeStep
<1> QED
  BY <1>2 DEF Freed, HeapOK

LEMMA InitSound ==
    ASSUME NEW size, GoodHeap(size), init_heap(size)
    PROVE  HeapOK(mem, free_list, heap_size, live)' /\ live' = << >>
<1>1. mem' = mm_init(size).mem /\ free_list' = mm_init(size).free_list /\ heap_size' = size /\ live' = << >>
  BY DEF init_heap, Becomes
<1> QED
  BY <1>1, InitShows DEF HeapOK

-----------------------------------------------------------------------------
LEMMA InitIInv == DriverInit => IInv
<1> SUFFICES ASSUME DriverInit PROVE IInv
  OBVIOUS
<1>1. GoodHeap(heap_size)
  BY ScriptsAssumption DEF DriverInit
<1>2. HeapOK(mem, free_list, heap_size, live)
  <2>1. live = << >> /\ mem = mm_init(heap_size).mem /\ free_list = mm_init(heap_size).free_list
    BY DEF DriverInit
  <2> QED
    BY <1>1, <2>1, InitShows DEF HeapOK
<1>3. calls = << >> /\ p = << >> /\ DOMAIN p = {} /\ arg \in Args /\ round \in Nat
  BY DEF DriverInit
<1>4. Plan(calls, p)
  <2>1. << >> \in Seq({}) /\ DOMAIN << >> = {}
    OBVIOUS
  <2>2. PICK g : g = Given(calls, p)
    OBVIOUS
  <2>3. Legal(calls, g)
    BY <1>3, <2>1 DEF Legal
  <2> QED
    BY <1>3, <2>1, <2>2, <2>3 DEF Plan
<1>5. Held(p, live)
  BY <1>3 DEF Held
<1> QED
  BY <1>2, <1>3, <1>4, <1>5 DEF IInv, Driving

\* What the next call of a plan may be.
LEMMA NextCall ==
    ASSUME NEW t, NEW q, Plan(t, q), t # << >>
    PROVE  /\ Head(t) = t[1]
           /\ t[1].op = "init" => GoodHeap(t[1].size)
           /\ t[1].op \in {"malloc", "fill"} => Fits(t[1].size) /\ t[1].i \in Nat /\ t[1].key \in Int
           /\ t[1].op = "fill" => 0..t[1].i - 1 \subseteq DOMAIN q
           /\ t[1].op = "free" => t[1].i \in DOMAIN q
<1>1. PICK S : t \in Seq(S)
  BY DEF Plan
<1>2. 1 \in DOMAIN t /\ Head(t) = t[1] /\ 1..1 - 1 = {}
  BY <1>1
<1>3. PICK g : g = Given(t, q)
  OBVIOUS
<1>4. g \subseteq DOMAIN q
  BY <1>3 DEF Given
<1>5. /\ t[1].op = "init" => GoodHeap(t[1].size)
      /\ t[1].op \in {"malloc", "fill"} => Fits(t[1].size) /\ t[1].i \in Nat /\ t[1].key \in Int
      /\ t[1].op = "fill" => 0..t[1].i - 1 \subseteq g
      /\ t[1].op = "free" => t[1].i \in g
  BY <1>2, <1>3 DEF Plan, Legal
<1> QED
  BY <1>2, <1>4, <1>5

\* What checked_malloc keeps of a pointer that is not NULL.
LEMMA NewPointer ==
    ASSUME NEW q, NEW lv, Held(q, lv), NEW i, NEW v, NEW lv2, DOMAIN lv \subseteq DOMAIN lv2,
           v = NULL \/ (v \in DOMAIN lv2 /\ v \notin DOMAIN lv)
    PROVE  Held([x \in DOMAIN q \cup {i} |-> IF x = i THEN v ELSE q[x]], lv2)
<1>1. PICK r : r = [x \in DOMAIN q \cup {i} |-> IF x = i THEN v ELSE q[x]]
  OBVIOUS
<1>2. \A x \in DOMAIN q : x # i => r[x] = q[x]
  BY <1>1
<1>3. DOMAIN r = DOMAIN q \cup {i} /\ r[i] = v
  BY <1>1
<1>4. ASSUME NEW x \in DOMAIN r PROVE r[x] = NULL \/ r[x] \in DOMAIN lv2
  BY <1>2, <1>3 DEF Held
<1>5. ASSUME NEW x \in DOMAIN r, NEW y \in DOMAIN r, r[x] # NULL, r[x] = r[y] PROVE x = y
  <2>1. CASE x # i /\ y # i
    BY <1>2, <1>3, <1>5, <2>1 DEF Held
  <2>2. CASE x = i /\ y # i
    BY <1>2, <1>3, <1>5, <2>2 DEF Held
  <2>3. CASE x # i /\ y = i
    BY <1>2, <1>3, <1>5, <2>3 DEF Held
  <2> QED
    BY <2>1, <2>2, <2>3
<1>6. Held(r, lv2)
  BY <1>4, <1>5 DEF Held
<1> QED
  BY <1>1, <1>6

\* No size that the driver makes up wraps around.
LEMMA VariedFits ==
    ASSUME NEW s \in Nat, s # 0, Fits(2 * s), NEW j \in Int, NEW i \in Int
    PROVE  Fits(Varied(s, j, i))
<1>1. PICK r : r = (i + j) % s
  OBVIOUS
<1>2. r \in Nat /\ r < s
  BY <1>1
<1>3. Varied(s, j, i) = s + r
  BY <1>1 DEF Varied
<1>4. s + r \in Nat /\ s + r <= 2 * s /\ Modulus \in Nat
  BY <1>2, HeapAssumption
<1>5. MAX(2 * s, LIST_NODE) + OVERHEAD + 15 < Modulus
  BY DEF Fits
<1> QED
  BY <1>3, <1>4, <1>5 DEF Fits, MAX, LIST_NODE, OVERHEAD

LEMMA CheckedMallocIInv ==
    ASSUME IInv, checked_malloc
    PROVE  IInv'
<1>1. /\ calls # << >> /\ op.op \in {"malloc", "fill"} /\ mm_malloc(op.size, op.key)
      /\ arg' = arg /\ round' = round
  BY DEF checked_malloc
<1>2. /\ HeapOK(mem, free_list, heap_size, live) /\ Held(p, live) /\ Plan(calls, p) /\ arg \in Args /\ round \in Nat
      /\ arg.which # "any"
  BY <1>1 DEF IInv, Driving
<1>3. PICK c : c = calls[1]
  OBVIOUS
<1>4. /\ op = c /\ c.op \in {"malloc", "fill"} /\ Fits(c.size) /\ c.i \in Nat /\ c.key \in Int
      /\ c.op = "fill" => 0..c.i - 1 \subseteq DOMAIN p
  BY <1>1, <1>2, <1>3, NextCall DEF op
<1>5. PICK q : q = IF call'.at = 0 THEN NULL ELSE Got
  OBVIOUS
<1>6. /\ p' = [i \in DOMAIN p \cup {c.i} |-> IF i = c.i THEN q ELSE p[i]]
      /\ calls' = CASE c.op = "malloc" -> Tail(calls)
                   [] c.op = "fill" /\ q # NULL ->
                          <<FillOp(c.i + 1, Varied(arg.s, round - 1, c.i + 1), (c.i + 1) + round - 1)>>
                   [] OTHER -> Frees(Upto(c.i))
  BY <1>4, <1>5 DEF checked_malloc
<1>7. /\ HeapOK(mem, free_list, heap_size, live)'
      /\ \/ call'.at = 0 /\ live' = live
         \/ \E v : /\ call'.at = HDRP(v) /\ v \in Nat /\ v >= First /\ v \notin DOMAIN live
                   /\ live' = With(live, v, c.size, c.key)
  <2>1. mm_malloc(c.size, c.key)
    BY <1>1, <1>4
  <2>2. PICK size, key : size = c.size /\ key = c.key
    OBVIOUS
  <2>3. mm_malloc(size, key) /\ Fits(size) /\ key \in Int
    BY <1>4, <2>1, <2>2
  <2> QED
    BY <1>2, <2>2, <2>3, MallocSound
<1>8. DOMAIN live \subseteq DOMAIN live' /\ (q = NULL \/ (q \in DOMAIN live' /\ q \notin DOMAIN live))
  <2>1. CASE call'.at = 0 /\ live' = live
    BY <1>5, <2>1
  <2>2. ASSUME NEW v, call'.at = HDRP(v), v \in Nat, v >= First, v \notin DOMAIN live,
               live' = With(live, v, c.size, c.key)
        PROVE  DOMAIN live \subseteq DOMAIN live' /\ q \in DOMAIN live' /\ q \notin DOMAIN live
    <3>1. v - 8 # 0 /\ v - 8 + 8 = v
      BY <2>2, StartFacts DEF First
    <3>2. q = v
      BY <1>5, <2>2, <3>1 DEF Got, HDRP
    <3>3. DOMAIN live' = DOMAIN live \cup {v}
      BY <2>2 DEF With
    <3> QED
      BY <2>2, <3>2, <3>3
  <2> QED
    BY <1>7, <2>1, <2>2
<1>9. Held(p', live')
  <2>1. PICK i, lv, lv2 : i = c.i /\ lv = live /\ lv2 = live'
    OBVIOUS
  <2>2. Held(p, lv) /\ DOMAIN lv \subseteq DOMAIN lv2 /\ (q = NULL \/ (q \in DOMAIN lv2 /\ q \notin DOMAIN lv))
    BY <1>2, <1>8, <2>1
  <2>3. Held([x \in DOMAIN p \cup {i} |-> IF x = i THEN q ELSE p[x]], lv2)
    BY ONLY <2>2, NewPointer
  <2> QED
    BY <1>6, <2>1, <2>3
<1>10. DOMAIN p' = DOMAIN p \cup {c.i}
  BY <1>6
<1>11. Plan(calls', p')
  <2>1. CASE c.op = "malloc"
    <3>1. calls' = Tail(calls)
      BY <1>6, <2>1
    <3>2. DOMAIN p \subseteq DOMAIN p' /\ c.i \in DOMAIN p'
      BY <1>10
    <3> QED
      BY <1>1, <1>2, <1>3, <3>1, <3>2, PlanGoesOn
  <2>2. CASE c.op = "fill" /\ q # NULL
    <3>1. PICK n \in Nat : n = c.i + 1
      BY <1>4
    <3>2. calls' = <<FillOp(n, Varied(arg.s, round - 1, n), n + round - 1)>>
      BY <1>6, <2>2, <3>1
    <3>3. Fits(Varied(arg.s, round - 1, n)) /\ n + round - 1 \in Int
      <4>1. arg.s \in Nat /\ arg.s # 0 /\ Fits(2 * arg.s)
        BY <1>2, UseMemAssumption, ScriptsAssumption
      <4>2. round - 1 \in Int /\ n \in Int /\ n + round - 1 \in Int
        BY <1>2
      <4>3. PICK z : z = arg.s
        OBVIOUS
      <4> QED
        BY <4>1, <4>2, <4>3, VariedFits
    <3>4. 0..n - 1 \subseteq DOMAIN p'
      <4>1. 0..n - 1 = 0..c.i - 1 \cup {c.i}
        BY <1>4, <3>1
      <4> QED
        BY <1>4, <1>10, <2>2, <4>1
    <3> QED
      BY <3>2, <3>3, <3>4, FillPlanned
  <2>3. CASE c.op = "fill" /\ q = NULL
    <3>1. calls' = Frees(Upto(c.i))
      BY <1>6, <2>3
    <3>2. 0..c.i - 1 \subseteq DOMAIN p'
      BY <1>4, <1>10, <2>3
    <3> QED
      BY <1>4, <3>1, <3>2, FreesPlanned
  <2> QED
    BY <1>4, <2>1, <2>2, <2>3
<1> QED
  BY <1>1, <1>2, <1>7, <1>9, <1>11 DEF IInv, Driving

LEMMA FreeIInv ==
    ASSUME IInv, Free
    PROVE  IInv'
<1>1. /\ calls # << >> /\ op.op = "free" /\ calls' = Tail(calls) /\ arg' = arg /\ round' = round
      /\ IF p[op.i] = NULL THEN UNCHANGED heapVars ELSE mm_free(p[op.i])
      /\ p' = [p EXCEPT ![op.i] = NULL]
  BY DEF Free, driving
<1>2. /\ HeapOK(mem, free_list, heap_size, live) /\ Held(p, live) /\ Plan(calls, p) /\ arg \in Args /\ round \in Nat
      /\ arg.which # "any"
  BY <1>1 DEF IInv, Driving
<1>3. PICK i : i = calls[1].i
  OBVIOUS
<1>4. op = calls[1] /\ op.i = i /\ i \in DOMAIN p
  BY <1>1, <1>2, <1>3, NextCall DEF op
<1>5. p' = [p EXCEPT ![i] = NULL] /\ DOMAIN p' = DOMAIN p /\ p'[i] = NULL /\ \A x \in DOMAIN p : x # i => p'[x] = p[x]
  BY <1>1, <1>4
<1>6. HeapOK(mem, free_list, heap_size, live)' /\ Held(p', live')
  <2>1. CASE p[i] = NULL
    <3>1. UNCHANGED heapVars
      BY <1>1, <1>4, <2>1
    <3>2. Held(p', live)
      BY <1>2, <1>5 DEF Held
    <3> QED
      BY <1>2, <3>1, <3>2 DEF heapVars
  <2>2. CASE p[i] # NULL
    <3>1. p[i] \in DOMAIN live /\ mm_free(p[i])
      BY <1>1, <1>2, <1>4, <2>2 DEF Held
    <3>2. PICK b : b = p[i]
      OBVIOUS
    <3>3. HeapOK(mem, free_list, heap_size, live)' /\ live' = [x \in DOMAIN live \ {b} |-> live[x]]
      BY <1>2, <3>1, <3>2, FreeSound
    <3>4. DOMAIN live' = DOMAIN live \ {b}
      BY <3>3
    <3>5. ASSUME NEW x \in DOMAIN p' PROVE p'[x] = NULL \/ p'[x] \in DOMAIN live'
      BY <1>2, <1>4, <1>5, <2>2, <3>2, <3>4 DEF Held
    <3>6. ASSUME NEW x \in DOMAIN p', NEW y \in DOMAIN p', p'[x] # NULL, p'[x] = p'[y] PROVE x = y
      BY <1>2, <1>5, <3>6 DEF Held
    <3> QED
      BY <3>3, <3>5, <3>6 DEF Held
  <2> QED
    BY <2>1, <2>2
<1>7. Plan(calls', p')
  <2>1. DOMAIN p \subseteq DOMAIN p' /\ calls[1].op # "malloc"
    BY <1>1, <1>4, <1>5
  <2> QED
    BY <1>1, <1>2, <2>1, PlanGoesOn
<1> QED
  BY <1>1, <1>2, <1>6, <1>7 DEF IInv, Driving

LEMMA NewHeapIInv ==
    ASSUME IInv, NewHeap
    PROVE  IInv'
<1>1. /\ calls # << >> /\ op.op = "init" /\ init_heap(op.size) /\ p' = << >> /\ calls' = Tail(calls)
      /\ arg' = arg /\ round' = round
  BY DEF NewHeap, driving
<1>2. Plan(calls, p) /\ arg \in Args /\ round \in Nat /\ arg.which # "any"
  BY <1>1 DEF IInv, Driving
<1>3. op = calls[1] /\ calls[1].op = "init" /\ GoodHeap(op.size)
  BY <1>1, <1>2, NextCall DEF op
<1>4. HeapOK(mem, free_list, heap_size, live)' /\ live' = << >>
  <2>1. PICK size : size = op.size
    OBVIOUS
  <2> QED
    BY <1>1, <1>3, <2>1, InitSound
<1>5. Plan(calls', p')
  <2>1. calls[1].op # "malloc"
    BY <1>3
  <2> QED
    BY <1>1, <1>2, <1>3, <2>1, PlanGoesOn
<1>6. Held(p', live')
  BY <1>1 DEF Held
<1> QED
  BY <1>1, <1>2, <1>4, <1>5, <1>6 DEF IInv, Driving

LEMMA NextRoundIInv ==
    ASSUME IInv, NextRound
    PROVE  IInv'
<1>1. /\ arg \in Args /\ round \in Nat /\ round < Rounds(arg) /\ arg.which # "any"
      /\ UNCHANGED heapVars /\ arg' = arg /\ p' = p /\ calls' = Script(arg, round) /\ round' = round + 1
  BY DEF NextRound, IInv, Driving
<1>2. round \in 0..Rounds(arg) - 1
  BY <1>1, ScriptsAssumption
<1>3. PICK t : t = Script(arg, round)
  OBVIOUS
<1>4. t \in Seq(ToSet(t)) /\ Legal(t, {})
  BY <1>1, <1>2, <1>3, ScriptsAssumption
<1>5. Plan(t, p)
  BY <1>4, ScriptPlanned
<1>6. round + 1 \in Nat
  BY <1>1
<1> QED
  BY <1>1, <1>3, <1>5, <1>6 DEF IInv, Driving, heapVars

LEMMA AnyCallIInv ==
    ASSUME IInv, AnyCall
    PROVE  IInv'
<1>1. /\ arg.which = "any" /\ UNCHANGED <<arg, round, calls, p>>
      /\ (\E size \in AnySizes : mm_malloc(size, 0)) \/ (\E bp \in DOMAIN live : mm_free(bp))
  BY DEF AnyCall
<1>2. HeapOK(mem, free_list, heap_size, live) /\ Plan(calls, p) /\ arg \in Args /\ round \in Nat /\ calls = << >> /\ DOMAIN p = {}
  BY <1>1 DEF IInv, Driving
<1>3. HeapOK(mem, free_list, heap_size, live)'
  <2>1. ASSUME NEW size \in AnySizes, mm_malloc(size, 0) PROVE HeapOK(mem, free_list, heap_size, live)'
    <3>1. Fits(size)
      BY ScriptsAssumption
    <3> QED
      BY <1>2, <2>1, <3>1, MallocSound
  <2>2. ASSUME NEW bp \in DOMAIN live, mm_free(bp) PROVE HeapOK(mem, free_list, heap_size, live)'
    BY <1>2, <2>2, FreeSound
  <2> QED
    BY <1>1, <2>1, <2>2
<1>4. Held(p', live')
  BY <1>1, <1>2 DEF Held
<1> QED
  BY <1>1, <1>2, <1>3, <1>4 DEF IInv, Driving

LEMMA StepIInv == IInv /\ [DriverNext]_driverVars => IInv'
<1> SUFFICES ASSUME IInv, [DriverNext]_driverVars PROVE IInv'
  OBVIOUS
<1>1. CASE NextRound
  BY <1>1, NextRoundIInv
<1>2. CASE NewHeap
  BY <1>2, NewHeapIInv
<1>3. CASE checked_malloc
  BY <1>3, CheckedMallocIInv
<1>4. CASE Free
  BY <1>4, FreeIInv
<1>5. CASE AnyCall
  BY <1>5, AnyCallIInv
<1>6. CASE Pass \/ Done \/ UNCHANGED driverVars
  BY <1>6 DEF Pass, Done, IInv, Driving, driverVars, heapVars
<1> QED
  BY <1>1, <1>2, <1>3, <1>4, <1>5, <1>6 DEF DriverNext

\* For every heap and every client that frees only what it was given: the
\* blocks tile the heap, header and footer of each agree, free neighbours are
\* joined, and the free list runs through exactly the free blocks, both ways
\* (mm_malloc, mm_free and the list operations of malloc/mm.c).
THEOREM HeapSafe == DriverSpec => []HeapSound
<1>1. DriverInit => IInv
  BY InitIInv
<1>2. IInv /\ [DriverNext]_driverVars => IInv'
  BY StepIInv
<1>3. IInv => HeapSound
  BY ShowsSound DEF IInv
<1> QED
  BY <1>1, <1>2, <1>3, PTL DEF DriverSpec

\* What the client filled in is there until it frees the block: the tags and
\* the links of the free list are never written into a block in use.
THEOREM PayloadSafe == DriverSpec => []PayloadKept
<1>1. DriverInit => IInv
  BY InitIInv
<1>2. IInv /\ [DriverNext]_driverVars => IInv'
  BY StepIInv
<1>3. IInv => PayloadKept
  BY ShowsSound DEF IInv
<1> QED
  BY <1>1, <1>2, <1>3, PTL DEF DriverSpec

-----------------------------------------------------------------------------
(* The heap as the blocks it has handed out. *)

handed == [b \in {HDRP(bp) : bp \in Allocated} |-> GET_SIZE(mem, b)]
Sizes(s, lv) == [h \in {b - 8 : b \in DOMAIN lv} |-> s[h + 8]]

LEMMA HandedOut == \A s : Shows(mem, free_list, heap_size, s, DOMAIN live) => handed = Sizes(s, live)
<1> SUFFICES ASSUME NEW s, Shows(mem, free_list, heap_size, s, DOMAIN live) PROVE handed = Sizes(s, live)
  OBVIOUS
<1>1. PICK held : held = DOMAIN live
  OBVIOUS
<1>2. /\ GoodHeap(heap_size) /\ Tiles(s, heap_size) /\ held \subseteq DOMAIN s /\ Tagged(mem, s, held, heap_size)
  BY <1>1 DEF Shows
<1>3. ASSUME NEW b, b \in DOMAIN s
      PROVE  /\ GET_SIZE(mem, HDRP(b)) = s[b] /\ GET_ALLOC(mem, HDRP(b)) = (IF b \in held THEN 1 ELSE 0)
             /\ b \in Int
  BY <1>2, <1>3, Reads DEF Tiles
<1>4. Blocks = DOMAIN s
  BY BlocksAre
<1>5. Allocated = held
  BY <1>2, <1>3, <1>4 DEF Allocated
<1>6. {HDRP(bp) : bp \in Allocated} = {b - 8 : b \in held}
  BY <1>5 DEF HDRP
<1>7. ASSUME NEW h \in {b - 8 : b \in held} PROVE GET_SIZE(mem, h) = s[h + 8]
  <2>1. PICK b \in held : h = b - 8
    OBVIOUS
  <2>2. b \in DOMAIN s
    BY <1>2
  <2>3. GET_SIZE(mem, b - 8) = s[b] /\ b \in Int
    BY <1>3, <2>2 DEF HDRP
  <2>4. h + 8 = b
    BY <2>1, <2>3
  <2> QED
    BY <2>1, <2>3, <2>4
<1> QED
  BY <1>1, <1>6, <1>7 DEF handed, Sizes

\* The sizes of the live blocks, seen by the addresses of their headers.
Lists(bl, s, lv) ==
    /\ DOMAIN bl = {b - 8 : b \in DOMAIN lv}
    /\ \A x : x \in DOMAIN bl <=> x \in Int /\ x + 8 \in DOMAIN lv
    /\ \A b \in DOMAIN lv : b \in Int /\ b - 8 \in DOMAIN bl /\ bl[b - 8] = s[b] /\ s[b] \in Nat /\ s[b] >= 32

LEMMA SizesAre ==
    ASSUME NEW m, NEW fl, NEW hs, NEW s, NEW lv, Shows(m, fl, hs, s, DOMAIN lv)
    PROVE  Lists(Sizes(s, lv), s, lv)
<1>1. \A b \in DOMAIN lv : b \in Int /\ s[b] \in Nat /\ s[b] >= 32
  BY DEF Shows, Tiles
<1>2. PICK bl : bl = Sizes(s, lv)
  OBVIOUS
<1>3. DOMAIN bl = {b - 8 : b \in DOMAIN lv} /\ \A h \in {b - 8 : b \in DOMAIN lv} : bl[h] = s[h + 8]
  BY <1>2 DEF Sizes
<1>4. \A b \in DOMAIN lv : b - 8 \in DOMAIN bl /\ (b - 8) + 8 = b
  BY <1>1, <1>3
<1>5. \A b \in DOMAIN lv : bl[b - 8] = s[b]
  BY <1>3, <1>4
<1>6. ASSUME NEW x PROVE x \in DOMAIN bl <=> x \in Int /\ x + 8 \in DOMAIN lv
  <2>1. ASSUME x \in DOMAIN bl PROVE x \in Int /\ x + 8 \in DOMAIN lv
    <3>1. PICK b \in DOMAIN lv : x = b - 8
      BY <1>3, <2>1
    <3>2. b \in Int /\ x + 8 = b
      BY <1>1, <3>1
    <3> QED
      BY <3>1, <3>2
  <2>2. ASSUME x \in Int, x + 8 \in DOMAIN lv PROVE x \in DOMAIN bl
    <3>1. x = (x + 8) - 8
      BY <2>2
    <3> QED
      BY <1>4, <2>2, <3>1
  <2> QED
    BY <2>1, <2>2
<1> QED
  BY <1>1, <1>2, <1>3, <1>4, <1>5, <1>6 DEF Lists

\* A block that is handed out was free, and is as large as it was asked for.
Fresh(bl, bl2, lo, hi, at, n) ==
    /\ at >= lo /\ at + n <= hi /\ \A o \in DOMAIN bl : at + n <= o \/ o + bl[o] <= at
    /\ bl2 = [b \in DOMAIN bl \cup {at} |-> IF b = at THEN n ELSE bl[b]]

LEMMA GrantsFresh ==
    ASSUME NEW m, NEW fl, NEW hs, NEW s, NEW lv, Shows(m, fl, hs, s, DOMAIN lv),
           NEW m2, NEW fl2, NEW v, NEW size, NEW key, NEW lv2, lv2 = With(lv, v, size, key),
           Granted(m2, fl2, hs, s, lv, v, size, lv2)
    PROVE  \E t : /\ Shows(m2, fl2, hs, t, DOMAIN lv2) /\ v \in Int /\ v % 16 = 0 /\ v - 8 # 0
                  /\ t[v] \in {real_size(size), real_size(size) + 16}
                  /\ Fresh(Sizes(s, lv), Sizes(t, lv2), Start + 24, Top(hs) - 8, v - 8, t[v])
<1>1. PICK t : /\ Shows(m2, fl2, hs, t, DOMAIN lv2) /\ t[v] \in {real_size(size), real_size(size) + 16}
               /\ \A x \in DOMAIN lv : t[x] = s[x]
  BY DEF Granted
<1>2. DOMAIN lv2 = DOMAIN lv \cup {v} /\ v \notin DOMAIN lv
  BY DEF With, Granted
<1>3. GoodHeap(hs) /\ Tiles(t, hs) /\ DOMAIN lv2 \subseteq DOMAIN t
  BY <1>1 DEF Shows
<1>4. v \in DOMAIN t
  BY <1>2, <1>3
<1>5. /\ v \in Nat /\ v % 16 = 0 /\ v >= First /\ t[v] \in Nat /\ t[v] >= 32 /\ v + t[v] <= Top(hs) /\ Top(hs) \in Nat
      /\ First = Start + 32 /\ Start \in Nat
  BY <1>3, <1>4, InHeap, StartFacts DEF First
<1>6. v - 8 # 0 /\ v - 8 >= Start + 24 /\ (v - 8) + t[v] <= Top(hs) - 8
  BY <1>5
<1>7. PICK bl : bl = Sizes(s, lv)
  OBVIOUS
<1>8. /\ DOMAIN bl = {b - 8 : b \in DOMAIN lv} /\ \A x : x \in DOMAIN bl <=> x \in Int /\ x + 8 \in DOMAIN lv
      /\ \A b \in DOMAIN lv : b \in Int /\ b - 8 \in DOMAIN bl /\ bl[b - 8] = s[b] /\ s[b] \in Nat /\ s[b] >= 32
  <2>1. Lists(Sizes(s, lv), s, lv)
    BY SizesAre
  <2> QED
    BY <1>7, <2>1 DEF Lists
<1>9. PICK bl2 : bl2 = Sizes(t, lv2)
  OBVIOUS
<1>10. /\ DOMAIN bl2 = {b - 8 : b \in DOMAIN lv2}
       /\ \A b \in DOMAIN lv2 : b \in Int /\ b - 8 \in DOMAIN bl2 /\ bl2[b - 8] = t[b] /\ t[b] \in Nat /\ t[b] >= 32
  <2>1. Lists(Sizes(t, lv2), t, lv2)
    BY <1>1, SizesAre
  <2> QED
    BY <1>9, <2>1 DEF Lists
<1>11. ASSUME NEW o \in DOMAIN bl PROVE (v - 8) + t[v] <= o \/ o + bl[o] <= v - 8
  <2>1. PICK b \in DOMAIN lv : o = b - 8
    BY <1>8
  <2>2. b \in DOMAIN t /\ b # v /\ b \in Int /\ bl[o] = s[b] /\ t[b] = s[b] /\ s[b] \in Nat
    BY <1>1, <1>2, <1>3, <1>8, <2>1
  <2>3. v + t[v] <= b \/ b + t[b] <= v
    BY <1>3, <1>4, <2>2, Apart
  <2> QED
    BY <1>5, <2>1, <2>2, <2>3
<1>12. bl2 = [b \in DOMAIN bl \cup {v - 8} |-> IF b = v - 8 THEN t[v] ELSE bl[b]]
  <2>1. DOMAIN bl2 = DOMAIN bl \cup {v - 8}
    BY <1>2, <1>8, <1>10
  <2>2. bl2[v - 8] = t[v]
    BY <1>2, <1>10
  <2>3. ASSUME NEW h \in DOMAIN bl PROVE h # v - 8 /\ bl2[h] = bl[h]
    <3>1. PICK b \in DOMAIN lv : h = b - 8
      BY <1>8
    <3>2. b # v /\ b \in Int /\ bl[h] = s[b] /\ bl2[h] = t[b] /\ t[b] = s[b]
      BY <1>1, <1>2, <1>8, <1>10, <3>1
    <3> QED
      BY <1>5, <3>1, <3>2
  <2>4. bl2 = [b \in DOMAIN bl2 |-> bl2[b]]
    BY <1>9 DEF Sizes
  <2> QED
    BY <2>1, <2>2, <2>3, <2>4
<1>13. Fresh(bl, bl2, Start + 24, Top(hs) - 8, v - 8, t[v])
  BY <1>6, <1>11, <1>12 DEF Fresh
<1>14. v \in Int /\ v % 16 = 0
  BY <1>5
<1> QED
  BY <1>1, <1>6, <1>7, <1>9, <1>13, <1>14

\* No gap between the live blocks, nor one before, nor one behind them, is as large as n.
NoGap(bl, lo, hi, n) ==
    \A b \in {lo} \cup {o + bl[o] : o \in DOMAIN bl} :
        ~(b >= lo /\ b + n <= hi /\ \A o \in DOMAIN bl : b + n <= o \/ o + bl[o] <= b)

LEMMA RefusesRightly ==
    ASSUME NEW m, NEW fl, NEW hs, NEW s, NEW lv, Shows(m, fl, hs, s, DOMAIN lv), NEW size, Fits(size), Refused(s, lv, size)
    PROVE  NoGap(Sizes(s, lv), Start + 24, Top(hs) - 8, real_size(size))
<1>1. PICK n : n = real_size(size)
  OBVIOUS
<1>2. n \in Nat /\ n >= 32
  BY <1>1, RealSize
<1>3. PICK bl : bl = Sizes(s, lv)
  OBVIOUS
<1>4. /\ DOMAIN bl = {b - 8 : b \in DOMAIN lv} /\ \A x : x \in DOMAIN bl <=> x \in Int /\ x + 8 \in DOMAIN lv
      /\ \A b \in DOMAIN lv : b \in Int /\ b - 8 \in DOMAIN bl /\ bl[b - 8] = s[b] /\ s[b] \in Nat /\ s[b] >= 32
  <2>1. Lists(Sizes(s, lv), s, lv)
    BY SizesAre
  <2> QED
    BY <1>3, <2>1 DEF Lists
<1>5. /\ GoodHeap(hs) /\ Tiles(s, hs) /\ Joined(s, DOMAIN lv, hs) /\ DOMAIN lv \subseteq DOMAIN s
  BY DEF Shows
<1>6. ASSUME NEW b, b \in {Start + 24} \cup {o + bl[o] : o \in DOMAIN bl}
      PROVE  b \in Int /\ b + 8 \in DOMAIN s \cup {Top(hs)}
  <2>1. CASE b = Start + 24
    <3>1. b \in Int /\ b + 8 = First
      BY <2>1, StartFacts DEF First
    <3> QED
      BY <1>5, <3>1 DEF Tiles
  <2>2. ASSUME NEW o \in DOMAIN bl, b = o + bl[o] PROVE b \in Int /\ b + 8 \in DOMAIN s \cup {Top(hs)}
    <3>1. PICK c \in DOMAIN lv : o = c - 8
      BY <1>4
    <3>2. c \in Int /\ s[c] \in Nat /\ bl[o] = s[c] /\ c \in DOMAIN s
      BY <1>4, <1>5, <3>1
    <3>3. b \in Int /\ b + 8 = c + s[c]
      BY <2>2, <3>1, <3>2
    <3> QED
      BY <1>5, <3>2, <3>3 DEF Tiles
  <2> QED
    BY <1>6, <2>1, <2>2
<1>7. ASSUME NEW b, b \in {Start + 24} \cup {o + bl[o] : o \in DOMAIN bl},
             b + n <= Top(hs) - 8, \A o \in DOMAIN bl : b + n <= o \/ o + bl[o] <= b
      PROVE  FALSE
  <2>1. PICK c : c = b + 8
    OBVIOUS
  <2>2. b \in Int /\ c \in Int /\ c \in DOMAIN s \cup {Top(hs)} /\ b = c - 8
    BY <1>6, <1>7, <2>1
  <2>3. Top(hs) \in Nat
    BY <1>5, StartFacts DEF GoodHeap, Top
  <2>4. c # Top(hs) /\ c \in DOMAIN s
    BY <1>2, <1>7, <2>2, <2>3
  <2>5. s[c] \in Nat /\ s[c] >= 32 /\ c + s[c] <= Top(hs)
    BY <1>5, <2>4, InHeap
  <2>6. CASE c \in DOMAIN lv
    <3>1. b \in DOMAIN bl /\ bl[b] = s[c]
      BY <1>4, <2>2, <2>6
    <3>2. b + n <= b \/ b + s[c] <= b
      BY <1>7, <3>1
    <3> QED
      BY <1>2, <2>2, <2>5, <3>2
  <2>7. CASE c \notin DOMAIN lv
    <3>1. ~(s[c] >= n)
      BY <1>1, <2>4, <2>7 DEF Refused
    <3>2. c + s[c] # Top(hs)
      BY <1>2, <1>7, <2>2, <2>3, <2>5, <3>1
    <3>3. c + s[c] \in DOMAIN lv \cup {Top(hs)}
      BY <1>5, <2>4, <2>7 DEF Joined
    <3>4. PICK e \in DOMAIN lv : e = c + s[c]
      BY <3>2, <3>3
    <3>5. e \in Int /\ e - 8 \in DOMAIN bl /\ bl[e - 8] = s[e] /\ s[e] \in Nat /\ s[e] >= 32
      BY <1>4
    <3>6. b + n <= e - 8 \/ (e - 8) + s[e] <= b
      BY <1>7, <3>5
    <3> QED
      BY <1>2, <2>2, <2>5, <3>1, <3>4, <3>5, <3>6
  <2> QED
    BY <2>6, <2>7
<1>8. NoGap(bl, Start + 24, Top(hs) - 8, n)
  BY <1>7 DEF NoGap
<1> QED
  BY <1>1, <1>3, <1>8

LEMMA FreesOne ==
    ASSUME NEW m, NEW fl, NEW hs, NEW s, NEW lv, Shows(m, fl, hs, s, DOMAIN lv), NEW b, b \in DOMAIN lv,
           NEW m2, NEW fl2, NEW lv2, lv2 = [x \in DOMAIN lv \ {b} |-> lv[x]], Freed(m2, fl2, hs, s, lv2)
    PROVE  \E t : /\ Shows(m2, fl2, hs, t, DOMAIN lv2) /\ b - 8 \in DOMAIN Sizes(s, lv)
                  /\ Sizes(t, lv2) = [x \in DOMAIN Sizes(s, lv) \ {b - 8} |-> Sizes(s, lv)[x]]
<1>1. PICK t : Shows(m2, fl2, hs, t, DOMAIN lv2) /\ \A x \in DOMAIN lv2 : t[x] = s[x]
  BY DEF Freed
<1>2. DOMAIN lv2 = DOMAIN lv \ {b}
  OBVIOUS
<1>3. PICK bl, bl2 : bl = Sizes(s, lv) /\ bl2 = Sizes(t, lv2)
  OBVIOUS
<1>4. /\ \A x : x \in DOMAIN bl <=> x \in Int /\ x + 8 \in DOMAIN lv
      /\ \A x \in DOMAIN lv : x \in Int /\ x - 8 \in DOMAIN bl /\ bl[x - 8] = s[x] /\ s[x] \in Nat
  <2>1. Lists(Sizes(s, lv), s, lv)
    BY SizesAre
  <2> QED
    BY <1>3, <2>1 DEF Lists
<1>5. /\ \A x : x \in DOMAIN bl2 <=> x \in Int /\ x + 8 \in DOMAIN lv2
      /\ \A x \in DOMAIN lv2 : x \in Int /\ x - 8 \in DOMAIN bl2 /\ bl2[x - 8] = t[x] /\ t[x] \in Nat
  <2>1. Lists(Sizes(t, lv2), t, lv2)
    BY <1>1, SizesAre
  <2> QED
    BY <1>3, <2>1 DEF Lists
<1>6. b \in Int /\ b - 8 \in DOMAIN bl
  BY <1>4
<1>7. ASSUME NEW h PROVE h \in DOMAIN bl2 <=> h \in DOMAIN bl \ {b - 8}
  <2>1. h \in Int => (h + 8 = b <=> h = b - 8)
    BY <1>6
  <2> QED
    BY <1>2, <1>4, <1>5, <2>1
<1>8. ASSUME NEW h \in DOMAIN bl2 PROVE bl2[h] = bl[h]
  <2>1. h \in Int /\ h + 8 \in DOMAIN lv2 /\ h + 8 \in DOMAIN lv /\ (h + 8) - 8 = h
    BY <1>2, <1>5
  <2>2. bl2[(h + 8) - 8] = t[h + 8] /\ bl[(h + 8) - 8] = s[h + 8] /\ t[h + 8] = s[h + 8]
    BY <1>1, <1>4, <1>5, <2>1
  <2> QED
    BY <2>1, <2>2
<1>9. bl2 = [x \in DOMAIN bl \ {b - 8} |-> bl[x]]
  <2>1. bl2 = [x \in DOMAIN bl2 |-> bl2[x]]
    BY <1>3 DEF Sizes
  <2>2. DOMAIN bl2 = DOMAIN bl \ {b - 8}
    BY <1>7
  <2> QED
    BY <1>8, <2>1, <2>2
<1> QED
  BY <1>1, <1>3, <1>6, <1>9

\* The heap as the allocator of BlockSet sees it: from one state to the next.
Seen(s) == Shows(mem, free_list, heap_size, s, DOMAIN live) /\ Kept(mem, s, live)

LEMMA HandedNext ==
    ASSUME NEW t, Shows(mem', free_list', heap_size', t, DOMAIN live')
    PROVE  handed' = Sizes(t, live')
<1>1. (\A s : Shows(mem, free_list, heap_size, s, DOMAIN live) => handed = Sizes(s, live))'
  BY HandedOut, PTL
<1> QED
  BY <1>1

LEMMA MallocMaps ==
    ASSUME NEW size, NEW key, HeapOK(mem, free_list, heap_size, live), Fits(size), key \in Int, mm_malloc(size, key)
    PROVE  Promise!Malloc
<1>1. PICK s : Shows(mem, free_list, heap_size, s, DOMAIN live) /\ Kept(mem, s, live)
  BY DEF HeapOK
<1>2. PICK bl : bl = handed
  OBVIOUS
<1>3. bl = Sizes(s, live)
  BY <1>1, <1>2, HandedOut
<1>4. MallocRefused(s, size) \/ \E v : MallocDone(s, v, size, key)
  BY <1>1, MallocStep
<1>5. CASE MallocRefused(s, size)
  <2>1. /\ call' = [op |-> "malloc", size |-> size, at |-> 0] /\ heap_size' = heap_size
        /\ Refused(s, live, size) /\ UNCHANGED <<mem, free_list, live>>
    BY <1>5 DEF MallocRefused
  <2>2. handed' = bl
    <3>1. Shows(mem', free_list', heap_size', s, DOMAIN live')
      BY <1>1, <2>1
    <3>2. handed' = Sizes(s, live')
      BY <3>1, HandedNext
    <3> QED
      BY <1>3, <2>1, <3>2
  <2>3. NoGap(bl, Start + 24, Top(heap_size) - 8, real_size(size))
    BY <1>1, <1>3, <2>1, RefusesRightly
  <2>4. call'.op = "malloc" /\ call'.size = size /\ call'.at = 0
    BY <2>1
  <2>5. Top(heap_size) - 8 = End - 8 /\ End' = End
    BY <2>1 DEF Top, End
  <2>6. \A b \in {Start + 24} \cup {o + handed[o] : o \in DOMAIN handed} :
           ~(b >= Start + 24 /\ b + real_size(size) <= End - 8
             /\ \A o \in DOMAIN handed : b + real_size(size) <= o \/ o + handed[o] <= b)
    BY <1>2, <2>3, <2>5 DEF NoGap
  <2>7. \A b \in Promise!GapStarts : ~Promise!FreeAt(b, real_size(call'.size))
    BY <2>4, <2>6 DEF Promise!GapStarts, Promise!FreeAt, handed
  <2>8. handed' = handed
    BY <1>2, <2>2
  <2> QED
    BY <2>4, <2>5, <2>7, <2>8 DEF Promise!Malloc, handed
<1>6. ASSUME NEW v, MallocDone(s, v, size, key) PROVE Promise!Malloc
  <2>1. /\ call' = [op |-> "malloc", size |-> size, at |-> HDRP(v)] /\ heap_size' = heap_size
        /\ live' = With(live, v, size, key) /\ Granted(mem', free_list', heap_size, s, live, v, size, live')
    BY <1>6 DEF MallocDone
  <2>2. PICK lv, lv2, m2, fl2 : lv = live /\ lv2 = live' /\ m2 = mem' /\ fl2 = free_list'
    OBVIOUS
  <2>3. PICK t : /\ Shows(m2, fl2, heap_size, t, DOMAIN lv2) /\ v \in Int /\ v % 16 = 0 /\ v - 8 # 0
                 /\ t[v] \in {real_size(size), real_size(size) + 16}
                 /\ Fresh(Sizes(s, lv), Sizes(t, lv2), Start + 24, Top(heap_size) - 8, v - 8, t[v])
    <3>1. /\ Shows(mem, free_list, heap_size, s, DOMAIN lv) /\ lv2 = With(lv, v, size, key)
          /\ Granted(m2, fl2, heap_size, s, lv, v, size, lv2)
      BY <1>1, <2>1, <2>2
    <3> QED
      BY <3>1, GrantsFresh
  <2>4. handed' = Sizes(t, lv2)
    BY <2>1, <2>2, <2>3, HandedNext
  <2>5. PICK n : n = t[v]
    OBVIOUS
  <2>6. PICK at : at = v - 8
    OBVIOUS
  <2>7. /\ at >= Start + 24 /\ at + n <= End - 8 /\ \A o \in DOMAIN bl : at + n <= o \/ o + bl[o] <= at
        /\ handed' = [b \in DOMAIN bl \cup {at} |-> IF b = at THEN n ELSE bl[b]]
    BY <1>3, <2>2, <2>3, <2>4, <2>5, <2>6 DEF Fresh, Top, End
  <2>8. call'.op = "malloc" /\ call'.size = size /\ call'.at = at /\ at # 0 /\ (at + 8) % 16 = 0 /\ End' = End
    <3>1. at + 8 = v
      BY <2>3, <2>6
    <3> QED
      BY <2>1, <2>3, <2>6, <3>1 DEF HDRP, End
  <2>9. Promise!FreeAt(call'.at, n)
    BY <1>2, <2>7, <2>8 DEF Promise!FreeAt, handed
  <2>10. n \in {real_size(call'.size), real_size(call'.size) + 16}
    BY <2>3, <2>5, <2>8
  <2>11. handed' = [b \in DOMAIN handed \cup {call'.at} |-> IF b = call'.at THEN n ELSE handed[b]]
    BY <1>2, <2>7, <2>8
  <2> QED
    BY <2>8, <2>9, <2>10, <2>11 DEF Promise!Malloc, handed
<1> QED
  BY <1>4, <1>5, <1>6

LEMMA FreeMaps ==
    ASSUME NEW b, HeapOK(mem, free_list, heap_size, live), b \in DOMAIN live, mm_free(b)
    PROVE  Promise!Free
<1>1. PICK s : Shows(mem, free_list, heap_size, s, DOMAIN live) /\ Kept(mem, s, live)
  BY DEF HeapOK
<1>2. handed = Sizes(s, live)
  BY <1>1, HandedOut
<1>3. /\ Freed(mem', free_list', heap_size, s, live') /\ live' = [x \in DOMAIN live \ {b} |-> live[x]]
      /\ call' = [op |-> "free", size |-> 0, at |-> HDRP(b)] /\ heap_size' = heap_size
  BY <1>1, FreeStep
<1>4. PICK lv, lv2, m2, fl2 : lv = live /\ lv2 = live' /\ m2 = mem' /\ fl2 = free_list'
  OBVIOUS
<1>5. PICK t : /\ Shows(m2, fl2, heap_size, t, DOMAIN lv2) /\ b - 8 \in DOMAIN Sizes(s, lv)
               /\ Sizes(t, lv2) = [x \in DOMAIN Sizes(s, lv) \ {b - 8} |-> Sizes(s, lv)[x]]
  <2>1. /\ Shows(mem, free_list, heap_size, s, DOMAIN lv) /\ b \in DOMAIN lv
        /\ lv2 = [x \in DOMAIN lv \ {b} |-> lv[x]] /\ Freed(m2, fl2, heap_size, s, lv2)
    BY <1>1, <1>3, <1>4
  <2> QED
    BY <2>1, FreesOne
<1>6. handed' = Sizes(t, lv2)
  BY <1>3, <1>4, <1>5, HandedNext
<1>7. call'.op = "free" /\ call'.at = b - 8 /\ End' = End
  BY <1>3 DEF HDRP, End
<1>8. call'.at \in DOMAIN handed /\ handed' = [x \in DOMAIN handed \ {call'.at} |-> handed[x]]
  BY <1>2, <1>4, <1>5, <1>6, <1>7
<1> QED
  BY <1>7, <1>8 DEF Promise!Free, handed

\* A heap that is made has handed out nothing.
LEMMA NewMaps ==
    ASSUME NEW size, GoodHeap(size), init_heap(size)
    PROVE  Promise!Reset
<1>1. /\ mem' = mm_init(size).mem /\ free_list' = mm_init(size).free_list /\ heap_size' = size /\ live' = << >>
      /\ call' = [op |-> "init", size |-> size - 32, at |-> Start + 24]
  BY DEF init_heap, Becomes
<1>2. PICK s : Shows(mem', free_list', heap_size', s, DOMAIN live')
  BY <1>1, InitShows
<1>3. handed' = Sizes(s, << >>)
  BY <1>1, <1>2, HandedNext
<1>4. Sizes(s, << >>) = << >>
  BY DEF Sizes
<1>5. call' = [op |-> "init", size |-> (End' - 8) - (Start + 24), at |-> Start + 24]
  <2>1. size \in Nat /\ End' = Start + size
    BY <1>1 DEF GoodHeap, End
  <2>2. (End' - 8) - (Start + 24) = size - 32
    BY <2>1, StartFacts
  <2> QED
    BY <1>1, <2>2
<1> QED
  BY <1>3, <1>4, <1>5 DEF Promise!Reset, Promise!Init, handed

LEMMA InitMaps == DriverInit => Promise!Init
<1> SUFFICES ASSUME DriverInit PROVE Promise!Init
  OBVIOUS
<1>1. GoodHeap(heap_size)
  BY ScriptsAssumption DEF DriverInit
<1>2. /\ live = << >> /\ mem = mm_init(heap_size).mem /\ free_list = mm_init(heap_size).free_list
      /\ call = [op |-> "init", size |-> heap_size - 32, at |-> Start + 24]
  BY DEF DriverInit
<1>3. PICK s : Shows(mem, free_list, heap_size, s, DOMAIN live)
  BY <1>1, <1>2, InitShows
<1>4. handed = << >>
  <2>1. handed = Sizes(s, live)
    BY <1>3, HandedOut
  <2>2. Sizes(s, << >>) = << >>
    BY DEF Sizes
  <2> QED
    BY <1>2, <2>1, <2>2
<1>5. call = [op |-> "init", size |-> (End - 8) - (Start + 24), at |-> Start + 24]
  <2>1. heap_size \in Nat /\ End = Start + heap_size
    BY <1>1 DEF GoodHeap, End
  <2>2. (End - 8) - (Start + 24) = heap_size - 32
    BY <2>1, StartFacts
  <2> QED
    BY <1>2, <2>2
<1> QED
  BY <1>4, <1>5 DEF Promise!Init, handed

\* What leaves the heap alone hands nothing out and takes nothing back.
LEMMA QuietMaps ==
    ASSUME HeapOK(mem, free_list, heap_size, live), UNCHANGED heapVars
    PROVE  handed' = handed /\ End' = End /\ call' = call
<1>1. PICK s : Shows(mem, free_list, heap_size, s, DOMAIN live)
  BY DEF HeapOK
<1>2. Shows(mem', free_list', heap_size', s, DOMAIN live') /\ live' = live
  BY <1>1 DEF heapVars
<1>3. handed' = Sizes(s, live) /\ handed = Sizes(s, live)
  BY <1>1, <1>2, HandedOut, HandedNext
<1> QED
  BY <1>3 DEF heapVars, End

PromiseStep == Promise!Next \/ (handed' = handed /\ End' = End /\ call' = call)

LEMMA StepMaps == IInv /\ [DriverNext]_driverVars => PromiseStep
<1> SUFFICES ASSUME IInv, [DriverNext]_driverVars PROVE PromiseStep
  OBVIOUS
<1>1. /\ HeapOK(mem, free_list, heap_size, live) /\ Held(p, live) /\ Plan(calls, p)
  BY DEF IInv, Driving
<1>2. CASE NewHeap
  <2>1. init_heap(op.size) /\ GoodHeap(op.size)
    <3>1. calls # << >> /\ op.op = "init" /\ init_heap(op.size)
      BY <1>2 DEF NewHeap
    <3> QED
      BY <1>1, <3>1, NextCall DEF op
  <2>2. PICK size : size = op.size
    OBVIOUS
  <2>3. Promise!Reset
    BY <2>1, <2>2, NewMaps
  <2> QED
    BY <2>3 DEF PromiseStep, Promise!Next
<1>3. CASE checked_malloc
  <2>1. calls # << >> /\ op.op \in {"malloc", "fill"} /\ mm_malloc(op.size, op.key)
    BY <1>3 DEF checked_malloc
  <2>2. Fits(op.size) /\ op.key \in Int
    BY <1>1, <2>1, NextCall DEF op
  <2>3. PICK size, key : size = op.size /\ key = op.key
    OBVIOUS
  <2>4. mm_malloc(size, key) /\ Fits(size) /\ key \in Int
    BY <2>1, <2>2, <2>3
  <2>5. Promise!Malloc
    BY <1>1, <2>4, MallocMaps
  <2> QED
    BY <2>5 DEF PromiseStep, Promise!Next
<1>4. CASE Free
  <2>1. /\ calls # << >> /\ op.op = "free"
        /\ IF p[op.i] = NULL THEN UNCHANGED heapVars ELSE mm_free(p[op.i])
    BY <1>4 DEF Free
  <2>2. op.i \in DOMAIN p
    BY <1>1, <2>1, NextCall DEF op
  <2>3. CASE p[op.i] = NULL
    <3>1. UNCHANGED heapVars
      BY <2>1, <2>3
    <3> QED
      BY <1>1, <3>1, QuietMaps DEF PromiseStep
  <2>4. CASE p[op.i] # NULL
    <3>1. p[op.i] \in DOMAIN live /\ mm_free(p[op.i])
      BY <1>1, <2>1, <2>2, <2>4 DEF Held
    <3>2. PICK b : b = p[op.i]
      OBVIOUS
    <3>3. Promise!Free
      BY <1>1, <3>1, <3>2, FreeMaps
    <3> QED
      BY <3>3 DEF PromiseStep, Promise!Next
  <2> QED
    BY <2>3, <2>4
<1>5. CASE AnyCall
  <2>1. (\E size \in AnySizes : mm_malloc(size, 0)) \/ (\E bp \in DOMAIN live : mm_free(bp))
    BY <1>5 DEF AnyCall
  <2>2. ASSUME NEW size \in AnySizes, mm_malloc(size, 0) PROVE Promise!Malloc
    <3>1. Fits(size) /\ 0 \in Int
      BY ScriptsAssumption
    <3> QED
      BY <1>1, <2>2, <3>1, MallocMaps
  <2>3. ASSUME NEW bp \in DOMAIN live, mm_free(bp) PROVE Promise!Free
    BY <1>1, <2>3, FreeMaps
  <2> QED
    BY <2>1, <2>2, <2>3 DEF PromiseStep, Promise!Next
<1>6. CASE NextRound \/ Pass \/ Done \/ UNCHANGED driverVars
  <2>1. UNCHANGED heapVars
    BY <1>6 DEF NextRound, Pass, Done, driverVars
  <2> QED
    BY <1>1, <2>1, QuietMaps DEF PromiseStep
<1> QED
  BY <1>2, <1>3, <1>4, <1>5, <1>6 DEF DriverNext

LEMMA PromiseStepIs ==
    PromiseStep => [Promise!Next]_<<[lo |-> Start + 24, hi |-> End - 8],
                                    [b \in {HDRP(bp) : bp \in Allocated} |-> GET_SIZE(mem, b)], call>>
<1>1. CASE Promise!Next
  BY <1>1
<1>2. CASE handed' = handed /\ End' = End /\ call' = call
  BY <1>2 DEF handed
<1> QED
  BY <1>1, <1>2 DEF PromiseStep

\* The tagged heap is an allocator as BlockSet has it, for every client that
\* frees only what it was given: blocks are aligned, disjoint and large enough,
\* and NULL is returned only if no gap between them is (mm_malloc, mm_free).
THEOREM RefinesBlockSet == DriverSpec => ImplementsBlockSet
<1>1. DriverInit => IInv
  BY InitIInv
<1>2. IInv /\ [DriverNext]_driverVars => IInv'
  BY StepIInv
<1>3. IInv /\ [DriverNext]_driverVars => [Promise!Next]_<<[lo |-> Start + 24, hi |-> End - 8],
                                    [b \in {HDRP(bp) : bp \in Allocated} |-> GET_SIZE(mem, b)], call>>
  BY StepMaps, PromiseStepIs
<1> QED
  BY <1>1, <1>2, <1>3, InitMaps, PTL DEF DriverSpec, ImplementsBlockSet, Promise!Spec
=============================================================================
