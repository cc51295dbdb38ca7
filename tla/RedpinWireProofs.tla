-------------------------- MODULE RedpinWireProofs --------------------------
(***************************************************************************)
(* RedpinWire for every client, every request and every list: whatever the *)
(* bytes of the names are and however the reads cut what was sent, the     *)
(* lists arrive as they were meant and nobody waits for ever.              *)
(*                                                                         *)
(* First what the functions of more_string.c do to strings, then what a    *)
(* client and a server write as lines, and at last the invariant WireInv:  *)
(* what was handed out, what is buffered and what is still to come are the *)
(* rest of the text that the other side wrote.                             *)
(***************************************************************************)
EXTENDS RedpinWire, SequenceTheorems, WellFoundedInduction, FiniteSetTheorems, TLAPS

-----------------------------------------------------------------------------
(* Strings: sequences of bytes and words.                                    *)

Str == Seq(Nat)

LEMMA LeastOf ==
    ASSUME NEW T \in SUBSET Nat, T # {}
    PROVE  \E x \in T : \A y \in T : x <= y
<1>1. PICK x \in T : \A y \in T : ~(<<y, x>> \in OpToRel(<, Nat))
  BY NatLessThanWellFounded, WFMin
<1>2. \A y \in T : ~(y < x)
  BY <1>1 DEF OpToRel
<1> QED
  BY <1>2

LEMMA MinOf ==
    ASSUME NEW T \in SUBSET Nat, T # {}
    PROVE  Min(T) \in T /\ \A y \in T : Min(T) <= y
BY LeastOf DEF Min

LEMMA MinIs ==
    ASSUME NEW T \in SUBSET Nat, NEW m \in T, \A y \in T : m <= y
    PROVE  Min(T) = m
<1>1. T # {}
  OBVIOUS
<1>2. Min(T) \in T /\ \A y \in T : Min(T) <= y
  BY <1>1, MinOf
<1>3. Min(T) <= m /\ m <= Min(T) /\ Min(T) \in Nat /\ m \in Nat
  BY <1>2
<1> QED
  BY ONLY <1>3

\* Sequences by their length and their elements.
LEMMA StrFacts ==
    ASSUME NEW s \in Str
    PROVE  /\ Len(s) \in Nat
           /\ DOMAIN s = 1..Len(s)
           /\ \A i \in 1..Len(s) : s[i] \in Nat
           /\ Len(s) = 0 <=> s = <<>>
BY DEF Str

LEMMA Cat ==
    ASSUME NEW s \in Str, NEW t \in Str
    PROVE  /\ s \o t \in Str
           /\ Len(s \o t) = Len(s) + Len(t)
           /\ \A i \in 1..Len(s) : (s \o t)[i] = s[i]
           /\ \A i \in 1..Len(t) : (s \o t)[Len(s) + i] = t[i]
<1> USE DEF Str
<1>1. s \o t \in Str /\ Len(s \o t) = Len(s) + Len(t)
  BY ConcatProperties
<1>2. ASSUME NEW i \in 1..Len(s) PROVE (s \o t)[i] = s[i]
  BY ConcatProperties
<1>3. ASSUME NEW i \in 1..Len(t) PROVE (s \o t)[Len(s) + i] = t[i]
  BY ConcatProperties
<1> QED
  BY <1>1, <1>2, <1>3

LEMMA Part ==
    ASSUME NEW s \in Str, NEW i \in Nat, NEW j \in Nat, i <= j, j <= Len(s)
    PROVE  /\ SubSeq(s, i + 1, j) \in Str
           /\ Len(SubSeq(s, i + 1, j)) = j - i
           /\ \A k \in 1..j - i : SubSeq(s, i + 1, j)[k] = s[i + k]
<1> USE DEF Str
<1>1. \A k \in i + 1 .. j : s[k] \in Nat
  OBVIOUS
<1>2. /\ SubSeq(s, i + 1, j) \in Seq(Nat)
      /\ Len(SubSeq(s, i + 1, j)) = IF i + 1 <= j THEN j - (i + 1) + 1 ELSE 0
      /\ \A k \in 1 .. j - (i + 1) + 1 : SubSeq(s, i + 1, j)[k] = s[(i + 1) + k - 1]
  BY <1>1, SubSeqProperties, i + 1 \in Int, j \in Int
<1> QED
  BY <1>2

\* Two strings are equal when their elements are.
LEMMA SameStr ==
    ASSUME NEW s \in Str, NEW t \in Str, Len(s) = Len(t), \A i \in 1..Len(s) : s[i] = t[i]
    PROVE  s = t
BY SeqEqual DEF Str

LEMMA CatAssoc ==
    ASSUME NEW s \in Str, NEW t \in Str, NEW u \in Str
    PROVE  (s \o t) \o u = s \o (t \o u)
BY ConcatAssociative, SMTT(30) DEF Str

LEMMA CatEmpty ==
    ASSUME NEW s \in Str
    PROVE  s \o <<>> = s /\ <<>> \o s = s
BY ConcatEmptySeq DEF Str

LEMMA CatParts ==
    ASSUME NEW s \in Str, NEW i \in Nat, NEW j \in Nat, NEW k \in Nat, i <= j, j <= k, k <= Len(s)
    PROVE  SubSeq(s, i + 1, j) \o SubSeq(s, j + 1, k) = SubSeq(s, i + 1, k)
<1>1. i + 1 \in 1..Len(s) + 1 /\ j \in i + 1 - 1..Len(s) /\ k \in j..Len(s)
  BY DEF Str
<1> QED
  BY <1>1, ConcatAdjacentSubSeq DEF Str

LEMMA PartOfPart ==
    ASSUME NEW s \in Str, NEW i \in Nat, NEW j \in Nat, NEW k \in Nat, NEW l \in Nat,
           i <= j, j <= Len(s), k <= l, l <= j - i
    PROVE  SubSeq(SubSeq(s, i + 1, j), k + 1, l) = SubSeq(s, i + k + 1, i + l)
<1> DEFINE t == SubSeq(s, i + 1, j)
<1>1. t \in Str /\ Len(t) = j - i /\ \A m \in 1..j - i : t[m] = s[i + m]
  BY Part
<1>2. i + k \in Nat /\ i + l \in Nat /\ i + k <= i + l /\ i + l <= Len(s) /\ Len(s) \in Nat
  BY StrFacts
<1>3. /\ SubSeq(s, i + k + 1, i + l) \in Str
      /\ Len(SubSeq(s, i + k + 1, i + l)) = (i + l) - (i + k)
      /\ \A m \in 1..(i + l) - (i + k) : SubSeq(s, i + k + 1, i + l)[m] = s[i + k + m]
  BY <1>2, Part
<1> HIDE DEF t
<1>4. /\ SubSeq(t, k + 1, l) \in Str
      /\ Len(SubSeq(t, k + 1, l)) = l - k
      /\ \A m \in 1..l - k : SubSeq(t, k + 1, l)[m] = t[k + m]
  BY <1>1, Part
<1>5. \A m \in 1..l - k : t[k + m] = s[i + k + m]
  BY <1>1
<1>6. SubSeq(t, k + 1, l) = SubSeq(s, i + k + 1, i + l)
  BY <1>3, <1>4, <1>5, SameStr
<1> QED
  BY <1>6 DEF t

LEMMA Whole ==
    ASSUME NEW s \in Str
    PROVE  SubSeq(s, 1, Len(s)) = s
BY SubSeqFull DEF Str

LEMMA Empty ==
    ASSUME NEW s \in Str, NEW i \in Nat
    PROVE  SubSeq(s, i + 1, i) = <<>>
BY SubSeqEmpty

-----------------------------------------------------------------------------
(* Recursive functions as chains and runs, and what two of them share.       *)

\* One entry of a function that is defined from its end: what a chain of links
\* N collects of A.
Link(A, N, n, f, i) == IF i > n THEN <<>> ELSE A[i] \o f[N[i]]
IsChain(f, A, N, n, m) == f = [i \in 1..m |-> Link(A, N, n, f, i)]
Linked(N, n, m) == \A i \in 1..n : N[i] \in i + 1..m

LEMMA ChainExists ==
    ASSUME NEW A, NEW N, NEW n \in Nat, NEW m \in Nat, Linked(N, n, m)
    PROVE  \E f : IsChain(f, A, N, n, m)
<1> DEFINE Solved(f, k) == \A i \in k..m : f[i] = Link(A, N, n, f, i)
           T == {j \in Nat : j <= m /\ ~\E f : Solved(f, m + 1 - j)}
<1>1. ASSUME T # {} PROVE FALSE
  <2>1. PICK j \in T : \A y \in T : j <= y
    BY <1>1, LeastOf
  <2>2. j # 0
    <3>1. \A f : Solved(f, m + 1 - 0)
      OBVIOUS
    <3> QED
      BY <2>1, <3>1
  <2>3. j - 1 \in Nat /\ j - 1 <= m /\ j - 1 \notin T /\ j \in Nat /\ j <= m
    BY <2>1, <2>2
  <2>4. PICK f : Solved(f, m + 1 - (j - 1))
    BY <2>3
  <2> DEFINE k == m + 1 - j
             g == [i \in 1..m |-> IF i = k THEN Link(A, N, n, f, k) ELSE f[i]]
  <2>5. k \in 1..m /\ m + 1 - (j - 1) = k + 1
    BY <2>2, <2>3
  <2>6. ASSUME NEW i \in k..m PROVE g[i] = Link(A, N, n, g, i)
    <3>1. i \in 1..m
      BY <2>5
    <3>2. i <= n => N[i] \in 1..m /\ N[i] # k
      BY <2>5, <3>1 DEF Linked
    <3>3. Link(A, N, n, g, i) = Link(A, N, n, f, i)
      BY <3>2 DEF Link
    <3>4. CASE i = k
      BY <3>1, <3>3, <3>4
    <3>5. CASE i # k
      <4>1. i \in k + 1..m
        BY <3>5, <2>5
      <4>2. f[i] = Link(A, N, n, f, i)
        BY <4>1, <2>4, <2>5
      <4> QED
        BY <3>1, <3>3, <3>5, <4>2
    <3> QED
      BY <3>4, <3>5
  <2> HIDE DEF g
  <2>7. Solved(g, m + 1 - j)
    BY <2>6
  <2> QED
    BY <2>1, <2>7
<1>2. m \notin T
  BY <1>1
<1>3. PICK f : Solved(f, 1)
  BY <1>2
<1> DEFINE h == [i \in 1..m |-> f[i]]
<1>4. ASSUME NEW i \in 1..m PROVE h[i] = Link(A, N, n, h, i)
  <2>1. i <= n => N[i] \in 1..m
    BY DEF Linked
  <2>2. Link(A, N, n, h, i) = Link(A, N, n, f, i)
    BY <2>1 DEF Link
  <2> QED
    BY <2>2, <1>3
<1>5. h = [i \in 1..m |-> Link(A, N, n, h, i)]
  <2>1. h = [i \in 1..m |-> h[i]]
    OBVIOUS
  <2> HIDE DEF h
  <2> QED
    BY <1>4, <2>1
<1> QED
  BY <1>5 DEF IsChain

\* The chain of B and M is that of A and N from d on.
Inside(A, N, n, m, B, M, k, l, d) ==
    /\ n \in Nat /\ m \in Nat /\ Linked(N, n, m)
    /\ k \in Nat /\ l \in Nat /\ Linked(M, k, l)
    /\ d \in Nat /\ k + d = n /\ l + d = m
    /\ \A i \in 1..k : B[i] = A[i + d] /\ M[i] + d = N[i + d]

LEMMA ChainShift ==
    ASSUME NEW A, NEW N, NEW n, NEW m, NEW B, NEW M, NEW k, NEW l, NEW d, Inside(A, N, n, m, B, M, k, l, d),
           NEW f, IsChain(f, A, N, n, m), NEW g, IsChain(g, B, M, k, l)
    PROVE  \A i \in 1..l : g[i] = f[i + d]
<1>0. /\ n \in Nat /\ m \in Nat /\ Linked(N, n, m)
      /\ k \in Nat /\ l \in Nat /\ Linked(M, k, l)
      /\ d \in Nat /\ k + d = n /\ l + d = m
      /\ \A i \in 1..k : B[i] = A[i + d] /\ M[i] + d = N[i + d]
  BY DEF Inside
<1> DEFINE T == {j \in Nat : j < l /\ g[l - j] # f[l - j + d]}
<1>1. SUFFICES ASSUME T # {} PROVE FALSE
  <2>1. \A i \in 1..l : l - i \in Nat /\ l - i < l /\ l - (l - i) = i
    BY <1>0
  <2> QED
    BY <1>0, <2>1
<1>2. PICK j \in T : \A y \in T : j <= y
  BY <1>0, <1>1, LeastOf
<1> DEFINE i == l - j
<1>3. i \in 1..l /\ i + d \in 1..m /\ j \in Nat
  BY <1>0, <1>2
<1>4. g[i] = Link(B, M, k, g, i) /\ f[i + d] = Link(A, N, n, f, i + d)
  BY <1>0, <1>3 DEF IsChain
<1>5. CASE i > k
  BY <1>0, <1>2, <1>3, <1>4, <1>5 DEF Link
<1>6. CASE i <= k
  <2>1. M[i] \in i + 1..l /\ B[i] = A[i + d] /\ M[i] + d = N[i + d] /\ i + d <= n
    BY <1>0, <1>3, <1>6 DEF Linked
  <2>2. l - M[i] \in Nat /\ l - M[i] < j /\ l - M[i] < l
    BY <1>0, <2>1, <1>3
  <2>3. g[l - (l - M[i])] = f[l - (l - M[i]) + d]
    BY <1>0, <2>2, <1>2
  <2>4. l - (l - M[i]) = M[i]
    BY <1>0, <2>1
  <2>5. g[M[i]] = f[N[i + d]]
    BY <1>0, <2>1, <2>3, <2>4
  <2>6. ~(i > k) /\ ~(i + d > n)
    BY <1>0, <1>3, <1>6
  <2>7. g[i] = B[i] \o g[M[i]] /\ f[i + d] = A[i + d] \o f[N[i + d]]
    BY <1>0, <1>4, <2>6 DEF Link
  <2> QED
    BY <1>0, <1>2, <2>1, <2>5, <2>7
<1> QED
  BY <1>0, <1>3, <1>5, <1>6

LEMMA ChainType ==
    ASSUME NEW S, NEW A, NEW N, NEW n \in Nat, NEW m \in Nat, Linked(N, n, m), NEW f, IsChain(f, A, N, n, m),
           \A i \in 1..n : A[i] \in Seq(S)
    PROVE  \A i \in 1..m : f[i] \in Seq(S)
<1> DEFINE T == {j \in Nat : j < m /\ f[m - j] \notin Seq(S)}
<1>1. SUFFICES ASSUME T # {} PROVE FALSE
  <2>1. \A i \in 1..m : m - i \in Nat /\ m - i < m /\ m - (m - i) = i
    OBVIOUS
  <2> QED
    BY <2>1
<1>2. PICK j \in T : \A y \in T : j <= y
  BY <1>1, LeastOf
<1> DEFINE i == m - j
<1>3. i \in 1..m /\ j \in Nat
  BY <1>2
<1>4. f[i] = Link(A, N, n, f, i)
  BY <1>3 DEF IsChain
<1>5. CASE i > n
  <2>1. f[i] = <<>>
    BY <1>4, <1>5 DEF Link
  <2> QED
    BY <1>2, <2>1, EmptySeq
<1>6. CASE i <= n
  <2>1. N[i] \in i + 1..m /\ A[i] \in Seq(S)
    BY <1>3, <1>6 DEF Linked
  <2>2. m - N[i] \in Nat /\ m - N[i] < j /\ m - N[i] < m /\ m - (m - N[i]) = N[i]
    BY <2>1, <1>3
  <2>3. f[N[i]] \in Seq(S)
    BY <2>2, <1>2
  <2>5. ~(i > n)
    BY <1>3, <1>6
  <2>6. f[i] = A[i] \o f[N[i]]
    BY <1>4, <2>5 DEF Link
  <2>7. A[i] \o f[N[i]] \in Seq(S)
    BY <2>1, <2>3, ConcatProperties
  <2> QED
    BY <1>2, <2>6, <2>7
<1> QED
  BY <1>3, <1>5, <1>6

\* One step of the functions that are defined from their start: joining,
\* reading a number, filling a dictionary.
Step(kind, d, v) ==
    CASE kind = "join"  -> v \o d
      [] kind = "digit" -> 10 * v + (d - 48)
      [] kind = "field" -> Set(v, query_decode(Field(d)[1]), query_decode(Field(d)[2]))

IsRun(f, lo, n, b, kind, D) == f = [i \in lo..n |-> IF i = lo THEN b ELSE Step(kind, D[i], f[i - 1])]

LEMMA RunAt ==
    ASSUME NEW f, NEW lo, NEW n, NEW b, NEW kind, NEW D, IsRun(f, lo, n, b, kind, D), NEW i \in lo..n
    PROVE  f[i] = IF i = lo THEN b ELSE Step(kind, D[i], f[i - 1])
<1>1. f = [k \in lo..n |-> IF k = lo THEN b ELSE Step(kind, D[k], f[k - 1])]
  BY DEF IsRun
<1> QED
  BY <1>1

LEMMA RunExists ==
    ASSUME NEW lo \in Nat, NEW n \in Nat, NEW b, NEW kind, NEW D
    PROVE  \E f : IsRun(f, lo, n, b, kind, D)
<1> DEFINE Solved(f, k) == \A i \in lo..k : f[i] = IF i = lo THEN b ELSE Step(kind, D[i], f[i - 1])
           T == {j \in Nat : j <= n /\ ~\E f : Solved(f, j)}
<1>1. ASSUME T # {} PROVE FALSE
  <2>1. PICK j \in T : \A y \in T : j <= y
    BY <1>1, LeastOf
  <2>2. j \in Nat /\ j <= n
    BY <2>1
  <2>3. CASE j <= lo
    <3>1. Solved([i \in {lo} |-> b], j)
      BY <2>2, <2>3
    <3> QED
      BY <2>1, <3>1
  <2>4. CASE j > lo
    <3>0. j - 1 \in Nat /\ j - 1 <= n /\ ~(j <= j - 1)
      BY <2>2, <2>4
    <3>1. j - 1 \notin T
      BY <2>1, <3>0
    <3>2. PICK f : Solved(f, j - 1)
      BY <3>0, <3>1
    <3> DEFINE g == [i \in lo..n |-> IF i = j THEN Step(kind, D[j], f[j - 1]) ELSE f[i]]
    <3>3. ASSUME NEW i \in lo..j PROVE g[i] = IF i = lo THEN b ELSE Step(kind, D[i], g[i - 1])
      <4>1. i \in lo..n /\ i \in Nat
        BY <2>2
      <4>2. CASE i = j
        <5>1. j - 1 \in lo..n /\ j - 1 # j
          BY <2>2, <2>4
        <5>2. g[i] = Step(kind, D[j], f[j - 1]) /\ g[j - 1] = f[j - 1]
          BY <4>1, <4>2, <5>1
        <5> HIDE DEF g
        <5> QED
          BY <4>2, <5>2, <2>4
      <4>3. CASE i # j
        <5>1. i \in lo..j - 1
          BY <4>1, <4>3, <2>2
        <5>2. i # lo => i - 1 \in lo..n /\ i - 1 # j
          BY <4>1, <5>1, <2>2
        <5>3. f[i] = IF i = lo THEN b ELSE Step(kind, D[i], f[i - 1])
          BY <5>1, <3>2
        <5>4. g[i] = f[i] /\ (i # lo => g[i - 1] = f[i - 1])
          BY <4>1, <4>3, <5>2
        <5> HIDE DEF g
        <5> QED
          BY <5>3, <5>4
      <4> QED
        BY <4>2, <4>3
    <3> HIDE DEF g
    <3>4. Solved(g, j)
      BY <3>3
    <3> QED
      BY <2>1, <3>4
  <2> QED
    BY <2>2, <2>3, <2>4
<1>2. n \notin T
  BY <1>1
<1>3. PICK f : Solved(f, n)
  BY <1>2
<1> DEFINE h == [i \in lo..n |-> f[i]]
<1>4. ASSUME NEW i \in lo..n PROVE h[i] = IF i = lo THEN b ELSE Step(kind, D[i], h[i - 1])
  <2>1. i # lo => i - 1 \in lo..n
    OBVIOUS
  <2>2. h[i] = f[i] /\ (i # lo => h[i - 1] = f[i - 1])
    BY <2>1
  <2> HIDE DEF h
  <2> QED
    BY <2>2, <1>3
<1>5. h = [i \in lo..n |-> IF i = lo THEN b ELSE Step(kind, D[i], h[i - 1])]
  <2>1. h = [i \in lo..n |-> h[i]]
    OBVIOUS
  <2> HIDE DEF h
  <2> QED
    BY <1>4, <2>1
<1> QED
  BY <1>5 DEF IsRun

\* Every entry of a run is in a set that its start is in and its steps stay in.
StaysIn(T, lo, n, b, kind, D) ==
    /\ lo \in Nat /\ n \in Nat /\ b \in T
    /\ \A i \in lo + 1..n : \A v \in T : Step(kind, D[i], v) \in T

LEMMA RunType ==
    ASSUME NEW T, NEW lo, NEW n, NEW b, NEW kind, NEW D, StaysIn(T, lo, n, b, kind, D),
           NEW f, IsRun(f, lo, n, b, kind, D)
    PROVE  \A i \in lo..n : f[i] \in T
<1>0. /\ lo \in Nat /\ n \in Nat /\ b \in T
      /\ \A i \in lo + 1..n : \A v \in T : Step(kind, D[i], v) \in T
  BY DEF StaysIn
<1> DEFINE U == {i \in Nat : i \in lo..n /\ f[i] \notin T}
<1>1. SUFFICES ASSUME U # {} PROVE FALSE
  BY <1>0
<1>2. PICK i \in U : \A y \in U : i <= y
  BY <1>0, <1>1, LeastOf
<1>3. i \in lo..n /\ i \in Nat /\ f[i] \notin T
  BY <1>0, <1>2
<1>4. f[i] = IF i = lo THEN b ELSE Step(kind, D[i], f[i - 1])
  BY <1>0, <1>3 DEF IsRun
<1>5. i # lo
  BY <1>0, <1>3, <1>4
<1>6. i - 1 \in lo..n /\ i - 1 \in Nat /\ ~(i <= i - 1) /\ i \in lo + 1..n
  BY <1>0, <1>3, <1>5
<1>7. f[i - 1] \in T
  BY <1>0, <1>2, <1>6
<1> QED
  BY <1>0, <1>3, <1>4, <1>5, <1>6, <1>7

\* What a run has come to depends on the steps it made.
Agree(lo, n, m, D, E) ==
    /\ lo \in Nat /\ n \in Nat /\ m \in Nat /\ n <= m
    /\ \A i \in lo + 1..n : D[i] = E[i]

LEMMA RunSame ==
    ASSUME NEW lo, NEW n, NEW m, NEW b, NEW kind, NEW D, NEW E, Agree(lo, n, m, D, E),
           NEW f, IsRun(f, lo, n, b, kind, D), NEW g, IsRun(g, lo, m, b, kind, E)
    PROVE  \A i \in lo..n : f[i] = g[i]
<1>0. /\ lo \in Nat /\ n \in Nat /\ m \in Nat /\ n <= m
      /\ \A i \in lo + 1..n : D[i] = E[i]
  BY DEF Agree
<1> DEFINE U == {i \in Nat : i \in lo..n /\ f[i] # g[i]}
<1>1. SUFFICES ASSUME U # {} PROVE FALSE
  BY <1>0
<1>2. PICK i \in U : \A y \in U : i <= y
  BY <1>0, <1>1, LeastOf
<1>3. i \in lo..n /\ i \in lo..m /\ i \in Nat /\ f[i] # g[i]
  BY <1>0, <1>2
<1>4. /\ f[i] = IF i = lo THEN b ELSE Step(kind, D[i], f[i - 1])
      /\ g[i] = IF i = lo THEN b ELSE Step(kind, E[i], g[i - 1])
  BY <1>0, <1>3 DEF IsRun
<1>5. i # lo
  BY <1>0, <1>3, <1>4
<1>6. i - 1 \in lo..n /\ i - 1 \in Nat /\ ~(i <= i - 1) /\ i \in lo + 1..n
  BY <1>0, <1>3, <1>5
<1>7. f[i - 1] = g[i - 1]
  BY <1>0, <1>2, <1>6
<1> QED
  BY <1>0, <1>3, <1>4, <1>5, <1>6, <1>7

-----------------------------------------------------------------------------
(* strchr, CString and query_decode.                                         *)

\* Where a byte is first.
LEMMA StrchrOf ==
    ASSUME NEW s \in Str, NEW c
    PROVE  /\ strchr(s, c) \in Nat /\ strchr(s, c) <= Len(s)
           /\ strchr(s, c) = 0 <=> \A i \in 1..Len(s) : s[i] # c
           /\ strchr(s, c) # 0 => s[strchr(s, c)] = c /\ \A i \in 1..strchr(s, c) - 1 : s[i] # c
<1> DEFINE at == {i \in DOMAIN s : s[i] = c}
<1>1. DOMAIN s = 1..Len(s) /\ Len(s) \in Nat
  BY StrFacts
<1>2. at \in SUBSET Nat
  BY <1>1
<1>3. CASE at = {}
  BY <1>1, <1>3 DEF strchr
<1>4. CASE at # {}
  <2>1. Min(at) \in at /\ \A y \in at : Min(at) <= y
    BY <1>2, <1>4, MinOf
  <2>2. strchr(s, c) = Min(at)
    BY <1>4 DEF strchr
  <2> DEFINE p == Min(at)
  <2>3. p \in 1..Len(s) /\ s[p] = c /\ \A y \in 1..Len(s) : s[y] = c => p <= y
    BY <1>1, <2>1
  <2> HIDE DEF p
  <2>4. \A i \in 1..p - 1 : s[i] # c
    BY <1>1, <2>3
  <2> QED
    BY <1>1, <2>2, <2>3, <2>4 DEF p
<1> QED
  BY <1>3, <1>4

LEMMA StrchrIs ==
    ASSUME NEW s \in Str, NEW c, NEW p \in 1..Len(s), s[p] = c, \A i \in 1..p - 1 : s[i] # c
    PROVE  strchr(s, c) = p
<1>1. strchr(s, c) # 0
  BY StrchrOf
<1>2. /\ strchr(s, c) \in Nat /\ strchr(s, c) <= Len(s)
      /\ s[strchr(s, c)] = c /\ \A i \in 1..strchr(s, c) - 1 : s[i] # c
  BY <1>1, StrchrOf
<1>3. Len(s) \in Nat
  BY StrFacts
<1> DEFINE q == strchr(s, c)
<1>4. q \in Nat /\ q # 0 /\ s[q] = c /\ \A i \in 1..q - 1 : s[i] # c
  BY <1>1, <1>2
<1> HIDE DEF q
<1>5. ~(q < p) /\ ~(p < q)
  BY <1>4, <1>3
<1>6. q = p
  BY <1>4, <1>5, <1>3
<1> QED
  BY <1>6 DEF q

LEMMA StrchrNone ==
    ASSUME NEW s \in Str, NEW c, \A i \in 1..Len(s) : s[i] # c
    PROVE  strchr(s, c) = 0
BY StrchrOf

\* Strings without NUL are what C takes them for; no string gets longer.
LEMMA CStringOf ==
    ASSUME NEW s \in Str
    PROVE  /\ CString(s) \in Str /\ Len(CString(s)) <= Len(s)
           /\ \A i \in 1..Len(CString(s)) : CString(s)[i] = s[i] /\ s[i] # NUL
           /\ (\A i \in 1..Len(s) : s[i] # NUL) => CString(s) = s
<1>1. Len(s) \in Nat
  BY StrFacts
<1>2. CASE strchr(s, NUL) = 0
  BY <1>1, <1>2, StrchrOf DEF CString
<1>3. CASE strchr(s, NUL) # 0
  <2> DEFINE p == strchr(s, NUL) - 1
  <2>1. p \in Nat /\ p + 1 <= Len(s) /\ s[p + 1] = NUL /\ \A i \in 1..p : s[i] # NUL
    BY <1>1, <1>3, StrchrOf
  <2>2. CString(s) = SubSeq(s, 1, p)
    BY <1>3 DEF CString, Before
  <2>3. SubSeq(s, 1, p) \in Str /\ Len(SubSeq(s, 1, p)) = p /\ \A k \in 1..p : SubSeq(s, 1, p)[k] = s[k]
    <3> HIDE DEF p
    <3>1. 0 \in Nat /\ 0 <= p /\ p <= Len(s) /\ 0 + 1 = 1 /\ p - 0 = p
      BY <2>1, <1>1
    <3>2. /\ SubSeq(s, 0 + 1, p) \in Str /\ Len(SubSeq(s, 0 + 1, p)) = p - 0
          /\ \A k \in 1..p - 0 : SubSeq(s, 0 + 1, p)[k] = s[0 + k]
      BY <2>1, <3>1, Part
    <3> QED
      BY <3>1, <3>2, <2>1
  <2>4. p <= Len(s) /\ p + 1 \in 1..Len(s)
    BY <2>1, <1>1
  <2> HIDE DEF p
  <2> QED
    BY <2>1, <2>2, <2>3, <2>4
<1> QED
  BY <1>2, <1>3

-----------------------------------------------------------------------------
\* query_decode, from the front.
DecodeParts(data) == [i \in 1..Len(data) |-> <<Decoded(data, i)>>]
DecodeLinks(data) == [i \in 1..Len(data) |-> i + IF Escape(data, i) THEN 3 ELSE 1]

LEMMA DecodeLinked ==
    ASSUME NEW data \in Str
    PROVE  Linked(DecodeLinks(data), Len(data), Len(data) + 1)
<1>1. Len(data) \in Nat
  BY StrFacts
<1>2. ASSUME NEW i \in 1..Len(data) PROVE DecodeLinks(data)[i] \in i + 1..Len(data) + 1
  <2>1. CASE Escape(data, i)
    <3>1. i + 2 <= Len(data)
      BY <2>1 DEF Escape
    <3> QED
      BY <1>1, <2>1, <3>1 DEF DecodeLinks
  <2>2. CASE ~Escape(data, i)
    BY <1>1, <2>2 DEF DecodeLinks
  <2> QED
    BY <2>1, <2>2
<1> QED
  BY <1>2 DEF Linked

LEMMA DecodeChain ==
    ASSUME NEW data \in Str
    PROVE  \E f : IsChain(f, DecodeParts(data), DecodeLinks(data), Len(data), Len(data) + 1)
                  /\ query_decode(data) = f[1]
<1> DEFINE n == Len(data)
           Is(f) == f = [i \in 1..n + 1 |->
                           IF i > n THEN <<>> ELSE <<Decoded(data, i)>> \o f[i + IF Escape(data, i) THEN 3 ELSE 1]]
           from == CHOOSE f : Is(f)
<1>1. n \in Nat
  BY StrFacts
<1>2. ASSUME NEW f PROVE Is(f) <=> IsChain(f, DecodeParts(data), DecodeLinks(data), n, n + 1)
  <2>1. \A i \in 1..n + 1 : ~(i > n) => i \in 1..n
    BY <1>1
  <2>2. \A i \in 1..n : DecodeParts(data)[i] = <<Decoded(data, i)>>
                        /\ DecodeLinks(data)[i] = i + IF Escape(data, i) THEN 3 ELSE 1
    BY DEF DecodeParts, DecodeLinks
  <2>3. ASSUME NEW i \in 1..n + 1
        PROVE  Link(DecodeParts(data), DecodeLinks(data), n, f, i)
                 = IF i > n THEN <<>> ELSE <<Decoded(data, i)>> \o f[i + IF Escape(data, i) THEN 3 ELSE 1]
    BY <2>1, <2>2 DEF Link
  <2> QED
    BY <2>3 DEF IsChain
<1>3. \E f : Is(f)
  BY <1>1, <1>2, DecodeLinked, ChainExists, n + 1 \in Nat
<1>4. Is(from)
  BY <1>3
<1>5. query_decode(data) = from[1]
  BY DEF query_decode
<1> HIDE DEF from, Is
<1> QED
  BY <1>2, <1>4, <1>5

LEMMA DecodeEmpty == query_decode(<<>>) = <<>>
<1>1. <<>> \in Str /\ Len(<<>>) = 0
  BY EmptySeq DEF Str
<1>2. PICK f : IsChain(f, DecodeParts(<<>>), DecodeLinks(<<>>), Len(<<>>), Len(<<>>) + 1)
               /\ query_decode(<<>>) = f[1]
  BY <1>1, DecodeChain
<1>3. f[1] = Link(DecodeParts(<<>>), DecodeLinks(<<>>), 0, f, 1)
  BY <1>1, <1>2 DEF IsChain
<1>4. f[1] = <<>>
  BY <1>3 DEF Link
<1> QED
  BY <1>2, <1>4

\* What is left of a string behind its first k bytes.
Drop(s, k) == SubSeq(s, k + 1, Len(s))

LEMMA DropOf ==
    ASSUME NEW s \in Str, NEW k \in Nat, k <= Len(s)
    PROVE  /\ Drop(s, k) \in Str /\ Len(Drop(s, k)) = Len(s) - k
           /\ \A i \in 1..Len(s) - k : Drop(s, k)[i] = s[i + k]
<1>1. Len(s) \in Nat
  BY StrFacts
<1>2. /\ SubSeq(s, k + 1, Len(s)) \in Str /\ Len(SubSeq(s, k + 1, Len(s))) = Len(s) - k
      /\ \A i \in 1..Len(s) - k : SubSeq(s, k + 1, Len(s))[i] = s[k + i]
  BY <1>1, Part
<1> QED
  BY <1>1, <1>2 DEF Drop

LEMMA EscapeDrop ==
    ASSUME NEW s \in Str, NEW k \in Nat, k <= Len(s), NEW i \in 1..Len(s) - k
    PROVE  /\ Escape(Drop(s, k), i) <=> Escape(s, i + k)
           /\ Decoded(Drop(s, k), i) = Decoded(s, i + k)
<1> DEFINE t == Drop(s, k)
<1>1. t \in Str /\ Len(t) = Len(s) - k /\ Len(s) \in Nat /\ \A j \in 1..Len(s) - k : t[j] = s[j + k]
  BY DropOf, StrFacts
<1>2. i + 2 <= Len(t) <=> i + k + 2 <= Len(s)
  BY <1>1
<1>3. i + 2 <= Len(t) => t[i + 1] = s[i + k + 1] /\ t[i + 2] = s[i + k + 2]
  <2>1. SUFFICES ASSUME i + 2 <= Len(t) PROVE t[i + 1] = s[i + k + 1] /\ t[i + 2] = s[i + k + 2]
    OBVIOUS
  <2>2. i + 1 \in 1..Len(s) - k /\ i + 2 \in 1..Len(s) - k /\ i + 1 + k = i + k + 1 /\ i + 2 + k = i + k + 2
    BY <1>1, <2>1
  <2> QED
    BY <1>1, <2>2
<1>4. t[i] = s[i + k]
  BY <1>1
<1> HIDE DEF t
<1>5. Escape(t, i) <=> Escape(s, i + k)
  BY <1>2, <1>3, <1>4 DEF Escape
<1>6. Escape(t, i) => i + 2 <= Len(t)
  BY DEF Escape
<1>7. Decoded(t, i) = Decoded(s, i + k)
  BY <1>3, <1>4, <1>5, <1>6 DEF Decoded
<1> QED
  BY <1>5, <1>7 DEF t

LEMMA DecodeStep ==
    ASSUME NEW data \in Str, data # <<>>
    PROVE  query_decode(data) =
             <<Decoded(data, 1)>> \o query_decode(Drop(data, IF Escape(data, 1) THEN 3 ELSE 1))
<1> DEFINE n == Len(data)
           k == IF Escape(data, 1) THEN 3 ELSE 1
           t == Drop(data, k)
<1>1. n \in Nat /\ n # 0
  BY StrFacts
<1>2. k \in Nat /\ k <= n /\ k >= 1
  <2>1. Escape(data, 1) => 3 <= n
    BY <1>1 DEF Escape
  <2> QED
    BY <1>1, <2>1
<1>3. t \in Str /\ Len(t) = n - k
  BY <1>2, DropOf
<1>4. PICK f : IsChain(f, DecodeParts(data), DecodeLinks(data), n, n + 1) /\ query_decode(data) = f[1]
  BY DecodeChain
<1>5. PICK g : IsChain(g, DecodeParts(t), DecodeLinks(t), Len(t), Len(t) + 1) /\ query_decode(t) = g[1]
  BY <1>3, DecodeChain
<1>6. \A i \in 1..n - k : /\ Escape(t, i) <=> Escape(data, i + k)
                          /\ Decoded(t, i) = Decoded(data, i + k)
  BY <1>2, EscapeDrop
<1>7. DecodeLinks(data)[1] = 1 + k /\ DecodeParts(data)[1] = <<Decoded(data, 1)>>
  BY <1>1 DEF DecodeLinks, DecodeParts
<1> HIDE DEF t, k
<1>8. \A i \in 1..Len(t) : DecodeParts(t)[i] = DecodeParts(data)[i + k]
                           /\ DecodeLinks(t)[i] + k = DecodeLinks(data)[i + k]
  <2>1. SUFFICES ASSUME NEW i \in 1..Len(t)
                 PROVE  DecodeParts(t)[i] = DecodeParts(data)[i + k]
                        /\ DecodeLinks(t)[i] + k = DecodeLinks(data)[i + k]
    OBVIOUS
  <2>2. i + k \in 1..n /\ i \in 1..n - k
    BY <1>1, <1>2, <1>3
  <2> QED
    BY <1>2, <1>6, <2>2 DEF DecodeParts, DecodeLinks
<1>9. Linked(DecodeLinks(data), n, n + 1) /\ Linked(DecodeLinks(t), Len(t), Len(t) + 1)
  BY <1>3, DecodeLinked
<1>10. /\ Len(t) \in Nat /\ Len(t) + 1 \in Nat /\ n + 1 \in Nat
       /\ Len(t) + k = n /\ Len(t) + 1 + k = n + 1
  BY <1>1, <1>2, <1>3
<1> HIDE DEF n
<1>11. \A i \in 1..Len(t) + 1 : g[i] = f[i + k]
  <2> DEFINE A == DecodeParts(data)
             N == DecodeLinks(data)
             B == DecodeParts(t)
             M == DecodeLinks(t)
             l == Len(t)
             o == n + 1
             r == l + 1
  <2>1. Inside(A, N, n, o, B, M, l, r, k)
    BY <1>1, <1>2, <1>8, <1>9, <1>10 DEF Inside
  <2>3. IsChain(f, A, N, n, o) /\ IsChain(g, B, M, l, r)
    BY <1>4, <1>5
  <2> HIDE DEF A, N, B, M, l, o, r
  <2>2. \A i \in 1..r : g[i] = f[i + k]
    BY ONLY <2>1, <2>3, ChainShift
  <2> QED
    BY <2>2 DEF r, l
<1>12. g[1] = f[1 + k]
  BY <1>10, <1>11
<1>13. f[1] = Link(DecodeParts(data), DecodeLinks(data), n, f, 1) /\ ~(1 > n)
  BY <1>1, <1>4 DEF IsChain
<1>14. f[1] = <<Decoded(data, 1)>> \o f[1 + k]
  BY <1>7, <1>13 DEF Link
<1>15. query_decode(data) = <<Decoded(data, 1)>> \o query_decode(t)
  BY <1>4, <1>5, <1>12, <1>14
<1> QED
  BY <1>15 DEF t, k

-----------------------------------------------------------------------------
(* The pieces of strsep.                                                     *)

\* Pieces, from the front.  EndOf is where the piece that begins at k ends.
EndOf(str, seps, k) == Min({i \in k..Len(str) : str[i] \in seps} \cup {Len(str) + 1})
PieceParts(str, seps) == [k \in 1..Len(str) |-> <<SubSeq(str, k, EndOf(str, seps, k) - 1)>>]
PieceLinks(str, seps) == [k \in 1..Len(str) |-> EndOf(str, seps, k) + 1]

LEMMA EndOfIs ==
    ASSUME NEW str \in Str, NEW seps, NEW k \in 1..Len(str)
    PROVE  /\ EndOf(str, seps, k) \in k..Len(str) + 1
           /\ EndOf(str, seps, k) <= Len(str) => str[EndOf(str, seps, k)] \in seps
           /\ \A i \in k..EndOf(str, seps, k) - 1 : str[i] \notin seps
<1> DEFINE T == {i \in k..Len(str) : str[i] \in seps} \cup {Len(str) + 1}
<1>1. Len(str) \in Nat
  BY StrFacts
<1>2. T \in SUBSET Nat /\ T # {}
  BY <1>1
<1>3. Min(T) \in T /\ \A y \in T : Min(T) <= y
  BY <1>2, MinOf
<1> DEFINE e == Min(T)
<1>4. e \in k..Len(str) + 1 /\ (e <= Len(str) => str[e] \in seps)
  BY <1>1, <1>3
<1>5. \A i \in k..Len(str) : str[i] \in seps => e <= i
  BY <1>3
<1>6. EndOf(str, seps, k) = e
  BY DEF EndOf
<1> HIDE DEF e
<1>7. \A i \in k..e - 1 : str[i] \notin seps
  <2>1. \A i \in k..e - 1 : i \in k..Len(str) /\ ~(e <= i)
    BY <1>1, <1>4
  <2> QED
    BY <1>5, <2>1
<1> QED
  BY <1>4, <1>6, <1>7

LEMMA EndOfUnique ==
    ASSUME NEW str \in Str, NEW seps, NEW k \in 1..Len(str), NEW e \in k..Len(str) + 1,
           e <= Len(str) => str[e] \in seps, \A i \in k..e - 1 : str[i] \notin seps
    PROVE  EndOf(str, seps, k) = e
<1> DEFINE d == EndOf(str, seps, k)
<1>1. d \in k..Len(str) + 1 /\ (d <= Len(str) => str[d] \in seps) /\ \A i \in k..d - 1 : str[i] \notin seps
  BY EndOfIs
<1>2. Len(str) \in Nat
  BY StrFacts
<1> HIDE DEF d
<1>3. ~(d < e)
  BY <1>1, <1>2
<1>4. ~(e < d)
  BY <1>1, <1>2
<1>5. d = e
  BY <1>1, <1>2, <1>3, <1>4
<1> QED
  BY <1>5 DEF d

LEMMA PieceLinked ==
    ASSUME NEW str \in Str, NEW seps
    PROVE  Linked(PieceLinks(str, seps), Len(str), Len(str) + 2)
<1>1. Len(str) \in Nat
  BY StrFacts
<1>2. ASSUME NEW k \in 1..Len(str) PROVE PieceLinks(str, seps)[k] \in k + 1..Len(str) + 2
  <2>1. EndOf(str, seps, k) \in k..Len(str) + 1
    BY EndOfIs
  <2> QED
    BY <1>1, <2>1 DEF PieceLinks
<1> QED
  BY <1>2 DEF Linked

LEMMA PieceChain ==
    ASSUME NEW str \in Str, NEW seps
    PROVE  \E f : IsChain(f, PieceParts(str, seps), PieceLinks(str, seps), Len(str), Len(str) + 2)
                  /\ Pieces(str, seps) = f[1]
<1> DEFINE n == Len(str)
           end(k) == Min({i \in k..Len(str) : str[i] \in seps} \cup {Len(str) + 1})
           Is(f) == f = [k \in 1..n + 2 |->
                           IF k > n THEN <<>> ELSE <<SubSeq(str, k, end(k) - 1)>> \o f[end(k) + 1]]
           from == CHOOSE f : Is(f)
<1>1. n \in Nat
  BY StrFacts
<1>2. ASSUME NEW f PROVE Is(f) <=> IsChain(f, PieceParts(str, seps), PieceLinks(str, seps), n, n + 2)
  <2>1. \A k \in 1..n + 2 : ~(k > n) => k \in 1..n
    BY <1>1
  <2>2. \A k \in 1..n : PieceParts(str, seps)[k] = <<SubSeq(str, k, end(k) - 1)>>
                        /\ PieceLinks(str, seps)[k] = end(k) + 1
    BY DEF PieceParts, PieceLinks, EndOf
  <2> HIDE DEF end
  <2>3. ASSUME NEW k \in 1..n + 2
        PROVE  Link(PieceParts(str, seps), PieceLinks(str, seps), n, f, k)
                 = IF k > n THEN <<>> ELSE <<SubSeq(str, k, end(k) - 1)>> \o f[end(k) + 1]
    BY <2>1, <2>2 DEF Link
  <2> QED
    BY <2>3 DEF IsChain
<1>3. \E f : Is(f)
  BY <1>1, <1>2, PieceLinked, ChainExists, n + 2 \in Nat
<1>4. Is(from)
  BY <1>3
<1>5. Pieces(str, seps) = from[1]
  BY DEF Pieces
<1> HIDE DEF from, Is
<1> QED
  BY <1>2, <1>4, <1>5

LEMMA PiecesEmpty ==
    ASSUME NEW seps
    PROVE  Pieces(<<>>, seps) = <<>>
<1>1. <<>> \in Str /\ Len(<<>>) = 0
  BY EmptySeq DEF Str
<1>2. PICK f : IsChain(f, PieceParts(<<>>, seps), PieceLinks(<<>>, seps), Len(<<>>), Len(<<>>) + 2)
               /\ Pieces(<<>>, seps) = f[1]
  BY <1>1, PieceChain
<1>3. f[1] = Link(PieceParts(<<>>, seps), PieceLinks(<<>>, seps), 0, f, 1)
  BY <1>1, <1>2 DEF IsChain
<1>4. f[1] = <<>>
  BY <1>3 DEF Link
<1> QED
  BY <1>2, <1>4

LEMMA PiecesType ==
    ASSUME NEW str \in Str, NEW seps
    PROVE  Pieces(str, seps) \in Seq(Str)
<1>1. PICK f : IsChain(f, PieceParts(str, seps), PieceLinks(str, seps), Len(str), Len(str) + 2)
               /\ Pieces(str, seps) = f[1]
  BY PieceChain
<1>2. Len(str) \in Nat
  BY StrFacts
<1>3. ASSUME NEW k \in 1..Len(str) PROVE PieceParts(str, seps)[k] \in Seq(Str)
  <2>1. EndOf(str, seps, k) \in k..Len(str) + 1
    BY EndOfIs
  <2>2. k - 1 \in Nat /\ EndOf(str, seps, k) - 1 \in Nat /\ k - 1 <= EndOf(str, seps, k) - 1
        /\ EndOf(str, seps, k) - 1 <= Len(str) /\ (k - 1) + 1 = k
    BY <1>2, <2>1
  <2>3. SubSeq(str, (k - 1) + 1, EndOf(str, seps, k) - 1) \in Str
    BY <2>2, Part
  <2>4. <<SubSeq(str, k, EndOf(str, seps, k) - 1)>> \in Seq(Str)
    BY <2>2, <2>3
  <2> QED
    BY <2>4 DEF PieceParts
<1>4. Linked(PieceLinks(str, seps), Len(str), Len(str) + 2) /\ Len(str) + 2 \in Nat /\ 1 \in 1..Len(str) + 2
  BY <1>2, PieceLinked
<1>5. \A i \in 1..Len(str) + 2 : f[i] \in Seq(Str)
  BY <1>1, <1>2, <1>3, <1>4, ChainType
<1> QED
  BY <1>1, <1>4, <1>5

\* A string without separator is one piece.
LEMMA PiecesLast ==
    ASSUME NEW str \in Str, NEW seps, str # <<>>, \A i \in 1..Len(str) : str[i] \notin seps
    PROVE  Pieces(str, seps) = <<str>>
<1> DEFINE n == Len(str)
<1>1. PICK f : IsChain(f, PieceParts(str, seps), PieceLinks(str, seps), n, n + 2)
               /\ Pieces(str, seps) = f[1]
  BY PieceChain
<1>2. n \in Nat /\ n # 0
  BY StrFacts
<1>3. EndOf(str, seps, 1) = n + 1
  BY <1>2, EndOfUnique
<1>4. PieceParts(str, seps)[1] = <<str>> /\ PieceLinks(str, seps)[1] = n + 2
  BY <1>2, <1>3, Whole DEF PieceParts, PieceLinks
<1>5. f[1] = Link(PieceParts(str, seps), PieceLinks(str, seps), n, f, 1)
      /\ f[n + 2] = Link(PieceParts(str, seps), PieceLinks(str, seps), n, f, n + 2)
  BY <1>1, <1>2 DEF IsChain
<1>6. f[n + 2] = <<>>
  BY <1>2, <1>5 DEF Link
<1>7. f[1] = <<str>> \o <<>>
  <2>1. ~(1 > n)
    BY <1>2
  <2> QED
    BY <2>1, <1>4, <1>5, <1>6 DEF Link
<1>8. <<str>> \in Seq(Str)
  OBVIOUS
<1>9. <<str>> \o <<>> = <<str>>
  BY <1>8, ConcatEmptySeq
<1> QED
  BY <1>1, <1>7, <1>9

\* The first separator ends the first piece.
LEMMA PiecesFirst ==
    ASSUME NEW str \in Str, NEW seps, NEW p \in 1..Len(str), str[p] \in seps,
           \A i \in 1..p - 1 : str[i] \notin seps
    PROVE  Pieces(str, seps) = <<SubSeq(str, 1, p - 1)>> \o Pieces(Drop(str, p), seps)
<1> DEFINE n == Len(str)
           t == Drop(str, p)
<1>1. n \in Nat /\ p \in Nat /\ p <= n
  BY StrFacts
<1>2. t \in Str /\ Len(t) = n - p /\ \A i \in 1..n - p : t[i] = str[i + p]
  BY <1>1, DropOf
<1>3. PICK f : IsChain(f, PieceParts(str, seps), PieceLinks(str, seps), n, n + 2) /\ Pieces(str, seps) = f[1]
  BY PieceChain
<1>4. PICK g : IsChain(g, PieceParts(t, seps), PieceLinks(t, seps), Len(t), Len(t) + 2) /\ Pieces(t, seps) = g[1]
  BY <1>2, PieceChain
<1>5. ASSUME NEW i \in 1..n - p
      PROVE  PieceParts(t, seps)[i] = PieceParts(str, seps)[i + p]
             /\ PieceLinks(t, seps)[i] + p = PieceLinks(str, seps)[i + p]
  <2> DEFINE e == EndOf(t, seps, i)
  <2>1. i \in 1..Len(t) /\ i + p \in 1..n
    BY <1>1, <1>2
  <2>2. e \in i..Len(t) + 1 /\ (e <= Len(t) => t[e] \in seps) /\ \A j \in i..e - 1 : t[j] \notin seps
    BY <1>2, <2>1, EndOfIs
  <2>3. PieceLinks(t, seps)[i] = e + 1 /\ PieceParts(t, seps)[i] = <<SubSeq(t, i, e - 1)>>
    BY <2>1 DEF PieceLinks, PieceParts
  <2> HIDE DEF e, t
  <2>4. e + p \in i + p..n + 1
    BY <1>1, <1>2, <2>2
  <2>5. e + p <= n => str[e + p] \in seps
    <3>1. e + p <= n => e \in 1..n - p /\ e <= Len(t)
      BY <1>1, <1>2, <2>2
    <3> QED
      BY <1>2, <2>2, <3>1
  <2>6. ASSUME NEW j \in i + p..(e + p) - 1 PROVE str[j] \notin seps
    <3>1. j - p \in i..e - 1 /\ j - p \in 1..n - p /\ (j - p) + p = j
      BY <1>1, <1>2, <2>2
    <3> QED
      BY <1>2, <2>2, <3>1
  <2>7. EndOf(str, seps, i + p) = e + p
    BY <2>1, <2>4, <2>5, <2>6, EndOfUnique
  <2>8. PieceLinks(str, seps)[i + p] = e + p + 1
        /\ PieceParts(str, seps)[i + p] = <<SubSeq(str, i + p, e + p - 1)>>
    <3>1. PieceLinks(str, seps)[i + p] = EndOf(str, seps, i + p) + 1
          /\ PieceParts(str, seps)[i + p] = <<SubSeq(str, i + p, EndOf(str, seps, i + p) - 1)>>
      BY <2>1 DEF PieceLinks, PieceParts
    <3>2. PieceLinks(str, seps)[i + p] = e + p + 1
      BY ONLY <2>7, <3>1
    <3>3. PieceParts(str, seps)[i + p] = <<SubSeq(str, i + p, e + p - 1)>>
      <4>1. EndOf(str, seps, i + p) - 1 = e + p - 1
        BY <1>1, <1>2, <2>2, <2>7
      <4>2. SubSeq(str, i + p, EndOf(str, seps, i + p) - 1) = SubSeq(str, i + p, e + p - 1)
        BY <4>1, Zenon
      <4> QED
        BY <3>1, <4>2, Zenon
    <3> QED
      BY <3>2, <3>3
  <2>9. SubSeq(t, i, e - 1) = SubSeq(str, i + p, e + p - 1)
    <3>1. i - 1 \in Nat /\ e - 1 \in Nat /\ i - 1 <= e - 1 /\ e - 1 <= n - p /\ (i - 1) + 1 = i
          /\ p + (i - 1) + 1 = i + p /\ p + (e - 1) = e + p - 1
      BY <1>1, <1>2, <2>2
    <3>2. SubSeq(SubSeq(str, p + 1, n), (i - 1) + 1, e - 1) = SubSeq(str, p + (i - 1) + 1, p + (e - 1))
      BY <1>1, <3>1, PartOfPart
    <3> QED
      BY <3>1, <3>2 DEF t, Drop
  <2>10. (e + 1) + p = e + p + 1
    BY <1>1, <2>2
  <2> QED
    BY <2>3, <2>8, <2>9, <2>10
<1>6. Linked(PieceLinks(str, seps), n, n + 2) /\ Linked(PieceLinks(t, seps), Len(t), Len(t) + 2)
  BY <1>2, PieceLinked
<1> HIDE DEF t
<1>7. \A i \in 1..Len(t) + 2 : g[i] = f[i + p]
  <2> DEFINE A == PieceParts(str, seps)
             N == PieceLinks(str, seps)
             B == PieceParts(t, seps)
             M == PieceLinks(t, seps)
             l == Len(t)
             o == n + 2
             r == l + 2
  <2>1. Inside(A, N, n, o, B, M, l, r, p)
    BY <1>1, <1>2, <1>5, <1>6 DEF Inside
  <2>3. IsChain(f, A, N, n, o) /\ IsChain(g, B, M, l, r)
    BY <1>3, <1>4
  <2> HIDE DEF A, N, B, M, l, o, r
  <2>2. \A i \in 1..r : g[i] = f[i + p]
    BY ONLY <2>1, <2>3, ChainShift
  <2> QED
    BY <2>2 DEF r, l
<1>8. g[1] = f[p + 1]
  <2>1. 1 \in 1..Len(t) + 2 /\ 1 + p = p + 1
    BY <1>1, <1>2
  <2> QED
    BY <1>7, <2>1
<1>9. EndOf(str, seps, 1) = p
  BY <1>1, EndOfUnique
<1>10. PieceParts(str, seps)[1] = <<SubSeq(str, 1, p - 1)>> /\ PieceLinks(str, seps)[1] = p + 1
  <2>1. PieceParts(str, seps)[1] = <<SubSeq(str, 1, EndOf(str, seps, 1) - 1)>>
        /\ PieceLinks(str, seps)[1] = EndOf(str, seps, 1) + 1
    BY <1>1 DEF PieceParts, PieceLinks
  <2> QED
    BY <1>9, <2>1
<1>11. f[1] = Link(PieceParts(str, seps), PieceLinks(str, seps), n, f, 1) /\ ~(1 > n)
  BY <1>1, <1>3 DEF IsChain
<1>12. f[1] = <<SubSeq(str, 1, p - 1)>> \o f[p + 1]
  BY <1>10, <1>11 DEF Link
<1> QED
  BY <1>3, <1>4, <1>8, <1>12 DEF t

-----------------------------------------------------------------------------
\* FlattenSeq, from its end and from its front.
LEMMA FlattenRun ==
    ASSUME NEW S, NEW ss \in Seq(Seq(S)), ss # <<>>
    PROVE  /\ \E f : IsRun(f, 1, Len(ss), ss[1], "join", ss) /\ FlattenSeq(ss) = f[Len(ss)]
           /\ FlattenSeq(ss) \in Seq(S)
<1> DEFINE n == Len(ss)
           Is(f) == f = [i \in 1..n |-> IF i = 1 THEN ss[i] ELSE f[i - 1] \o ss[i]]
           flatten == CHOOSE f : Is(f)
<1>1. n \in Nat /\ n # 0 /\ \A i \in 1..n : ss[i] \in Seq(S)
  BY EmptySeq
<1>2. ASSUME NEW f PROVE Is(f) <=> IsRun(f, 1, n, ss[1], "join", ss)
  BY DEF IsRun, Step
<1>3. \E f : Is(f)
  BY <1>1, <1>2, RunExists
<1>4. Is(flatten)
  BY <1>3
<1>5. FlattenSeq(ss) = flatten[n]
  BY <1>1 DEF FlattenSeq
<1> HIDE DEF flatten, Is
<1>6. IsRun(flatten, 1, n, ss[1], "join", ss)
  BY <1>2, <1>4
<1>7. StaysIn(Seq(S), 1, n, ss[1], "join", ss)
  <2>1. SUFFICES ASSUME NEW i \in 1 + 1..n, NEW v \in Seq(S) PROVE v \o ss[i] \in Seq(S)
    BY <1>1 DEF Step, StaysIn
  <2>2. ss[i] \in Seq(S)
    BY <1>1
  <2> QED
    BY <2>2, ConcatProperties
<1>8. \A i \in 1..n : flatten[i] \in Seq(S)
  BY <1>6, <1>7, RunType
<1> QED
  BY <1>1, <1>5, <1>6, <1>8

LEMMA FlattenEmpty == FlattenSeq(<<>>) = <<>>
BY EmptySeq DEF FlattenSeq

LEMMA FlattenType ==
    ASSUME NEW S, NEW ss \in Seq(Seq(S))
    PROVE  FlattenSeq(ss) \in Seq(S)
BY FlattenRun, FlattenEmpty, EmptySeq

LEMMA FlattenOne ==
    ASSUME NEW S, NEW x \in Seq(S)
    PROVE  FlattenSeq(<<x>>) = x
<1>1. <<x>> \in Seq(Seq(S)) /\ <<x>> # <<>> /\ Len(<<x>>) = 1 /\ <<x>>[1] = x
  OBVIOUS
<1>2. PICK f : IsRun(f, 1, 1, x, "join", <<x>>) /\ FlattenSeq(<<x>>) = f[1]
  BY <1>1, FlattenRun
<1> QED
  BY <1>2 DEF IsRun

LEMMA FlattenAppend ==
    ASSUME NEW S, NEW ss \in Seq(Seq(S)), NEW x \in Seq(S)
    PROVE  FlattenSeq(Append(ss, x)) = FlattenSeq(ss) \o x
<1>1. CASE ss = <<>>
  <2>1. Append(ss, x) = <<x>>
    BY <1>1
  <2>2. <<>> \o x = x
    BY ConcatEmptySeq
  <2> QED
    BY <1>1, <2>1, <2>2, FlattenOne, FlattenEmpty
<1>2. CASE ss # <<>>
  <2> DEFINE n == Len(ss)
             tt == Append(ss, x)
  <2>1. n \in Nat /\ n # 0
    BY <1>2, EmptySeq
  <2>2. tt \in Seq(Seq(S)) /\ tt # <<>> /\ Len(tt) = n + 1 /\ tt[n + 1] = x /\ \A i \in 1..n : tt[i] = ss[i]
    BY AppendProperties
  <2> HIDE DEF tt
  <2>3. PICK f : IsRun(f, 1, n, ss[1], "join", ss) /\ FlattenSeq(ss) = f[n]
    BY <1>2, FlattenRun
  <2>4. PICK g : IsRun(g, 1, n + 1, tt[1], "join", tt) /\ FlattenSeq(tt) = g[n + 1]
    BY <2>2, FlattenRun
  <2>5. tt[1] = ss[1]
    BY <2>1, <2>2
  <2>6. Agree(1, n, n + 1, ss, tt)
    BY <2>1, <2>2 DEF Agree
  <2>7. IsRun(g, 1, n + 1, ss[1], "join", tt)
    BY <2>4, <2>5
  <2>8. \A i \in 1..n : f[i] = g[i]
    BY <2>3, <2>6, <2>7, RunSame
  <2>9. g[n + 1] = Step("join", tt[n + 1], g[n + 1 - 1])
    <3>1. n + 1 \in 1..n + 1 /\ n + 1 # 1
      BY <2>1
    <3> QED
      BY <2>7, <3>1, RunAt
  <2>10. n + 1 - 1 = n /\ g[n] = f[n]
    BY <2>1, <2>8
  <2>11. g[n + 1] = f[n] \o x
    BY <2>2, <2>9, <2>10 DEF Step
  <2> QED
    BY <2>3, <2>4, <2>11 DEF tt
<1> QED
  BY <1>1, <1>2

LEMMA FlattenCons ==
    ASSUME NEW S, NEW ss \in Seq(Seq(S)), NEW x \in Seq(S)
    PROVE  FlattenSeq(<<x>> \o ss) = x \o FlattenSeq(ss)
<1> DEFINE n == Len(ss)
           P(k) == SubSeq(ss, 1, k)
           Ok(k) == FlattenSeq(<<x>> \o P(k)) = x \o FlattenSeq(P(k))
           T == {k \in Nat : k <= n /\ ~Ok(k)}
<1>1. n \in Nat /\ P(n) = ss
  BY SubSeqFull
<1>2. SUFFICES ASSUME T # {} PROVE FALSE
  <2> HIDE DEF Ok
  <2>1. n \notin T => Ok(n)
    BY <1>1
  <2> QED
    BY <1>1, <2>1 DEF Ok
<1>3. PICK k \in T : \A y \in T : k <= y
  BY <1>2, LeastOf
<1>4. k \in Nat /\ k <= n
  BY <1>3
<1>5. k # 0
  <2>1. SUFFICES FlattenSeq(<<x>> \o P(0)) = x \o FlattenSeq(P(0))
    BY <1>3
  <2>2. P(0) = <<>>
    BY SubSeqEmpty
  <2>3. <<x>> \o <<>> = <<x>> /\ x \o <<>> = x
    <3>1. <<x>> \in Seq(Seq(S))
      OBVIOUS
    <3> QED
      BY <3>1, ConcatEmptySeq
  <2> QED
    BY <2>2, <2>3, FlattenOne, FlattenEmpty
<1>6. k - 1 \in Nat /\ k - 1 <= n /\ ~(k <= k - 1) /\ k \in 1..n /\ k - 1 \in 0..n
  BY <1>1, <1>4, <1>5
<1>7. FlattenSeq(<<x>> \o P(k - 1)) = x \o FlattenSeq(P(k - 1))
  <2>1. k - 1 \notin T
    BY <1>3, <1>6
  <2> QED
    BY <1>6, <2>1
<1>8. P(k - 1) \in Seq(Seq(S)) /\ ss[k] \in Seq(S)
  BY <1>6, SubSeqProperties
<1>9. P(k) = Append(P(k - 1), ss[k])
  <2>1. P(k) = P(k - 1) \o <<ss[k]>>
    BY <1>6, SubSeqRecursiveSecond
  <2>2. Append(P(k - 1), ss[k]) = P(k - 1) \o <<ss[k]>>
    BY <1>8, AppendIsConcat
  <2> QED
    BY <2>1, <2>2
<1> DEFINE t == P(k - 1)
           e == ss[k]
<1>10. t \in Seq(Seq(S)) /\ e \in Seq(S) /\ P(k) = Append(t, e) /\ FlattenSeq(<<x>> \o t) = x \o FlattenSeq(t)
  BY <1>7, <1>8, <1>9
<1> HIDE DEF t, e, P
<1>11. <<x>> \in Seq(Seq(S)) /\ <<e>> \in Seq(Seq(S))
  BY <1>10
<1>12. <<x>> \o t \in Seq(Seq(S))
  BY <1>10, <1>11, ConcatProperties
<1>13. <<x>> \o Append(t, e) = Append(<<x>> \o t, e)
  <2>1. Append(t, e) = t \o <<e>>
    BY <1>10, AppendIsConcat
  <2>2. Append(<<x>> \o t, e) = (<<x>> \o t) \o <<e>>
    BY <1>10, <1>12, AppendIsConcat
  <2>3. (<<x>> \o t) \o <<e>> = <<x>> \o (t \o <<e>>)
    BY <1>10, <1>11, ConcatAssociative
  <2> QED
    BY <2>1, <2>2, <2>3
<1>14. FlattenSeq(Append(<<x>> \o t, e)) = FlattenSeq(<<x>> \o t) \o e
  BY <1>10, <1>12, FlattenAppend
<1>15. FlattenSeq(Append(t, e)) = FlattenSeq(t) \o e
  BY <1>10, FlattenAppend
<1>16. FlattenSeq(t) \in Seq(S)
  BY <1>10, FlattenType
<1>17. (x \o FlattenSeq(t)) \o e = x \o (FlattenSeq(t) \o e)
  <2>1. x \in Seq(S) /\ FlattenSeq(t) \in Seq(S) /\ e \in Seq(S)
    BY <1>10, <1>16
  <2>2. \A a, b, c \in Seq(S) : (a \o b) \o c = a \o (b \o c)
    BY ONLY ConcatAssociative
  <2> QED
    BY ONLY <2>1, <2>2, Zenon
<1>18. FlattenSeq(<<x>> \o P(k)) = x \o FlattenSeq(P(k))
  BY <1>10, <1>13, <1>14, <1>15, <1>17
<1> QED
  BY <1>3, <1>18 DEF P

LEMMA Pairs ==
    ASSUME NEW S, NEW s \in Seq(S), NEW e \in S
    PROVE  s \o <<e>> = Append(s, e)
BY AppendIsConcat

LEMMA Pair ==
    ASSUME NEW a, NEW b
    PROVE  Append(<<a>>, b) = <<a, b>>
<1>1. <<a>> \in Seq({a, b}) /\ <<a, b>> \in Seq({a, b}) /\ Len(<<a>>) = 1 /\ Len(<<a, b>>) = 2
  OBVIOUS
<1>2. /\ Append(<<a>>, b) \in Seq({a, b}) /\ Len(Append(<<a>>, b)) = 2
      /\ Append(<<a>>, b)[1] = a /\ Append(<<a>>, b)[2] = b
  BY <1>1, AppendProperties
<1>3. \A i \in 1..2 : Append(<<a>>, b)[i] = <<a, b>>[i]
  BY <1>2
<1> QED
  BY <1>1, <1>2, <1>3, SeqEqual

LEMMA Triple ==
    ASSUME NEW a, NEW b, NEW c
    PROVE  Append(<<a, b>>, c) = <<a, b, c>>
<1> DEFINE S == {a, b, c}
<1>1. <<a, b>> \in Seq(S) /\ <<a, b, c>> \in Seq(S) /\ Len(<<a, b>>) = 2 /\ Len(<<a, b, c>>) = 3 /\ c \in S
  OBVIOUS
<1>2. /\ Append(<<a, b>>, c) \in Seq(S) /\ Len(Append(<<a, b>>, c)) = 3
      /\ \A i \in 1..2 : Append(<<a, b>>, c)[i] = <<a, b>>[i]
      /\ Append(<<a, b>>, c)[3] = c
  BY <1>1, AppendProperties
<1>3. \A i \in 1..3 : Append(<<a, b>>, c)[i] = <<a, b, c>>[i]
  BY <1>2
<1> QED
  BY <1>1, <1>2, <1>3, SeqEqual

LEMMA Append1 ==
    ASSUME NEW S, NEW x \in Seq(S)
    PROVE  append_strings(<<x>>) = x
BY FlattenOne DEF append_strings

LEMMA Append2 ==
    ASSUME NEW S, NEW x \in Seq(S), NEW y \in Seq(S)
    PROVE  append_strings(<<x, y>>) = x \o y
<1>1. <<x>> \in Seq(Seq(S)) /\ Append(<<x>>, y) = <<x, y>>
  BY Pair
<1> QED
  BY <1>1, FlattenOne, FlattenAppend DEF append_strings

LEMMA Append3 ==
    ASSUME NEW S, NEW x \in Seq(S), NEW y \in Seq(S), NEW z \in Seq(S)
    PROVE  append_strings(<<x, y, z>>) = (x \o y) \o z
<1>1. <<x, y>> \in Seq(Seq(S)) /\ Append(<<x, y>>, z) = <<x, y, z>>
  BY Triple
<1>2. FlattenSeq(<<x, y>>) = x \o y
  BY Append2 DEF append_strings
<1> QED
  BY <1>1, <1>2, FlattenAppend DEF append_strings

-----------------------------------------------------------------------------
(* Numbers.                                                                  *)

\* What is left of a bound.
LEMMA Bounds ==
    ASSUME NEW c \in Int, NEW M \in Nat
    PROVE  /\ c < M - 1 => c <= M - 2
           /\ 0 <= c /\ c <= M - 2 => c \in -1..M - 2 /\ c \in -2..M - 2 /\ c # -2
           /\ c \in -1..M - 1 => c = -1 \/ c \in Nat
           /\ c \in -2..M - 2 => c = -2 \/ c + 1 \in Nat
OBVIOUS

LEMMA MaxInt == INT_MAX \in Nat
BY SMT DEF INT_MAX

LEMMA DigitBounds == \A d : d \in Digit <=> d \in Nat /\ 48 <= d /\ d <= 57
BY DEF Digit

\* What Number makes of a string of digits.
Value(s) ==
    LET value[i \in 0..Len(s)] == IF i = 0 THEN 0 ELSE 10 * value[i - 1] + (s[i] - 48)
    IN  value[Len(s)]

AllDigits(s) == s \in Str /\ \A i \in 1..Len(s) : s[i] \in Digit

LEMMA ValueRun ==
    ASSUME NEW s, AllDigits(s)
    PROVE  /\ \E f : IsRun(f, 0, Len(s), 0, "digit", s) /\ Value(s) = f[Len(s)]
           /\ Value(s) \in Nat
<1> DEFINE n == Len(s)
           Is(f) == f = [i \in 0..n |-> IF i = 0 THEN 0 ELSE 10 * f[i - 1] + (s[i] - 48)]
           value == CHOOSE f : Is(f)
<1>1. s \in Str /\ n \in Nat
  BY StrFacts DEF AllDigits
<1>2. ASSUME NEW f PROVE Is(f) <=> IsRun(f, 0, n, 0, "digit", s)
  BY DEF IsRun, Step
<1>3. \E f : Is(f)
  BY <1>1, <1>2, RunExists
<1>4. Is(value)
  BY <1>3
<1>5. Value(s) = value[n]
  BY DEF Value
<1> HIDE DEF value, Is
<1>6. IsRun(value, 0, n, 0, "digit", s)
  BY <1>2, <1>4
<1>7. StaysIn(Nat, 0, n, 0, "digit", s)
  <2>1. ASSUME NEW i \in 0 + 1..n, NEW v \in Nat PROVE Step("digit", s[i], v) \in Nat
    <3>1. s[i] \in Nat /\ 48 <= s[i]
      BY DigitBounds DEF AllDigits
    <3>2. 10 * v + (s[i] - 48) \in Nat
      BY <3>1
    <3> QED
      BY <3>2 DEF Step
  <2> QED
    BY <1>1, <2>1 DEF StaysIn
<1>8. \A i \in 0..n : value[i] \in Nat
  BY <1>6, <1>7, RunType
<1> QED
  BY <1>1, <1>5, <1>6, <1>8

LEMMA ValueEmpty == Value(<<>>) = 0
<1>1. <<>> \in Str /\ Len(<<>>) = 0
  BY EmptySeq DEF Str
<1>2. AllDigits(<<>>)
  BY <1>1 DEF AllDigits
<1>3. PICK f : IsRun(f, 0, 0, 0, "digit", <<>>) /\ Value(<<>>) = f[0]
  BY <1>1, <1>2, ValueRun
<1> QED
  BY <1>3, RunAt

LEMMA ValueAppend ==
    ASSUME NEW s, AllDigits(s), NEW d \in Digit
    PROVE  AllDigits(Append(s, d)) /\ Value(Append(s, d)) = 10 * Value(s) + (d - 48)
<1> DEFINE n == Len(s)
           t == Append(s, d)
<1>1. s \in Str /\ n \in Nat /\ \A i \in 1..n : s[i] \in Digit
  BY StrFacts DEF AllDigits
<1>2. d \in Nat
  BY DigitBounds
<1>3. t \in Str /\ Len(t) = n + 1 /\ t[n + 1] = d /\ \A i \in 1..n : t[i] = s[i]
  BY <1>1, <1>2, AppendProperties DEF Str
<1> HIDE DEF t
<1>4. AllDigits(t)
  <2>1. \A i \in 1..n + 1 : i \in 1..n \/ i = n + 1
    BY <1>1
  <2> QED
    BY <1>1, <1>3, <2>1 DEF AllDigits
<1>5. PICK f : IsRun(f, 0, n, 0, "digit", s) /\ Value(s) = f[n]
  BY ValueRun
<1>6. PICK g : IsRun(g, 0, n + 1, 0, "digit", t) /\ Value(t) = g[n + 1]
  BY <1>3, <1>4, ValueRun
<1>7. Agree(0, n, n + 1, s, t)
  BY <1>1, <1>3 DEF Agree
<1>8. \A i \in 0..n : f[i] = g[i]
  BY <1>5, <1>6, <1>7, RunSame
<1>9. n + 1 \in 0..n + 1 /\ n + 1 # 0 /\ n \in 0..n /\ n + 1 - 1 = n
  BY <1>1
<1>10. g[n + 1] = Step("digit", t[n + 1], g[n + 1 - 1])
  BY <1>6, <1>9, RunAt
<1>11. g[n + 1] = 10 * g[n] + (d - 48)
  BY <1>3, <1>9, <1>10 DEF Step
<1> QED
  BY <1>4, <1>5, <1>6, <1>8, <1>9, <1>11 DEF t

\* The digits at the beginning of a string are its number.
LEMMA NumberOf ==
    ASSUME NEW s \in Str, NEW k \in Nat, k <= Len(s), \A i \in 1..k : s[i] \in Digit,
           k < Len(s) => s[k + 1] \notin Digit
    PROVE  AllDigits(SubSeq(s, 1, k)) /\ Number(s) = Value(SubSeq(s, 1, k))
<1> DEFINE others == {i \in DOMAIN s : s[i] \notin Digit}
           digits == IF others = {} THEN s ELSE Before(s, Min(others))
<1>1. DOMAIN s = 1..Len(s) /\ Len(s) \in Nat
  BY StrFacts
<1>2. digits = SubSeq(s, 1, k)
  <2>1. CASE k = Len(s)
    <3>1. others = {}
      BY <1>1, <2>1
    <3> QED
      BY <2>1, <3>1, Whole
  <2>2. CASE k < Len(s)
    <3>1. k + 1 \in others /\ others \in SUBSET Nat
      BY <1>1, <2>2
    <3>2. \A y \in others : k + 1 <= y
      BY <1>1
    <3> HIDE DEF others
    <3>3. Min(others) = k + 1
      BY <3>1, <3>2, MinIs
    <3>4. k + 1 - 1 = k
      OBVIOUS
    <3> QED
      BY <3>1, <3>3, <3>4 DEF Before
  <2>3. k = Len(s) \/ k < Len(s)
    <3>1. ASSUME NEW n \in Nat, k <= n PROVE k = n \/ k < n
      BY <3>1
    <3> QED
      BY <1>1, <3>1
  <2> HIDE DEF digits
  <2> QED
    BY <2>1, <2>2, <2>3
<1>3. Number(s) = Value(digits)
  BY DEF Number, Value
<1>4. AllDigits(SubSeq(s, 1, k))
  <2>1. 0 \in Nat /\ 0 <= k /\ 0 + 1 = 1 /\ k - 0 = k
    OBVIOUS
  <2>2. /\ SubSeq(s, 0 + 1, k) \in Str /\ Len(SubSeq(s, 0 + 1, k)) = k - 0
        /\ \A i \in 1..k - 0 : SubSeq(s, 0 + 1, k)[i] = s[0 + i]
    BY <2>1, Part
  <2>3. \A i \in 1..k : s[0 + i] = s[i]
    OBVIOUS
  <2> QED
    BY <2>1, <2>2, <2>3 DEF AllDigits
<1> QED
  BY <1>2, <1>3, <1>4

LEMMA NumberNat ==
    ASSUME NEW s \in Str
    PROVE  Number(s) \in Nat
<1> DEFINE T == {k \in Nat : k < Len(s) /\ s[k + 1] \notin Digit}
<1>0. Len(s) \in Nat
  BY StrFacts
<1>1. \E k \in Nat : k <= Len(s) /\ (\A i \in 1..k : s[i] \in Digit) /\ (k < Len(s) => s[k + 1] \notin Digit)
  <2>1. CASE T = {}
    <3>1. \A i \in 1..Len(s) : i - 1 \in Nat /\ i - 1 < Len(s) /\ (i - 1) + 1 = i
      BY <1>0
    <3>2. ASSUME NEW i \in 1..Len(s) PROVE s[i] \in Digit
      <4>1. i - 1 \notin T
        BY <2>1
      <4> QED
        BY <3>1, <4>1
    <3> QED
      BY <1>0, <3>2
  <2>2. CASE T # {}
    <3>1. PICK k \in T : \A y \in T : k <= y
      BY <2>2, LeastOf
    <3>2. ASSUME NEW i \in 1..k PROVE s[i] \in Digit
      <4>1. i - 1 \in Nat /\ i - 1 < Len(s) /\ (i - 1) + 1 = i /\ ~(k <= i - 1)
        BY <1>0, <3>1
      <4> QED
        BY <3>1, <4>1
    <3> QED
      BY <1>0, <3>1, <3>2
  <2> QED
    BY <2>1, <2>2
<1>2. PICK k \in Nat : k <= Len(s) /\ (\A i \in 1..k : s[i] \in Digit) /\ (k < Len(s) => s[k + 1] \notin Digit)
  BY <1>1
<1> QED
  BY <1>2, NumberOf, ValueRun

\* to_string, digit by digit.
DigitsOf(f, n) == IF n < 10 THEN <<48 + n>> ELSE Append(f[n \div 10], 48 + (n % 10))
IsDigits(f, v) == f = [n \in 0..v |-> DigitsOf(f, n)]

LEMMA DivTen ==
    ASSUME NEW n \in Nat
    PROVE  /\ n \div 10 \in Nat /\ n % 10 \in Nat /\ n % 10 <= 9 /\ n = 10 * (n \div 10) + (n % 10)
           /\ n >= 10 => n \div 10 < n
OBVIOUS

LEMMA DigitsExist ==
    ASSUME NEW v \in Nat
    PROVE  \E f : IsDigits(f, v)
<1> DEFINE Solved(f, k) == \A n \in 0..k : f[n] = DigitsOf(f, n)
           T == {j \in Nat : ~\E f : Solved(f, j)}
<1>1. ASSUME T # {} PROVE FALSE
  <2>1. PICK j \in T : \A y \in T : j <= y
    BY <1>1, LeastOf
  <2>2. j \in Nat
    BY <2>1
  <2>3. CASE j = 0
    <3> DEFINE g == [n \in 0..0 |-> <<48 + n>>]
    <3>1. \A n \in 0..0 : g[n] = DigitsOf(g, n)
      BY DEF DigitsOf
    <3> HIDE DEF g
    <3>2. Solved(g, j)
      BY <2>3, <3>1
    <3> QED
      BY <2>1, <3>2
  <2>4. CASE j # 0
    <3>1. j - 1 \in Nat /\ ~(j <= j - 1)
      BY <2>2, <2>4
    <3>2. j - 1 \notin T
      BY <2>1, <3>1
    <3>3. PICK f : Solved(f, j - 1)
      BY <3>1, <3>2
    <3> DEFINE g == [n \in 0..j |-> IF n = j THEN DigitsOf(f, j) ELSE f[n]]
    <3>4. ASSUME NEW n \in 0..j PROVE g[n] = DigitsOf(g, n)
      <4>1. n \in Nat /\ n <= j
        OBVIOUS
      <4>2. n >= 10 => n \div 10 \in 0..j /\ n \div 10 # j
        BY <2>2, <4>1, DivTen
      <4>3. n >= 10 => g[n \div 10] = f[n \div 10]
        BY <4>2
      <4>4. DigitsOf(g, n) = DigitsOf(f, n)
        BY <4>1, <4>3 DEF DigitsOf
      <4>5. n # j => f[n] = DigitsOf(f, n)
        <5>1. n # j => n \in 0..j - 1
          BY <2>2, <4>1
        <5> QED
          BY <3>3, <5>1
      <4>6. g[n] = IF n = j THEN DigitsOf(f, j) ELSE f[n]
        OBVIOUS
      <4> HIDE DEF g
      <4> QED
        BY <4>4, <4>5, <4>6
    <3> HIDE DEF g
    <3>5. Solved(g, j)
      BY <3>4
    <3> QED
      BY <2>1, <3>5
  <2> QED
    BY <2>3, <2>4
<1>2. v \notin T
  BY <1>1
<1>3. PICK f : Solved(f, v)
  BY <1>2
<1> DEFINE h == [n \in 0..v |-> f[n]]
<1>4. ASSUME NEW n \in 0..v PROVE h[n] = DigitsOf(h, n)
  <2>1. n >= 10 => n \div 10 \in 0..v
    BY DivTen
  <2>2. h[n] = f[n] /\ (n >= 10 => h[n \div 10] = f[n \div 10])
    BY <2>1
  <2> HIDE DEF h
  <2>3. DigitsOf(h, n) = DigitsOf(f, n)
    BY <2>2 DEF DigitsOf
  <2> QED
    BY <2>2, <2>3, <1>3
<1>5. h = [n \in 0..v |-> h[n]]
  OBVIOUS
<1> HIDE DEF h
<1>6. h = [n \in 0..v |-> DigitsOf(h, n)]
  BY <1>4, <1>5
<1> QED
  BY <1>6 DEF IsDigits

LEMMA ToStringRun ==
    ASSUME NEW v \in Nat
    PROVE  \E f : IsDigits(f, v) /\ to_string(v) = f[v]
<1> DEFINE Is(f) == f = [n \in 0..v |-> IF n < 10 THEN <<48 + n>> ELSE Append(f[n \div 10], 48 + (n % 10))]
           digits == CHOOSE f : Is(f)
<1>1. ASSUME NEW f PROVE Is(f) <=> IsDigits(f, v)
  BY DEF IsDigits, DigitsOf
<1>2. \E f : Is(f)
  BY <1>1, DigitsExist
<1>3. Is(digits)
  BY <1>2
<1>4. to_string(v) = digits[v]
  BY DEF to_string
<1> HIDE DEF digits, Is
<1> QED
  BY <1>1, <1>3, <1>4

LEMMA DigitsRight ==
    ASSUME NEW v \in Nat, NEW f, IsDigits(f, v)
    PROVE  \A n \in 0..v : AllDigits(f[n]) /\ Len(f[n]) >= 1 /\ Value(f[n]) = n
<1> DEFINE Right(n) == AllDigits(f[n]) /\ Len(f[n]) >= 1 /\ Value(f[n]) = n
           T == {n \in Nat : n \in 0..v /\ ~Right(n)}
<1>1. SUFFICES ASSUME T # {} PROVE FALSE
  OBVIOUS
<1>2. PICK n \in T : \A y \in T : n <= y
  BY <1>1, LeastOf
<1>3. n \in Nat /\ n <= v /\ n \in 0..v /\ ~Right(n)
  BY <1>2
<1>4. f[n] = DigitsOf(f, n)
  BY <1>3 DEF IsDigits
<1>5. CASE n < 10
  <2>1. f[n] = <<48 + n>> /\ 48 + n \in Digit
    BY <1>3, <1>4, <1>5, DigitBounds DEF DigitsOf
  <2>2. AllDigits(<<>>)
    BY EmptySeq DEF AllDigits, Str
  <2>3. <<48 + n>> = Append(<<>>, 48 + n) /\ Len(<<48 + n>>) = 1
    OBVIOUS
  <2>4. AllDigits(Append(<<>>, 48 + n)) /\ Value(Append(<<>>, 48 + n)) = 10 * Value(<<>>) + ((48 + n) - 48)
    BY <2>1, <2>2, ValueAppend
  <2>5. 10 * 0 + ((48 + n) - 48) = n
    BY <1>3
  <2>6. Right(n)
    BY <2>1, <2>3, <2>4, <2>5, ValueEmpty
  <2> QED
    BY <1>3, <2>6
<1>6. CASE n >= 10
  <2> DEFINE q == n \div 10
             r == n % 10
  <2>1. q \in Nat /\ r \in Nat /\ r <= 9 /\ n = 10 * q + r /\ q < n
    BY <1>3, <1>6, DivTen
  <2>2. f[n] = Append(f[q], 48 + r)
    BY <1>3, <1>4, <1>6 DEF DigitsOf
  <2> HIDE DEF q, r
  <2>3. q \in 0..v /\ ~(n <= q)
    BY <1>3, <2>1
  <2>4. q \notin T
    BY <1>2, <2>3
  <2>5. Right(q)
    BY <2>1, <2>3, <2>4
  <2>6. 48 + r \in Digit
    BY <2>1, DigitBounds
  <2>7. AllDigits(Append(f[q], 48 + r)) /\ Value(Append(f[q], 48 + r)) = 10 * Value(f[q]) + ((48 + r) - 48)
    BY <2>5, <2>6, ValueAppend
  <2>8. 10 * q + ((48 + r) - 48) = n
    BY <2>1
  <2>9. Len(Append(f[q], 48 + r)) >= 1
    <3>1. f[q] \in Seq(Nat) /\ 48 + r \in Nat
      BY <2>1, <2>5 DEF AllDigits, Str
    <3> QED
      BY <3>1
  <2>10. Right(n)
    BY <2>2, <2>5, <2>7, <2>8, <2>9
  <2> QED
    BY <1>3, <2>10
<1> QED
  BY <1>3, <1>5, <1>6

LEMMA OneMoreDigit ==
    ASSUME NEW v \in Nat, NEW f, IsDigits(f, v), NEW b \in Nat, NEW k \in Nat,
           \A n \in 0..v : n < b => Len(f[n]) <= k, k >= 1
    PROVE  \A n \in 0..v : n < 10 * b => Len(f[n]) <= k + 1
<1> SUFFICES ASSUME NEW n \in 0..v, n < 10 * b PROVE Len(f[n]) <= k + 1
  OBVIOUS
<1>1. f[n] = DigitsOf(f, n)
  BY DEF IsDigits
<1>2. CASE n < 10
  <2>1. f[n] = <<48 + n>>
    BY <1>1, <1>2 DEF DigitsOf
  <2>2. Len(<<48 + n>>) = 1
    OBVIOUS
  <2> QED
    BY <2>1, <2>2
<1>3. CASE n >= 10
  <2> DEFINE q == n \div 10
             r == n % 10
  <2>1. q \in Nat /\ r \in Nat /\ n = 10 * q + r /\ q < n
    BY <1>3, DivTen
  <2>2. f[n] = Append(f[q], 48 + r)
    BY <1>1, <1>3 DEF DigitsOf
  <2> HIDE DEF q, r
  <2>3. q \in 0..v /\ q < b
    BY <2>1
  <2>4. Len(f[q]) <= k
    BY <2>3
  <2>5. f[q] \in Seq(Nat) /\ 48 + r \in Nat
    BY <2>1, <2>3, DigitsRight DEF AllDigits, Str
  <2>6. Len(Append(f[q], 48 + r)) = Len(f[q]) + 1 /\ Len(f[q]) \in Nat
    BY <2>5, AppendProperties, LenProperties
  <2> QED
    BY <2>2, <2>4, <2>6
<1> QED
  BY <1>2, <1>3

\* A number of an int has ten digits at most, and atoi finds it again.
LEMMA ToStringOf ==
    ASSUME NEW v \in Nat
    PROVE  /\ AllDigits(to_string(v)) /\ Value(to_string(v)) = v /\ Len(to_string(v)) >= 1
           /\ v <= INT_MAX => Len(to_string(v)) <= 10
<1>1. PICK f : IsDigits(f, v) /\ to_string(v) = f[v]
  BY ToStringRun
<1>2. AllDigits(f[v]) /\ Value(f[v]) = v /\ Len(f[v]) >= 1
  BY <1>1, DigitsRight
<1> DEFINE Short(b, k) == \A n \in 0..v : n < b => Len(f[n]) <= k
<1>3. Short(10, 1)
  <2> SUFFICES ASSUME NEW n \in 0..v, n < 10 PROVE Len(f[n]) <= 1
    OBVIOUS
  <2>1. f[n] = <<48 + n>>
    BY <1>1 DEF IsDigits, DigitsOf
  <2>2. Len(<<48 + n>>) = 1
    OBVIOUS
  <2> QED
    BY <2>1, <2>2
<1>4. ASSUME NEW b \in Nat, NEW k \in Nat, k >= 1, Short(b, k) PROVE Short(10 * b, k + 1)
  BY <1>1, <1>4, OneMoreDigit
<1> HIDE DEF Short
<1>5. Short(100, 2)
  BY <1>3, <1>4, SMT
<1>6. Short(1000, 3)
  BY <1>5, <1>4, SMT
<1>7. Short(10000, 4)
  BY <1>6, <1>4, SMT
<1>8. Short(100000, 5)
  BY <1>7, <1>4, SMT
<1>9. Short(1000000, 6)
  BY <1>8, <1>4, SMT
<1>10. Short(10000000, 7)
  BY <1>9, <1>4, SMT
<1>11. Short(100000000, 8)
  BY <1>10, <1>4, SMT
<1>12. Short(1000000000, 9)
  BY <1>11, <1>4, SMT
<1>13. Short(10000000000, 10)
  BY <1>12, <1>4, SMT
<1>14. ASSUME v <= INT_MAX PROVE Len(f[v]) <= 10
  <2>1. v < 10000000000 /\ v \in 0..v
    BY <1>14, SMT DEF INT_MAX
  <2> QED
    BY <2>1, <1>13, SMT DEF Short
<1> QED
  BY <1>1, <1>2, <1>14

-----------------------------------------------------------------------------
(* Lists of names.                                                           *)

LEMMA EntryFacts ==
    ASSUME NEW x \in Entry
    PROVE  x \in Str /\ x # <<>> /\ Len(x) \in Nat /\ Len(x) >= 1
           /\ \A i \in 1..Len(x) : x[i] # LF /\ x[i] # NUL /\ x[i] \in Nat /\ x[i] <= 255 /\ x[i] >= 1
<1>1. x \in Seq(1..255 \ {LF}) /\ x # <<>>
  BY DEF Entry
<1>2. 1..255 \ {LF} \subseteq Nat
  OBVIOUS
<1>3. x \in Str
  BY <1>1, <1>2, SeqMonotonic DEF Str
<1>4. \A i \in 1..Len(x) : x[i] \in 1..255 \ {LF}
  BY <1>1, ElementOfSeq
<1>5. \A c \in 1..255 \ {LF} : c # LF /\ c # NUL /\ c \in Nat /\ c <= 255 /\ c >= 1
  BY DEF NUL
<1>6. Len(x) \in Nat /\ Len(x) # 0
  BY <1>1, <1>3, StrFacts
<1>7. \A i \in 1..Len(x) : x[i] # LF /\ x[i] # NUL /\ x[i] \in Nat /\ x[i] <= 255 /\ x[i] >= 1
  BY <1>4, <1>5
<1>8. Len(x) >= 1
  BY <1>6
<1> QED
  BY <1>1, <1>3, <1>6, <1>7, <1>8

LEMMA EntrySeq ==
    ASSUME NEW names \in Seq(Entry)
    PROVE  names \in Seq(Str) /\ Len(names) \in Nat /\ \A i \in 1..Len(names) : names[i] \in Entry
<1>1. Entry \subseteq Str
  BY EntryFacts
<1> QED
  BY <1>1, SeqMonotonic, ElementOfSeq

LEMMA JoinEmpty == join_strings(<<>>, LF) = <<>>
<1>1. [i \in DOMAIN <<>> |-> Append(<<>>[i], LF)] = <<>>
  OBVIOUS
<1> QED
  BY <1>1, FlattenEmpty DEF join_strings

\* The lines of a list.
Lines(names) == [i \in DOMAIN names |-> Append(names[i], LF)]

LEMMA LinesOf ==
    ASSUME NEW names \in Seq(Str)
    PROVE  Lines(names) \in Seq(Seq(Nat)) /\ Len(Lines(names)) = Len(names)
           /\ join_strings(names, LF) = FlattenSeq(Lines(names)) /\ join_strings(names, LF) \in Str
<1>1. Len(names) \in Nat /\ DOMAIN names = 1..Len(names) /\ \A i \in 1..Len(names) : names[i] \in Seq(Nat)
  BY LenProperties, ElementOfSeq DEF Str
<1>2. \A i \in 1..Len(names) : Append(names[i], LF) \in Seq(Nat)
  BY <1>1, AppendProperties DEF LF
<1>3. Lines(names) \in Seq(Seq(Nat)) /\ Len(Lines(names)) = Len(names)
  BY <1>1, <1>2 DEF Lines
<1>4. join_strings(names, LF) = FlattenSeq(Lines(names))
  BY DEF join_strings, Lines
<1> QED
  BY <1>3, <1>4, FlattenType DEF Str

LEMMA JoinCons ==
    ASSUME NEW names \in Seq(Str), names # <<>>
    PROVE  /\ Tail(names) \in Seq(Str) /\ Len(Tail(names)) = Len(names) - 1
           /\ \A i \in 1..Len(names) - 1 : Tail(names)[i] = names[i + 1]
           /\ join_strings(names, LF) = Append(names[1], LF) \o join_strings(Tail(names), LF)
<1> DEFINE n == Len(names)
           t == Tail(names)
           x == Append(names[1], LF)
<1>1. n \in Nat /\ n # 0 /\ DOMAIN names = 1..n /\ \A i \in 1..n : names[i] \in Seq(Nat)
  BY EmptySeq, LenProperties, ElementOfSeq DEF Str
<1>2. t \in Seq(Str) /\ Len(t) = n - 1 /\ \A i \in 1..n - 1 : t[i] = names[i + 1]
  BY HeadTailProperties
<1>3. x \in Seq(Nat)
  BY <1>1, AppendProperties DEF LF
<1>4. Lines(t) \in Seq(Seq(Nat)) /\ Len(Lines(t)) = n - 1 /\ Lines(names) \in Seq(Seq(Nat)) /\ Len(Lines(names)) = n
  BY <1>2, LinesOf
<1>5. <<x>> \in Seq(Seq(Nat)) /\ Len(<<x>>) = 1 /\ <<x>>[1] = x
  BY <1>3
<1>6. DOMAIN t = 1..n - 1
  BY <1>2, LenProperties
<1> HIDE DEF t
<1>7. \A i \in 1..n : Lines(names)[i] = IF i = 1 THEN x ELSE Lines(t)[i - 1]
  <2>1. SUFFICES ASSUME NEW i \in 1..n PROVE Lines(names)[i] = IF i = 1 THEN x ELSE Lines(t)[i - 1]
    OBVIOUS
  <2>2. Lines(names)[i] = Append(names[i], LF)
    BY <1>1 DEF Lines
  <2>3. CASE i = 1
    BY <2>2, <2>3
  <2>4. CASE i # 1
    <3>1. i - 1 \in 1..n - 1 /\ (i - 1) + 1 = i
      BY <1>1, <2>4
    <3>2. t[i - 1] = names[i]
      BY <1>2, <3>1
    <3>3. Lines(t)[i - 1] = Append(names[i], LF)
      BY <1>6, <3>1, <3>2 DEF Lines
    <3> QED
      BY <2>2, <2>4, <3>3
  <2> QED
    BY <2>3, <2>4
<1> HIDE DEF x
<1>8. Lines(names) = <<x>> \o Lines(t)
  <2> DEFINE r == <<x>> \o Lines(t)
  <2>1. r \in Seq(Seq(Nat)) /\ Len(r) = 1 + (n - 1)
        /\ \A i \in 1..1 + (n - 1) : r[i] = IF i <= 1 THEN <<x>>[i] ELSE Lines(t)[i - 1]
    BY <1>4, <1>5, ConcatProperties
  <2> HIDE DEF r
  <2>2. 1 + (n - 1) = n
    BY <1>1
  <2>3. \A i \in 1..n : Lines(names)[i] = r[i]
    <3>1. SUFFICES ASSUME NEW i \in 1..n PROVE Lines(names)[i] = r[i]
      OBVIOUS
    <3>2. r[i] = IF i <= 1 THEN <<x>>[i] ELSE Lines(t)[i - 1]
      BY <2>1, <2>2
    <3>3. i <= 1 <=> i = 1
      BY <1>1
    <3> QED
      BY <1>5, <1>7, <3>2, <3>3
  <2>4. Lines(names) = r
    BY <1>4, <2>1, <2>2, <2>3, SeqEqual
  <2> QED
    BY <2>4 DEF r
<1>9. FlattenSeq(Lines(names)) = x \o FlattenSeq(Lines(t))
  BY <1>3, <1>4, <1>8, FlattenCons
<1> QED
  BY <1>2, <1>9, LinesOf DEF x, t

-----------------------------------------------------------------------------
(* What split_string makes of a list, or of the first bytes of one.          *)

\* c is t with x before it.
Prepended(c, x, t, S) ==
    /\ c \in Seq(S) /\ Len(c) = Len(t) + 1 /\ Len(t) \in Nat
    /\ c[1] = x
    /\ \A i \in 1..Len(t) : c[i + 1] = t[i]

LEMMA PrependSeq ==
    ASSUME NEW S, NEW x \in S, NEW t \in Seq(S)
    PROVE  Prepended(<<x>> \o t, x, t, S)
<1>1. <<x>> \in Seq(S) /\ Len(<<x>>) = 1 /\ <<x>>[1] = x
  OBVIOUS
<1>2. Len(t) \in Nat
  BY LenProperties
<1>3. /\ <<x>> \o t \in Seq(S) /\ Len(<<x>> \o t) = 1 + Len(t)
      /\ \A i \in 1..1 + Len(t) : (<<x>> \o t)[i] = IF i <= 1 THEN <<x>>[i] ELSE t[i - 1]
  BY <1>1, ConcatProperties
<1> DEFINE c == <<x>> \o t
<1> HIDE DEF c
<1>4. c[1] = x
  BY <1>1, <1>2, <1>3 DEF c
<1>5. ASSUME NEW i \in 1..Len(t) PROVE c[i + 1] = t[i]
  <2>1. i + 1 \in 1..1 + Len(t) /\ ~(i + 1 <= 1) /\ (i + 1) - 1 = i
    BY <1>2
  <2> QED
    BY <1>3, <2>1 DEF c
<1> QED
  BY <1>2, <1>3, <1>4, <1>5 DEF c, Prepended

LEMMA FirstPart ==
    ASSUME NEW s \in Str, NEW k \in Nat, k <= Len(s)
    PROVE  SubSeq(s, 1, k) \in Str /\ Len(SubSeq(s, 1, k)) = k /\ \A i \in 1..k : SubSeq(s, 1, k)[i] = s[i]
<1>1. /\ SubSeq(s, 0 + 1, k) \in Str
      /\ Len(SubSeq(s, 0 + 1, k)) = k - 0
      /\ \A i \in 1..k - 0 : SubSeq(s, 0 + 1, k)[i] = s[0 + i]
  BY Part
<1>2. 0 + 1 = 1 /\ k - 0 = k /\ \A i \in 1..k : 0 + i = i
  OBVIOUS
<1>3. /\ SubSeq(s, 1, k) \in Str /\ Len(SubSeq(s, 1, k)) = k
      /\ \A i \in 1..k : SubSeq(s, 1, k)[i] = s[0 + i]
  BY <1>1, <1>2
<1> QED
  BY <1>2, <1>3

\* L is the first names of a list, of which the last may be cut.
CutNames(L, names) ==
    \/ L = <<>>
    \/ /\ Len(L) <= Len(names)
       /\ \A i \in 1..Len(L) - 1 : L[i] = names[i]
       /\ IsPrefix(L[Len(L)], names[Len(L)])

LEMMA PrefixSelf ==
    ASSUME NEW s \in Str
    PROVE  IsPrefix(s, s)
BY StrFacts DEF IsPrefix

LEMMA CutCons ==
    ASSUME NEW x \in Str, NEW L \in Seq(Str), NEW t \in Seq(Str), CutNames(L, t)
    PROVE  CutNames(<<x>> \o L, <<x>> \o t)
<1> DEFINE M == <<x>> \o L
           n == <<x>> \o t
<1>1. M \in Seq(Str) /\ Len(M) = Len(L) + 1 /\ Len(L) \in Nat /\ M[1] = x
      /\ \A i \in 1..Len(L) : M[i + 1] = L[i]
  BY PrependSeq DEF Prepended
<1>2. n \in Seq(Str) /\ Len(n) = Len(t) + 1 /\ Len(t) \in Nat /\ n[1] = x
      /\ \A i \in 1..Len(t) : n[i + 1] = t[i]
  BY PrependSeq DEF Prepended
<1> HIDE DEF M, n
<1>3. CASE L = <<>>
  <2>1. Len(L) = 0
    BY <1>3
  <2>2. Len(M) = 1 /\ M[Len(M)] = x /\ n[Len(M)] = x
    BY <1>1, <1>2, <2>1
  <2>3. \A i \in 1..Len(M) - 1 : M[i] = n[i]
    BY <2>2
  <2> QED
    BY <1>2, <2>2, <2>3, PrefixSelf DEF CutNames, M, n
<1>4. CASE L # <<>>
  <2>1. Len(L) <= Len(t) /\ Len(L) # 0
        /\ (\A i \in 1..Len(L) - 1 : L[i] = t[i]) /\ IsPrefix(L[Len(L)], t[Len(L)])
    BY <1>4, EmptySeq DEF CutNames
  <2>2. M[Len(M)] = L[Len(L)] /\ n[Len(M)] = t[Len(L)]
    BY <1>1, <1>2, <2>1
  <2>3. ASSUME NEW i \in 1..Len(M) - 1 PROVE M[i] = n[i]
    <3>1. CASE i = 1
      BY <1>1, <1>2, <3>1
    <3>2. CASE i # 1
      <4>1. i - 1 \in 1..Len(L) - 1 /\ i - 1 \in 1..Len(L) /\ i - 1 \in 1..Len(t) /\ (i - 1) + 1 = i
        BY <1>1, <1>2, <2>1, <3>2
      <4>2. M[(i - 1) + 1] = L[i - 1] /\ n[(i - 1) + 1] = t[i - 1] /\ L[i - 1] = t[i - 1]
        BY <1>1, <1>2, <2>1, <4>1
      <4> QED
        BY <4>1, <4>2
    <3> QED
      BY <3>1, <3>2
  <2>4. Len(M) <= Len(n)
    BY <1>1, <1>2, <2>1
  <2> QED
    BY <2>1, <2>2, <2>3, <2>4 DEF CutNames, M, n
<1> QED
  BY <1>3, <1>4

LEMMA JoinHead ==
    ASSUME NEW names \in Seq(Entry), names # <<>>
    PROVE  /\ Tail(names) \in Seq(Entry) /\ Len(Tail(names)) = Len(names) - 1 /\ names[1] \in Entry
           /\ names = <<names[1]>> \o Tail(names)
           /\ join_strings(Tail(names), LF) \in Str
           /\ join_strings(names, LF) = Append(names[1], LF) \o join_strings(Tail(names), LF)
<1>1. names \in Seq(Str) /\ Len(names) \in Nat /\ \A i \in 1..Len(names) : names[i] \in Entry
  BY EntrySeq
<1>2. Len(names) # 0
  BY EmptySeq
<1>3. Tail(names) \in Seq(Entry) /\ Tail(names) \in Seq(Str)
      /\ Len(Tail(names)) = Len(names) - 1 /\ \A i \in 1..Len(names) - 1 : Tail(names)[i] = names[i + 1]
  BY <1>1, JoinCons, HeadTailProperties
<1>11. join_strings(names, LF) = Append(names[1], LF) \o join_strings(Tail(names), LF)
  BY <1>1, JoinCons
<1>4. names[1] \in Entry
  BY <1>1, <1>2
<1> DEFINE c == <<names[1]>> \o Tail(names)
<1>5. c \in Seq(Entry) /\ Len(c) = Len(names) /\ c[1] = names[1]
      /\ \A i \in 1..Len(names) - 1 : c[i + 1] = Tail(names)[i]
  <2>1. c \in Seq(Entry) /\ Len(c) = Len(Tail(names)) + 1 /\ c[1] = names[1]
        /\ \A i \in 1..Len(Tail(names)) : c[i + 1] = Tail(names)[i]
    <3>1. Prepended(c, names[1], Tail(names), Entry)
      BY <1>3, <1>4, PrependSeq
    <3> QED
      BY <3>1 DEF Prepended
  <2> HIDE DEF c
  <2> QED
    BY <1>1, <1>3, <2>1
<1> HIDE DEF c
<1>6. ASSUME NEW i \in 1..Len(names) PROVE c[i] = names[i]
  <2>1. CASE i = 1
    BY <1>5, <2>1
  <2>2. CASE i # 1
    <3>1. i - 1 \in 1..Len(names) - 1 /\ (i - 1) + 1 = i
      BY <1>1, <2>2
    <3>2. c[(i - 1) + 1] = Tail(names)[i - 1] /\ Tail(names)[i - 1] = names[(i - 1) + 1]
      BY <1>3, <1>5, <3>1
    <3> QED
      BY <3>1, <3>2
  <2> QED
    BY <2>1, <2>2
<1>7. c = names
  BY <1>5, <1>6, SeqEqual
<1>8. join_strings(Tail(names), LF) \in Str
  BY <1>3, LinesOf
<1>9. names = <<names[1]>> \o Tail(names)
  BY <1>7 DEF c
<1>10. Tail(names) \in Seq(Entry) /\ Len(Tail(names)) = Len(names) - 1
  BY <1>3
<1> QED
  BY <1>4, <1>8, <1>9, <1>10, <1>11, Zenon

\* What the pieces of the first k bytes of a list are.
SplitsAt(names, k) ==
    LET lines == join_strings(names, LF)
        L == split_string(SubSeq(lines, 1, k), LF)
    IN  /\ Len(lines) - k <= (IF names = <<>> THEN 0 ELSE 1) => L = names
        /\ CutNames(L, names)

LEMMA SplitNone ==
    ASSUME NEW k \in Nat, k <= Len(join_strings(<<>>, LF))
    PROVE  SplitsAt(<<>>, k)
<1>1. join_strings(<<>>, LF) = <<>> /\ k = 0
  BY JoinEmpty
<1>2. SubSeq(<<>>, 1, 0) = <<>>
  OBVIOUS
<1> QED
  BY <1>1, <1>2, PiecesEmpty DEF SplitsAt, split_string, CutNames

LEMMA SplitCons ==
    ASSUME NEW names \in Seq(Entry), names # <<>>, NEW k \in Nat, k <= Len(join_strings(names, LF)),
           \A l \in Nat : l <= Len(join_strings(Tail(names), LF)) => SplitsAt(Tail(names), l)
    PROVE  SplitsAt(names, k)
<1> DEFINE x == names[1]
           t == Tail(names)
           j == join_strings(names, LF)
           jt == join_strings(t, LF)
           xl == Append(x, LF)
           m == Len(x)
           s == SubSeq(j, 1, k)
           L == split_string(s, LF)
<1>1. t \in Seq(Entry) /\ x \in Entry /\ names = <<x>> \o t /\ jt \in Str /\ j = xl \o jt
  BY JoinHead
<1>2. x \in Str /\ m \in Nat /\ m >= 1 /\ \A i \in 1..m : x[i] # LF
  BY <1>1, EntryFacts
<1>3. xl \in Str /\ Len(xl) = m + 1 /\ xl[m + 1] = LF /\ \A i \in 1..m : xl[i] = x[i]
  BY <1>2, AppendProperties DEF Str, LF
<1>4. t \in Seq(Str)
  BY <1>1, EntrySeq
<1>5. \A l \in Nat : l <= Len(jt) => SplitsAt(t, l)
  OBVIOUS
<1> HIDE DEF x, t, j, jt, xl, m
<1>6. j \in Str /\ Len(j) = m + 1 + Len(jt) /\ (\A i \in 1..m + 1 : j[i] = xl[i])
      /\ (\A i \in 1..Len(jt) : j[m + 1 + i] = jt[i]) /\ Len(jt) \in Nat
  <2>1. /\ xl \o jt \in Str /\ Len(xl \o jt) = Len(xl) + Len(jt)
        /\ \A i \in 1..Len(xl) : (xl \o jt)[i] = xl[i]
        /\ \A i \in 1..Len(jt) : (xl \o jt)[Len(xl) + i] = jt[i]
    BY <1>1, <1>3, Cat
  <2> HIDE DEF xl
  <2> QED
    BY <1>1, <1>3, <2>1, StrFacts
<1>7. k <= Len(j)
  BY DEF j
<1>8. s \in Str /\ Len(s) = k /\ \A i \in 1..k : s[i] = j[i]
  BY <1>6, <1>7, Part
<1> HIDE DEF s
<1>9. CASE k = 0
  <2>1. s = <<>>
    BY <1>8, <1>9, StrFacts
  <2>2. L = <<>>
    BY <2>1, PiecesEmpty DEF split_string
  <2>3. ~(Len(j) - k <= 1)
    BY <1>2, <1>6, <1>9
  <2> QED
    BY <2>2, <2>3 DEF SplitsAt, CutNames, s, j
<1>10. CASE 1 <= k /\ k <= m
  <2>1. \A i \in 1..k : s[i] = x[i]
    BY <1>2, <1>3, <1>6, <1>8, <1>10
  <2>2. \A i \in 1..k : s[i] \notin {LF}
    BY <1>2, <1>10, <2>1
  <2>3. s # <<>>
    BY <1>8, <1>10, StrFacts
  <2>4. L = <<s>>
    BY <1>8, <2>2, <2>3, PiecesLast DEF split_string
  <2>5. IsPrefix(s, x)
    <3>1. SubSeq(s, 1, k) = s
      BY <1>8, Whole
    <3>2. SubSeq(x, 1, k) \in Str /\ Len(SubSeq(x, 1, k)) = k /\ \A i \in 1..k : SubSeq(x, 1, k)[i] = x[i]
      BY <1>2, <1>10, FirstPart DEF m
    <3>3. SubSeq(x, 1, k) = s
      BY <1>8, <2>1, <3>2, SameStr
    <3> QED
      BY <1>2, <1>8, <1>10, <3>1, <3>3 DEF IsPrefix, m
  <2>6. Len(names) \in Nat /\ Len(names) # 0
    BY EmptySeq, LenProperties
  <2>7. Len(L) = 1 /\ L[1] = s /\ names[1] = x
    BY <2>4 DEF x
  <2>8. CutNames(L, names)
    BY <2>5, <2>6, <2>7 DEF CutNames
  <2>9. Len(j) - k <= 1 => L = names
    <3>1. SUFFICES ASSUME Len(j) - k <= 1 PROVE L = names
      OBVIOUS
    <3>2. Len(jt) = 0 /\ k = m
      BY <1>2, <1>6, <1>10, <3>1
    <3>3. t = <<>>
      <4>1. SUFFICES ASSUME t # <<>> PROVE FALSE
        OBVIOUS
      <4>2. jt = Append(t[1], LF) \o join_strings(Tail(t), LF) /\ join_strings(Tail(t), LF) \in Str
            /\ t[1] \in Entry
        BY <1>1, <4>1, JoinHead DEF jt
      <4>3. Append(t[1], LF) \in Str /\ Len(Append(t[1], LF)) >= 1
        BY <4>2, EntryFacts, AppendProperties DEF Str, LF
      <4> DEFINE u == Append(t[1], LF)
                 v == join_strings(Tail(t), LF)
      <4> HIDE DEF u, v
      <4>4. u \in Str /\ Len(u) >= 1 /\ v \in Str /\ jt = u \o v /\ Len(u) \in Nat /\ Len(v) \in Nat
        BY <4>2, <4>3, StrFacts DEF u, v
      <4>5. Len(jt) = Len(u) + Len(v)
        BY <4>4, Cat
      <4> QED
        BY <3>2, <4>4, <4>5
    <3>4. s = x
      BY <1>2, <1>8, <2>1, <3>2, SameStr DEF m
    <3>5. names = <<x>>
      BY <1>1, <3>3
    <3> QED
      BY <2>4, <3>4, <3>5
  <2> QED
    BY <2>8, <2>9 DEF SplitsAt, s, j
<1>11. CASE k > m
  <2> DEFINE l == k - (m + 1)
             r == SubSeq(jt, 1, l)
  <2>1. l \in Nat /\ l <= Len(jt) /\ k = m + 1 + l
    BY <1>2, <1>6, <1>7, <1>11
  <2>2. SplitsAt(t, l)
    BY <1>5, <2>1
  <2>3. m + 1 \in 1..Len(s) /\ s[m + 1] = LF /\ \A i \in 1..m : s[i] \notin {LF}
    <3>1. m + 1 \in 1..Len(s) /\ m + 1 \in 1..k /\ m + 1 \in 1..m + 1 /\ \A i \in 1..m : i \in 1..k /\ i \in 1..m + 1
      BY <1>2, <1>8, <2>1
    <3>2. s[m + 1] = LF
      BY <1>3, <1>6, <1>8, <3>1
    <3>3. \A i \in 1..m : s[i] = x[i]
      BY <1>3, <1>6, <1>8, <3>1
    <3> QED
      BY <1>2, <3>1, <3>2, <3>3
  <2>4. L = <<SubSeq(s, 1, m)>> \o Pieces(Drop(s, m + 1), {LF})
    <3>1. (m + 1) - 1 = m
      BY <1>2
    <3> QED
      BY <1>8, <2>3, <3>1, PiecesFirst DEF split_string
  <2>5. SubSeq(s, 1, m) = x
    <3>1. SubSeq(s, 1, m) \in Str /\ Len(SubSeq(s, 1, m)) = m /\ \A i \in 1..m : SubSeq(s, 1, m)[i] = s[i]
      BY <1>2, <1>8, <1>11, FirstPart
    <3>2. \A i \in 1..m : s[i] = x[i]
      BY <1>2, <1>3, <1>6, <1>8, <1>11
    <3> QED
      BY <1>2, <3>1, <3>2, SameStr DEF m
  <2>6. Drop(s, m + 1) = r
    <3>1. r \in Str /\ Len(r) = l /\ \A i \in 1..l : r[i] = jt[i]
      BY <1>1, <2>1, FirstPart
    <3>2. Drop(s, m + 1) \in Str /\ Len(Drop(s, m + 1)) = l /\ \A i \in 1..l : Drop(s, m + 1)[i] = s[i + (m + 1)]
      <4>1. m + 1 \in Nat /\ m + 1 <= Len(s) /\ Len(s) - (m + 1) = l
        BY <1>2, <1>8, <2>1
      <4> QED
        BY <1>8, <4>1, DropOf
    <3>3. ASSUME NEW i \in 1..l PROVE Drop(s, m + 1)[i] = r[i]
      <4>1. i + (m + 1) = m + 1 + i /\ i + (m + 1) \in 1..k /\ i \in 1..Len(jt)
        BY <1>2, <2>1
      <4> QED
        BY <1>6, <1>8, <3>1, <3>2, <4>1
    <3> QED
      BY <3>1, <3>2, <3>3, SameStr
  <2> DEFINE M == split_string(r, LF)
  <2>7. r \in Str
    BY <1>1, <2>1, FirstPart
  <2>8. M \in Seq(Str)
    BY <2>7, PiecesType DEF split_string
  <2>9. L = <<x>> \o M
    BY <2>4, <2>5, <2>6 DEF split_string
  <2>10. CutNames(M, t)
    BY <2>2 DEF SplitsAt, jt
  <2>11. Len(jt) - l <= (IF t = <<>> THEN 0 ELSE 1) => M = t
    BY <2>2 DEF SplitsAt, jt
  <2>12. CutNames(L, names)
    BY <1>1, <1>2, <1>4, <2>8, <2>9, <2>10, CutCons
  <2>13. Len(j) - k <= 1 => L = names
    <3>1. SUFFICES ASSUME Len(j) - k <= 1 PROVE M = t
      BY <1>1, <2>9
    <3>2. Len(jt) - l = Len(j) - k
      BY <1>2, <1>6, <2>1
    <3>3. CASE t = <<>>
      <4>1. Len(jt) = 0
        BY <3>3, JoinEmpty DEF jt
      <4> HIDE DEF l, M
      <4>2. Len(jt) - l <= 0
        BY <2>1, <4>1
      <4> QED
        BY <2>11, <3>3, <4>2
    <3>4. CASE t # <<>>
      BY <2>11, <3>1, <3>2, <3>4
    <3> QED
      BY <3>3, <3>4
  <2> HIDE DEF l, r, M
  <2> QED
    BY <2>12, <2>13 DEF SplitsAt, s, j
<1> QED
  BY <1>2, <1>9, <1>10, <1>11

LEMMA SplitPart ==
    ASSUME NEW names \in Seq(Entry), NEW k \in Nat, k <= Len(join_strings(names, LF))
    PROVE  SplitsAt(names, k)
<1> DEFINE Ok(ns) == \A l \in Nat : l <= Len(join_strings(ns, LF)) => SplitsAt(ns, l)
           T == {n \in Nat : \E ns \in Seq(Entry) : Len(ns) = n /\ ~Ok(ns)}
<1> HIDE DEF Ok
<1>1. SUFFICES ASSUME T # {} PROVE FALSE
  BY LenProperties DEF Ok
<1>2. PICK n \in T : \A y \in T : n <= y
  BY <1>1, LeastOf
<1>3. PICK ns \in Seq(Entry) : Len(ns) = n /\ ~Ok(ns)
  BY <1>2
<1>4. ns # <<>>
  BY <1>3, SplitNone DEF Ok
<1>5. Tail(ns) \in Seq(Entry) /\ Len(Tail(ns)) = n - 1 /\ n \in Nat /\ n - 1 \in Nat /\ ~(n <= n - 1)
  BY <1>2, <1>3, <1>4, JoinHead, LenProperties, EmptySeq
<1>6. n - 1 \notin T
  BY <1>2, <1>5
<1>7. Ok(Tail(ns))
  BY <1>5, <1>6
<1> QED
  BY <1>3, <1>4, <1>7, SplitCons DEF Ok

-----------------------------------------------------------------------------
(* split_string never makes more pieces than split_room counts.              *)

\* How often sep comes from i on.
Seps(s, sep, i) == {j \in i..Len(s) : s[j] = sep}
Count(s, sep, i) == Cardinality(Seps(s, sep, i))

LEMMA CountOf ==
    ASSUME NEW s \in Str, NEW sep, NEW i \in Nat
    PROVE  IsFiniteSet(Seps(s, sep, i)) /\ Count(s, sep, i) \in Nat
<1>1. Seps(s, sep, i) \subseteq i..Len(s) /\ Len(s) \in Nat
  BY StrFacts DEF Seps
<1>2. IsFiniteSet(i..Len(s))
  BY <1>1, FS_Interval
<1>3. IsFiniteSet(Seps(s, sep, i))
  BY <1>1, <1>2, FS_Subset
<1> QED
  BY <1>3, FS_CardinalityType DEF Count

LEMMA CountStep ==
    ASSUME NEW s \in Str, NEW sep, NEW i \in Nat, NEW e \in i..Len(s), s[e] = sep
    PROVE  Count(s, sep, e + 1) + 1 <= Count(s, sep, i)
<1> DEFINE A == Seps(s, sep, e + 1)
           B == A \cup {e}
           C == Seps(s, sep, i)
<1>1. e \in Nat /\ e + 1 \in Nat /\ Len(s) \in Nat
  BY StrFacts
<1>2. IsFiniteSet(A) /\ Cardinality(A) \in Nat /\ IsFiniteSet(C) /\ Cardinality(C) \in Nat
  BY <1>1, CountOf DEF Count
<1>3. e \notin A
  BY <1>1 DEF Seps
<1>4. Cardinality(B) = Cardinality(A) + 1
  BY <1>2, <1>3, FS_AddElement
<1>5. B \subseteq C
  BY <1>1 DEF Seps
<1>6. Cardinality(B) <= Cardinality(C)
  BY <1>2, <1>5, FS_Subset
<1> QED
  BY <1>4, <1>6 DEF Count

\* What a chain of pieces may be as long as from i on.
Room(s, sep, i) == Count(s, sep, i) + (IF s[Len(s)] = sep THEN 0 ELSE 1)

LEMMA PiecesFrom ==
    ASSUME NEW s \in Str, NEW sep, NEW f,
           IsChain(f, PieceParts(s, {sep}), PieceLinks(s, {sep}), Len(s), Len(s) + 2),
           NEW i \in 1..Len(s),
           \A k \in i + 1..Len(s) : Len(f[k]) <= Room(s, sep, k)
    PROVE  Len(f[i]) <= Room(s, sep, i)
<1> DEFINE n == Len(s)
           A == PieceParts(s, {sep})
           N == PieceLinks(s, {sep})
           e == EndOf(s, {sep}, i)
<1>1. n \in Nat /\ i \in Nat /\ i <= n
  BY StrFacts
<1>2. e \in i..n + 1 /\ (e <= n => s[e] = sep)
      /\ \A k \in i..e - 1 : s[k] # sep
  BY EndOfIs
<1>3. A[i] = <<SubSeq(s, i, e - 1)>> /\ N[i] = e + 1
  BY DEF PieceParts, PieceLinks
<1>4. \A k \in 1..n + 2 : f[k] = Link(A, N, n, f, k)
  BY <1>1 DEF IsChain
<1> HIDE DEF e, A, N
<1>5. f[i] = <<SubSeq(s, i, e - 1)>> \o f[e + 1]
  <2>1. i \in 1..n + 2 /\ ~(i > n)
    BY <1>1
  <2> QED
    BY <1>3, <1>4, <2>1 DEF Link
<1>6. \A k \in 1..n : A[k] \in Seq(Str)
  <2>1. SUFFICES ASSUME NEW k \in 1..n PROVE A[k] \in Seq(Str)
    OBVIOUS
  <2>2. A[k] = <<SubSeq(s, k, EndOf(s, {sep}, k) - 1)>>
    BY DEF A, PieceParts
  <2>3. EndOf(s, {sep}, k) \in k..n + 1
    BY EndOfIs
  <2>4. SubSeq(s, (k - 1) + 1, EndOf(s, {sep}, k) - 1) \in Str
    <3>1. k - 1 \in Nat /\ EndOf(s, {sep}, k) - 1 \in Nat /\ k - 1 <= EndOf(s, {sep}, k) - 1
          /\ EndOf(s, {sep}, k) - 1 <= Len(s)
      BY <1>1, <2>3
    <3> QED
      BY <3>1, Part
  <2>5. (k - 1) + 1 = k
    BY <1>1
  <2> QED
    BY <2>2, <2>4, <2>5
<1>7. f[e + 1] \in Seq(Str) /\ e + 1 \in 1..n + 2
  <2>1. e + 1 \in 1..n + 2
    BY <1>1, <1>2
  <2>2. Linked(N, n, n + 2)
    BY PieceLinked DEF N
  <2>3. \A k \in 1..n + 2 : f[k] \in Seq(Str)
    <3>1. IsChain(f, A, N, n, n + 2) /\ n + 2 \in Nat
      BY <1>1 DEF A, N
    <3> HIDE DEF n
    <3> QED
      BY ONLY <1>1, <1>6, <2>2, <3>1, ChainType
  <2> QED
    BY <2>1, <2>3
<1>8. SubSeq(s, i, e - 1) \in Str
  <2>1. i - 1 \in Nat /\ e - 1 \in Nat /\ i - 1 <= e - 1 /\ e - 1 <= n /\ (i - 1) + 1 = i
    BY <1>1, <1>2
  <2>2. SubSeq(s, (i - 1) + 1, e - 1) \in Str
    BY <2>1, Part
  <2> QED
    BY <2>1, <2>2
<1>9. Len(f[i]) = Len(f[e + 1]) + 1 /\ Len(f[e + 1]) \in Nat
  BY <1>5, <1>7, <1>8, PrependSeq DEF Prepended
<1>10. Count(s, sep, i) \in Nat
  BY <1>1, CountOf
<1>11. CASE e + 1 > n
  <2>1. f[e + 1] = <<>>
    BY <1>4, <1>7, <1>11 DEF Link
  <2>2. Len(f[i]) = 1
    BY <1>9, <2>1
  <2>3. CASE s[n] = sep
    <3>1. Count(s, sep, n + 1) + 1 <= Count(s, sep, i) /\ Count(s, sep, n + 1) \in Nat
      BY <1>1, <2>3, CountStep, CountOf
    <3> QED
      BY <1>10, <2>2, <2>3, <3>1 DEF Room
  <2>4. CASE s[n] # sep
    BY <1>10, <2>2, <2>4 DEF Room
  <2> QED
    BY <2>3, <2>4
<1>12. CASE e + 1 <= n
  <2>1. e \in i..n /\ s[e] = sep /\ e + 1 \in i + 1..n /\ e + 1 \in Nat
    BY <1>1, <1>2, <1>12
  <2>2. Len(f[e + 1]) <= Room(s, sep, e + 1)
    BY <2>1
  <2>3. Count(s, sep, e + 1) + 1 <= Count(s, sep, i) /\ Count(s, sep, e + 1) \in Nat
    BY <1>1, <2>1, CountStep, CountOf
  <2> QED
    BY <1>9, <1>10, <2>2, <2>3 DEF Room
<1> QED
  BY <1>1, <1>2, <1>11, <1>12

LEMMA SplitFitsRoom ==
    ASSUME NEW s \in Str, NEW sep
    PROVE  Len(split_string(s, sep)) <= split_room(s, sep)
<1> DEFINE n == Len(s)
<1>1. n \in Nat /\ DOMAIN s = 1..n
  BY StrFacts
<1>2. CASE s = <<>>
  <2>1. split_string(s, sep) = <<>>
    BY <1>2, PiecesEmpty DEF split_string
  <2>2. {i \in DOMAIN s : s[i] = sep} = {}
    BY <1>2
  <2>3. split_room(s, sep) = 1
    BY <1>2, <2>2, FS_EmptySet DEF split_room
  <2> QED
    BY <2>1, <2>3
<1>3. CASE s # <<>>
  <2>1. n \in Nat /\ n # 0
    BY <1>1, <1>3, StrFacts
  <2>2. PICK f : IsChain(f, PieceParts(s, {sep}), PieceLinks(s, {sep}), n, n + 2)
                 /\ Pieces(s, {sep}) = f[1]
    BY PieceChain
  <2> DEFINE Ok(i) == Len(f[i]) <= Room(s, sep, i)
             T == {d \in Nat : \E i \in 1..n : i + d = n /\ ~Ok(i)}
  <2> HIDE DEF Ok
  <2>3. T = {}
    <3>1. SUFFICES ASSUME T # {} PROVE FALSE
      OBVIOUS
    <3>2. PICK d \in T : \A y \in T : d <= y
      BY <3>1, LeastOf
    <3>3. PICK i \in 1..n : i + d = n /\ ~Ok(i)
      BY <3>2
    <3>4. ASSUME NEW k \in i + 1..n PROVE Ok(k)
      <4>1. n - k \in Nat /\ ~(d <= n - k) /\ k + (n - k) = n /\ k \in 1..n
        BY <2>1, <3>2, <3>3, SMTT(30)
      <4>2. n - k \notin T
        BY <3>2, <4>1
      <4> QED
        BY <4>1, <4>2
    <3> QED
      BY <2>2, <3>3, <3>4, PiecesFrom DEF Ok
  <2>4. Ok(1)
    <3>1. n - 1 \in Nat /\ 1 + (n - 1) = n /\ 1 \in 1..n
      BY <2>1
    <3> QED
      BY <2>3, <3>1
  <2>5. Len(split_string(s, sep)) <= Room(s, sep, 1)
    BY <2>2, <2>4 DEF Ok, split_string
  <2>6. Count(s, sep, 1) = Cardinality({i \in DOMAIN s : s[i] = sep}) /\ Count(s, sep, 1) \in Nat
    BY <1>1, CountOf DEF Count, Seps
  <2>7. Last(s) = s[n]
    BY DEF Last
  <2>8. split_room(s, sep) = Room(s, sep, 1)
    BY <1>3, <2>6, <2>7 DEF split_room, Room
  <2> QED
    BY <2>5, <2>8
<1> QED
  BY <1>2, <1>3

-----------------------------------------------------------------------------
(* query_encode, and query_decode of what it returns.                        *)

LEMMA Shortest ==
    ASSUME NEW S, NEW T \in SUBSET Seq(S), T # {}
    PROVE  \E x \in T : \A y \in T : Len(x) <= Len(y)
<1> DEFINE L == {Len(x) : x \in T}
<1>1. L \in SUBSET Nat /\ L # {}
  BY LenProperties
<1>2. PICK m \in L : \A y \in L : m <= y
  BY <1>1, LeastOf
<1> QED
  BY <1>2

LEMMA Uncons ==
    ASSUME NEW S, NEW x \in Seq(S), x # <<>>
    PROVE  /\ x[1] \in S /\ Tail(x) \in Seq(S) /\ Len(Tail(x)) = Len(x) - 1
           /\ x = <<x[1]>> \o Tail(x)
           /\ ~(Len(x) <= Len(Tail(x)))
<1> DEFINE t == Tail(x)
           c == <<x[1]>> \o t
<1>1. Len(x) \in Nat /\ Len(x) # 0
  BY EmptySeq, LenProperties
<1>2. x[1] \in S
  BY <1>1, ElementOfSeq
<1>3. t \in Seq(S) /\ Len(t) = Len(x) - 1 /\ \A i \in 1..Len(x) - 1 : t[i] = x[i + 1]
  BY HeadTailProperties
<1> HIDE DEF t
<1>4. Prepended(c, x[1], t, S)
  BY <1>2, <1>3, PrependSeq
<1> HIDE DEF c
<1>5. c \in Seq(S) /\ Len(c) = Len(x) /\ c[1] = x[1] /\ \A i \in 1..Len(x) - 1 : c[i + 1] = t[i]
  BY <1>1, <1>3, <1>4 DEF Prepended
<1>6. ASSUME NEW i \in 1..Len(x) PROVE c[i] = x[i]
  <2>1. CASE i = 1
    BY <1>5, <2>1
  <2>2. CASE i # 1
    <3>1. i - 1 \in 1..Len(x) - 1 /\ (i - 1) + 1 = i
      BY <1>1, <2>2
    <3>2. c[(i - 1) + 1] = t[i - 1] /\ t[i - 1] = x[(i - 1) + 1]
      BY <1>3, <1>5, <3>1
    <3> QED
      BY <3>1, <3>2
  <2> QED
    BY <2>1, <2>2
<1>7. c = x
  BY <1>5, <1>6, SeqEqual
<1>8. ~(Len(x) <= Len(t))
  BY <1>1, <1>3
<1>9. t \in Seq(S) /\ Len(t) = Len(x) - 1
  BY <1>3
<1> QED
  BY <1>2, <1>7, <1>8, <1>9 DEF c, t

LEMMA DropCat ==
    ASSUME NEW u \in Str, NEW s \in Str
    PROVE  Drop(u \o s, Len(u)) = s
<1> DEFINE v == u \o s
<1>1. v \in Str /\ Len(v) = Len(u) + Len(s) /\ \A i \in 1..Len(s) : v[Len(u) + i] = s[i]
  BY Cat
<1>2. Len(u) \in Nat /\ Len(s) \in Nat
  BY StrFacts
<1> HIDE DEF v
<1>3. Len(u) <= Len(v) /\ Len(v) - Len(u) = Len(s)
  BY <1>1, <1>2
<1>4. Drop(v, Len(u)) \in Str /\ Len(Drop(v, Len(u))) = Len(s)
      /\ \A i \in 1..Len(s) : Drop(v, Len(u))[i] = v[i + Len(u)]
  <2>1. /\ Drop(v, Len(u)) \in Str /\ Len(Drop(v, Len(u))) = Len(v) - Len(u)
        /\ \A i \in 1..Len(v) - Len(u) : Drop(v, Len(u))[i] = v[i + Len(u)]
    BY <1>1, <1>2, <1>3, DropOf
  <2> QED
    BY <1>3, <2>1
<1>5. \A i \in 1..Len(s) : i + Len(u) = Len(u) + i
  BY <1>2
<1>6. \A i \in 1..Len(s) : Drop(v, Len(u))[i] = s[i]
  BY <1>1, <1>4, <1>5
<1>7. Drop(v, Len(u)) = s
  BY <1>4, <1>6, SameStr
<1> QED
  BY <1>7 DEF v

Byte == 1..255

\* What one byte is sent as.
Enc(c) == IF IsAlnum(c) THEN <<c>> ELSE <<Percent, hex_digit(c \div 16), hex_digit(c % 16)>>

\* The bytes that query_encode uses.
EncBytes == Digit \cup Upper \cup Lower \cup {Percent}

LEMMA Hex ==
    ASSUME NEW v \in 0..15
    PROVE  /\ hex_digit(v) \in EncBytes /\ ishexdigit(hex_digit(v)) /\ hex_value(hex_digit(v)) = v
<1>1. CASE v < 10
  <2>1. hex_digit(v) = 48 + v /\ 48 + v \in 48..57
    BY <1>1 DEF hex_digit
  <2> QED
    BY <1>1, <2>1 DEF EncBytes, Digit, ishexdigit, hex_value
<1>2. CASE ~(v < 10)
  <2>1. hex_digit(v) = 97 + (v - 10) /\ 97 + (v - 10) \in 97..102
    BY <1>2 DEF hex_digit
  <2>2. hex_digit(v) \in 97..122 /\ hex_digit(v) \notin 48..57 /\ hex_digit(v) \notin 65..70
    BY <2>1
  <2>3. hex_value(hex_digit(v)) = v
    BY <1>2, <2>1, <2>2 DEF Digit, hex_value
  <2> QED
    BY <2>1, <2>2, <2>3 DEF EncBytes, Lower, ishexdigit
<1> QED
  BY <1>1, <1>2

LEMMA Nibbles ==
    ASSUME NEW c \in Byte
    PROVE  c \div 16 \in 0..15 /\ c % 16 \in 0..15 /\ (c \div 16) * 16 + (c % 16) = c
<1>1. c \in Nat /\ c <= 255
  BY DEF Byte
<1>2. /\ c \div 16 \in Nat /\ c % 16 \in Nat /\ c % 16 <= 15
      /\ c = 16 * (c \div 16) + (c % 16)
  BY <1>1
<1> DEFINE h == c \div 16
           l == c % 16
<1> HIDE DEF h, l
<1>3. h \in Nat /\ l \in Nat /\ l <= 15 /\ c = 16 * h + l
  BY <1>2 DEF h, l
<1>4. h \in 0..15 /\ l \in 0..15 /\ h * 16 + l = c
  BY <1>1, <1>3
<1> QED
  BY <1>4 DEF h, l

LEMMA EncBytesFacts ==
    /\ EncBytes \subseteq Nat
    /\ \A c \in EncBytes : c <= 255 /\ c \notin {NUL, LF, CR, SP, Hash, Amp, Plus, Semicolon, Equal, Query, Colon}
BY DEF EncBytes, Digit, Upper, Lower, Percent, NUL, LF, CR, SP, Hash, Amp, Plus, Semicolon, Equal, Query, Colon

LEMMA EncType ==
    ASSUME NEW c \in Byte
    PROVE  Enc(c) \in Seq(EncBytes) /\ Enc(c) \in Str
<1>1. Enc(c) \in Seq(EncBytes)
  <2>1. CASE IsAlnum(c)
    <3>1. c \in EncBytes
      BY <2>1 DEF IsAlnum, EncBytes, Byte
    <3> QED
      BY <2>1, <3>1 DEF Enc
  <2>2. CASE ~IsAlnum(c)
    <3>1. Percent \in EncBytes /\ hex_digit(c \div 16) \in EncBytes /\ hex_digit(c % 16) \in EncBytes
      BY Hex, Nibbles DEF EncBytes
    <3> HIDE DEF EncBytes
    <3> QED
      BY <2>2, <3>1 DEF Enc
  <2> QED
    BY <2>1, <2>2
<1> QED
  BY <1>1, EncBytesFacts, SeqMonotonic DEF Str

LEMMA DecodeEnc ==
    ASSUME NEW c \in Byte, NEW s \in Str
    PROVE  query_decode(Enc(c) \o s) = <<c>> \o query_decode(s)
<1> DEFINE d == Enc(c) \o s
           n == Len(Enc(c))
<1>1. Enc(c) \in Str /\ n \in Nat /\ Len(s) \in Nat
  BY EncType, StrFacts
<1>2. d \in Str /\ Len(d) = n + Len(s) /\ (\A i \in 1..n : d[i] = Enc(c)[i])
  BY <1>1, Cat
<1>3. n >= 1
  BY DEF Enc
<1>4. Drop(d, n) = s
  BY <1>1, DropCat
<1> HIDE DEF d
<1>5. d # <<>>
  BY <1>1, <1>2, <1>3
<1>6. query_decode(d) = <<Decoded(d, 1)>> \o query_decode(Drop(d, IF Escape(d, 1) THEN 3 ELSE 1))
  BY <1>2, <1>5, DecodeStep
<1>7. CASE IsAlnum(c)
  <2>1. Enc(c) = <<c>> /\ n = 1 /\ Enc(c)[1] = c
    BY <1>7 DEF Enc
  <2>2. d[1] = c
    BY <1>2, <2>1
  <2>3. c # Percent /\ c # Plus
    BY <1>7 DEF IsAlnum, Digit, Upper, Lower, Percent, Plus, Byte
  <2>4. ~Escape(d, 1) /\ Decoded(d, 1) = c
    BY <2>2, <2>3 DEF Escape, Decoded
  <2> QED
    BY <1>4, <1>6, <2>1, <2>4 DEF d
<1>8. CASE ~IsAlnum(c)
  <2> DEFINE h == hex_digit(c \div 16)
             l == hex_digit(c % 16)
  <2>1. Enc(c) = <<Percent, h, l>> /\ n = 3 /\ Enc(c)[1] = Percent /\ Enc(c)[2] = h /\ Enc(c)[3] = l
    BY <1>8 DEF Enc
  <2>2. d[1] = Percent /\ d[2] = h /\ d[3] = l
    BY <1>2, <2>1
  <2>3. ishexdigit(h) /\ ishexdigit(l) /\ hex_value(h) = c \div 16 /\ hex_value(l) = c % 16
    BY Hex, Nibbles
  <2>4. 1 + 1 = 2 /\ 1 + 2 = 3 /\ 3 <= Len(d)
    BY <1>1, <1>2, <2>1
  <2> HIDE DEF h, l
  <2>5. Escape(d, 1)
    BY <2>2, <2>3, <2>4 DEF Escape
  <2>6. Decoded(d, 1) = hex_value(h) * 16 + hex_value(l)
    BY <2>2, <2>4, <2>5 DEF Decoded
  <2>7. Decoded(d, 1) = c
    <3>1. Decoded(d, 1) = (c \div 16) * 16 + (c % 16)
      BY <2>3, <2>6
    <3> QED
      BY <3>1, Nibbles
  <2> QED
    BY <1>4, <1>6, <2>1, <2>5, <2>7 DEF d
<1> QED
  BY <1>7, <1>8

\* The sequence of what the bytes of x are sent as.
Encs(x) == [i \in DOMAIN x |-> Enc(x[i])]

LEMMA EncsOf ==
    ASSUME NEW x \in Seq(Byte)
    PROVE  /\ Encs(x) \in Seq(Seq(EncBytes)) /\ Len(Encs(x)) = Len(x)
           /\ \A i \in 1..Len(x) : Encs(x)[i] = Enc(x[i])
           /\ query_encode(x) = FlattenSeq(Encs(x))
           /\ query_encode(x) \in Seq(EncBytes) /\ query_encode(x) \in Str
<1>1. Len(x) \in Nat /\ DOMAIN x = 1..Len(x) /\ \A i \in 1..Len(x) : x[i] \in Byte
  BY LenProperties, ElementOfSeq
<1>2. \A i \in 1..Len(x) : Enc(x[i]) \in Seq(EncBytes)
  BY <1>1, EncType
<1>3. Encs(x) \in Seq(Seq(EncBytes)) /\ Len(Encs(x)) = Len(x) /\ \A i \in 1..Len(x) : Encs(x)[i] = Enc(x[i])
  BY <1>1, <1>2 DEF Encs
<1>4. query_encode(x) = FlattenSeq(Encs(x))
  BY DEF query_encode, Encs, Enc
<1>5. query_encode(x) \in Seq(EncBytes)
  BY <1>3, <1>4, FlattenType
<1> QED
  BY <1>3, <1>4, <1>5, EncBytesFacts, SeqMonotonic DEF Str

LEMMA EncodeCons ==
    ASSUME NEW x \in Seq(Byte), x # <<>>
    PROVE  query_encode(x) = Enc(x[1]) \o query_encode(Tail(x))
<1> DEFINE t == Tail(x)
           c == x[1]
<1>1. c \in Byte /\ t \in Seq(Byte) /\ Len(t) = Len(x) - 1 /\ Len(x) \in Nat /\ Len(x) # 0
  BY Uncons, LenProperties, EmptySeq
<1>2. \A i \in 1..Len(x) - 1 : t[i] = x[i + 1]
  BY HeadTailProperties
<1> HIDE DEF t, c
<1>3. Encs(x) \in Seq(Seq(EncBytes)) /\ Len(Encs(x)) = Len(x) /\ \A i \in 1..Len(x) : Encs(x)[i] = Enc(x[i])
  BY EncsOf
<1>4. Encs(t) \in Seq(Seq(EncBytes)) /\ Len(Encs(t)) = Len(x) - 1 /\ \A i \in 1..Len(x) - 1 : Encs(t)[i] = Enc(t[i])
  BY <1>1, EncsOf
<1>5. Enc(c) \in Seq(EncBytes)
  BY <1>1, EncType
<1> DEFINE u == <<Enc(c)>> \o Encs(t)
<1>6. Prepended(u, Enc(c), Encs(t), Seq(EncBytes))
  BY <1>4, <1>5, PrependSeq
<1> HIDE DEF u
<1>7. u \in Seq(Seq(EncBytes)) /\ Len(u) = Len(x) /\ u[1] = Enc(c) /\ \A i \in 1..Len(x) - 1 : u[i + 1] = Encs(t)[i]
  BY <1>1, <1>4, <1>6 DEF Prepended
<1>8. ASSUME NEW i \in 1..Len(x) PROVE Encs(x)[i] = u[i]
  <2>1. CASE i = 1
    BY <1>3, <1>7, <2>1 DEF c
  <2>2. CASE i # 1
    <3>1. i - 1 \in 1..Len(x) - 1 /\ (i - 1) + 1 = i
      BY <1>1, <2>2
    <3>2. u[(i - 1) + 1] = Encs(t)[i - 1] /\ Encs(t)[i - 1] = Enc(t[i - 1]) /\ t[i - 1] = x[(i - 1) + 1]
      BY <1>2, <1>4, <1>7, <3>1
    <3> QED
      BY <1>3, <3>1, <3>2
  <2> QED
    BY <2>1, <2>2
<1>9. Encs(x) = u
  BY <1>3, <1>7, <1>8, SeqEqual
<1>10. FlattenSeq(u) = Enc(c) \o FlattenSeq(Encs(t))
  BY <1>4, <1>5, FlattenCons DEF u
<1>11. query_encode(x) = FlattenSeq(Encs(x)) /\ query_encode(t) = FlattenSeq(Encs(t))
  BY <1>1, EncsOf
<1> QED
  BY <1>9, <1>10, <1>11 DEF c, t

LEMMA EncodeEmpty == query_encode(<<>>) = <<>>
<1>1. <<>> \in Seq(Byte)
  OBVIOUS
<1>2. Encs(<<>>) \in Seq(Seq(EncBytes)) /\ Len(Encs(<<>>)) = 0 /\ query_encode(<<>>) = FlattenSeq(Encs(<<>>))
  BY <1>1, EncsOf
<1>3. Encs(<<>>) = <<>>
  BY <1>2, EmptySeq
<1> QED
  BY <1>2, <1>3, FlattenEmpty

\* What query_encode returns, query_decode takes back.
LEMMA DecodeEncode ==
    ASSUME NEW x \in Seq(Byte)
    PROVE  query_decode(query_encode(x)) = x
<1> DEFINE T == {y \in Seq(Byte) : query_decode(query_encode(y)) # y}
<1>1. SUFFICES ASSUME T # {} PROVE FALSE
  OBVIOUS
<1>2. T \in SUBSET Seq(Byte)
  OBVIOUS
<1>3. PICK y \in T : \A z \in T : Len(y) <= Len(z)
  BY <1>1, <1>2, Shortest
<1>4. y \in Seq(Byte) /\ query_decode(query_encode(y)) # y
  OBVIOUS
<1>5. y # <<>>
  BY <1>4, EncodeEmpty, DecodeEmpty
<1>6. /\ y[1] \in Byte /\ Tail(y) \in Seq(Byte) /\ y = <<y[1]>> \o Tail(y)
      /\ ~(Len(y) <= Len(Tail(y)))
  BY <1>4, <1>5, Uncons
<1>7. Tail(y) \notin T
  BY <1>3, <1>6
<1>8. query_decode(query_encode(Tail(y))) = Tail(y)
  BY <1>6, <1>7
<1>9. query_encode(y) = Enc(y[1]) \o query_encode(Tail(y))
  BY <1>4, <1>5, EncodeCons
<1>10. query_encode(Tail(y)) \in Str
  BY <1>6, EncsOf
<1>11. query_decode(query_encode(y)) = <<y[1]>> \o query_decode(query_encode(Tail(y)))
  BY <1>6, <1>9, <1>10, DecodeEnc
<1> QED
  BY <1>4, <1>6, <1>8, <1>11

-----------------------------------------------------------------------------
(* entity_encode, and the text that is found again in what it returns.       *)

EntityLen(s, i) == IF Taken(s, i) = {} THEN 1 ELSE Len(Entity(TextAt(s, i)))
EntityParts(s) == [i \in 1..Len(s) |-> <<TextAt(s, i)>>]
EntityLinks(s) == [i \in 1..Len(s) |-> i + EntityLen(s, i)]

\* The bytes of an entity, of which the second tells it from the others.
LEMMA Entities ==
    /\ Len(Entity(Less)) = 4 /\ Entity(Less)[1] = Amp /\ Entity(Less)[2] = 108
    /\ Len(Entity(Greater)) = 4 /\ Entity(Greater)[1] = Amp /\ Entity(Greater)[2] = 103
    /\ Len(Entity(Amp)) = 5 /\ Entity(Amp)[1] = Amp /\ Entity(Amp)[2] = 97
    /\ Len(Entity(Quote)) = 6 /\ Entity(Quote)[1] = Amp /\ Entity(Quote)[2] = 113
<1> USE DEF Less, Greater, Amp, Quote, Entity
<1>1. Len(Entity(Less)) = 4 /\ Entity(Less)[1] = Amp /\ Entity(Less)[2] = 108
  OBVIOUS
<1>2. Len(Entity(Greater)) = 4 /\ Entity(Greater)[1] = Amp /\ Entity(Greater)[2] = 103
  OBVIOUS
<1>3. Len(Entity(Amp)) = 5 /\ Entity(Amp)[1] = Amp /\ Entity(Amp)[2] = 97
  OBVIOUS
<1>4. Len(Entity(Quote)) = 6 /\ Entity(Quote)[1] = Amp /\ Entity(Quote)[2] = 113
  OBVIOUS
<1> HIDE DEF Less, Greater, Amp, Quote, Entity
<1> QED
  BY <1>1, <1>2, <1>3, <1>4

LEMMA EntityOf ==
    ASSUME NEW c \in EntityBytes
    PROVE  /\ Len(Entity(c)) \in 4..6 /\ Entity(c)[1] = Amp
           /\ \A d \in EntityBytes : Entity(d)[2] = Entity(c)[2] => d = c
<1>1. ASSUME NEW d \in EntityBytes
      PROVE  d = Less \/ d = Greater \/ d = Amp \/ d = Quote
  BY DEF EntityBytes
<1>2. Len(Entity(c)) \in 4..6 /\ Entity(c)[1] = Amp
  BY <1>1, Entities
<1>3. ASSUME NEW d \in EntityBytes, Entity(d)[2] = Entity(c)[2]
      PROVE  d = c
  <2>1. Entity(c)[2] = IF c = Less THEN 108 ELSE IF c = Greater THEN 103 ELSE IF c = Amp THEN 97 ELSE 113
    BY <1>1, Entities
  <2>2. Entity(d)[2] = IF d = Less THEN 108 ELSE IF d = Greater THEN 103 ELSE IF d = Amp THEN 97 ELSE 113
    BY <1>1, Entities
  <2> QED
    BY <1>1, <1>3, <2>1, <2>2
<1> QED
  BY <1>2, <1>3

LEMMA EntityTypes ==
    ASSUME NEW c \in Byte
    PROVE  /\ Entity(c) \in Seq(Byte \ {Less, Greater, Quote}) /\ Entity(c) \in Str
           /\ c \notin EntityBytes => Entity(c) = <<c>>
<1> DEFINE S == Byte \ {Less, Greater, Quote}
<1>1. S \subseteq Nat /\ Amp \in S /\ Semicolon \in S /\ 97..122 \subseteq S
  BY DEF Byte, Less, Greater, Quote, Amp, Semicolon
<1>2. ASSUME c = Less PROVE Entity(c) \in Seq(S)
  <2>1. Entity(c) = <<Amp, 108, 116, Semicolon>>
    BY <1>2 DEF Entity, Less, Greater, Amp, Quote
  <2>2. 108 \in S /\ 116 \in S
    BY <1>1
  <2> HIDE DEF S
  <2> QED
    BY <1>1, <2>1, <2>2
<1>3. ASSUME c = Greater PROVE Entity(c) \in Seq(S)
  <2>1. Entity(c) = <<Amp, 103, 116, Semicolon>>
    BY <1>3 DEF Entity, Less, Greater, Amp, Quote
  <2>2. 103 \in S /\ 116 \in S
    BY <1>1
  <2> HIDE DEF S
  <2> QED
    BY <1>1, <2>1, <2>2
<1>4. ASSUME c = Amp PROVE Entity(c) \in Seq(S)
  <2>1. Entity(c) = <<Amp, 97, 109, 112, Semicolon>>
    BY <1>4 DEF Entity, Less, Greater, Amp, Quote
  <2>2. 97 \in S /\ 109 \in S /\ 112 \in S
    BY <1>1
  <2> HIDE DEF S
  <2> QED
    BY <1>1, <2>1, <2>2
<1>5. ASSUME c = Quote PROVE Entity(c) \in Seq(S)
  <2>1. Entity(c) = <<Amp, 113, 117, 111, 116, Semicolon>>
    BY <1>5 DEF Entity, Less, Greater, Amp, Quote
  <2>2. 113 \in S /\ 117 \in S /\ 111 \in S /\ 116 \in S
    BY <1>1
  <2> HIDE DEF S
  <2> QED
    BY <1>1, <2>1, <2>2
<1>6. ASSUME c \notin EntityBytes PROVE Entity(c) \in Seq(S)
  <2>1. Entity(c) = <<c>>
    BY <1>6 DEF EntityBytes, Entity
  <2>2. c \in S
    BY <1>6 DEF EntityBytes
  <2> HIDE DEF S
  <2> QED
    BY <2>1, <2>2
<1>7. Entity(c) \in Seq(S)
  BY <1>2, <1>3, <1>4, <1>5, <1>6 DEF EntityBytes
<1>8. Entity(c) \in Str
  <2> HIDE DEF S
  <2> QED
    BY <1>1, <1>7, SeqMonotonic DEF Str
<1>9. c \notin EntityBytes => Entity(c) = <<c>>
  BY DEF EntityBytes, Entity
<1> QED
  BY <1>7, <1>8, <1>9

LEMMA TakenOf ==
    ASSUME NEW s \in Str, NEW i \in 1..Len(s)
    PROVE  /\ \A c \in Taken(s, i) : Len(Entity(c)) <= Len(s) - i + 1 /\ c \in EntityBytes
           /\ Taken(s, i) # {} => TextAt(s, i) \in Taken(s, i)
           /\ EntityLen(s, i) \in Nat /\ EntityLen(s, i) >= 1 /\ i + EntityLen(s, i) <= Len(s) + 1
<1>1. Len(s) \in Nat /\ i - 1 \in Nat /\ i - 1 <= Len(s) /\ (i - 1) + 1 = i
  BY StrFacts
<1>2. Len(SubSeq(s, (i - 1) + 1, Len(s))) = Len(s) - (i - 1)
  BY <1>1, Part
<1>3. Len(SubSeq(s, i, Len(s))) = Len(s) - i + 1
  BY <1>1, <1>2
<1>4. \A c \in Taken(s, i) : Len(Entity(c)) <= Len(s) - i + 1 /\ c \in EntityBytes
  BY <1>3 DEF Taken, IsPrefix
<1>5. Taken(s, i) # {} => TextAt(s, i) \in Taken(s, i)
  BY DEF TextAt
<1>6. EntityLen(s, i) \in Nat /\ EntityLen(s, i) >= 1 /\ i + EntityLen(s, i) <= Len(s) + 1
  <2>1. CASE Taken(s, i) = {}
    BY <1>1, <2>1 DEF EntityLen
  <2>2. CASE Taken(s, i) # {}
    <3>1. Len(Entity(TextAt(s, i))) \in 4..6 /\ Len(Entity(TextAt(s, i))) <= Len(s) - i + 1
      BY <1>4, <1>5, <2>2, EntityOf
    <3>2. EntityLen(s, i) = Len(Entity(TextAt(s, i)))
      BY <2>2 DEF EntityLen
    <3> QED
      BY <1>1, <3>1, <3>2
  <2> QED
    BY <2>1, <2>2
<1> QED
  BY <1>4, <1>5, <1>6

LEMMA EntityLinked ==
    ASSUME NEW s \in Str
    PROVE  Linked(EntityLinks(s), Len(s), Len(s) + 1)
<1>1. ASSUME NEW i \in 1..Len(s) PROVE EntityLinks(s)[i] \in i + 1..Len(s) + 1
  <2>1. EntityLen(s, i) \in Nat /\ EntityLen(s, i) >= 1 /\ i + EntityLen(s, i) <= Len(s) + 1 /\ Len(s) \in Nat
    BY TakenOf, StrFacts
  <2>2. EntityLinks(s)[i] = i + EntityLen(s, i)
    BY DEF EntityLinks
  <2> QED
    BY <2>1, <2>2
<1> QED
  BY <1>1 DEF Linked

LEMMA EntityChain ==
    ASSUME NEW s \in Str
    PROVE  \E f : IsChain(f, EntityParts(s), EntityLinks(s), Len(s), Len(s) + 1)
                  /\ EntityDecoded(s) = f[1]
<1> DEFINE n == Len(s)
           Is(f) == f = [i \in 1..n + 1 |->
                           IF i > n THEN <<>>
                           ELSE <<TextAt(s, i)>> \o f[i + IF Taken(s, i) = {} THEN 1 ELSE Len(Entity(TextAt(s, i)))]]
           from == CHOOSE f : Is(f)
<1>1. n \in Nat
  BY StrFacts
<1>2. ASSUME NEW f PROVE Is(f) <=> IsChain(f, EntityParts(s), EntityLinks(s), n, n + 1)
  <2>1. \A i \in 1..n + 1 : ~(i > n) => i \in 1..n
    BY <1>1
  <2>2. \A i \in 1..n : EntityParts(s)[i] = <<TextAt(s, i)>>
                        /\ EntityLinks(s)[i] = i + IF Taken(s, i) = {} THEN 1 ELSE Len(Entity(TextAt(s, i)))
    BY DEF EntityParts, EntityLinks, EntityLen
  <2>3. ASSUME NEW i \in 1..n + 1
        PROVE  Link(EntityParts(s), EntityLinks(s), n, f, i)
                 = IF i > n THEN <<>>
                   ELSE <<TextAt(s, i)>> \o f[i + IF Taken(s, i) = {} THEN 1 ELSE Len(Entity(TextAt(s, i)))]
    BY <2>1, <2>2 DEF Link
  <2> QED
    BY <2>3 DEF IsChain
<1>3. \E f : Is(f)
  BY <1>1, <1>2, EntityLinked, ChainExists, n + 1 \in Nat
<1>4. Is(from)
  BY <1>3
<1>5. EntityDecoded(s) = from[1]
  BY DEF EntityDecoded
<1> HIDE DEF from, Is
<1> QED
  BY <1>2, <1>4, <1>5

LEMMA EntityNone == EntityDecoded(<<>>) = <<>>
<1>1. <<>> \in Str /\ Len(<<>>) = 0
  BY EmptySeq DEF Str
<1>2. PICK f : IsChain(f, EntityParts(<<>>), EntityLinks(<<>>), Len(<<>>), Len(<<>>) + 1)
               /\ EntityDecoded(<<>>) = f[1]
  BY <1>1, EntityChain
<1>3. f[1] = Link(EntityParts(<<>>), EntityLinks(<<>>), 0, f, 1)
  BY <1>1, <1>2 DEF IsChain
<1>4. f[1] = <<>>
  BY <1>3 DEF Link
<1> QED
  BY <1>2, <1>4

LEMMA TakenDrop ==
    ASSUME NEW s \in Str, NEW k \in Nat, k <= Len(s), NEW i \in 1..Len(s) - k
    PROVE  Taken(Drop(s, k), i) = Taken(s, i + k) /\ TextAt(Drop(s, k), i) = TextAt(s, i + k)
           /\ EntityLen(Drop(s, k), i) = EntityLen(s, i + k)
<1> DEFINE t == Drop(s, k)
<1>1. t \in Str /\ Len(t) = Len(s) - k /\ Len(s) \in Nat /\ t[i] = s[i + k]
  BY DropOf, StrFacts
<1>2. SubSeq(t, i, Len(t)) = SubSeq(s, i + k, Len(s))
  <2> DEFINE j == i - 1
             n == Len(s)
  <2>1. j \in Nat /\ n \in Nat /\ k <= n /\ j <= n - k /\ n - k \in Nat
    BY <1>1
  <2>2. SubSeq(SubSeq(s, k + 1, n), j + 1, n - k) = SubSeq(s, k + j + 1, k + (n - k))
    BY <2>1, PartOfPart
  <2>3. j + 1 = i /\ k + j + 1 = i + k /\ k + (n - k) = n
    BY <1>1
  <2> QED
    BY <1>1, <2>2, <2>3 DEF Drop
<1> HIDE DEF t
<1>3. Taken(t, i) = Taken(s, i + k)
  BY <1>2 DEF Taken
<1>4. TextAt(t, i) = TextAt(s, i + k)
  BY <1>1, <1>3 DEF TextAt
<1> QED
  BY <1>3, <1>4 DEF t, EntityLen

LEMMA EntityStep ==
    ASSUME NEW s \in Str, s # <<>>
    PROVE  EntityDecoded(s) = <<TextAt(s, 1)>> \o EntityDecoded(Drop(s, EntityLen(s, 1)))
<1> DEFINE n == Len(s)
           k == EntityLen(s, 1)
           t == Drop(s, k)
<1>1. n \in Nat /\ n # 0 /\ 1 \in 1..n
  BY StrFacts
<1>2. k \in Nat /\ k <= n /\ k >= 1
  <2>1. k \in Nat /\ k >= 1 /\ 1 + k <= n + 1
    BY <1>1, TakenOf
  <2> QED
    BY <1>1, <2>1
<1>3. t \in Str /\ Len(t) = n - k
  BY <1>2, DropOf
<1>4. PICK f : IsChain(f, EntityParts(s), EntityLinks(s), n, n + 1) /\ EntityDecoded(s) = f[1]
  BY EntityChain
<1>5. PICK g : IsChain(g, EntityParts(t), EntityLinks(t), Len(t), Len(t) + 1) /\ EntityDecoded(t) = g[1]
  BY <1>3, EntityChain
<1>6. \A i \in 1..n - k : /\ TextAt(t, i) = TextAt(s, i + k)
                          /\ EntityLen(t, i) = EntityLen(s, i + k)
  BY <1>2, TakenDrop
<1>7. EntityLinks(s)[1] = 1 + k /\ EntityParts(s)[1] = <<TextAt(s, 1)>>
  BY <1>1 DEF EntityLinks, EntityParts
<1> HIDE DEF t, k
<1>8. \A i \in 1..Len(t) : EntityParts(t)[i] = EntityParts(s)[i + k]
                           /\ EntityLinks(t)[i] + k = EntityLinks(s)[i + k]
  <2>1. SUFFICES ASSUME NEW i \in 1..Len(t)
                 PROVE  EntityParts(t)[i] = EntityParts(s)[i + k]
                        /\ EntityLinks(t)[i] + k = EntityLinks(s)[i + k]
    OBVIOUS
  <2>2. i + k \in 1..n /\ i \in 1..n - k
    BY <1>1, <1>2, <1>3
  <2>3. EntityLen(s, i + k) \in Nat
    BY <2>2, TakenOf
  <2> QED
    BY <1>2, <1>6, <2>2, <2>3 DEF EntityParts, EntityLinks
<1>9. Linked(EntityLinks(s), n, n + 1) /\ Linked(EntityLinks(t), Len(t), Len(t) + 1)
  BY <1>3, EntityLinked
<1>10. /\ Len(t) \in Nat /\ Len(t) + 1 \in Nat /\ n + 1 \in Nat
       /\ Len(t) + k = n /\ Len(t) + 1 + k = n + 1
  BY <1>1, <1>2, <1>3
<1> HIDE DEF n
<1>11. \A i \in 1..Len(t) + 1 : g[i] = f[i + k]
  <2> DEFINE A == EntityParts(s)
             N == EntityLinks(s)
             B == EntityParts(t)
             M == EntityLinks(t)
             l == Len(t)
             o == n + 1
             r == l + 1
  <2>1. Inside(A, N, n, o, B, M, l, r, k)
    BY <1>1, <1>2, <1>8, <1>9, <1>10 DEF Inside
  <2>3. IsChain(f, A, N, n, o) /\ IsChain(g, B, M, l, r)
    BY <1>4, <1>5
  <2> HIDE DEF A, N, B, M, l, o, r
  <2>2. \A i \in 1..r : g[i] = f[i + k]
    BY ONLY <2>1, <2>3, ChainShift
  <2> QED
    BY <2>2 DEF r, l
<1>12. g[1] = f[1 + k]
  BY <1>10, <1>11
<1>13. f[1] = Link(EntityParts(s), EntityLinks(s), n, f, 1) /\ ~(1 > n)
  BY <1>1, <1>4 DEF IsChain
<1>14. f[1] = <<TextAt(s, 1)>> \o f[1 + k]
  BY <1>7, <1>13 DEF Link
<1>15. EntityDecoded(s) = <<TextAt(s, 1)>> \o EntityDecoded(t)
  BY <1>4, <1>5, <1>12, <1>14
<1> QED
  BY <1>15 DEF t, k

\* An entity is taken back as the byte it stands for.
LEMMA EntityBack ==
    ASSUME NEW c \in Byte, NEW r \in Str
    PROVE  EntityDecoded(Entity(c) \o r) = <<c>> \o EntityDecoded(r)
<1> DEFINE s == Entity(c) \o r
           n == Len(Entity(c))
<1>1. Entity(c) \in Str /\ n \in Nat /\ Len(r) \in Nat
  BY EntityTypes, StrFacts
<1>2. s \in Str /\ Len(s) = n + Len(r) /\ \A i \in 1..n : s[i] = Entity(c)[i]
  BY <1>1, Cat
<1>3. Drop(s, n) = r
  BY <1>1, DropCat
<1>4. SubSeq(s, 1, Len(s)) = s
  BY <1>2, Whole
<1>5. n >= 1
  <2>1. CASE c \in EntityBytes
    BY <1>1, <2>1, EntityOf
  <2>2. CASE c \notin EntityBytes
    <3>1. Entity(c) = <<c>>
      BY <2>2, EntityTypes
    <3> QED
      BY <3>1
  <2> QED
    BY <2>1, <2>2
<1> HIDE DEF s, n
<1>6. s # <<>>
  BY <1>1, <1>2, <1>5, StrFacts
<1>7. EntityLen(s, 1) = n /\ TextAt(s, 1) = c
  <2>1. CASE c \in EntityBytes
    <3>1. n \in 4..6 /\ n = Len(Entity(c))
      BY <2>1, EntityOf DEF n
    <3>2. IsPrefix(Entity(c), s)
      <4>1. SubSeq(Entity(c), 1, n) = Entity(c)
        BY <1>1, Whole DEF n
      <4>2. SubSeq(s, 1, n) \in Str /\ Len(SubSeq(s, 1, n)) = n /\ \A i \in 1..n : SubSeq(s, 1, n)[i] = s[i]
        BY <1>1, <1>2, FirstPart
      <4>3. SubSeq(s, 1, n) = Entity(c)
        BY <1>1, <1>2, <3>1, <4>2, SameStr
      <4>4. n <= Len(s)
        BY <1>1, <1>2
      <4> QED
        BY <3>1, <4>1, <4>3, <4>4 DEF IsPrefix
    <3>3. ASSUME NEW d \in EntityBytes, IsPrefix(Entity(d), s) PROVE d = c
      <4>1. Len(Entity(d)) \in 4..6 /\ d \in Byte
        BY EntityOf DEF EntityBytes, Byte, Less, Greater, Amp, Quote
      <4>2. Entity(d) \in Str
        BY <4>1, EntityTypes
      <4> DEFINE l == Len(Entity(d))
      <4>3. SubSeq(s, 1, l) = Entity(d) /\ l <= Len(s)
        BY <3>3, <4>2, Whole DEF IsPrefix
      <4>4. \A i \in 1..l : SubSeq(s, 1, l)[i] = s[i]
        BY <1>2, <4>1, <4>3, FirstPart
      <4>5. Entity(d)[2] = s[2]
        BY <4>1, <4>3, <4>4
      <4>6. s[2] = Entity(c)[2]
        BY <1>2, <3>1
      <4> QED
        BY <2>1, <4>5, <4>6, EntityOf
    <3>4. Taken(s, 1) = {c}
      BY <1>4, <2>1, <3>2, <3>3 DEF Taken
    <3>5. TextAt(s, 1) = c
      BY <3>4 DEF TextAt
    <3> QED
      BY <3>1, <3>4, <3>5 DEF EntityLen
  <2>2. CASE c \notin EntityBytes
    <3>1. Entity(c) = <<c>> /\ n = 1
      BY <2>2, EntityTypes DEF n
    <3>2. s[1] = c /\ c # Amp
      BY <1>2, <2>2, <3>1 DEF EntityBytes
    <3>3. ASSUME NEW d \in EntityBytes, IsPrefix(Entity(d), s) PROVE FALSE
      <4>1. Len(Entity(d)) \in 4..6 /\ Entity(d)[1] = Amp /\ d \in Byte
        BY EntityOf DEF EntityBytes, Byte, Less, Greater, Amp, Quote
      <4>2. Entity(d) \in Str
        BY <4>1, EntityTypes
      <4> DEFINE l == Len(Entity(d))
      <4>3. SubSeq(s, 1, l) = Entity(d) /\ l <= Len(s)
        BY <3>3, <4>2, Whole DEF IsPrefix
      <4>4. \A i \in 1..l : SubSeq(s, 1, l)[i] = s[i]
        BY <1>2, <4>1, <4>3, FirstPart
      <4>5. Entity(d)[1] = s[1]
        BY <4>1, <4>3, <4>4
      <4> QED
        BY <3>2, <4>1, <4>5
    <3>4. Taken(s, 1) = {}
      BY <1>4, <3>3 DEF Taken
    <3> QED
      BY <3>1, <3>2, <3>4 DEF EntityLen, TextAt
  <2> QED
    BY <2>1, <2>2
<1>8. EntityDecoded(s) = <<c>> \o EntityDecoded(r)
  BY <1>2, <1>3, <1>6, <1>7, EntityStep
<1> QED
  BY <1>8 DEF s

EntitiesOf(x) == [i \in DOMAIN x |-> Entity(x[i])]

LEMMA EntitiesType ==
    ASSUME NEW x \in Seq(Byte)
    PROVE  /\ EntitiesOf(x) \in Seq(Seq(Byte \ {Less, Greater, Quote})) /\ Len(EntitiesOf(x)) = Len(x)
           /\ \A i \in 1..Len(x) : EntitiesOf(x)[i] = Entity(x[i])
           /\ entity_encode(x) = FlattenSeq(EntitiesOf(x))
           /\ entity_encode(x) \in Seq(Byte \ {Less, Greater, Quote}) /\ entity_encode(x) \in Str
<1> DEFINE S == Byte \ {Less, Greater, Quote}
<1>1. Len(x) \in Nat /\ DOMAIN x = 1..Len(x) /\ \A i \in 1..Len(x) : x[i] \in Byte
  BY LenProperties, ElementOfSeq
<1>2. \A i \in 1..Len(x) : Entity(x[i]) \in Seq(S)
  BY <1>1, EntityTypes
<1>3. S \subseteq Nat
  <2>1. \A y \in Byte : y \in Nat
    BY DEF Byte
  <2> QED
    BY <2>1
<1> HIDE DEF S
<1>4. EntitiesOf(x) \in Seq(Seq(S)) /\ Len(EntitiesOf(x)) = Len(x) /\ \A i \in 1..Len(x) : EntitiesOf(x)[i] = Entity(x[i])
  BY <1>1, <1>2 DEF EntitiesOf
<1>5. entity_encode(x) = FlattenSeq(EntitiesOf(x))
  BY DEF entity_encode, EntitiesOf
<1>6. entity_encode(x) \in Seq(S)
  BY <1>4, <1>5, FlattenType
<1>7. entity_encode(x) \in Str
  BY <1>3, <1>6, SeqMonotonic DEF Str
<1> QED
  BY <1>4, <1>5, <1>6, <1>7 DEF S

LEMMA EntityCons ==
    ASSUME NEW x \in Seq(Byte), x # <<>>
    PROVE  entity_encode(x) = Entity(x[1]) \o entity_encode(Tail(x))
<1> DEFINE t == Tail(x)
           c == x[1]
           S == Byte \ {Less, Greater, Quote}
<1>1. c \in Byte /\ t \in Seq(Byte) /\ Len(t) = Len(x) - 1 /\ Len(x) \in Nat /\ Len(x) # 0
  BY Uncons, LenProperties, EmptySeq
<1>2. \A i \in 1..Len(x) - 1 : t[i] = x[i + 1]
  BY HeadTailProperties
<1> HIDE DEF t, c
<1>3. EntitiesOf(x) \in Seq(Seq(S)) /\ Len(EntitiesOf(x)) = Len(x) /\ \A i \in 1..Len(x) : EntitiesOf(x)[i] = Entity(x[i])
  BY EntitiesType
<1>4. EntitiesOf(t) \in Seq(Seq(S)) /\ Len(EntitiesOf(t)) = Len(x) - 1 /\ \A i \in 1..Len(x) - 1 : EntitiesOf(t)[i] = Entity(t[i])
  BY <1>1, EntitiesType
<1>5. Entity(c) \in Seq(S)
  BY <1>1, EntityTypes
<1> HIDE DEF S
<1> DEFINE u == <<Entity(c)>> \o EntitiesOf(t)
<1>6. Prepended(u, Entity(c), EntitiesOf(t), Seq(S))
  BY <1>4, <1>5, PrependSeq
<1> HIDE DEF u
<1>7. u \in Seq(Seq(S)) /\ Len(u) = Len(x) /\ u[1] = Entity(c) /\ \A i \in 1..Len(x) - 1 : u[i + 1] = EntitiesOf(t)[i]
  BY <1>1, <1>4, <1>6 DEF Prepended
<1>8. ASSUME NEW i \in 1..Len(x) PROVE EntitiesOf(x)[i] = u[i]
  <2>1. CASE i = 1
    BY <1>3, <1>7, <2>1 DEF c
  <2>2. CASE i # 1
    <3>1. i - 1 \in 1..Len(x) - 1 /\ (i - 1) + 1 = i
      BY <1>1, <2>2
    <3>2. /\ u[(i - 1) + 1] = EntitiesOf(t)[i - 1] /\ EntitiesOf(t)[i - 1] = Entity(t[i - 1])
          /\ t[i - 1] = x[(i - 1) + 1]
      BY <1>2, <1>4, <1>7, <3>1
    <3> QED
      BY <1>3, <3>1, <3>2
  <2> QED
    BY <2>1, <2>2
<1>9. EntitiesOf(x) = u
  BY <1>3, <1>7, <1>8, SeqEqual
<1>10. FlattenSeq(u) = Entity(c) \o FlattenSeq(EntitiesOf(t))
  BY <1>4, <1>5, FlattenCons DEF u
<1>11. entity_encode(x) = FlattenSeq(EntitiesOf(x)) /\ entity_encode(t) = FlattenSeq(EntitiesOf(t))
  BY <1>1, EntitiesType
<1> QED
  BY <1>9, <1>10, <1>11 DEF c, t

LEMMA EntityEncodeEmpty == entity_encode(<<>>) = <<>>
<1>1. <<>> \in Seq(Byte)
  OBVIOUS
<1>2. /\ EntitiesOf(<<>>) \in Seq(Seq(Byte \ {Less, Greater, Quote})) /\ Len(EntitiesOf(<<>>)) = 0
      /\ entity_encode(<<>>) = FlattenSeq(EntitiesOf(<<>>))
  BY <1>1, EntitiesType
<1>3. EntitiesOf(<<>>) = <<>>
  BY <1>2, EmptySeq
<1> QED
  BY <1>2, <1>3, FlattenEmpty

\* What entity_encode returns has no < > " in it and is the same text.
LEMMA EntityDecodeEncode ==
    ASSUME NEW x \in Seq(Byte)
    PROVE  /\ EntityDecoded(entity_encode(x)) = x
           /\ ToSet(entity_encode(x)) \cap {Less, Greater, Quote} = {}
<1> DEFINE T == {y \in Seq(Byte) : EntityDecoded(entity_encode(y)) # y}
<1>1. ASSUME T # {} PROVE FALSE
  <2>2. T \in SUBSET Seq(Byte)
    OBVIOUS
  <2>3. PICK y \in T : \A z \in T : Len(y) <= Len(z)
    BY <1>1, <2>2, Shortest
  <2>4. y \in Seq(Byte) /\ EntityDecoded(entity_encode(y)) # y
    OBVIOUS
  <2>5. y # <<>>
    BY <2>4, EntityEncodeEmpty, EntityNone
  <2>6. /\ y[1] \in Byte /\ Tail(y) \in Seq(Byte) /\ y = <<y[1]>> \o Tail(y)
        /\ ~(Len(y) <= Len(Tail(y)))
    BY <2>4, <2>5, Uncons
  <2>7. Tail(y) \notin T
    BY <2>3, <2>6
  <2>8. EntityDecoded(entity_encode(Tail(y))) = Tail(y)
    BY <2>6, <2>7
  <2>9. entity_encode(y) = Entity(y[1]) \o entity_encode(Tail(y))
    BY <2>4, <2>5, EntityCons
  <2>10. entity_encode(Tail(y)) \in Str
    BY <2>6, EntitiesType
  <2>11. EntityDecoded(entity_encode(y)) = <<y[1]>> \o EntityDecoded(entity_encode(Tail(y)))
    BY <2>6, <2>9, <2>10, EntityBack
  <2> QED
    BY <2>4, <2>6, <2>8, <2>11
<1>2. entity_encode(x) \in Seq(Byte \ {Less, Greater, Quote})
  BY EntitiesType
<1> DEFINE e == entity_encode(x)
<1> HIDE DEF e
<1>3. \A i \in DOMAIN e : e[i] \in Byte \ {Less, Greater, Quote}
  BY <1>2, ElementOfSeq, LenProperties DEF e
<1>4. ToSet(e) \cap {Less, Greater, Quote} = {}
  BY <1>3 DEF ToSet
<1> QED
  BY <1>1, <1>4 DEF e

-----------------------------------------------------------------------------
(* What query_decode leaves of a string: its bytes and its length.           *)

LEMMA InSeq ==
    ASSUME NEW t \in Str, NEW S, \A i \in 1..Len(t) : t[i] \in S
    PROVE  t \in Seq(S)
<1>1. Len(t) \in Nat /\ DOMAIN t = 1..Len(t) /\ t = [i \in 1..Len(t) |-> t[i]]
  BY LenProperties DEF Str
<1>2. t \in [1..Len(t) -> S]
  BY <1>1
<1> QED
  BY <1>1, <1>2, SeqDef

LEMMA SeqIn ==
    ASSUME NEW S \in SUBSET Nat, NEW s \in Seq(S)
    PROVE  s \in Str /\ \A i \in 1..Len(s) : s[i] \in S
BY SeqMonotonic, ElementOfSeq DEF Str

LEMMA DecodedIn ==
    ASSUME NEW s \in Str, NEW i \in 1..Len(s)
    PROVE  /\ Decoded(s, i) \in Nat
           /\ (\A j \in 1..Len(s) : s[j] <= 255) => Decoded(s, i) <= 255
<1>1. s[i] \in Nat /\ Len(s) \in Nat
  BY StrFacts
<1>2. CASE Escape(s, i)
  <2>1. ishexdigit(s[i + 1]) /\ ishexdigit(s[i + 2])
    BY <1>2 DEF Escape
  <2>2. ASSUME NEW v, ishexdigit(v) PROVE hex_value(v) \in 0..15
    BY <2>2 DEF ishexdigit, hex_value, Digit
  <2>3. Decoded(s, i) = hex_value(s[i + 1]) * 16 + hex_value(s[i + 2])
    BY <1>2 DEF Decoded
  <2>4. hex_value(s[i + 1]) \in 0..15 /\ hex_value(s[i + 2]) \in 0..15
    BY <2>1, <2>2
  <2>5. ASSUME NEW h \in 0..15, NEW l \in 0..15 PROVE h * 16 + l \in Nat /\ h * 16 + l <= 255
    OBVIOUS
  <2>6. Decoded(s, i) \in Nat /\ Decoded(s, i) <= 255
    BY <2>3, <2>4, <2>5
  <2> QED
    BY <2>6
<1>3. CASE ~Escape(s, i)
  <2>1. Decoded(s, i) = IF s[i] = Plus THEN SP ELSE s[i]
    BY <1>3 DEF Decoded
  <2> QED
    BY <1>1, <2>1 DEF SP
<1> QED
  BY <1>2, <1>3

LEMMA DecodeType ==
    ASSUME NEW s \in Str
    PROVE  query_decode(s) \in Str
<1>1. PICK f : IsChain(f, DecodeParts(s), DecodeLinks(s), Len(s), Len(s) + 1) /\ query_decode(s) = f[1]
  BY DecodeChain
<1>2. Len(s) \in Nat /\ Len(s) + 1 \in Nat /\ 1 \in 1..Len(s) + 1
  BY StrFacts
<1>3. ASSUME NEW k \in 1..Len(s) PROVE DecodeParts(s)[k] \in Seq(Nat)
  <2>1. Decoded(s, k) \in Nat
    BY DecodedIn
  <2> QED
    BY <2>1 DEF DecodeParts
<1>4. Linked(DecodeLinks(s), Len(s), Len(s) + 1)
  BY DecodeLinked
<1>5. \A i \in 1..Len(s) + 1 : f[i] \in Seq(Nat)
  BY <1>1, <1>2, <1>3, <1>4, ChainType
<1> QED
  BY <1>1, <1>2, <1>5 DEF Str

LEMMA UpTo255 == \A v : v \in 0..255 <=> v \in Nat /\ v <= 255
OBVIOUS

LEMMA DecodeBytes ==
    ASSUME NEW s \in Str, \A j \in 1..Len(s) : s[j] <= 255
    PROVE  \A j \in 1..Len(query_decode(s)) : query_decode(s)[j] <= 255
<1>1. PICK f : IsChain(f, DecodeParts(s), DecodeLinks(s), Len(s), Len(s) + 1) /\ query_decode(s) = f[1]
  BY DecodeChain
<1>2. Len(s) \in Nat /\ Len(s) + 1 \in Nat /\ 1 \in 1..Len(s) + 1
  BY StrFacts
<1>3. ASSUME NEW k \in 1..Len(s) PROVE DecodeParts(s)[k] \in Seq(0..255)
  <2>1. Decoded(s, k) \in Nat /\ Decoded(s, k) <= 255
    BY DecodedIn
  <2>2. Decoded(s, k) \in 0..255
    BY <2>1, UpTo255, Zenon
  <2> QED
    BY <2>2 DEF DecodeParts
<1>4. Linked(DecodeLinks(s), Len(s), Len(s) + 1)
  BY DecodeLinked
<1>5. \A i \in 1..Len(s) + 1 : f[i] \in Seq(0..255)
  BY <1>1, <1>2, <1>3, <1>4, ChainType
<1>6. query_decode(s) \in Seq(0..255)
  BY <1>1, <1>2, <1>5
<1> DEFINE q == query_decode(s)
<1> HIDE DEF q
<1>7. \A j \in 1..Len(q) : q[j] \in 0..255
  BY <1>6, ElementOfSeq DEF q
<1>8. ASSUME NEW j \in 1..Len(q) PROVE q[j] <= 255
  <2>1. q[j] \in 0..255
    BY <1>7
  <2> QED
    BY <2>1, UpTo255, Zenon
<1> QED
  BY <1>8 DEF q

\* No escape in s.
Plainly(s) == \A i \in 1..Len(s) : ~Escape(s, i)

\* What is said of the length and the bytes of a decoded string.
DecodesWell(s) ==
    /\ Len(query_decode(s)) <= Len(s)
    /\ Plainly(s) <=> Len(query_decode(s)) = Len(s)
    /\ Plainly(s) => \A i \in 1..Len(s) : query_decode(s)[i] = Decoded(s, i)

LEMMA DecodeOne ==
    ASSUME NEW s \in Str, s # <<>>,
           DecodesWell(Drop(s, IF Escape(s, 1) THEN 3 ELSE 1))
    PROVE  DecodesWell(s)
<1> DEFINE n == Len(s)
           k == IF Escape(s, 1) THEN 3 ELSE 1
           t == Drop(s, k)
           q == query_decode(s)
           r == query_decode(t)
           x == Decoded(s, 1)
<1>1. n \in Nat /\ n # 0 /\ 1 \in 1..n
  BY StrFacts
<1>2. k \in Nat /\ k <= n /\ k >= 1
  <2>1. Escape(s, 1) => 3 <= n
    BY <1>1 DEF Escape
  <2> QED
    BY <1>1, <2>1
<1>3. t \in Str /\ Len(t) = n - k
  BY <1>2, DropOf
<1>4. q = <<x>> \o r
  BY DecodeStep
<1>5. r \in Str /\ x \in Nat
  BY <1>1, <1>3, DecodeType, DecodedIn
<1>6. DecodesWell(t)
  OBVIOUS
<1>7. \A i \in 1..n - k : /\ Escape(t, i) <=> Escape(s, i + k)
                          /\ Decoded(t, i) = Decoded(s, i + k)
  BY <1>2, EscapeDrop
<1>8. k = IF Escape(s, 1) THEN 3 ELSE 1
  OBVIOUS
<1> HIDE DEF n, k, t, r, x, q
<1>9. Prepended(q, x, r, Nat)
  BY <1>4, <1>5, PrependSeq DEF Str
<1>10. Len(q) = Len(r) + 1 /\ Len(r) \in Nat /\ q[1] = x /\ \A i \in 1..Len(r) : q[i + 1] = r[i]
  BY <1>9 DEF Prepended
<1>11. Len(r) <= n - k /\ (Plainly(t) <=> Len(r) = n - k)
       /\ (Plainly(t) => \A i \in 1..n - k : r[i] = Decoded(t, i))
  BY <1>3, <1>6 DEF DecodesWell, r
<1>12. CASE Escape(s, 1)
  <2>1. ~Plainly(s)
    BY <1>1, <1>12 DEF Plainly, n
  <2>2. k = 3
    BY <1>8, <1>12
  <2>3. Len(q) < n
    BY <1>1, <1>2, <1>10, <1>11, <2>2
  <2> QED
    BY <1>1, <1>10, <2>1, <2>3 DEF DecodesWell, q, n
<1>13. CASE ~Escape(s, 1)
  <2>1. k = 1
    BY <1>8, <1>13
  <2>2. Plainly(s) <=> Plainly(t)
    <3>1. ASSUME Plainly(s), NEW i \in 1..n - 1 PROVE ~Escape(t, i)
      <4>1. i + 1 \in 1..n
        BY <1>1
      <4> QED
        BY <1>7, <2>1, <3>1, <4>1 DEF Plainly, n
    <3>2. ASSUME Plainly(t), NEW i \in 1..n PROVE ~Escape(s, i)
      <4>1. CASE i = 1
        BY <1>13, <4>1
      <4>2. CASE i # 1
        <5>1. i - 1 \in 1..n - 1 /\ (i - 1) + 1 = i
          BY <1>1, <4>2
        <5>2. ~Escape(t, i - 1)
          BY <1>3, <2>1, <3>2, <5>1 DEF Plainly
        <5> QED
          BY <1>7, <2>1, <5>1, <5>2
      <4> QED
        BY <4>1, <4>2
    <3> QED
      BY <1>3, <2>1, <3>1, <3>2 DEF Plainly, n
  <2>3. ASSUME Plainly(t), NEW i \in 1..n PROVE q[i] = Decoded(s, i)
    <3>1. CASE i = 1
      BY <1>10, <3>1 DEF x
    <3>2. CASE i # 1
      <4>1. i - 1 \in 1..n - 1 /\ (i - 1) + 1 = i /\ i - 1 \in 1..Len(r)
        BY <1>1, <1>11, <2>1, <2>3, <3>2
      <4>2. q[(i - 1) + 1] = r[i - 1] /\ r[i - 1] = Decoded(t, i - 1) /\ Decoded(t, i - 1) = Decoded(s, (i - 1) + 1)
        BY <1>7, <1>10, <1>11, <2>1, <2>3, <4>1
      <4> QED
        BY <4>1, <4>2
    <3> QED
      BY <3>1, <3>2
  <2>4. Len(q) <= n /\ (Len(q) = n <=> Len(r) = n - 1)
    BY <1>1, <1>10, <1>11, <2>1
  <2> QED
    BY <1>11, <2>1, <2>2, <2>3, <2>4 DEF DecodesWell, q, n
<1> QED
  BY <1>12, <1>13

LEMMA DecodeFacts ==
    ASSUME NEW s \in Str
    PROVE  DecodesWell(s)
<1> DEFINE T == {y \in Seq(Nat) : ~DecodesWell(y)}
<1>1. SUFFICES ASSUME T # {} PROVE FALSE
  BY DEF Str
<1>2. T \in SUBSET Seq(Nat)
  OBVIOUS
<1>3. PICK y \in T : \A z \in T : Len(y) <= Len(z)
  BY <1>1, <1>2, Shortest
<1>4. y \in Str /\ ~DecodesWell(y)
  BY DEF Str
<1>5. y # <<>>
  <2>1. SUFFICES DecodesWell(<<>>)
    BY <1>4
  <2>2. Len(<<>>) = 0
    OBVIOUS
  <2> QED
    BY <2>2, DecodeEmpty DEF DecodesWell, Plainly
<1> DEFINE k == IF Escape(y, 1) THEN 3 ELSE 1
           t == Drop(y, k)
<1>6. Len(y) \in Nat /\ Len(y) # 0
  BY <1>4, <1>5, StrFacts
<1>7. k \in Nat /\ k <= Len(y) /\ k >= 1
  <2>1. Escape(y, 1) => 3 <= Len(y)
    BY <1>6 DEF Escape
  <2> QED
    BY <1>6, <2>1
<1>8. t \in Str /\ Len(t) = Len(y) - k
  BY <1>4, <1>7, DropOf
<1> HIDE DEF k, t
<1>9. ~(Len(y) <= Len(t))
  BY <1>6, <1>7, <1>8
<1>10. DecodesWell(t)
  BY <1>3, <1>8, <1>9 DEF Str
<1> QED
  BY <1>4, <1>5, <1>10, DecodeOne DEF k, t

-----------------------------------------------------------------------------
(* Dictionaries, and the fields of a query.                                  *)

Dict == UNION {[D -> Str] : D \in SUBSET Str}

LEMMA DictOf ==
    ASSUME NEW d \in Dict
    PROVE  DOMAIN d \subseteq Str /\ \A x \in DOMAIN d : d[x] \in Str
BY DEF Dict

LEMMA DictEmpty == <<>> \in Dict /\ DOMAIN <<>> = {}
<1>1. DOMAIN <<>> = {} /\ <<>> \in [{} -> Str]
  OBVIOUS
<1>2. {} \in SUBSET Str
  OBVIOUS
<1> HIDE DEF Str
<1> QED
  BY <1>1, <1>2 DEF Dict

LEMMA SetOf ==
    ASSUME NEW d \in Dict, NEW x \in Str, NEW v \in Str
    PROVE  /\ Set(d, x, v) \in Dict
           /\ DOMAIN Set(d, x, v) = DOMAIN d \cup {CString(x)}
           /\ Set(d, x, v)[CString(x)] = CString(v)
           /\ \A y \in DOMAIN d : y # CString(x) => Set(d, x, v)[y] = d[y]
<1>1. CString(x) \in Str /\ CString(v) \in Str
  BY CStringOf
<1> DEFINE D == DOMAIN d \cup {CString(x)}
           e == Set(d, x, v)
<1>2. e = [y \in D |-> IF y = CString(x) THEN CString(v) ELSE d[y]]
  BY DEF Set
<1>3. DOMAIN d \subseteq Str /\ \A y \in DOMAIN d : d[y] \in Str
  BY DictOf
<1>4. D \in SUBSET Str
  BY <1>1, <1>3
<1> HIDE DEF e
<1>5. e \in [D -> Str]
  BY <1>1, <1>2, <1>3
<1>6. e \in Dict
  BY <1>4, <1>5 DEF Dict
<1>7. DOMAIN e = D /\ e[CString(x)] = CString(v) /\ \A y \in DOMAIN d : y # CString(x) => e[y] = d[y]
  BY <1>2
<1> QED
  BY <1>6, <1>7 DEF e

LEMMA FieldOf ==
    ASSUME NEW piece \in Str
    PROVE  /\ Field(piece)[1] \in Str /\ Field(piece)[2] \in Str
           /\ strchr(piece, Equal) = 0 => Field(piece) = <<piece, <<>>>>
           /\ strchr(piece, Equal) # 0 =>
                /\ Field(piece) = <<SubSeq(piece, 1, strchr(piece, Equal) - 1), Drop(piece, strchr(piece, Equal))>>
<1> DEFINE eq == strchr(piece, Equal)
<1>1. eq \in Nat /\ eq <= Len(piece) /\ Len(piece) \in Nat
  BY StrchrOf, StrFacts
<1>2. CASE eq = 0
  <2>1. Field(piece) = <<piece, <<>>>>
    BY <1>2 DEF Field
  <2>2. <<>> \in Str
    BY DEF Str
  <2> QED
    BY <1>2, <2>1, <2>2
<1>3. CASE eq # 0
  <2>1. Field(piece) = <<SubSeq(piece, 1, eq - 1), Drop(piece, eq)>>
    BY <1>3 DEF Field, Before, After, Drop
  <2>2. eq - 1 \in Nat /\ eq - 1 <= Len(piece)
    BY <1>1, <1>3
  <2>3. SubSeq(piece, 1, eq - 1) \in Str /\ Drop(piece, eq) \in Str
    BY <1>1, <2>2, FirstPart, DropOf
  <2> HIDE DEF eq
  <2> QED
    BY <1>3, <2>1, <2>3 DEF eq
<1> QED
  BY <1>2, <1>3

LEMMA FieldStep ==
    ASSUME NEW piece \in Str, NEW d \in Dict
    PROVE  Step("field", piece, d) \in Dict
<1> DEFINE x == query_decode(Field(piece)[1])
           v == query_decode(Field(piece)[2])
<1>1. x \in Str /\ v \in Str
  BY FieldOf, DecodeType
<1>2. Step("field", piece, d) = Set(d, x, v)
  BY DEF Step
<1> HIDE DEF x, v
<1>3. Set(d, x, v) \in Dict
  BY <1>1, SetOf
<1> QED
  BY <1>2, <1>3

\* What parse_query looks at.
QueryText(buf) ==
    LET end == strchr(CString(buf), Hash)
    IN  IF end = 0 THEN CString(buf) ELSE Before(buf, end)

LEMMA QueryTextOf ==
    ASSUME NEW buf \in Str
    PROVE  /\ QueryText(buf) \in Str /\ Len(QueryText(buf)) <= Len(buf)
           /\ \A i \in 1..Len(QueryText(buf)) : QueryText(buf)[i] = buf[i] /\ buf[i] # Hash /\ buf[i] # NUL
           /\ (\A i \in 1..Len(buf) : buf[i] # Hash /\ buf[i] # NUL) => QueryText(buf) = buf
<1> DEFINE c == CString(buf)
           end == strchr(c, Hash)
           q == QueryText(buf)
<1>1. c \in Str /\ Len(c) <= Len(buf) /\ (\A i \in 1..Len(c) : c[i] = buf[i] /\ buf[i] # NUL)
      /\ ((\A i \in 1..Len(buf) : buf[i] # NUL) => c = buf)
  BY CStringOf
<1>2. q = IF end = 0 THEN c ELSE SubSeq(buf, 1, end - 1)
  BY DEF QueryText, Before
<1> HIDE DEF c, q
<1>3. end \in Nat /\ end <= Len(c) /\ (end = 0 <=> \A i \in 1..Len(c) : c[i] # Hash)
      /\ (end # 0 => c[end] = Hash /\ \A i \in 1..end - 1 : c[i] # Hash)
  BY <1>1, StrchrOf
<1>4. Len(buf) \in Nat /\ Len(c) \in Nat
  BY <1>1, StrFacts
<1> HIDE DEF end
<1>5. CASE end = 0
  <2>1. q = c
    BY <1>2, <1>5
  <2> QED
    BY <1>1, <1>3, <1>5, <2>1 DEF q
<1>6. CASE end # 0
  <2>1. q = SubSeq(buf, 1, end - 1)
    BY <1>2, <1>6
  <2>2. end - 1 \in Nat /\ end - 1 <= Len(buf) /\ end - 1 <= Len(c) /\ end \in 1..Len(c) /\ end \in 1..Len(buf)
    BY <1>1, <1>3, <1>4, <1>6
  <2>3. q \in Str /\ Len(q) = end - 1 /\ \A i \in 1..end - 1 : q[i] = buf[i]
    BY <2>1, <2>2, FirstPart
  <2>4. \A i \in 1..end - 1 : i \in 1..Len(c)
    BY <1>3, <1>4, <2>2
  <2>5. \A i \in 1..end - 1 : buf[i] # Hash /\ buf[i] # NUL
    BY <1>1, <1>3, <1>6, <2>4
  <2>6. buf[end] = Hash
    BY <1>1, <1>3, <1>6, <2>2
  <2>7. q \in Str /\ Len(q) <= Len(buf) /\ \A i \in 1..Len(q) : q[i] = buf[i] /\ buf[i] # Hash /\ buf[i] # NUL
    BY <2>2, <2>3, <2>5
  <2> QED
    BY <2>2, <2>6, <2>7 DEF q
<1> QED
  BY <1>5, <1>6

Fields(buf) == Pieces(QueryText(buf), {Amp, Semicolon})

LEMMA FieldsType ==
    ASSUME NEW buf \in Str
    PROVE  Fields(buf) \in Seq(Str) /\ Len(Fields(buf)) \in Nat /\ \A i \in 1..Len(Fields(buf)) : Fields(buf)[i] \in Str
<1>1. QueryText(buf) \in Str
  BY QueryTextOf
<1>2. Fields(buf) \in Seq(Str)
  BY <1>1, PiecesType DEF Fields
<1> QED
  BY <1>2, LenProperties, ElementOfSeq

LEMMA ParseRun ==
    ASSUME NEW buf \in Str, NEW d \in Dict
    PROVE  /\ \E f : IsRun(f, 0, Len(Fields(buf)), d, "field", Fields(buf))
                     /\ parse_query(buf, d) = f[Len(Fields(buf))]
           /\ parse_query(buf, d) \in Dict
<1> DEFINE P == Fields(buf)
           n == Len(P)
           Is(f) == f = [i \in 0..n |->
                          IF i = 0 THEN d
                          ELSE Set(f[i - 1], query_decode(Field(P[i])[1]), query_decode(Field(P[i])[2]))]
           dict == CHOOSE f : Is(f)
<1>1. P \in Seq(Str) /\ n \in Nat /\ \A i \in 1..n : P[i] \in Str
  BY FieldsType
<1>2. ASSUME NEW f PROVE Is(f) <=> IsRun(f, 0, n, d, "field", P)
  BY DEF IsRun, Step
<1>3. \E f : Is(f)
  BY <1>1, <1>2, RunExists
<1>4. Is(dict)
  BY <1>3
<1>5. parse_query(buf, d) = dict[n]
  BY DEF parse_query, Fields, QueryText
<1> HIDE DEF dict, Is
<1>6. IsRun(dict, 0, n, d, "field", P)
  BY <1>2, <1>4
<1>7. StaysIn(Dict, 0, n, d, "field", P)
  <2>1. ASSUME NEW i \in 0 + 1..n, NEW v \in Dict PROVE Step("field", P[i], v) \in Dict
    <3>1. P[i] \in Str
      BY <1>1
    <3> QED
      BY <3>1, FieldStep
  <2> QED
    BY <1>1, <2>1 DEF StaysIn
<1>8. \A i \in 0..n : dict[i] \in Dict
  BY <1>6, <1>7, RunType
<1> QED
  BY <1>1, <1>5, <1>6, <1>8

-----------------------------------------------------------------------------
(* The query of a /pin: two fields with an encoded list each.                *)

LEMMA ByteFacts == Byte \in SUBSET Nat /\ \A c \in Byte : c # NUL /\ c <= 255 /\ c \in Nat
BY DEF Byte, NUL

\* e is d with v for x.
SetIs(e, d, x, v) ==
    /\ e \in Dict /\ DOMAIN e = DOMAIN d \cup {x}
    /\ e[x] = v /\ \A y \in DOMAIN d : y # x => e[y] = d[y]

LEMMA SetPlain ==
    ASSUME NEW d \in Dict, NEW x \in Str, NEW v \in Str, CString(x) = x, CString(v) = v
    PROVE  SetIs(Set(d, x, v), d, x, v)
<1> DEFINE e == Set(d, x, v)
<1>1. /\ e \in Dict
      /\ DOMAIN e = DOMAIN d \cup {CString(x)}
      /\ e[CString(x)] = CString(v)
      /\ \A y \in DOMAIN d : y # CString(x) => e[y] = d[y]
  BY SetOf
<1> HIDE DEF e
<1>2. SetIs(e, d, x, v)
  BY <1>1 DEF SetIs
<1> QED
  BY <1>2 DEF e

\* A word that names a field, and the field with the bytes E as its value.
WordField(w, E) == <<w, Equal>> \o E

LEMMA WordFacts ==
    ASSUME NEW w \in Nat, w >= 256
    PROVE  /\ << w >> \in Str /\ Len(<< w >>) = 1 /\ << w >>[1] = w
           /\ CString(<< w >>) = << w >> /\ query_decode(<< w >>) = << w >>
<1> DEFINE s == << w >>
<1>1. s \in Str /\ Len(s) = 1 /\ s[1] = w
  BY DEF Str
<1>2. w # NUL /\ w # Percent /\ w # Plus
  BY DEF NUL, Percent, Plus
<1> HIDE DEF s
<1>3. \A i \in 1..Len(s) : s[i] # NUL
  BY <1>1, <1>2
<1>4. CString(s) = s
  BY <1>1, <1>3, CStringOf
<1>5. s # <<>>
  BY <1>1
<1>6. ~Escape(s, 1) /\ Decoded(s, 1) = w
  BY <1>1, <1>2 DEF Escape, Decoded
<1>7. query_decode(s) = << w >> \o query_decode(Drop(s, 1))
  BY <1>1, <1>5, <1>6, DecodeStep
<1>8. Drop(s, 1) = <<>>
  <2>1. 1 \in Nat /\ 1 <= Len(s) /\ Len(s) - 1 = 0
    BY <1>1
  <2>2. Drop(s, 1) \in Str /\ Len(Drop(s, 1)) = Len(s) - 1
    BY <1>1, <2>1, DropOf
  <2> QED
    BY <2>1, <2>2, StrFacts
<1>9. query_decode(s) = << w >>
  BY <1>1, <1>7, <1>8, DecodeEmpty, CatEmpty DEF s
<1> QED
  BY <1>1, <1>4, <1>9 DEF s

LEMMA WordFieldOf ==
    ASSUME NEW w \in Nat, w >= 256, NEW E \in Str
    PROVE  /\ WordField(w, E) \in Str /\ Len(WordField(w, E)) = Len(E) + 2
           /\ WordField(w, E)[1] = w /\ WordField(w, E)[2] = Equal
           /\ \A i \in 1..Len(E) : WordField(w, E)[2 + i] = E[i]
           /\ Field(WordField(w, E)) = <<<< w >>, E>>
<1> DEFINE p == <<w, Equal>>
           s == WordField(w, E)
<1>1. p \in Str /\ Len(p) = 2 /\ p[1] = w /\ p[2] = Equal
  BY DEF Str, Equal
<1> HIDE DEF p
<1>2. s \in Str /\ Len(s) = 2 + Len(E) /\ (\A i \in 1..2 : s[i] = p[i]) /\ \A i \in 1..Len(E) : s[2 + i] = E[i]
  <2>1. /\ p \o E \in Str /\ Len(p \o E) = Len(p) + Len(E)
        /\ \A i \in 1..Len(p) : (p \o E)[i] = p[i]
        /\ \A i \in 1..Len(E) : (p \o E)[Len(p) + i] = E[i]
    BY <1>1, Cat
  <2>2. s = p \o E
    BY DEF WordField, p
  <2> QED
    BY <1>1, <2>1, <2>2
<1>3. Drop(s, 2) = E
  <2>1. s = p \o E
    BY DEF WordField, p
  <2> QED
    BY <1>1, <2>1, DropCat
<1>4. Len(E) \in Nat
  BY StrFacts
<1> HIDE DEF s
<1>5. s[1] = w /\ s[2] = Equal
  BY <1>1, <1>2
<1>6. strchr(s, Equal) = 2
  <2>1. w # Equal
    BY DEF Equal
  <2>2. 2 \in 1..Len(s)
    BY <1>2, <1>4
  <2>3. \A i \in 1..2 - 1 : s[i] # Equal
    BY <1>5, <2>1
  <2> QED
    BY <1>2, <1>5, <2>2, <2>3, StrchrIs
<1>7. Field(s) = <<SubSeq(s, 1, 2 - 1), Drop(s, 2)>>
  <2>1. strchr(s, Equal) # 0
    BY <1>6
  <2>2. Field(s) = <<SubSeq(s, 1, strchr(s, Equal) - 1), Drop(s, strchr(s, Equal))>>
    BY <1>2, <2>1, FieldOf
  <2> QED
    BY <1>6, <2>2
<1>8. SubSeq(s, 1, 2 - 1) = << w >>
  <2>1. 1 <= Len(s) /\ 2 - 1 = 1
    BY <1>2, <1>4
  <2>2. SubSeq(s, 1, 1) \in Str /\ Len(SubSeq(s, 1, 1)) = 1 /\ \A i \in 1..1 : SubSeq(s, 1, 1)[i] = s[i]
    BY <1>2, <2>1, FirstPart
  <2>3. SubSeq(s, 1, 1) = << w >>
    <3> DEFINE t == SubSeq(s, 1, 1)
               u == << w >>
    <3>1. u \in Str /\ Len(u) = 1 /\ u[1] = w
      BY WordFacts
    <3>2. t \in Str /\ Len(t) = 1 /\ t[1] = w
      BY <1>5, <2>2
    <3> HIDE DEF t, u
    <3>3. \A i \in 1..Len(t) : t[i] = u[i]
      BY <3>1, <3>2
    <3>4. t = u
      BY <3>1, <3>2, <3>3, SameStr
    <3> QED
      BY <3>4 DEF t, u
  <2> QED
    BY <2>1, <2>3
<1>9. Field(s) = <<<< w >>, E>>
  BY <1>3, <1>7, <1>8
<1> QED
  BY <1>2, <1>4, <1>5, <1>9 DEF s

\* Bytes that neither end a field nor the query, nor a line or its parts.
Inner(s) == \A i \in 1..Len(s) : s[i] \notin {NUL, LF, CR, SP, Hash, Amp, Semicolon, Query, Colon}

LEMMA WordFieldInner ==
    ASSUME NEW w \in Nat, w >= 256, NEW E \in Str, Inner(E)
    PROVE  Inner(WordField(w, E))
<1> DEFINE s == WordField(w, E)
<1>1. s \in Str /\ Len(s) = Len(E) + 2 /\ s[1] = w /\ s[2] = Equal /\ (\A i \in 1..Len(E) : s[2 + i] = E[i])
  BY WordFieldOf
<1>2. Len(E) \in Nat
  BY StrFacts
<1> HIDE DEF s
<1>3. ASSUME NEW i \in 1..Len(s)
      PROVE  s[i] \notin {NUL, LF, CR, SP, Hash, Amp, Semicolon, Query, Colon}
  <2>1. CASE i = 1
    BY <1>1, <2>1 DEF NUL, LF, CR, SP, Hash, Amp, Semicolon, Query, Colon
  <2>2. CASE i = 2
    BY <1>1, <2>2 DEF Equal, NUL, LF, CR, SP, Hash, Amp, Semicolon, Query, Colon
  <2>3. CASE i > 2
    <3>1. i - 2 \in 1..Len(E) /\ 2 + (i - 2) = i
      BY <1>1, <1>2, <2>3
    <3>2. s[2 + (i - 2)] = E[i - 2]
      BY <1>1, <3>1
    <3>3. E[i - 2] \notin {NUL, LF, CR, SP, Hash, Amp, Semicolon, Query, Colon}
      BY <3>1 DEF Inner
    <3> QED
      BY <3>1, <3>2, <3>3
  <2> QED
    BY <1>1, <1>2, <2>1, <2>2, <2>3
<1> QED
  BY <1>3 DEF Inner, s

LEMMA EncInner ==
    ASSUME NEW E \in Seq(EncBytes)
    PROVE  E \in Str /\ Inner(E)
<1>1. E \in Str /\ \A i \in 1..Len(E) : E[i] \in EncBytes
  BY EncBytesFacts, SeqIn
<1> QED
  BY <1>1, EncBytesFacts DEF Inner

\* Two fields.
TwoFields(v, D, w, E) == WordField(v, D) \o <<Amp>> \o WordField(w, E)

LEMMA TwoFieldsOf ==
    ASSUME NEW v \in Nat, v >= 256, NEW D \in Seq(EncBytes), NEW w \in Nat, w >= 256, NEW E \in Seq(EncBytes)
    PROVE  /\ TwoFields(v, D, w, E) \in Str
           /\ Len(TwoFields(v, D, w, E)) = Len(D) + Len(E) + 5
           /\ Pieces(TwoFields(v, D, w, E), {Amp, Semicolon}) = <<WordField(v, D), WordField(w, E)>>
           /\ \A i \in 1..Len(TwoFields(v, D, w, E)) :
                 TwoFields(v, D, w, E)[i] \notin {NUL, LF, CR, SP, Hash, Query, Colon}
<1> DEFINE x == WordField(v, D)
           y == WordField(w, E)
           xa == x \o <<Amp>>
           s == TwoFields(v, D, w, E)
           n == Len(x)
           m == Len(y)
<1>1. D \in Str /\ E \in Str /\ Inner(D) /\ Inner(E)
  BY EncInner
<1>2. x \in Str /\ y \in Str /\ n = Len(D) + 2 /\ m = Len(E) + 2 /\ Inner(x) /\ Inner(y)
  BY <1>1, WordFieldOf, WordFieldInner
<1>3. Len(D) \in Nat /\ Len(E) \in Nat
  BY <1>1, StrFacts
<1>4. s = xa \o y
  BY DEF TwoFields
<1> HIDE DEF x, y, s, n, m
<1>5. <<Amp>> \in Str /\ Len(<<Amp>>) = 1 /\ <<Amp>>[1] = Amp
  BY DEF Amp, Str
<1>6. xa \in Str /\ Len(xa) = n + 1 /\ (\A i \in 1..n : xa[i] = x[i]) /\ xa[n + 1] = Amp
  <2> DEFINE a == <<Amp>>
  <2>1. a \in Str /\ Len(a) = 1 /\ a[1] = Amp
    BY <1>5
  <2> HIDE DEF a
  <2>2. /\ x \o a \in Str /\ Len(x \o a) = Len(x) + Len(a)
        /\ \A i \in 1..Len(x) : (x \o a)[i] = x[i]
        /\ \A i \in 1..Len(a) : (x \o a)[Len(x) + i] = a[i]
    BY <1>2, <2>1, Cat
  <2> QED
    BY <2>1, <2>2 DEF n, a
<1> HIDE DEF xa
<1>7. n \in Nat /\ m \in Nat /\ n >= 2 /\ m >= 2
  BY <1>2, <1>3
<1>8. s \in Str /\ Len(s) = n + 1 + m /\ (\A i \in 1..n + 1 : s[i] = xa[i]) /\ \A i \in 1..m : s[n + 1 + i] = y[i]
  <2>1. /\ xa \o y \in Str /\ Len(xa \o y) = Len(xa) + Len(y)
        /\ \A i \in 1..Len(xa) : (xa \o y)[i] = xa[i]
        /\ \A i \in 1..Len(y) : (xa \o y)[Len(xa) + i] = y[i]
    BY <1>2, <1>6, Cat
  <2> QED
    BY <1>4, <1>6, <2>1 DEF m
<1>9. \A i \in 1..n : s[i] = x[i]
  <2>1. \A i \in 1..n : i \in 1..n + 1
    BY <1>7
  <2> QED
    BY <1>6, <1>8, <2>1
<1>10. s[n + 1] = Amp
  BY <1>6, <1>7, <1>8
<1>11. Len(s) = Len(D) + Len(E) + 5
  BY <1>2, <1>3, <1>8
<1>12. ASSUME NEW i \in 1..Len(s)
       PROVE  s[i] \notin {NUL, LF, CR, SP, Hash, Query, Colon}
  <2>1. CASE i <= n
    <3>1. i \in 1..n
      BY <1>7, <2>1
    <3> QED
      BY <1>2, <1>9, <3>1 DEF Inner, n
  <2>2. CASE i = n + 1
    BY <1>10, <2>2 DEF Amp, NUL, LF, CR, SP, Hash, Query, Colon
  <2>3. CASE i > n + 1
    <3>1. i - (n + 1) \in 1..m /\ n + 1 + (i - (n + 1)) = i
      BY <1>7, <1>8, <2>3
    <3>2. s[n + 1 + (i - (n + 1))] = y[i - (n + 1)]
      BY <1>8, <3>1
    <3>3. y[i - (n + 1)] \notin {NUL, LF, CR, SP, Hash, Query, Colon}
      BY <1>2, <3>1 DEF Inner, m
    <3> QED
      BY <3>1, <3>2, <3>3
  <2> QED
    BY <1>7, <1>8, <2>1, <2>2, <2>3
<1>13. Pieces(s, {Amp, Semicolon}) = <<x, y>>
  <2>1. n + 1 \in 1..Len(s) /\ (n + 1) - 1 = n
    BY <1>7, <1>8
  <2>2. \A i \in 1..n : s[i] \notin {Amp, Semicolon}
    BY <1>2, <1>9 DEF Inner, n
  <2>3. Pieces(s, {Amp, Semicolon}) = <<SubSeq(s, 1, n)>> \o Pieces(Drop(s, n + 1), {Amp, Semicolon})
    BY <1>8, <1>10, <2>1, <2>2, PiecesFirst
  <2>4. SubSeq(s, 1, n) = x
    <3>1. n <= Len(s)
      BY <1>7, <1>8
    <3>2. SubSeq(s, 1, n) \in Str /\ Len(SubSeq(s, 1, n)) = n /\ \A i \in 1..n : SubSeq(s, 1, n)[i] = s[i]
      BY <1>7, <1>8, <3>1, FirstPart
    <3> QED
      BY <1>2, <1>9, <3>2, SameStr DEF n
  <2>5. Drop(s, n + 1) = y
    BY <1>2, <1>4, <1>6, DropCat
  <2>6. Pieces(y, {Amp, Semicolon}) = <<y>>
    <3>1. y # <<>>
      BY <1>2, <1>7, StrFacts DEF m
    <3>2. \A i \in 1..Len(y) : y[i] \notin {Amp, Semicolon}
      BY <1>2 DEF Inner
    <3> QED
      BY <1>2, <3>1, <3>2, PiecesLast
  <2>7. <<x>> \o <<y>> = <<x, y>>
    <3>1. <<x>> \in Seq(Str)
      BY <1>2
    <3>2. <<x>> \o <<y>> = Append(<<x>>, y)
      BY <1>2, <3>1, Pairs
    <3> QED
      BY <3>2, Pair
  <2> QED
    BY <2>3, <2>4, <2>5, <2>6, <2>7
<1> QED
  BY <1>8, <1>11, <1>12, <1>13 DEF s, x, y

TwoParsed(v, D, w, E) ==
    LET q == parse_query(TwoFields(v, query_encode(D), w, query_encode(E)), <<>>)
    IN  /\ q \in Dict /\ DOMAIN q = {<< v >>, << w >>}
        /\ q[<< v >>] = D /\ q[<< w >>] = E

LEMMA TwoFieldsParsed ==
    ASSUME NEW v \in Nat, v >= 256, NEW D \in Seq(Byte), NEW w \in Nat, w >= 256, NEW E \in Seq(Byte), v # w
    PROVE  TwoParsed(v, D, w, E)
<1> DEFINE d == query_encode(D)
           e == query_encode(E)
           s == TwoFields(v, d, w, e)
           P == Fields(s)
           q == parse_query(s, <<>>)
<1>1. d \in Seq(EncBytes) /\ e \in Seq(EncBytes) /\ d \in Str /\ e \in Str
      /\ query_decode(d) = D /\ query_decode(e) = E
  BY EncsOf, DecodeEncode
<1>2. ASSUME NEW z \in Seq(Byte) PROVE z \in Str /\ CString(z) = z
  <2>1. z \in Str /\ \A i \in 1..Len(z) : z[i] \in Byte
    BY ByteFacts, SeqIn
  <2>2. \A i \in 1..Len(z) : z[i] # NUL
    BY <2>1, ByteFacts
  <2> QED
    BY <2>1, <2>2, CStringOf
<1> HIDE DEF d, e
<1>3. /\ s \in Str
      /\ Pieces(s, {Amp, Semicolon}) = <<WordField(v, d), WordField(w, e)>>
      /\ \A i \in 1..Len(s) : s[i] \notin {NUL, LF, CR, SP, Hash, Query, Colon}
  BY <1>1, TwoFieldsOf
<1> HIDE DEF s
<1>4. P = <<WordField(v, d), WordField(w, e)>>
  <2>1. QueryText(s) = s
    BY <1>3, QueryTextOf
  <2> QED
    BY <1>3, <2>1 DEF Fields
<1>5. Len(P) = 2 /\ P[1] = WordField(v, d) /\ P[2] = WordField(w, e)
  BY <1>4
<1>6. PICK f : IsRun(f, 0, Len(P), <<>>, "field", P) /\ q = f[Len(P)]
  BY <1>3, ParseRun, DictEmpty
<1> HIDE DEF P, q
<1>7. f[0] = <<>> /\ f[1] = Step("field", P[1], f[0]) /\ f[2] = Step("field", P[2], f[1])
  <2>1. IsRun(f, 0, 2, <<>>, "field", P)
    BY <1>5, <1>6
  <2>2. f[0] = <<>>
    BY <2>1, RunAt
  <2>3. f[1] = IF 1 = 0 THEN <<>> ELSE Step("field", P[1], f[1 - 1])
    BY <2>1, RunAt
  <2>4. f[2] = IF 2 = 0 THEN <<>> ELSE Step("field", P[2], f[2 - 1])
    BY <2>1, RunAt
  <2> QED
    BY <2>2, <2>3, <2>4
<1>8. Field(P[1]) = <<<< v >>, d>> /\ Field(P[2]) = <<<< w >>, e>>
  BY <1>1, <1>5, WordFieldOf
<1>9. f[1] = Set(<<>>, << v >>, D)
  <2>2. Field(P[1])[1] = << v >> /\ Field(P[1])[2] = d
    BY <1>8
  <2>3. query_decode(<< v >>) = << v >>
    BY WordFacts
  <2>1. query_decode(Field(P[1])[1]) = << v >> /\ query_decode(Field(P[1])[2]) = D
    BY <1>1, <2>2, <2>3
  <2> QED
    BY <1>7, <2>1 DEF Step
<1>10. f[2] = Set(f[1], << w >>, E)
  <2>2. Field(P[2])[1] = << w >> /\ Field(P[2])[2] = e
    BY <1>8
  <2>3. query_decode(<< w >>) = << w >>
    BY WordFacts
  <2>1. query_decode(Field(P[2])[1]) = << w >> /\ query_decode(Field(P[2])[2]) = E
    BY <1>1, <2>2, <2>3
  <2> QED
    BY <1>7, <2>1 DEF Step
<1>11. << v >> \in Str /\ << w >> \in Str /\ CString(<< v >>) = << v >> /\ CString(<< w >>) = << w >>
  BY WordFacts
<1>12. D \in Str /\ E \in Str /\ CString(D) = D /\ CString(E) = E
  BY <1>2
<1>14. << v >> # << w >>
  OBVIOUS
<1> DEFINE a == << v >>
           b == << w >>
<1> HIDE DEF a, b
<1>13. f[1] \in Dict /\ DOMAIN f[1] = {a} /\ f[1][a] = D
  <2> DEFINE o == <<>>
  <2>1. o \in Dict /\ DOMAIN o = {}
    BY DictEmpty
  <2>2. f[1] = Set(o, a, D) /\ a \in Str /\ CString(a) = a
    BY <1>9, <1>11 DEF a
  <2> HIDE DEF o
  <2>3. SetIs(f[1], o, a, D)
    BY <1>12, <2>1, <2>2, SetPlain
  <2> QED
    BY <2>1, <2>2, <2>3 DEF SetIs
<1>15. f[2] \in Dict /\ DOMAIN f[2] = {a, b} /\ f[2][b] = E /\ f[2][a] = D
  <2>1. f[2] = Set(f[1], b, E) /\ b \in Str /\ CString(b) = b /\ a # b
    BY <1>10, <1>11, <1>14 DEF a, b
  <2> DEFINE o == f[1]
  <2> HIDE DEF o
  <2>2. o \in Dict /\ DOMAIN o = {a} /\ o[a] = D
    BY <1>13 DEF o
  <2>5. f[2] = Set(o, b, E)
    BY <2>1 DEF o
  <2>3. SetIs(f[2], o, b, E)
    BY <1>12, <2>1, <2>2, <2>5, SetPlain
  <2>4. a \in DOMAIN o
    BY <2>2
  <2> QED
    BY <2>1, <2>2, <2>3, <2>4 DEF SetIs
<1>16. q = f[2]
  BY <1>5, <1>6
<1> QED
  BY <1>15, <1>16 DEF q, s, d, e, a, b, TwoParsed

-----------------------------------------------------------------------------
(* The query of a /places: one field, whose value is a name as it is.        *)

LEMMA RunTail ==
    ASSUME NEW f, NEW n \in Nat, n >= 1, NEW b, NEW kind, NEW D, IsRun(f, 0, n, b, kind, D)
    PROVE  IsRun([i \in 1..n |-> f[i]], 1, n, f[1], kind, D)
<1> DEFINE g == [i \in 1..n |-> f[i]]
<1>1. ASSUME NEW i \in 1..n PROVE g[i] = IF i = 1 THEN f[1] ELSE Step(kind, D[i], g[i - 1])
  <2>1. g[i] = f[i] /\ i \in 0..n /\ i # 0
    OBVIOUS
  <2>2. f[i] = IF i = 0 THEN b ELSE Step(kind, D[i], f[i - 1])
    BY <2>1, RunAt
  <2>3. CASE i = 1
    BY <2>1, <2>3
  <2>4. CASE i # 1
    <3>1. i - 1 \in 1..n
      BY <2>4
    <3>2. g[i - 1] = f[i - 1]
      BY <3>1
    <3> QED
      BY <2>1, <2>2, <2>4, <3>2
  <2> QED
    BY <2>3, <2>4
<1>2. g = [i \in 1..n |-> g[i]]
  OBVIOUS
<1> HIDE DEF g
<1>3. g = [i \in 1..n |-> IF i = 1 THEN f[1] ELSE Step(kind, D[i], g[i - 1])]
  BY <1>1, <1>2
<1>4. IsRun(g, 1, n, f[1], kind, D)
  BY <1>3 DEF IsRun
<1> QED
  BY <1>4 DEF g

\* All bytes are single bytes, none is a word.
Narrow(s) == \A i \in 1..Len(s) : s[i] <= 255

LEMMA NarrowSeq ==
    ASSUME NEW s \in Str
    PROVE  Narrow(s) <=> s \in Seq(0..255)
<1>1. \A i \in 1..Len(s) : s[i] \in Nat
  BY StrFacts
<1>2. ASSUME Narrow(s) PROVE s \in Seq(0..255)
  <2>1. \A i \in 1..Len(s) : s[i] \in 0..255
    BY <1>1, <1>2, UpTo255 DEF Narrow
  <2> QED
    BY <2>1, InSeq
<1>3. ASSUME s \in Seq(0..255) PROVE Narrow(s)
  <2>1. \A i \in 1..Len(s) : s[i] \in 0..255
    BY <1>3, ElementOfSeq
  <2> QED
    BY <2>1, UpTo255 DEF Narrow
<1> QED
  BY <1>2, <1>3

LEMMA PiecesNarrow ==
    ASSUME NEW s \in Str, NEW seps, Narrow(s)
    PROVE  \A i \in 1..Len(Pieces(s, seps)) : Pieces(s, seps)[i] \in Str /\ Narrow(Pieces(s, seps)[i])
<1>1. PICK f : IsChain(f, PieceParts(s, seps), PieceLinks(s, seps), Len(s), Len(s) + 2)
               /\ Pieces(s, seps) = f[1]
  BY PieceChain
<1>2. Len(s) \in Nat
  BY StrFacts
<1> DEFINE S == Seq(0..255)
<1>3. ASSUME NEW k \in 1..Len(s) PROVE PieceParts(s, seps)[k] \in Seq(S)
  <2>1. EndOf(s, seps, k) \in k..Len(s) + 1
    BY EndOfIs
  <2> DEFINE i == k - 1
             j == EndOf(s, seps, k) - 1
             t == SubSeq(s, i + 1, j)
  <2>2. i \in Nat /\ j \in Nat /\ i <= j /\ j <= Len(s) /\ i + 1 = k
    BY <1>2, <2>1
  <2> HIDE DEF i, j
  <2>3. t \in Str /\ Len(t) = j - i /\ \A l \in 1..j - i : t[l] = s[i + l]
    BY <2>2, Part
  <2> HIDE DEF t
  <2>4. Narrow(t)
    <3>1. ASSUME NEW l \in 1..Len(t) PROVE t[l] <= 255
      <4>1. i + l \in 1..Len(s) /\ l \in 1..j - i
        BY <1>2, <2>2, <2>3
      <4> QED
        BY <2>3, <4>1 DEF Narrow
    <3> QED
      BY <3>1 DEF Narrow
  <2>5. t \in S
    BY <2>3, <2>4, NarrowSeq
  <2>6. PieceParts(s, seps)[k] = << t >>
    BY <2>2 DEF PieceParts, t, j
  <2> HIDE DEF S
  <2> QED
    BY <2>5, <2>6
<1>4. Linked(PieceLinks(s, seps), Len(s), Len(s) + 2) /\ Len(s) + 2 \in Nat /\ 1 \in 1..Len(s) + 2
  BY <1>2, PieceLinked
<1> HIDE DEF S
<1>5. \A i \in 1..Len(s) + 2 : f[i] \in Seq(S)
  BY <1>1, <1>2, <1>3, <1>4, ChainType
<1>6. Pieces(s, seps) \in Seq(S)
  BY <1>1, <1>4, <1>5
<1>7. \A i \in 1..Len(Pieces(s, seps)) : Pieces(s, seps)[i] \in S
  BY <1>6, ElementOfSeq
<1>8. \A x \in S : x \in Str /\ Narrow(x)
  <2>1. ASSUME NEW x \in S PROVE x \in Str /\ Narrow(x)
    <3>1. x \in Seq(0..255) /\ 0..255 \subseteq Nat
      BY DEF S
    <3>2. x \in Str
      BY <3>1, SeqIn
    <3> QED
      BY <3>1, <3>2, NarrowSeq
  <2> QED
    BY <2>1
<1> QED
  BY <1>7, <1>8

\* A field of single bytes leaves the value of a word alone.
LEMMA NarrowField ==
    ASSUME NEW piece \in Str, Narrow(piece), NEW w \in Nat, w >= 256, NEW d \in Dict, << w >> \in DOMAIN d
    PROVE  << w >> \in DOMAIN Step("field", piece, d) /\ Step("field", piece, d)[<< w >>] = d[<< w >>]
<1> DEFINE a == Field(piece)[1]
           x == query_decode(a)
           v == query_decode(Field(piece)[2])
           eq == strchr(piece, Equal)
<1>1. a \in Str /\ Field(piece)[2] \in Str
  BY FieldOf
<1>2. Narrow(a)
  <2>1. CASE eq = 0
    <3>1. Field(piece) = <<piece, <<>>>>
      BY <2>1, FieldOf
    <3>2. a = piece
      BY <3>1
    <3> QED
      BY <3>2
  <2>2. CASE eq # 0
    <3>1. Field(piece) = <<SubSeq(piece, 1, eq - 1), Drop(piece, eq)>>
      BY <2>2, FieldOf
    <3>2. a = SubSeq(piece, 1, eq - 1)
      <4> DEFINE y == SubSeq(piece, 1, eq - 1)
                 z == Drop(piece, eq)
      <4> HIDE DEF y, z
      <4>1. Field(piece) = <<y, z>>
        BY <3>1 DEF y, z
      <4>2. a = y
        BY <4>1
      <4> QED
        BY <4>2 DEF y
    <3>3. eq \in Nat /\ eq <= Len(piece) /\ Len(piece) \in Nat
      BY StrchrOf, StrFacts
    <3>4. eq - 1 \in Nat /\ eq - 1 <= Len(piece)
      BY <2>2, <3>3
    <3> HIDE DEF a, eq
    <3>5. Len(a) = eq - 1 /\ \A i \in 1..eq - 1 : a[i] = piece[i]
      BY <3>2, <3>4, FirstPart
    <3>6. \A i \in 1..eq - 1 : i \in 1..Len(piece)
      BY <3>3, <3>4
    <3>7. \A i \in 1..Len(a) : a[i] <= 255
      BY <3>5, <3>6 DEF Narrow
    <3> QED
      BY <3>7 DEF Narrow
  <2> QED
    BY <2>1, <2>2
<1> HIDE DEF a
<1>3. x \in Str /\ v \in Str /\ Narrow(x)
  BY <1>1, <1>2, DecodeType, DecodeBytes DEF Narrow
<1>4. Step("field", piece, d) = Set(d, x, v)
  BY DEF Step, a
<1> HIDE DEF x, v
<1>5. CString(x) # << w >>
  <2>1. SUFFICES ASSUME CString(x) = << w >> PROVE FALSE
    OBVIOUS
  <2>2. CString(x) \in Str /\ Len(CString(x)) <= Len(x) /\ \A i \in 1..Len(CString(x)) : CString(x)[i] = x[i]
    BY <1>3, CStringOf
  <2>3. Len(CString(x)) = 1 /\ CString(x)[1] = w
    BY <2>1
  <2>4. x[1] = w /\ 1 \in 1..Len(x)
    BY <1>3, <2>2, <2>3, StrFacts
  <2>5. x[1] <= 255
    BY <1>3, <2>4 DEF Narrow
  <2> QED
    BY <2>4, <2>5
<1> DEFINE y == << w >>
           e == Set(d, x, v)
<1> HIDE DEF y
<1>6. DOMAIN e = DOMAIN d \cup {CString(x)} /\ \A z \in DOMAIN d : z # CString(x) => e[z] = d[z]
  BY <1>3, SetOf
<1> HIDE DEF e
<1>7. y \in DOMAIN d /\ CString(x) # y
  BY <1>5 DEF y
<1>8. y \in DOMAIN e /\ e[y] = d[y]
  BY <1>6, <1>7
<1> QED
  BY <1>4, <1>8 DEF y, e

LEMMA CStringAll ==
    ASSUME NEW x \in Seq(Byte)
    PROVE  x \in Str /\ CString(x) = x /\ Narrow(x) /\ \A i \in 1..Len(x) : x[i] # NUL
<1>1. x \in Str /\ \A i \in 1..Len(x) : x[i] \in Byte
  BY ByteFacts, SeqIn
<1>2. \A i \in 1..Len(x) : x[i] # NUL /\ x[i] <= 255
  BY <1>1, ByteFacts
<1> QED
  BY <1>1, <1>2, CStringOf DEF Narrow

\* How many bytes of a name its field ends with.
Kept(name, k) ==
    /\ k \in Nat /\ k <= Len(name)
    /\ \A i \in 1..k : name[i] \notin {Hash, Amp, Semicolon}
    /\ k < Len(name) => name[k + 1] \in {Hash, Amp, Semicolon}

LEMMA TextOfName ==
    ASSUME NEW w \in Nat, w >= 256, NEW name \in Seq(Byte)
    PROVE  LET s == WordField(w, name)
               text == QueryText(s)
           IN  /\ s \in Str /\ text \in Str /\ Len(text) >= 2 /\ Len(text) <= Len(s) /\ Len(s) = Len(name) + 2
               /\ s[1] = w /\ s[2] = Equal /\ (\A i \in 1..Len(name) : s[2 + i] = name[i])
               /\ \A i \in 1..Len(text) : text[i] = s[i] /\ s[i] # Hash
               /\ Len(text) < Len(s) => s[Len(text) + 1] = Hash
<1> DEFINE s == WordField(w, name)
           end == strchr(s, Hash)
           text == QueryText(s)
<1>1. name \in Str /\ Len(name) \in Nat /\ \A i \in 1..Len(name) : name[i] # NUL
  BY CStringAll, StrFacts
<1>2. s \in Str /\ Len(s) = Len(name) + 2 /\ s[1] = w /\ s[2] = Equal
      /\ \A i \in 1..Len(name) : s[2 + i] = name[i]
  BY <1>1, WordFieldOf
<1> HIDE DEF s
<1>3. ASSUME NEW i \in 1..Len(s) PROVE s[i] # NUL
  <2>1. CASE i = 1
    BY <1>2, <2>1 DEF NUL
  <2>2. CASE i = 2
    BY <1>2, <2>2 DEF NUL, Equal
  <2>3. CASE i > 2
    <3>1. i - 2 \in 1..Len(name) /\ 2 + (i - 2) = i
      BY <1>1, <1>2, <2>3
    <3>2. s[2 + (i - 2)] = name[i - 2] /\ name[i - 2] # NUL
      BY <1>1, <1>2, <3>1
    <3> QED
      BY <3>1, <3>2
  <2> QED
    BY <1>1, <1>2, <2>1, <2>2, <2>3
<1>4. CString(s) = s
  BY <1>2, <1>3, CStringOf
<1>5. text = IF end = 0 THEN s ELSE SubSeq(s, 1, end - 1)
  BY <1>4 DEF QueryText, Before
<1>6. end \in Nat /\ end <= Len(s) /\ (end # 0 => s[end] = Hash)
  BY <1>2, StrchrOf
<1>7. text \in Str /\ Len(text) <= Len(s) /\ \A i \in 1..Len(text) : text[i] = s[i] /\ s[i] # Hash
  BY <1>2, QueryTextOf
<1> HIDE DEF end, text
<1>8. Len(text) >= 2 /\ (Len(text) < Len(s) => s[Len(text) + 1] = Hash)
  <2>1. CASE end = 0
    BY <1>1, <1>2, <1>5, <2>1
  <2>2. CASE end # 0
    <3>1. end # 1 /\ end # 2
      BY <1>2, <1>6, <2>2 DEF Hash, Equal
    <3>2. end - 1 \in Nat /\ end - 1 <= Len(s) /\ end - 1 >= 2 /\ (end - 1) + 1 = end
      BY <1>1, <1>2, <1>6, <2>2, <3>1
    <3>3. Len(text) = end - 1
      BY <1>2, <1>5, <2>2, <3>2, FirstPart
    <3> QED
      BY <1>6, <2>2, <3>2, <3>3
  <2> QED
    BY <2>1, <2>2
<1> QED
  BY <1>2, <1>7, <1>8 DEF s, text

\* The first field of such a query, and what follows it.
LEMMA FieldsOfName ==
    ASSUME NEW w \in Nat, w >= 256, NEW name \in Seq(Byte)
    PROVE  LET P == Fields(WordField(w, name))
           IN  /\ P \in Seq(Str) /\ Len(P) \in Nat /\ Len(P) >= 1
               /\ \E k : Kept(name, k) /\ P[1] = WordField(w, SubSeq(name, 1, k))
               /\ \A i \in 2..Len(P) : P[i] \in Str /\ Narrow(P[i])
<1> DEFINE seps == {Amp, Semicolon}
           s == WordField(w, name)
           text == QueryText(s)
           P == Fields(s)
           e == EndOf(text, seps, 1)
           n == Len(name)
<1>1. /\ s \in Str /\ text \in Str /\ Len(text) >= 2 /\ Len(text) <= Len(s) /\ Len(s) = n + 2
      /\ s[1] = w /\ s[2] = Equal /\ (\A i \in 1..n : s[2 + i] = name[i])
      /\ \A i \in 1..Len(text) : text[i] = s[i] /\ s[i] # Hash
      /\ Len(text) < Len(s) => s[Len(text) + 1] = Hash
  BY TextOfName
<1>2. P = Pieces(text, seps) /\ P \in Seq(Str) /\ Len(P) \in Nat
  BY <1>1, FieldsType DEF Fields
<1>3. name \in Str /\ n \in Nat /\ Narrow(name)
  BY CStringAll, StrFacts
<1> HIDE DEF s, text, P, seps
<1>4. Len(text) \in Nat /\ 1 \in 1..Len(text)
  BY <1>1, StrFacts
<1>5. e \in 1..Len(text) + 1 /\ (e <= Len(text) => text[e] \in seps) /\ \A i \in 1..e - 1 : text[i] \notin seps
  BY <1>1, <1>4, EndOfIs
<1> HIDE DEF e
<1>6. e >= 3
  <2>1. text[1] = w /\ text[2] = Equal
    BY <1>1, <1>4
  <2>2. w \notin seps /\ Equal \notin seps
    BY DEF seps, Equal, Amp, Semicolon
  <2>3. e # 1 /\ e # 2
    BY <1>1, <1>4, <1>5, <2>1, <2>2
  <2> QED
    BY <1>4, <1>5, <2>3
<1> DEFINE k == e - 3
           c == SubSeq(name, 1, k)
<1>7. k \in Nat /\ k <= n /\ e = k + 3 /\ k + 2 <= Len(text)
  BY <1>1, <1>3, <1>4, <1>5, <1>6
<1> HIDE DEF k
<1>8. c \in Str /\ Len(c) = k /\ \A i \in 1..k : c[i] = name[i]
  BY <1>3, <1>7, FirstPart
<1> HIDE DEF c
<1>9. SubSeq(text, 1, e - 1) = WordField(w, c)
  <2> DEFINE u == SubSeq(text, 1, e - 1)
             v == WordField(w, c)
  <2>1. e - 1 \in Nat /\ e - 1 <= Len(text) /\ e - 1 = k + 2
    BY <1>4, <1>7
  <2>2. u \in Str /\ Len(u) = e - 1 /\ \A i \in 1..e - 1 : u[i] = text[i]
    BY <1>1, <2>1, FirstPart
  <2>3. v \in Str /\ Len(v) = Len(c) + 2 /\ v[1] = w /\ v[2] = Equal /\ \A i \in 1..Len(c) : v[2 + i] = c[i]
    BY <1>8, WordFieldOf
  <2> HIDE DEF u, v
  <2>4. ASSUME NEW i \in 1..k + 2 PROVE u[i] = v[i]
    <3>1. u[i] = s[i]
      <4>1. i \in 1..e - 1 /\ i \in 1..Len(text)
        BY <1>4, <1>7, <2>1
      <4> QED
        BY <1>1, <2>2, <4>1
    <3>2. CASE i = 1
      BY <1>1, <2>3, <3>1, <3>2
    <3>3. CASE i = 2
      BY <1>1, <2>3, <3>1, <3>3
    <3>4. CASE i > 2
      <4>1. i - 2 \in 1..k /\ i - 2 \in 1..n /\ 2 + (i - 2) = i
        BY <1>3, <1>7, <3>4
      <4>2. s[2 + (i - 2)] = name[i - 2]
        BY <1>1, <4>1
      <4>3. v[2 + (i - 2)] = c[i - 2] /\ c[i - 2] = name[i - 2]
        BY <1>8, <2>3, <4>1
      <4> QED
        BY <3>1, <4>1, <4>2, <4>3
    <3> QED
      BY <1>7, <3>2, <3>3, <3>4
  <2>5. u = v
    BY <1>8, <2>1, <2>2, <2>3, <2>4, SameStr
  <2> QED
    BY <2>5 DEF u, v
<1>10. \A i \in 1..k : name[i] \notin {Hash, Amp, Semicolon}
  <2>1. SUFFICES ASSUME NEW i \in 1..k PROVE name[i] \notin {Hash, Amp, Semicolon}
    OBVIOUS
  <2>2. 2 + i \in 1..Len(text) /\ 2 + i \in 1..e - 1 /\ i \in 1..n
    BY <1>3, <1>4, <1>7
  <2>3. s[2 + i] = name[i] /\ text[2 + i] = s[2 + i] /\ s[2 + i] # Hash /\ text[2 + i] \notin seps
    BY <1>1, <1>5, <2>2
  <2> QED
    BY <2>3 DEF seps
<1>11. k < n => name[k + 1] \in {Hash, Amp, Semicolon}
  <2>1. SUFFICES ASSUME k < n PROVE name[k + 1] \in {Hash, Amp, Semicolon}
    OBVIOUS
  <2>2. k + 1 \in 1..n /\ 2 + (k + 1) = e
    BY <1>3, <1>7, <2>1
  <2>3. s[e] = name[k + 1]
    BY <1>1, <2>2
  <2>4. CASE e <= Len(text)
    <3>1. e \in 1..Len(text)
      BY <1>4, <1>5, <2>4
    <3>2. text[e] \in seps /\ text[e] = s[e]
      BY <1>1, <1>5, <2>4, <3>1
    <3> QED
      BY <2>3, <3>2 DEF seps
  <2>5. CASE ~(e <= Len(text))
    <3>1. e = Len(text) + 1 /\ Len(text) < Len(s)
      BY <1>1, <1>3, <1>4, <1>5, <1>7, <2>1, <2>5
    <3>2. s[e] = Hash
      BY <1>1, <3>1
    <3> QED
      BY <2>3, <3>2
  <2> QED
    BY <2>4, <2>5
<1>12. Kept(name, k)
  BY <1>7, <1>10, <1>11 DEF Kept
<1>13. Len(P) >= 1 /\ P[1] = WordField(w, c) /\ \A i \in 2..Len(P) : P[i] \in Str /\ Narrow(P[i])
  <2>1. CASE e <= Len(text)
    <3> DEFINE r == Drop(text, e)
               R == Pieces(r, seps)
               x == SubSeq(text, 1, e - 1)
    <3>1. e \in 1..Len(text) /\ text[e] \in seps
      BY <1>4, <1>5, <2>1
    <3>2. P = << x >> \o R
      BY <1>1, <1>2, <1>5, <3>1, PiecesFirst
    <3>3. e \in Nat /\ e <= Len(text)
      BY <1>4, <3>1
    <3>4. r \in Str /\ Len(r) = Len(text) - e /\ \A i \in 1..Len(text) - e : r[i] = text[i + e]
      BY <1>1, <3>3, DropOf
    <3> HIDE DEF r
    <3>5. Narrow(r)
      <4>1. ASSUME NEW i \in 1..Len(r) PROVE r[i] <= 255
        <5>1. i \in 1..Len(text) - e /\ i + e \in 1..Len(text) /\ i + e - 2 \in 1..n /\ 2 + (i + e - 2) = i + e
          BY <1>1, <1>3, <1>4, <1>6, <3>1, <3>4
        <5>2. r[i] = text[i + e] /\ text[i + e] = s[i + e]
          BY <1>1, <3>4, <5>1
        <5>3. s[2 + (i + e - 2)] = name[i + e - 2]
          BY <1>1, <5>1
        <5>4. name[i + e - 2] <= 255
          BY <1>3, <5>1 DEF Narrow
        <5> QED
          BY <5>1, <5>2, <5>3, <5>4
      <4> QED
        BY <4>1 DEF Narrow
    <3>6. \A i \in 1..Len(R) : R[i] \in Str /\ Narrow(R[i])
      BY <3>4, <3>5, PiecesNarrow
    <3>7. R \in Seq(Str)
      BY <3>4, PiecesType
    <3>8. x = WordField(w, c) /\ x \in Str
      BY <1>8, <1>9, WordFieldOf
    <3> HIDE DEF R, x
    <3>9. Prepended(P, x, R, Str)
      BY <3>2, <3>7, <3>8, PrependSeq
    <3>10. Len(P) = Len(R) + 1 /\ Len(R) \in Nat /\ P[1] = x /\ \A i \in 1..Len(R) : P[i + 1] = R[i]
      BY <3>9 DEF Prepended
    <3>11. ASSUME NEW i \in 2..Len(P) PROVE P[i] \in Str /\ Narrow(P[i])
      <4>1. i - 1 \in 1..Len(R) /\ (i - 1) + 1 = i
        BY <3>10
      <4>2. P[(i - 1) + 1] = R[i - 1]
        BY <3>10, <4>1
      <4> QED
        BY <3>6, <4>1, <4>2
    <3> QED
      BY <3>8, <3>10, <3>11
  <2>2. CASE ~(e <= Len(text))
    <3>1. e - 1 = Len(text)
      BY <1>4, <1>5, <2>2
    <3>2. \A i \in 1..Len(text) : text[i] \notin seps
      BY <1>5, <3>1
    <3>3. text # <<>>
      BY <1>1, <1>4, StrFacts
    <3>4. P = << text >>
      BY <1>1, <1>2, <3>2, <3>3, PiecesLast
    <3>5. text = WordField(w, c)
      BY <1>1, <1>9, <3>1, Whole
    <3>6. Len(P) = 1 /\ P[1] = text
      BY <3>4
    <3>7. \A i \in 2..1 : FALSE
      OBVIOUS
    <3> QED
      BY <3>5, <3>6, <3>7
  <2> QED
    BY <2>1, <2>2
<1> QED
  BY <1>2, <1>12, <1>13 DEF P, s, c

\* What a query of a name is parsed to: the name's first field, decoded.
LEMMA NameParsed ==
    ASSUME NEW w \in Nat, w >= 256, NEW name \in Seq(Byte)
    PROVE  LET q == parse_query(WordField(w, name), <<>>)
           IN  /\ q \in Dict /\ << w >> \in DOMAIN q
               /\ \E k : Kept(name, k) /\ q[<< w >>] = CString(query_decode(SubSeq(name, 1, k)))
<1> DEFINE s == WordField(w, name)
           P == Fields(s)
           q == parse_query(s, <<>>)
           y == << w >>
<1>1. name \in Str /\ Len(name) \in Nat
  BY CStringAll, StrFacts
<1>2. s \in Str
  BY <1>1, WordFieldOf
<1>3. P \in Seq(Str) /\ Len(P) \in Nat /\ Len(P) >= 1
      /\ (\E k : Kept(name, k) /\ P[1] = WordField(w, SubSeq(name, 1, k)))
      /\ \A i \in 2..Len(P) : P[i] \in Str /\ Narrow(P[i])
  BY FieldsOfName
<1>4. PICK f : IsRun(f, 0, Len(P), <<>>, "field", P) /\ q = f[Len(P)]
  BY <1>2, ParseRun, DictEmpty
<1>5. q \in Dict
  BY <1>2, ParseRun, DictEmpty
<1>6. PICK k : Kept(name, k) /\ P[1] = WordField(w, SubSeq(name, 1, k))
  BY <1>3
<1> DEFINE c == SubSeq(name, 1, k)
           V == CString(query_decode(c))
           n == Len(P)
<1> HIDE DEF s, P, q
<1>7. c \in Str
  BY <1>1, <1>6, FirstPart DEF Kept
<1> HIDE DEF c
<1>8. f[1] = Set(<<>>, y, query_decode(c))
  <2>1. f[0] = <<>>
    BY <1>3, <1>4, RunAt
  <2>2. f[1] = IF 1 = 0 THEN <<>> ELSE Step("field", P[1], f[1 - 1])
    <3>1. 1 \in 0..n
      BY <1>3
    <3> QED
      BY <1>4, <3>1, RunAt
  <2>3. f[1] = Step("field", P[1], <<>>)
    BY <2>1, <2>2
  <2>4. Field(P[1]) = << y, c >>
    BY <1>6, <1>7, WordFieldOf DEF c
  <2>5. Field(P[1])[1] = y /\ Field(P[1])[2] = c
    BY <2>4
  <2>6. query_decode(y) = y
    BY WordFacts
  <2> QED
    BY <2>3, <2>5, <2>6 DEF Step
<1>9. y \in Str /\ CString(y) = y
  BY WordFacts
<1> DEFINE T == {d \in Dict : y \in DOMAIN d /\ d[y] = V}
<1> HIDE DEF y
<1>10. f[1] \in T
  <2> DEFINE o == <<>>
             v == query_decode(c)
             e == Set(o, y, v)
  <2>1. o \in Dict /\ v \in Str
    BY <1>7, DictEmpty, DecodeType
  <2> HIDE DEF o, v
  <2>2. e \in Dict /\ DOMAIN e = DOMAIN o \cup {CString(y)} /\ e[CString(y)] = CString(v)
    BY <1>9, <2>1, SetOf
  <2> HIDE DEF e
  <2>3. e \in Dict /\ y \in DOMAIN e /\ e[y] = CString(v)
    BY <1>9, <2>2
  <2>4. f[1] = e /\ V = CString(v)
    BY <1>8 DEF e, o, v
  <2> QED
    BY <2>3, <2>4
<1> HIDE DEF V
<1>11. IsRun([i \in 1..n |-> f[i]], 1, n, f[1], "field", P)
  BY <1>3, <1>4, RunTail
<1>12. StaysIn(T, 1, n, f[1], "field", P)
  <2>1. ASSUME NEW i \in 1 + 1..n, NEW d \in T PROVE Step("field", P[i], d) \in T
    <3>1. P[i] \in Str /\ Narrow(P[i]) /\ d \in Dict
      BY <1>3
    <3>2. << w >> \in DOMAIN d /\ d[<< w >>] = V
      BY DEF y
    <3>3. Step("field", P[i], d) \in Dict
      BY <3>1, FieldStep
    <3>4. << w >> \in DOMAIN Step("field", P[i], d) /\ Step("field", P[i], d)[<< w >>] = d[<< w >>]
      BY <3>1, <3>2, NarrowField
    <3> QED
      BY <3>2, <3>3, <3>4 DEF y
  <2> QED
    BY <1>3, <1>10, <2>1 DEF StaysIn
<1>13. q \in T
  <2> DEFINE g == [i \in 1..n |-> f[i]]
  <2>1. n \in 1..n
    BY <1>3
  <2>2. g[n] = f[n]
    BY <2>1
  <2> HIDE DEF g, T, n
  <2>3. IsRun(g, 1, n, f[1], "field", P)
    BY <1>11 DEF g
  <2>4. \A i \in 1..n : g[i] \in T
    BY <1>12, <2>3, RunType
  <2> QED
    BY <1>4, <2>1, <2>2, <2>4 DEF n
<1> QED
  BY <1>5, <1>6, <1>13 DEF q, s, y, V, c

\* A name arrives as it is if and only if nothing in it has a meaning.
LEMMA NameArrives ==
    ASSUME NEW name \in Seq(Byte), NEW k, Kept(name, k)
    PROVE  CString(query_decode(SubSeq(name, 1, k))) = name <=> Unchanged(name)
<1> DEFINE n == Len(name)
           c == SubSeq(name, 1, k)
           q == query_decode(c)
           V == CString(q)
<1>1. name \in Str /\ n \in Nat /\ DOMAIN name = 1..n /\ CString(name) = name
  BY CStringAll, StrFacts
<1>2. k \in Nat /\ k <= n /\ (\A i \in 1..k : name[i] \notin {Hash, Amp, Semicolon})
      /\ (k < n => name[k + 1] \in {Hash, Amp, Semicolon})
  BY DEF Kept
<1>3. c \in Str /\ Len(c) = k
  BY <1>1, <1>2, FirstPart
<1>4. k = n => c = name
  BY <1>1, Whole
<1> HIDE DEF c, n
<1>5. q \in Str /\ Len(q) <= k /\ (Plainly(c) <=> Len(q) = k)
      /\ (Plainly(c) => \A i \in 1..k : q[i] = Decoded(c, i))
  BY <1>3, DecodeType, DecodeFacts DEF DecodesWell
<1>6. Len(q) \in Nat
  BY <1>5, StrFacts
<1> HIDE DEF q
<1>7. V \in Str /\ Len(V) <= Len(q) /\ \A i \in 1..Len(V) : V[i] = q[i]
  BY <1>5, CStringOf
<1>8. Len(V) \in Nat
  BY <1>7, StrFacts
<1>9. ASSUME V = name PROVE Unchanged(name)
  <2>1. k = n /\ Len(q) = k /\ Len(V) = n
    <3>1. Len(V) = n
      BY <1>9 DEF n
    <3> HIDE DEF V
    <3> QED
      BY <1>1, <1>2, <1>5, <1>6, <1>7, <3>1
  <2>2. c = name /\ Plainly(c)
    BY <1>4, <1>5, <2>1
  <2>3. ASSUME NEW i \in 1..n PROVE name[i] \notin {Hash, Amp, Semicolon, Plus} /\ ~Escape(name, i)
    <3>1. ~Escape(name, i)
      BY <2>2 DEF Plainly, n
    <3>2. name[i] \notin {Hash, Amp, Semicolon}
      BY <1>2, <2>1
    <3>3. q[i] = Decoded(name, i) /\ V[i] = q[i]
      BY <1>5, <1>7, <2>1, <2>2
    <3>4. name[i] = Decoded(name, i)
      BY <1>9, <3>3
    <3>5. name[i] # Plus
      <4>1. SUFFICES ASSUME name[i] = Plus PROVE FALSE
        OBVIOUS
      <4>2. Decoded(name, i) = SP
        BY <3>1, <4>1 DEF Decoded
      <4>3. SP # Plus
        BY DEF SP, Plus
      <4> QED
        BY <3>4, <4>1, <4>2, <4>3, Zenon
    <3> QED
      BY <3>1, <3>2, <3>5
  <2> QED
    BY <1>1, <2>3 DEF Unchanged
<1>10. ASSUME Unchanged(name) PROVE V = name
  <2>1. \A i \in 1..n : name[i] \notin {Hash, Amp, Semicolon, Plus} /\ ~Escape(name, i)
    BY <1>1, <1>10 DEF Unchanged
  <2>2. k = n
    <3>1. SUFFICES ASSUME k < n PROVE FALSE
      BY <1>1, <1>2
    <3>2. k + 1 \in 1..n
      BY <1>1, <1>2, <3>1
    <3> QED
      BY <1>2, <2>1, <3>1, <3>2
  <2>3. c = name
    BY <1>4, <2>2
  <2>4. Plainly(c)
    BY <2>1, <2>3 DEF Plainly, n
  <2>5. \A i \in 1..n : q[i] = name[i]
    <3>1. SUFFICES ASSUME NEW i \in 1..n PROVE q[i] = name[i]
      OBVIOUS
    <3>2. q[i] = Decoded(name, i)
      BY <1>5, <2>2, <2>3, <2>4
    <3> QED
      BY <2>1, <3>2 DEF Decoded
  <2>6. q = name
    BY <1>1, <1>5, <2>2, <2>4, <2>5, SameStr DEF n
  <2> QED
    BY <1>1, <2>6
<1> QED
  BY <1>9, <1>10 DEF q, c

-----------------------------------------------------------------------------
(* Lines, and what rio_readlineb returns of them.                            *)

LEMMA CatCancel ==
    ASSUME NEW g \in Str, NEW x \in Str, NEW l \in Str, NEW r \in Str, g \o x = l \o r, Len(g) = Len(l)
    PROVE  g = l /\ x = r
<1> DEFINE z == g \o x
           n == Len(g)
<1>1. z = l \o r /\ n = Len(l)
  OBVIOUS
<1>2. z \in Str /\ (\A i \in 1..n : z[i] = g[i]) /\ Drop(z, n) = x
  BY Cat, DropCat
<1>3. (\A i \in 1..n : z[i] = l[i]) /\ Drop(z, n) = r
  <2>1. /\ \A i \in 1..Len(l) : (l \o r)[i] = l[i]
        /\ Drop(l \o r, Len(l)) = r
    BY Cat, DropCat
  <2> HIDE DEF z, n
  <2> QED
    BY <1>1, <2>1
<1> HIDE DEF z
<1>4. \A i \in 1..Len(g) : g[i] = l[i]
  BY <1>2, <1>3
<1>5. g = l
  BY <1>4, SameStr
<1> QED
  BY <1>2, <1>3, <1>5

\* A newline ends it, and it has no other.
Ended1(l) == l \in Str /\ Len(l) >= 1 /\ l[Len(l)] = LF /\ \A i \in 1..Len(l) - 1 : l[i] # LF

\* What a call of rio_readlineb returns with: g, when x is still to be read.
LineDone(g, x, closed) ==
    /\ Len(g) <= MAXLINE - 1 /\ \A i \in 1..Len(g) - 1 : g[i] # LF
    /\ \/ Len(g) >= 1 /\ g[Len(g)] = LF
       \/ Len(g) = MAXLINE - 1
       \/ closed /\ x = <<>>

\* The line l and then r were sent, and t of it never came.
LineAt(g, x, t, l, r, closed) ==
    /\ g \in Str /\ x \in Str /\ t \in Str /\ r \in Str /\ closed \in BOOLEAN
    /\ (g \o x) \o t = l \o r /\ Ended1(l) /\ Len(l) <= MAXLINE - 1 /\ LineDone(g, x, closed)

LEMMA LineCut ==
    ASSUME NEW g, NEW x, NEW t, NEW l, NEW r, NEW closed, LineAt(g, x, t, l, r, closed)
    PROVE  \/ g = l /\ x \o t = r
           \/ closed /\ x = <<>> /\ t # <<>> /\ Len(g) < Len(l) /\ g = SubSeq(l, 1, Len(g))
<1> DEFINE n == Len(g)
           m == Len(l)
           y == x \o t
           z == g \o y
<1>0. /\ g \in Str /\ x \in Str /\ t \in Str /\ r \in Str /\ closed \in BOOLEAN
      /\ (g \o x) \o t = l \o r /\ Ended1(l) /\ Len(l) <= MAXLINE - 1 /\ LineDone(g, x, closed)
  BY DEF LineAt
<1> USE <1>0
<1>1. l \in Str /\ n \in Nat /\ m \in Nat /\ y \in Str /\ MAXLINE \in Nat
  BY StrFacts, Cat, RioAssumption DEF Ended1
<1>2. z = l \o r
  BY CatAssoc
<1>3. z \in Str /\ \A i \in 1..n : z[i] = g[i]
  BY <1>1, Cat
<1>4. \A i \in 1..m : z[i] = l[i]
  <2>1. \A i \in 1..Len(l) : (l \o r)[i] = l[i]
    BY <1>1, Cat
  <2> HIDE DEF z
  <2> QED
    BY <1>2, <2>1
<1> HIDE DEF y
<1>5. CASE n = m
  <2>1. g = l /\ y = r
    BY <1>1, <1>2, <1>5, CatCancel
  <2> QED
    BY <2>1 DEF y
<1>6. CASE n > m
  <2> HIDE DEF z
  <2>1. m \in 1..n - 1 /\ m \in 1..n /\ m \in 1..m
    BY <1>1, <1>6 DEF Ended1
  <2>2. g[m] = l[m]
    BY <1>3, <1>4, <2>1
  <2> QED
    BY <2>1, <2>2 DEF Ended1, LineDone
<1>7. CASE n < m
  <2> HIDE DEF z
  <2>1. \A i \in 1..n : g[i] = l[i]
    <3>1. \A i \in 1..n : i \in 1..m
      BY <1>1, <1>7
    <3> QED
      BY <1>3, <1>4, <3>1
  <2>2. g = SubSeq(l, 1, n)
    <3>1. SubSeq(l, 1, n) \in Str /\ Len(SubSeq(l, 1, n)) = n /\ \A i \in 1..n : SubSeq(l, 1, n)[i] = l[i]
      BY <1>1, <1>7, FirstPart
    <3> QED
      BY <1>1, <2>1, <3>1, SameStr
  <2>3. ~(n >= 1 /\ g[n] = LF)
    <3>1. SUFFICES ASSUME n >= 1 PROVE g[n] # LF
      OBVIOUS
    <3>2. n \in 1..n /\ n \in 1..m - 1
      BY <1>1, <1>7, <3>1
    <3> QED
      BY <2>1, <3>2 DEF Ended1
  <2>4. n # MAXLINE - 1
    BY <1>1, <1>7
  <2>5. closed /\ x = <<>>
    BY <2>3, <2>4 DEF LineDone
  <2>6. t # <<>>
    <3>1. SUFFICES ASSUME t = <<>> PROVE FALSE
      OBVIOUS
    <3>2. y = <<>>
      BY <2>5, <3>1 DEF y
    <3>3. z = g
      BY <3>2, CatEmpty DEF z
    <3>4. Len(z) = m + Len(r) /\ Len(r) \in Nat
      BY <1>1, <1>2, Cat, StrFacts
    <3> QED
      BY <1>1, <1>7, <3>3, <3>4
  <2> QED
    BY <1>7, <2>2, <2>5, <2>6
<1> QED
  BY <1>1, <1>5, <1>6, <1>7

\* A line that does not fit is cut, and does not end with a newline.
LEMMA LineLong ==
    ASSUME NEW g \in Str, NEW x \in Str, NEW l, NEW r \in Str,
           g \o x = l \o r, Ended1(l), ~(Len(l) <= MAXLINE - 1), LineDone(g, x, FALSE)
    PROVE  Len(g) >= 1 /\ g[Len(g)] # LF
<1> DEFINE n == Len(g)
           m == Len(l)
           z == g \o x
<1>1. l \in Str /\ n \in Nat /\ m \in Nat /\ MAXLINE \in Nat /\ MAXLINE >= 20
  BY StrFacts, RioAssumption DEF Ended1
<1>2. \A i \in 1..n : z[i] = g[i]
  BY Cat
<1>3. \A i \in 1..m : z[i] = l[i]
  <2>1. \A i \in 1..Len(l) : (l \o r)[i] = l[i]
    BY <1>1, Cat
  <2>2. z = l \o r
    OBVIOUS
  <2> HIDE DEF z
  <2> QED
    BY <2>1, <2>2
<1> HIDE DEF z
<1>4. n <= MAXLINE - 1 /\ n >= 1
  BY <1>1 DEF LineDone
<1>5. n \in 1..n /\ n \in 1..m /\ n \in 1..m - 1
  BY <1>1, <1>4
<1>6. g[n] = l[n]
  BY <1>2, <1>3, <1>5
<1> QED
  BY <1>4, <1>5, <1>6 DEF Ended1

-----------------------------------------------------------------------------
(* Request lines.                                                            *)

ReqLine(a, u, v) == (<<a, SP>> \o u) \o <<SP, v, CR, LF>>

LEMMA ReqLineOf ==
    ASSUME NEW a \in Nat, NEW u \in Str, NEW v \in Nat
    PROVE  LET R == ReqLine(a, u, v)
               n == Len(u)
           IN  /\ R \in Str /\ Len(R) = n + 6 /\ n \in Nat
               /\ R[1] = a /\ R[2] = SP /\ (\A i \in 1..n : R[2 + i] = u[i])
               /\ R[n + 3] = SP /\ R[n + 4] = v /\ R[n + 5] = CR /\ R[n + 6] = LF
<1> DEFINE p == <<a, SP>>
           q == <<SP, v, CR, LF>>
           h == p \o u
           R == ReqLine(a, u, v)
           n == Len(u)
<1>1. p \in Str /\ Len(p) = 2 /\ p[1] = a /\ p[2] = SP
  BY DEF Str, SP
<1>2. q \in Str /\ Len(q) = 4 /\ q[1] = SP /\ q[2] = v /\ q[3] = CR /\ q[4] = LF
  BY DEF Str, SP, CR, LF
<1>3. n \in Nat
  BY StrFacts
<1> HIDE DEF p, q
<1>4. /\ h \in Str /\ Len(h) = Len(p) + n
      /\ \A i \in 1..Len(p) : h[i] = p[i]
      /\ \A i \in 1..n : h[Len(p) + i] = u[i]
  BY <1>1, Cat
<1> HIDE DEF h
<1>5. R = h \o q
  BY DEF ReqLine, h, p, q
<1>6. /\ R \in Str /\ Len(R) = Len(h) + Len(q)
      /\ \A i \in 1..Len(h) : R[i] = h[i]
      /\ \A i \in 1..Len(q) : R[Len(h) + i] = q[i]
  <2>1. /\ h \o q \in Str /\ Len(h \o q) = Len(h) + Len(q)
        /\ \A i \in 1..Len(h) : (h \o q)[i] = h[i]
        /\ \A i \in 1..Len(q) : (h \o q)[Len(h) + i] = q[i]
    BY <1>2, <1>4, Cat
  <2> QED
    BY <1>5, <2>1
<1> HIDE DEF R
<1>7. Len(R) = n + 6 /\ Len(h) = n + 2
  BY <1>1, <1>2, <1>3, <1>4, <1>6
<1>8. h[1] = a /\ h[2] = SP /\ \A i \in 1..n : h[2 + i] = u[i]
  BY <1>1, <1>4
<1>9. R[1] = a /\ R[2] = SP
  BY <1>3, <1>6, <1>7, <1>8
<1>10. ASSUME NEW i \in 1..n PROVE R[2 + i] = u[i]
  <2>1. 2 + i \in 1..Len(h)
    BY <1>3, <1>7
  <2> QED
    BY <1>6, <1>8, <2>1
<1>11. R[n + 3] = SP /\ R[n + 4] = v /\ R[n + 5] = CR /\ R[n + 6] = LF
  <2>1. \A i \in 1..4 : R[n + 2 + i] = q[i]
    BY <1>2, <1>6, <1>7
  <2>2. R[n + 2 + 1] = q[1] /\ R[n + 2 + 2] = q[2] /\ R[n + 2 + 3] = q[3] /\ R[n + 2 + 4] = q[4]
    BY <2>1
  <2>3. n + 2 + 1 = n + 3 /\ n + 2 + 2 = n + 4 /\ n + 2 + 3 = n + 5 /\ n + 2 + 4 = n + 6
    BY <1>3
  <2> QED
    BY <1>2, <2>2, <2>3
<1> QED
  BY <1>3, <1>6, <1>7, <1>9, <1>10, <1>11 DEF R

LEMMA ReqLineEnds ==
    ASSUME NEW a \in Nat, a # LF, NEW u \in Str, \A i \in 1..Len(u) : u[i] # LF, NEW v \in Nat, v # LF
    PROVE  Ended1(ReqLine(a, u, v))
<1> DEFINE R == ReqLine(a, u, v)
           n == Len(u)
<1>1. /\ R \in Str /\ Len(R) = n + 6 /\ n \in Nat
      /\ R[1] = a /\ R[2] = SP /\ (\A i \in 1..n : R[2 + i] = u[i])
      /\ R[n + 3] = SP /\ R[n + 4] = v /\ R[n + 5] = CR /\ R[n + 6] = LF
  BY ReqLineOf
<1> HIDE DEF R
<1>2. ASSUME NEW i \in 1..Len(R) - 1 PROVE R[i] # LF
  <2>1. SP # LF /\ CR # LF
    BY DEF SP, CR, LF
  <2>2. CASE i \in 3..n + 2
    <3>1. i - 2 \in 1..n /\ 2 + (i - 2) = i
      BY <1>1, <2>2
    <3> QED
      BY <1>1, <3>1
  <2>3. CASE i \notin 3..n + 2
    <3>1. i = 1 \/ i = 2 \/ i = n + 3 \/ i = n + 4 \/ i = n + 5
      BY <1>1, <2>3
    <3> QED
      BY <1>1, <2>1, <3>1
  <2> QED
    BY <2>2, <2>3
<1>3. Len(R) >= 1 /\ R[Len(R)] = LF
  BY <1>1
<1> QED
  BY <1>1, <1>2, <1>3 DEF R, Ended1

\* The first two spaces of a line.
Space1(buf) == strchr(buf, SP)
Space2(buf) == Space1(buf) + strchr(After(buf, Space1(buf)), SP)

LEMMA ParseReq ==
    ASSUME NEW a \in Nat, a # SP, NEW u \in Str, \A i \in 1..Len(u) : u[i] # SP, NEW v \in Nat, v # SP
    PROVE  /\ parse_request_line(ReqLine(a, u, v)) = <<<< a >>, u, << v >>>>
<1> DEFINE R == ReqLine(a, u, v)
           n == Len(u)
           text == SubSeq(R, 1, Len(R) - 2)
<1>1. /\ R \in Str /\ Len(R) = n + 6 /\ n \in Nat
      /\ R[1] = a /\ R[2] = SP /\ (\A i \in 1..n : R[2 + i] = u[i])
      /\ R[n + 3] = SP /\ R[n + 4] = v /\ R[n + 5] = CR /\ R[n + 6] = LF
  BY ReqLineOf
<1> HIDE DEF R
<1>2. strchr(R, SP) = 2
  <2>1. 2 \in 1..Len(R) /\ \A i \in 1..2 - 1 : R[i] # SP
    BY <1>1
  <2> QED
    BY <1>1, <2>1, StrchrIs
<1> DEFINE t == Drop(R, 2)
<1>3. t \in Str /\ Len(t) = n + 4 /\ \A i \in 1..n + 4 : t[i] = R[i + 2]
  <2>1. 2 \in Nat /\ 2 <= Len(R) /\ Len(R) - 2 = n + 4
    BY <1>1
  <2>2. t \in Str /\ Len(t) = Len(R) - 2 /\ \A i \in 1..Len(R) - 2 : t[i] = R[i + 2]
    BY <1>1, <2>1, DropOf
  <2> HIDE DEF t
  <2> QED
    BY <2>1, <2>2
<1> HIDE DEF t
<1>4. strchr(t, SP) = n + 1
  <2>1. n + 1 \in 1..Len(t) /\ n + 1 \in 1..n + 4 /\ (n + 1) + 2 = n + 3
    BY <1>1, <1>3
  <2>2. t[n + 1] = SP
    BY <1>1, <1>3, <2>1
  <2>3. ASSUME NEW i \in 1..(n + 1) - 1 PROVE t[i] # SP
    <3>1. i \in 1..n /\ i \in 1..n + 4 /\ i + 2 = 2 + i
      BY <1>1
    <3> QED
      BY <1>1, <1>3, <3>1
  <2> QED
    BY <1>3, <2>1, <2>2, <2>3, StrchrIs
<1> DEFINE w == Drop(R, n + 3)
<1>5. w \in Str /\ Len(w) = 3 /\ \A i \in 1..3 : w[i] = R[i + (n + 3)]
  <2>1. n + 3 \in Nat /\ n + 3 <= Len(R) /\ Len(R) - (n + 3) = 3
    BY <1>1
  <2>2. w \in Str /\ Len(w) = Len(R) - (n + 3) /\ \A i \in 1..Len(R) - (n + 3) : w[i] = R[i + (n + 3)]
    BY <1>1, <2>1, DropOf
  <2> HIDE DEF w
  <2> QED
    BY <2>1, <2>2
<1> HIDE DEF w
<1>6. strchr(w, SP) = 0
  <2>1. 1 + (n + 3) = n + 4 /\ 2 + (n + 3) = n + 5 /\ 3 + (n + 3) = n + 6
    BY <1>1
  <2>2. w[1] = v /\ w[2] = CR /\ w[3] = LF
    BY <1>1, <1>5, <2>1
  <2>3. \A i \in 1..Len(w) : w[i] # SP
    BY <1>5, <2>2 DEF SP, CR, LF
  <2> QED
    BY <1>5, <2>3, StrchrNone
<1>7. text \in Str /\ Len(text) = n + 4 /\ \A i \in 1..n + 4 : text[i] = R[i]
  <2>1. Len(R) - 2 = n + 4 /\ n + 4 \in Nat /\ n + 4 <= Len(R)
    BY <1>1
  <2> QED
    BY <1>1, <2>1, FirstPart
<1> HIDE DEF text
<1>8. After(R, 2) = t /\ After(R, n + 3) = w
  BY DEF After, Drop, t, w
<1>9. parse_three(R, FALSE) = <<Before(text, 2), SubSeq(text, 2 + 1, (n + 3) - 1), After(text, n + 3)>>
  <2> DEFINE s1 == strchr(R, SP)
             s2 == s1 + strchr(After(R, s1), SP)
  <2>1. s1 = 2
    BY <1>2
  <2>2. s2 = n + 3
    <3>1. After(R, s1) = t
      BY <1>8, <2>1
    <3>2. s2 = s1 + (n + 1)
      BY <1>4, <3>1
    <3> HIDE DEF s1, s2
    <3> QED
      BY <1>1, <2>1, <3>2
  <2>3. strchr(After(R, s2), SP) = 0
    BY <1>6, <1>8, <2>2
  <2>4. Len(R) >= 2 /\ R[Len(R) - 1] = CR /\ R[Len(R)] = LF
    <3>1. Len(R) - 1 = n + 5
      BY <1>1
    <3> QED
      BY <1>1, <3>1
  <2>5. s1 # 0 /\ s2 # s1
    BY <1>1, <2>1, <2>2
  <2> HIDE DEF s1, s2
  <2>6. parse_three(R, FALSE) = <<Before(text, s1), SubSeq(text, s1 + 1, s2 - 1), After(text, s2)>>
    BY <2>3, <2>4, <2>5 DEF parse_three, s1, s2, text
  <2> QED
    BY <2>1, <2>2, <2>6
<1>10. Before(text, 2) = << a >>
  <2> DEFINE x == SubSeq(text, 1, 1)
             y == << a >>
  <2>1. x \in Str /\ Len(x) = 1 /\ \A i \in 1..1 : x[i] = text[i]
    BY <1>1, <1>7, FirstPart
  <2>2. y \in Str /\ Len(y) = 1 /\ y[1] = a
    BY DEF Str
  <2> HIDE DEF x, y
  <2>3. text[1] = a
    BY <1>1, <1>7
  <2>4. x = y
    BY <2>1, <2>2, <2>3, SameStr
  <2>5. 2 - 1 = 1
    OBVIOUS
  <2> QED
    BY <2>4, <2>5 DEF x, y, Before
<1>11. SubSeq(text, 2 + 1, (n + 3) - 1) = u
  <2> DEFINE j == n + 2
             x == SubSeq(text, 2 + 1, j)
  <2>1. 2 \in Nat /\ j \in Nat /\ 2 <= j /\ j <= Len(text) /\ j - 2 = n /\ (n + 3) - 1 = j
    BY <1>1, <1>7
  <2> HIDE DEF j
  <2>2. x \in Str /\ Len(x) = j - 2 /\ \A k \in 1..j - 2 : x[k] = text[2 + k]
    BY <1>7, <2>1, Part
  <2> HIDE DEF x
  <2>3. ASSUME NEW k \in 1..n PROVE x[k] = u[k]
    <3>1. 2 + k \in 1..n + 4
      BY <1>1
    <3> QED
      BY <1>1, <1>7, <2>1, <2>2, <3>1
  <2>4. x = u
    BY <2>1, <2>2, <2>3, SameStr
  <2> QED
    BY <2>1, <2>4 DEF x
<1>12. After(text, n + 3) = << v >>
  <2> DEFINE x == Drop(text, n + 3)
             y == << v >>
  <2>1. n + 3 \in Nat /\ n + 3 <= Len(text) /\ Len(text) - (n + 3) = 1
    BY <1>1, <1>7
  <2>2. x \in Str /\ Len(x) = Len(text) - (n + 3) /\ \A i \in 1..Len(text) - (n + 3) : x[i] = text[i + (n + 3)]
    BY <1>7, <2>1, DropOf
  <2>3. y \in Str /\ Len(y) = 1 /\ y[1] = v
    BY DEF Str
  <2> HIDE DEF x, y
  <2>4. 1 + (n + 3) = n + 4 /\ n + 4 \in 1..n + 4
    BY <1>1
  <2>5. x[1] = v
    BY <1>1, <1>7, <2>1, <2>2, <2>4
  <2>6. Len(x) = 1
    BY <2>1, <2>2
  <2>7. \A i \in 1..Len(x) : x[i] = y[i]
    BY <2>3, <2>5, <2>6
  <2>8. x = y
    BY <2>2, <2>3, <2>6, <2>7, SameStr
  <2> QED
    BY <2>8 DEF x, y, After, Drop
<1> QED
  BY <1>9, <1>10, <1>11, <1>12 DEF parse_request_line, R

\* A line that does not end with a newline is none.
LEMMA ParseShort ==
    ASSUME NEW buf \in Str, ~(Len(buf) >= 1 /\ buf[Len(buf)] = LF)
    PROVE  parse_request_line(buf) = <<>>
<1>1. ~(Len(buf) >= 2 /\ buf[Len(buf) - 1] = CR /\ buf[Len(buf)] = LF)
  BY StrFacts
<1> QED
  BY <1>1 DEF parse_request_line, parse_three

LEMMA ParseParts ==
    ASSUME NEW buf \in Str, parse_request_line(buf) # <<>>
    PROVE  LET s1 == Space1(buf)
               s2 == Space2(buf)
               text == SubSeq(buf, 1, Len(buf) - 2)
           IN  /\ Len(buf) >= 2 /\ s1 # 0 /\ s2 # s1 /\ Len(parse_request_line(buf)) = 3
               /\ parse_request_line(buf)[3] = After(text, s2)
BY DEF parse_request_line, parse_three, Space1, Space2

-----------------------------------------------------------------------------
(* The request line of a /copy.                                              *)

CopyUrl(name) == <<W_places, Query>> \o WordField(W_person_field, name)

LEMMA CopyUrlOf ==
    ASSUME NEW name \in Seq(Byte)
    PROVE  LET u == CopyUrl(name)
               F == WordField(W_person_field, name)
           IN  /\ u \in Str /\ F \in Str /\ Len(u) = Len(F) + 2 /\ Len(F) = Len(name) + 2
               /\ u[1] = W_places /\ u[2] = Query
               /\ Drop(u, 2) = F /\ strchr(u, Query) = 2
               /\ \A i \in 1..Len(u) : u[i] # HTTP10 /\ u[i] # HTTP11
<1> DEFINE p == <<W_places, Query>>
           F == WordField(W_person_field, name)
           u == p \o F
<1>1. name \in Str /\ \A i \in 1..Len(name) : name[i] <= 255 /\ name[i] \in Nat
  BY CStringAll, StrFacts DEF Narrow
<1>2. /\ F \in Str /\ Len(F) = Len(name) + 2 /\ F[1] = W_person_field /\ F[2] = Equal
      /\ \A i \in 1..Len(name) : F[2 + i] = name[i]
  <2>1. W_person_field \in Nat /\ W_person_field >= 256
    BY DEF W_person_field
  <2> QED
    BY <1>1, <2>1, WordFieldOf
<1>3. p \in Str /\ Len(p) = 2 /\ p[1] = W_places /\ p[2] = Query
  BY DEF Str, W_places, Query
<1> HIDE DEF p, F
<1>4. /\ u \in Str /\ Len(u) = Len(p) + Len(F)
      /\ \A i \in 1..Len(p) : u[i] = p[i]
      /\ \A i \in 1..Len(F) : u[Len(p) + i] = F[i]
  BY <1>2, <1>3, Cat
<1>5. Drop(u, Len(p)) = F
  BY <1>2, <1>3, DropCat
<1> HIDE DEF u
<1>6. u[1] = W_places /\ u[2] = Query /\ Len(u) = Len(F) + 2 /\ Len(F) = Len(name) + 2 /\ Len(name) \in Nat
  BY <1>1, <1>2, <1>3, <1>4, StrFacts
<1>7. strchr(u, Query) = 2
  <2>1. u[1] # Query
    BY <1>6 DEF W_places, Query
  <2>2. 2 \in 1..Len(u) /\ \A i \in 1..2 - 1 : u[i] # Query
    BY <1>6, <2>1
  <2> QED
    BY <1>4, <1>6, <2>2, StrchrIs
<1>8. ASSUME NEW i \in 1..Len(u) PROVE u[i] # HTTP10 /\ u[i] # HTTP11
  <2>1. CASE i <= 4
    <3>1. \A j \in 1..Len(F) : u[2 + j] = F[j]
      BY <1>3, <1>4
    <3>2. u[3] = W_person_field /\ u[4] = Equal
      <4>1. 1 \in 1..Len(F) /\ 2 \in 1..Len(F) /\ 2 + 1 = 3 /\ 2 + 2 = 4
        BY <1>6
      <4> QED
        BY <1>2, <3>1, <4>1
    <3>3. i = 1 \/ i = 2 \/ i = 3 \/ i = 4
      BY <1>6, <2>1
    <3>4. /\ W_places # HTTP10 /\ W_places # HTTP11 /\ Query # HTTP10 /\ Query # HTTP11
          /\ W_person_field # HTTP10 /\ W_person_field # HTTP11 /\ Equal # HTTP10 /\ Equal # HTTP11
      BY DEF W_places, Query, W_person_field, Equal, HTTP10, HTTP11
    <3> QED
      BY <1>6, <3>2, <3>3, <3>4
  <2>2. CASE ~(i <= 4)
    <3>1. i - 4 \in 1..Len(name) /\ 2 + (i - 4) \in 1..Len(F) /\ i = 2 + (2 + (i - 4))
      BY <1>6, <2>2
    <3>2. u[i] = name[i - 4]
      BY <1>2, <1>3, <1>4, <3>1
    <3> QED
      BY <1>1, <3>1, <3>2 DEF HTTP10, HTTP11
  <2> QED
    BY <2>1, <2>2
<1>9. CopyUrl(name) = u
  BY DEF CopyUrl, u, p, F
<1>10. Drop(u, 2) = F
  BY <1>3, <1>5
<1> QED
  BY <1>2, <1>4, <1>6, <1>7, <1>8, <1>9, <1>10 DEF F

ReqLineIs(a, u, v) ==
    LET R == ReqLine(a, u, v)
        n == Len(u)
    IN  /\ R \in Str /\ Len(R) = n + 6 /\ n \in Nat
        /\ R[1] = a /\ R[2] = SP /\ (\A i \in 1..n : R[2 + i] = u[i])
        /\ R[n + 3] = SP /\ R[n + 4] = v /\ R[n + 5] = CR /\ R[n + 6] = LF

LEMMA ReqLineAs ==
    ASSUME NEW a \in Nat, NEW u \in Str, NEW v \in Nat
    PROVE  ReqLineIs(a, u, v)
BY ReqLineOf DEF ReqLineIs

CopyLine(name) == ReqLine(GET, CopyUrl(name), HTTP11)

LEMMA CopyLineOf ==
    ASSUME NEW name \in Seq(Byte)
    PROVE  LET R == CopyLine(name)
               n == Len(CopyUrl(name))
           IN  /\ R \in Str /\ Len(R) = n + 6 /\ n \in Nat
               /\ R[1] = GET /\ R[2] = SP /\ (\A i \in 1..n : R[2 + i] = CopyUrl(name)[i])
               /\ R[n + 3] = SP /\ R[n + 4] = HTTP11 /\ R[n + 5] = CR /\ R[n + 6] = LF
               /\ \A i \in 1..n + 6 : R[i] \in {HTTP10, HTTP11} => i = n + 4
<1> DEFINE u == CopyUrl(name)
           R == CopyLine(name)
           n == Len(u)
<1>1. u \in Str /\ \A i \in 1..n : u[i] # HTTP10 /\ u[i] # HTTP11
  BY CopyUrlOf
<1> HIDE DEF u
<1>2. /\ R \in Str /\ Len(R) = n + 6 /\ n \in Nat
      /\ R[1] = GET /\ R[2] = SP /\ (\A i \in 1..n : R[2 + i] = u[i])
      /\ R[n + 3] = SP /\ R[n + 4] = HTTP11 /\ R[n + 5] = CR /\ R[n + 6] = LF
  <2>1. GET \in Nat /\ HTTP11 \in Nat
    BY DEF GET, HTTP11
  <2>2. R = ReqLine(GET, u, HTTP11)
    BY DEF CopyLine, u
  <2> HIDE DEF R, n
  <2>3. LET Q == ReqLine(GET, u, HTTP11)
            k == Len(u)
        IN  /\ Q \in Str /\ Len(Q) = k + 6 /\ k \in Nat
            /\ Q[1] = GET /\ Q[2] = SP /\ (\A i \in 1..k : Q[2 + i] = u[i])
            /\ Q[k + 3] = SP /\ Q[k + 4] = HTTP11 /\ Q[k + 5] = CR /\ Q[k + 6] = LF
    <3>1. ReqLineIs(GET, u, HTTP11)
      BY <1>1, <2>1, ReqLineAs
    <3> QED
      BY <3>1 DEF ReqLineIs
  <2> QED
    BY <2>2, <2>3 DEF n
<1> HIDE DEF R
<1>3. ASSUME NEW i \in 1..n + 6, i # n + 4 PROVE R[i] \notin {HTTP10, HTTP11}
  <2>1. CASE i \in 3..n + 2
    <3>1. i - 2 \in 1..n /\ 2 + (i - 2) = i
      BY <1>2, <2>1
    <3>2. R[i] = u[i - 2]
      BY <1>2, <3>1
    <3> QED
      BY <1>1, <3>1, <3>2
  <2>2. CASE i \notin 3..n + 2
    <3>1. i = 1 \/ i = 2 \/ i = n + 3 \/ i = n + 5 \/ i = n + 6
      BY <1>2, <1>3, <2>2
    <3>2. GET \notin {HTTP10, HTTP11} /\ SP \notin {HTTP10, HTTP11} /\ CR \notin {HTTP10, HTTP11} /\ LF \notin {HTTP10, HTTP11}
      BY DEF GET, SP, CR, LF, HTTP10, HTTP11
    <3> QED
      BY <1>2, <3>1, <3>2
  <2> QED
    BY <2>1, <2>2
<1> QED
  BY <1>2, <1>3 DEF R, u

\* What the server accepts of it is the line as it was sent.
LEMMA ParseCopy ==
    ASSUME NEW name \in Seq(Byte), NEW g \in Str, NEW x \in Str, g \o x = CopyLine(name) \o <<CR, LF>>,
           parse_request_line(g) # <<>>, parse_request_line(g)[3] \in {<<HTTP10>>, <<HTTP11>>}
    PROVE  /\ g = CopyLine(name) /\ x = <<CR, LF>>
           /\ parse_request_line(g) = <<<<GET>>, CopyUrl(name), <<HTTP11>>>>
<1> DEFINE u == CopyUrl(name)
           R == CopyLine(name)
           E == <<CR, LF>>
           n == Len(u)
           m == Len(g)
           z == g \o x
           s2 == Space2(g)
           text == SubSeq(g, 1, m - 2)
           v == After(text, s2)
<1>1. u \in Str /\ E \in Str /\ Len(E) = 2 /\ E[1] = CR /\ E[2] = LF /\ m \in Nat
  BY CopyUrlOf, StrFacts DEF Str, CR, LF
<1>2. /\ R \in Str /\ Len(R) = n + 6 /\ n \in Nat
      /\ R[1] = GET /\ R[2] = SP /\ (\A i \in 1..n : R[2 + i] = u[i])
      /\ R[n + 3] = SP /\ R[n + 4] = HTTP11 /\ R[n + 5] = CR /\ R[n + 6] = LF
      /\ \A i \in 1..n + 6 : R[i] \in {HTTP10, HTTP11} => i = n + 4
  BY CopyLineOf
<1>3. R = ReqLine(GET, u, HTTP11)
  BY DEF CopyLine
<1> HIDE DEF u, E
<1>4. /\ Space1(g) # 0 /\ s2 # Space1(g) /\ m >= 2
      /\ v \in {<<HTTP10>>, <<HTTP11>>}
  BY ParseParts
<1>5. /\ Space1(g) \in Nat /\ Space1(g) <= m
      /\ s2 \in Nat /\ s2 <= m
  <2> DEFINE s1 == Space1(g)
             d == Drop(g, s1)
             j == strchr(d, SP)
  <2>1. s1 \in Nat /\ s1 <= m
    BY StrchrOf DEF Space1
  <2>2. After(g, s1) = d
    BY DEF After, Drop
  <2> HIDE DEF s1
  <2>3. d \in Str /\ Len(d) = m - s1
    BY <2>1, DropOf
  <2> HIDE DEF d
  <2>4. j \in Nat /\ j <= Len(d)
    BY <2>3, StrchrOf
  <2>5. s2 = s1 + j
    BY <2>2 DEF Space2, s1
  <2> QED
    BY <1>1, <2>1, <2>3, <2>4, <2>5 DEF s1
<1> HIDE DEF s2
<1>6. text \in Str /\ Len(text) = m - 2 /\ \A i \in 1..m - 2 : text[i] = g[i]
  <2>1. m - 2 \in Nat /\ m - 2 <= m
    BY <1>1, <1>4
  <2> QED
    BY <2>1, FirstPart
<1> HIDE DEF text
<1>7. Len(v) = 1 /\ v[1] \in {HTTP10, HTTP11}
  BY <1>4
<1>8. s2 <= m - 2
  <2>1. SUFFICES ASSUME s2 > m - 2 PROVE FALSE
    BY <1>1, <1>5
  <2>2. v = <<>>
    <3>1. v = SubSeq(text, s2 + 1, m - 2)
      BY <1>6 DEF After
    <3> QED
      BY <1>1, <1>4, <1>5, <1>6, <2>1, <3>1
  <2> QED
    BY <1>7, <2>2
<1>9. Len(v) = (m - 2) - s2 /\ \A i \in 1..(m - 2) - s2 : v[i] = text[i + s2]
  <2>1. v = Drop(text, s2)
    BY DEF After, Drop
  <2> HIDE DEF v
  <2>2. s2 <= Len(text) /\ Len(text) - s2 = (m - 2) - s2
    BY <1>1, <1>4, <1>5, <1>6, <1>8
  <2>3. Len(Drop(text, s2)) = Len(text) - s2 /\ \A i \in 1..Len(text) - s2 : Drop(text, s2)[i] = text[i + s2]
    BY <1>5, <1>6, <2>2, DropOf
  <2> QED
    BY <2>1, <2>2, <2>3
<1> HIDE DEF v
<1>10. m = s2 + 3 /\ g[s2 + 1] \in {HTTP10, HTTP11}
  <2>1. (m - 2) - s2 = 1 /\ 1 \in 1..(m - 2) - s2 /\ s2 + 1 \in 1..m - 2 /\ 1 + s2 = s2 + 1 /\ m = s2 + 3
    <3>1. (m - 2) - s2 = 1
      BY <1>7, <1>9
    <3> QED
      BY <1>1, <1>5, <3>1
  <2>2. v[1] = g[s2 + 1]
    BY <1>6, <1>9, <2>1
  <2> QED
    BY <1>7, <2>1, <2>2
<1>11. z \in Str /\ Len(z) = m + Len(x) /\ \A i \in 1..m : z[i] = g[i]
  BY Cat
<1>12. Len(z) = n + 8 /\ (\A i \in 1..n + 6 : z[i] = R[i]) /\ z[n + 7] = CR /\ z[n + 8] = LF
  <2>1. /\ Len(R \o E) = Len(R) + Len(E) /\ (\A i \in 1..Len(R) : (R \o E)[i] = R[i])
        /\ \A i \in 1..Len(E) : (R \o E)[Len(R) + i] = E[i]
    BY <1>1, <1>2, Cat
  <2>2. z = R \o E
    BY DEF E
  <2> HIDE DEF z, R
  <2>3. 1 \in 1..Len(E) /\ 2 \in 1..Len(E) /\ (n + 6) + 1 = n + 7 /\ (n + 6) + 2 = n + 8
    BY <1>1, <1>2
  <2> QED
    BY <1>1, <1>2, <2>1, <2>2, <2>3
<1>13. g \o x = R \o E
  BY DEF E
<1> HIDE DEF z
<1>14. s2 + 1 = n + 4
  <2>1. s2 + 1 \in 1..m /\ s2 + 1 \in 1..n + 8
    BY <1>1, <1>2, <1>5, <1>10, <1>11, <1>12, StrFacts
  <2>2. z[s2 + 1] \in {HTTP10, HTTP11}
    BY <1>10, <1>11, <2>1
  <2>3. CR \notin {HTTP10, HTTP11} /\ LF \notin {HTTP10, HTTP11}
    BY DEF CR, LF, HTTP10, HTTP11
  <2>4. s2 + 1 # n + 7 /\ s2 + 1 # n + 8
    BY <1>12, <2>2, <2>3
  <2>5. s2 + 1 \in 1..n + 6
    BY <1>2, <1>5, <2>1, <2>4
  <2> QED
    BY <1>2, <1>12, <2>2, <2>5
<1>15. m = Len(R) /\ s2 = n + 3
  BY <1>2, <1>5, <1>10, <1>14
<1> HIDE DEF R
<1>16. g = R /\ x = E
  <2>1. R \in Str /\ E \in Str /\ Len(g) = Len(R)
    BY <1>1, <1>2, <1>15
  <2> QED
    BY <1>13, <2>1, CatCancel
<1>17. \A i \in 1..n : u[i] # SP
  <2> DEFINE d == Drop(g, 2)
             j == strchr(d, SP)
  <2>1. Space1(g) = 2
    <3>1. 2 \in 1..Len(g) /\ g[2] = SP /\ g[1] # SP
      BY <1>2, <1>16 DEF GET, SP
    <3>2. \A i \in 1..2 - 1 : g[i] # SP
      BY <3>1
    <3> QED
      BY <3>1, <3>2, StrchrIs DEF Space1
  <2>2. After(g, 2) = d
    BY DEF After, Drop
  <2>3. d \in Str /\ Len(d) = n + 4 /\ \A i \in 1..n + 4 : d[i] = g[i + 2]
    <3>1. 2 \in Nat /\ 2 <= Len(g) /\ Len(g) - 2 = n + 4
      BY <1>2, <1>16
    <3>2. d \in Str /\ Len(d) = Len(g) - 2 /\ \A i \in 1..Len(g) - 2 : d[i] = g[i + 2]
      BY <3>1, DropOf
    <3> HIDE DEF d
    <3> QED
      BY <3>1, <3>2
  <2> HIDE DEF d
  <2>4. j \in Nat /\ (j # 0 => \A i \in 1..j - 1 : d[i] # SP)
    BY <2>3, StrchrOf
  <2>5. s2 = 2 + j
    BY <2>1, <2>2 DEF s2, Space2
  <2> HIDE DEF j
  <2>6. j = n + 1
    BY <1>2, <1>15, <2>4, <2>5
  <2>7. ASSUME NEW i \in 1..n PROVE u[i] # SP
    <3>1. i \in 1..j - 1 /\ i \in 1..n + 4 /\ i + 2 = 2 + i /\ j # 0
      BY <1>2, <2>6
    <3> QED
      BY <1>2, <1>16, <2>3, <2>4, <3>1, ZenonT(60)
  <2> QED
    BY <2>7
<1>18. parse_request_line(ReqLine(GET, u, HTTP11)) = <<<< GET >>, u, << HTTP11 >>>>
  <2>1. GET \in Nat /\ GET # SP /\ HTTP11 \in Nat /\ HTTP11 # SP
    BY DEF GET, HTTP11, SP
  <2> QED
    BY <1>1, <1>17, <2>1, ParseReq
<1> QED
  BY <1>3, <1>16, <1>18 DEF R, u, E

-----------------------------------------------------------------------------
(* What a client sends to /pin.                                              *)

LEMMA ByteIs == \A c : c \in Byte <=> c \in Nat /\ 1 <= c /\ c <= 255
BY DEF Byte

LEMMA JoinBytes ==
    ASSUME NEW names \in Seq(Entry)
    PROVE  join_strings(names, LF) \in Seq(Byte)
<1>1. names \in Seq(Str) /\ Len(names) \in Nat /\ \A i \in 1..Len(names) : names[i] \in Entry
  BY EntrySeq
<1>2. Lines(names) \in Seq(Seq(Nat)) /\ Len(Lines(names)) = Len(names) /\ join_strings(names, LF) = FlattenSeq(Lines(names))
  BY <1>1, LinesOf
<1>3. ASSUME NEW i \in 1..Len(names) PROVE Append(names[i], LF) \in Seq(Byte)
  <2>1. names[i] \in Str /\ \A j \in 1..Len(names[i]) : names[i][j] \in Nat /\ names[i][j] <= 255 /\ names[i][j] >= 1
    BY <1>1, <1>3, EntryFacts
  <2>2. \A j \in 1..Len(names[i]) : names[i][j] \in Byte
    BY <2>1, ByteIs
  <2>3. names[i] \in Seq(Byte)
    BY <2>1, <2>2, InSeq
  <2>4. LF \in Byte
    BY DEF LF, Byte
  <2> QED
    BY <2>3, <2>4
<1>4. Lines(names) \in Seq(Seq(Byte))
  <2>1. DOMAIN names = 1..Len(names)
    BY <1>1
  <2> QED
    BY <1>1, <1>3, <2>1 DEF Lines
<1> QED
  BY <1>2, <1>4, FlattenType

LEMMA ListedOf ==
    ASSUME NEW names \in Seq(Entry), NEW ended \in BOOLEAN
    PROVE  /\ Listed(names, ended) \in Seq(Byte)
           /\ split_string(Listed(names, ended), LF) = names
<1> DEFINE lines == join_strings(names, LF)
           L == Listed(names, ended)
           k == IF ended \/ lines = <<>> THEN Len(lines) ELSE Len(lines) - 1
<1>1. lines \in Seq(Byte) /\ lines \in Str
  BY JoinBytes, ByteFacts, SeqIn
<1>2. Len(lines) \in Nat /\ (Len(lines) = 0 <=> lines = <<>>)
  BY <1>1, StrFacts
<1> HIDE DEF lines
<1>3. k \in Nat /\ k <= Len(lines)
  BY <1>2
<1>4. L = SubSeq(lines, 1, k)
  <2>1. SubSeq(lines, 1, Len(lines)) = lines
    BY <1>1, Whole
  <2>2. L = IF ended \/ lines = <<>> THEN lines ELSE SubSeq(lines, 1, Len(lines) - 1)
    BY DEF Listed, lines, Front
  <2> QED
    BY <2>1, <2>2
<1>5. names = <<>> => lines = <<>>
  BY JoinEmpty DEF lines
<1>6. Len(lines) - k <= (IF names = <<>> THEN 0 ELSE 1)
  <2>1. CASE names = <<>>
    <3>1. k = Len(lines)
      BY <1>5, <2>1
    <3> QED
      BY <1>2, <2>1, <3>1
  <2>2. CASE names # <<>>
    <3>1. k = Len(lines) \/ k = Len(lines) - 1
      OBVIOUS
    <3> HIDE DEF k
    <3>2. Len(lines) - k <= 1
      BY <1>2, <3>1
    <3> QED
      BY <2>2, <3>2
  <2> QED
    BY <2>1, <2>2
<1> HIDE DEF L, k
<1>7. split_string(SubSeq(lines, 1, k), LF) = names
  <2>1. SplitsAt(names, k)
    BY <1>3, SplitPart DEF lines
  <2> QED
    BY <1>6, <2>1 DEF SplitsAt, lines
<1>8. SubSeq(lines, 1, k) \in Seq(Byte)
  <2> DEFINE t == SubSeq(lines, 1, k)
  <2>1. t \in Str /\ Len(t) = k /\ \A i \in 1..k : t[i] = lines[i]
    BY <1>1, <1>3, FirstPart
  <2> HIDE DEF t
  <2>2. \A i \in 1..Len(lines) : lines[i] \in Byte
    BY <1>1
  <2>3. \A i \in 1..Len(t) : t[i] \in Byte
    BY <1>2, <1>3, <2>1, <2>2
  <2>4. t \in Seq(Byte)
    BY <2>1, <2>3, InSeq
  <2> QED
    BY <2>4 DEF t
<1> QED
  BY <1>4, <1>7, <1>8 DEF L

PinAsk == {a \in Ask : a.op = "pin"}

LEMMA PinAskType ==
    ASSUME NEW a \in PinAsk
    PROVE  /\ a \in Ask /\ a.op = "pin" /\ a.method \in {GET, POST, W_other}
           /\ a.people \in Seq(Entry) /\ a.places \in Seq(Entry)
           /\ a.ended \in BOOLEAN /\ a.typed \in BOOLEAN
BY WireAssumption DEF PinAsk, AskType

People(a) == Listed(a.people, a.ended)
Places(a) == Listed(a.places, a.ended)

LEMMA FormOf ==
    ASSUME NEW a \in PinAsk
    PROVE  /\ Form(a) = TwoFields(W_people_field, query_encode(People(a)), W_places_field, query_encode(Places(a)))
           /\ Form(a) \in Str /\ Len(Form(a)) \in Nat /\ Len(Form(a)) >= 5
           /\ Len(Form(a)) <= INT_MAX /\ Len(Form(a)) < INT_MAX
           /\ \A i \in 1..Len(Form(a)) : Form(a)[i] \notin {NUL, LF, CR, SP, Hash, Query, Colon}
<1> DEFINE D == query_encode(People(a))
           F == query_encode(Places(a))
           p == <<W_people_field, Equal>>
           m == << Amp >>
           w == <<W_places_field, Equal>>
<1>1. People(a) \in Seq(Byte) /\ Places(a) \in Seq(Byte)
  BY PinAskType, ListedOf DEF People, Places
<1>2. D \in Seq(EncBytes) /\ D \in Str /\ F \in Seq(EncBytes) /\ F \in Str
  BY <1>1, EncsOf
<1>3. p \in Str /\ m \in Str /\ w \in Str
  BY DEF Str, W_people_field, W_places_field, Equal, Amp
<1>4. Form(a) = (((p \o D) \o m) \o w) \o F
  BY DEF Form, p, m, w, D, F, People, Places
<1>5. TwoFields(W_people_field, D, W_places_field, F) = ((p \o D) \o m) \o (w \o F)
  BY DEF TwoFields, WordField
<1> HIDE DEF D, F, p, m, w
<1>6. p \o D \in Str
  BY <1>2, <1>3, Cat
<1>7. (p \o D) \o m \in Str
  BY <1>3, <1>6, Cat
<1>8. Form(a) = TwoFields(W_people_field, D, W_places_field, F)
  BY <1>2, <1>3, <1>4, <1>5, <1>7, CatAssoc
<1>9. /\ TwoFields(W_people_field, D, W_places_field, F) \in Str
      /\ Len(TwoFields(W_people_field, D, W_places_field, F)) = Len(D) + Len(F) + 5
      /\ \A i \in 1..Len(TwoFields(W_people_field, D, W_places_field, F)) :
            TwoFields(W_people_field, D, W_places_field, F)[i] \notin {NUL, LF, CR, SP, Hash, Query, Colon}
  <2>1. W_people_field \in Nat /\ W_people_field >= 256 /\ W_places_field \in Nat /\ W_places_field >= 256
    BY DEF W_people_field, W_places_field
  <2> QED
    BY <1>2, <2>1, TwoFieldsOf
<1>10. Len(D) \in Nat /\ Len(F) \in Nat
  BY <1>2, StrFacts
<1>12. Len(Form(a)) = Len(D) + Len(F) + 5
  BY <1>8, <1>9
<1>11. Len(Form(a)) <= INT_MAX /\ Len(Form(a)) < INT_MAX
  <2>1. Len(Form(a)) < INT_MAX
    BY LengthAssumption, PinAskType
  <2>2. INT_MAX \in Nat
    BY ONLY SMT DEF INT_MAX
  <2>3. Len(Form(a)) \in Nat
    BY <1>10, <1>12
  <2> QED
    BY ONLY <2>1, <2>2, <2>3
<1> QED
  BY <1>8, <1>9, <1>10, <1>11, <1>12 DEF D, F

\* What the query of such a form holds.
PinQuery(q, a) ==
    /\ q \in Dict /\ {<<W_people_field>>, <<W_places_field>>} \subseteq DOMAIN q
    /\ split_string(q[<<W_people_field>>], LF) = a.people
    /\ split_string(q[<<W_places_field>>], LF) = a.places

LEMMA FormParsed ==
    ASSUME NEW a \in PinAsk
    PROVE  PinQuery(parse_query(Form(a), <<>>), a)
<1>1. /\ People(a) \in Seq(Byte) /\ split_string(People(a), LF) = a.people
      /\ Places(a) \in Seq(Byte) /\ split_string(Places(a), LF) = a.places
  BY PinAskType, ListedOf DEF People, Places
<1>2. W_people_field \in Nat /\ W_people_field >= 256 /\ W_places_field \in Nat /\ W_places_field >= 256 /\ W_people_field # W_places_field
  BY DEF W_people_field, W_places_field
<1> DEFINE q == parse_query(TwoFields(W_people_field, query_encode(People(a)), W_places_field, query_encode(Places(a))), <<>>)
<1>3. /\ q \in Dict /\ DOMAIN q = {<< W_people_field >>, << W_places_field >>}
      /\ q[<< W_people_field >>] = People(a) /\ q[<< W_places_field >>] = Places(a)
  <2>1. TwoParsed(W_people_field, People(a), W_places_field, Places(a))
    BY <1>1, <1>2, TwoFieldsParsed
  <2> QED
    BY <2>1 DEF TwoParsed
<1>4. parse_query(Form(a), <<>>) = q
  BY FormOf
<1> HIDE DEF q
<1> QED
  BY <1>1, <1>3, <1>4 DEF PinQuery

-----------------------------------------------------------------------------
(* Requests as lines.                                                        *)

LEMMA Tuples ==
    ASSUME NEW a \in Nat, NEW b \in Nat, NEW c \in Nat, NEW d \in Nat
    PROVE  /\ <<a, b>> \o <<c, d>> = <<a, b, c, d>>
           /\ <<a, b>> \in Str /\ <<a, b, c, d>> \in Str
<1>1. <<a, b>> \in Str /\ <<c, d>> \in Str /\ <<a, b, c, d>> \in Str
  BY DEF Str
<1> DEFINE s == <<a, b>>
           t == <<c, d>>
           u == <<a, b, c, d>>
<1>2. Len(s) = 2 /\ Len(t) = 2 /\ Len(u) = 4 /\ s[1] = u[1] /\ s[2] = u[2] /\ t[1] = u[3] /\ t[2] = u[4]
  OBVIOUS
<1>3. s \in Str /\ t \in Str /\ u \in Str
  BY <1>1
<1> HIDE DEF s, t, u
<1>4. /\ s \o t \in Str /\ Len(s \o t) = Len(s) + Len(t) /\ (\A i \in 1..Len(s) : (s \o t)[i] = s[i])
      /\ \A i \in 1..Len(t) : (s \o t)[Len(s) + i] = t[i]
  BY <1>3, Cat
<1> DEFINE z == s \o t
<1> HIDE DEF z
<1>5. z \in Str /\ Len(z) = 4 /\ z[1] = u[1] /\ z[2] = u[2] /\ z[2 + 1] = u[3] /\ z[2 + 2] = u[4]
  BY <1>2, <1>4 DEF z
<1>6. \A i \in 1..Len(z) : z[i] = u[i]
  BY <1>5
<1>7. z = u
  BY <1>2, <1>3, <1>5, <1>6, SameStr
<1> QED
  BY <1>1, <1>7 DEF z, s, t, u

Blank == <<CR, LF>>
HostLine == <<W_host, Colon, SP, W_other>> \o Blank
TypeLine == <<W_type, Colon, W_urlencoded, SP>> \o Blank
LengthLine(n) == (<<W_length, Colon, SP>> \o to_string(n)) \o Blank

LEMMA BlankOf ==
    /\ Blank \in Str /\ Len(Blank) = 2 /\ Blank[1] = CR /\ Blank[2] = LF
    /\ Ended1(Blank) /\ Len(Blank) <= MAXLINE - 1
<1>1. Blank \in Str /\ Len(Blank) = 2 /\ Blank[1] = CR /\ Blank[2] = LF
  BY DEF Blank, Str, CR, LF
<1>2. CR # LF
  BY DEF CR, LF
<1>3. Ended1(Blank)
  BY <1>1, <1>2 DEF Ended1
<1> QED
  BY <1>1, <1>3, RioAssumption

\* A line of words without newline.
LEMMA EndedBy ==
    ASSUME NEW s \in Str, \A i \in 1..Len(s) : s[i] # LF
    PROVE  /\ s \o Blank \in Str /\ Len(s \o Blank) = Len(s) + 2 /\ Len(s) \in Nat
           /\ \A i \in 1..Len(s) : (s \o Blank)[i] = s[i]
           /\ (s \o Blank)[Len(s) + 1] = CR /\ (s \o Blank)[Len(s) + 2] = LF
           /\ Ended1(s \o Blank)
<1> DEFINE z == s \o Blank
           n == Len(s)
<1>1. Len(s) \in Nat
  BY StrFacts
<1>2. /\ z \in Str /\ Len(z) = n + Len(Blank)
      /\ \A i \in 1..n : z[i] = s[i]
      /\ \A i \in 1..Len(Blank) : z[n + i] = Blank[i]
  BY BlankOf, Cat
<1> HIDE DEF z
<1>3. z[n + 1] = CR /\ z[n + 2] = LF /\ Len(z) = n + 2
  BY <1>2, BlankOf
<1>4. ASSUME NEW i \in 1..Len(z) - 1 PROVE z[i] # LF
  <2>1. i \in 1..n \/ i = n + 1
    BY <1>1, <1>3
  <2>2. CR # LF
    BY DEF CR, LF
  <2> QED
    BY <1>2, <1>3, <2>1, <2>2
<1>5. Ended1(z)
  BY <1>1, <1>2, <1>3, <1>4 DEF Ended1
<1> QED
  BY <1>1, <1>2, <1>3, <1>5 DEF z

LEMMA LineOne ==
    ASSUME NEW s \in Str
    PROVE  Line(<<s>>) = s \o Blank
BY Append1 DEF Line, Blank, Str

LEMMA HostLineOf ==
    /\ HostLine = Line(<<<<W_host, Colon, SP, W_other>>>>)
    /\ Ended1(HostLine) /\ Len(HostLine) <= MAXLINE - 1 /\ HostLine # Blank
<1> DEFINE s == <<W_host, Colon, SP, W_other>>
<1>1. s \in Str /\ Len(s) = 4 /\ \A i \in 1..Len(s) : s[i] # LF
  BY DEF Str, W_host, Colon, SP, W_other, LF
<1>2. HostLine = s \o Blank
  BY DEF HostLine
<1>3. Line(<<<<W_host, Colon, SP, W_other>>>>) = Line(<<s>>)
  OBVIOUS
<1> HIDE DEF s
<1>4. Ended1(s \o Blank) /\ Len(s \o Blank) = 6
  <2>1. Ended1(s \o Blank) /\ Len(s \o Blank) = Len(s) + 2
    BY <1>1, EndedBy
  <2> QED
    BY <1>1, <2>1
<1>5. Line(<<s>>) = s \o Blank
  BY <1>1, LineOne
<1>6. HostLine # Blank
  BY <1>2, <1>4, BlankOf
<1>7. Len(HostLine) <= MAXLINE - 1
  <2>1. Len(HostLine) = 6
    BY <1>2, <1>4
  <2> QED
    BY <2>1, RioAssumption
<1>8. HostLine = Line(<<<<W_host, Colon, SP, W_other>>>>) /\ Ended1(HostLine)
  BY <1>2, <1>3, <1>4, <1>5
<1> QED
  BY <1>6, <1>7, <1>8

LEMMA TypeLineOf ==
    /\ TypeLine = Line(<<<<W_type, Colon, W_urlencoded, SP>>>>)
    /\ Ended1(TypeLine) /\ Len(TypeLine) <= MAXLINE - 1 /\ TypeLine # Blank
    /\ Len(TypeLine) = 6 /\ TypeLine[1] = W_type /\ TypeLine[2] = Colon /\ TypeLine[3] = W_urlencoded /\ TypeLine[4] = SP
    /\ TypeLine[5] = CR /\ TypeLine[6] = LF
<1> DEFINE s == <<W_type, Colon, W_urlencoded, SP>>
<1>1. s \in Str /\ Len(s) = 4 /\ \A i \in 1..Len(s) : s[i] # LF
  BY DEF Str, W_type, Colon, SP, W_urlencoded, LF
<1>2. TypeLine = s \o Blank
  BY DEF TypeLine
<1>3. Line(<<<<W_type, Colon, W_urlencoded, SP>>>>) = Line(<<s>>)
  OBVIOUS
<1>4. s[1] = W_type /\ s[2] = Colon /\ s[3] = W_urlencoded /\ s[4] = SP
  OBVIOUS
<1> HIDE DEF s
<1>5. /\ Ended1(s \o Blank) /\ Len(s \o Blank) = 6 /\ (\A i \in 1..4 : (s \o Blank)[i] = s[i])
      /\ (s \o Blank)[4 + 1] = CR /\ (s \o Blank)[4 + 2] = LF
  <2>1. /\ Ended1(s \o Blank) /\ Len(s \o Blank) = Len(s) + 2
        /\ (\A i \in 1..Len(s) : (s \o Blank)[i] = s[i])
        /\ (s \o Blank)[Len(s) + 1] = CR /\ (s \o Blank)[Len(s) + 2] = LF
    BY <1>1, EndedBy
  <2> QED
    BY <1>1, <2>1
<1>6. Line(<<s>>) = s \o Blank
  BY <1>1, LineOne
<1>7. TypeLine # Blank
  BY <1>2, <1>5, BlankOf
<1>8. Len(TypeLine) = 6 /\ Len(TypeLine) <= MAXLINE - 1
  <2>1. Len(TypeLine) = 6
    BY <1>2, <1>5
  <2> QED
    BY <2>1, RioAssumption
<1>9. TypeLine = Line(<<<<W_type, Colon, W_urlencoded, SP>>>>) /\ Ended1(TypeLine)
  BY <1>2, <1>3, <1>5, <1>6
<1>10. /\ TypeLine[1] = W_type /\ TypeLine[2] = Colon /\ TypeLine[3] = W_urlencoded /\ TypeLine[4] = SP
       /\ TypeLine[5] = CR /\ TypeLine[6] = LF
  <2>1. /\ TypeLine[1] = s[1] /\ TypeLine[2] = s[2] /\ TypeLine[3] = s[3] /\ TypeLine[4] = s[4]
        /\ TypeLine[4 + 1] = CR /\ TypeLine[4 + 2] = LF
    BY <1>2, <1>5
  <2> QED
    BY <1>4, <2>1
<1> QED
  BY <1>7, <1>8, <1>9, <1>10

LEMMA LengthLineOf ==
    ASSUME NEW n \in Nat, n <= INT_MAX
    PROVE  LET L == LengthLine(n)
               k == Len(to_string(n))
           IN  /\ L = Line(<<<<W_length, Colon, SP>>, to_string(n)>>)
               /\ Ended1(L) /\ Len(L) <= MAXLINE - 1 /\ L # Blank
               /\ L \in Str /\ Len(L) = k + 5 /\ k \in Nat /\ k >= 1
               /\ L[1] = W_length /\ L[2] = Colon /\ L[3] = SP /\ (\A i \in 1..k : L[3 + i] = to_string(n)[i])
               /\ L[k + 4] = CR /\ L[k + 5] = LF
<1> DEFINE d == to_string(n)
           p == <<W_length, Colon, SP>>
           s == p \o d
           k == Len(d)
           z == s \o Blank
<1>1. AllDigits(d) /\ k >= 1 /\ k <= 10
  BY ToStringOf
<1>2. d \in Str /\ k \in Nat /\ \A i \in 1..k : d[i] \in Digit
  BY <1>1, StrFacts DEF AllDigits
<1>3. p \in Str /\ Len(p) = 3 /\ p[1] = W_length /\ p[2] = Colon /\ p[3] = SP
  BY DEF Str, W_length, Colon, SP
<1>4. LengthLine(n) = z /\ Line(<<<<W_length, Colon, SP>>, to_string(n)>>) = append_strings(<<p, d>>) \o Blank
  BY DEF LengthLine, Line, Blank
<1> HIDE DEF d, p
<1>5. append_strings(<<p, d>>) = s
  BY <1>2, <1>3, Append2 DEF Str
<1>6. /\ s \in Str /\ Len(s) = Len(p) + k
      /\ (\A i \in 1..Len(p) : s[i] = p[i]) /\ \A i \in 1..k : s[Len(p) + i] = d[i]
  BY <1>2, <1>3, Cat
<1> HIDE DEF s
<1>7. Len(s) = 3 + k /\ s[1] = W_length /\ s[2] = Colon /\ s[3] = SP /\ \A i \in 1..k : s[3 + i] = d[i]
  BY <1>3, <1>6
<1>8. ASSUME NEW i \in 1..Len(s) PROVE s[i] # LF
  <2>1. W_length # LF /\ Colon # LF /\ SP # LF
    BY DEF W_length, Colon, SP, LF
  <2>2. CASE i <= 3
    <3>1. i = 1 \/ i = 2 \/ i = 3
      BY <1>2, <1>7, <2>2
    <3> QED
      BY <1>7, <2>1, <3>1
  <2>3. CASE ~(i <= 3)
    <3>1. i - 3 \in 1..k /\ 3 + (i - 3) = i
      BY <1>2, <1>7, <2>3
    <3>2. s[i] = d[i - 3]
      BY <1>7, <3>1
    <3>3. s[i] \in Digit
      BY <1>2, <3>1, <3>2
    <3> QED
      BY <3>3 DEF Digit, LF
  <2> QED
    BY <2>2, <2>3
<1>9. /\ z \in Str /\ Len(z) = Len(s) + 2
      /\ (\A i \in 1..Len(s) : z[i] = s[i]) /\ z[Len(s) + 1] = CR /\ z[Len(s) + 2] = LF
      /\ Ended1(z)
  BY <1>6, <1>8, EndedBy
<1> HIDE DEF z, k
<1>10. Len(z) = k + 5 /\ z[1] = W_length /\ z[2] = Colon /\ z[3] = SP /\ z[k + 4] = CR /\ z[k + 5] = LF
  <2>1. Len(s) + 1 = k + 4 /\ Len(s) + 2 = k + 5 /\ 1 \in 1..Len(s) /\ 2 \in 1..Len(s) /\ 3 \in 1..Len(s)
    BY <1>2, <1>7
  <2> QED
    BY <1>7, <1>9, <2>1
<1>11. ASSUME NEW i \in 1..k PROVE z[3 + i] = d[i]
  <2>1. 3 + i \in 1..Len(s)
    BY <1>2, <1>7
  <2> QED
    BY <1>7, <1>9, <2>1
<1>12. Len(z) <= MAXLINE - 1
  BY <1>1, <1>2, <1>10, RioAssumption
<1>13. z # Blank
  <2>1. Len(z) # 2
    BY <1>2, <1>10
  <2>2. Len(Blank) = 2
    BY BlankOf
  <2> QED
    BY <2>1, <2>2
<1>14. Line(<<<<W_length, Colon, SP>>, to_string(n)>>) = z
  BY <1>4, <1>5 DEF z
<1> QED
  BY <1>1, <1>2, <1>4, <1>9, <1>10, <1>11, <1>12, <1>13, <1>14 DEF k, d

UriOf(a) == IF a.method # POST THEN <<W_pin, Query>> \o Form(a) ELSE << W_pin >>
VersionOf(a) == IF a.method # POST THEN HTTP11 ELSE HTTP10
FirstLine(a) == ReqLine(a.method, UriOf(a), VersionOf(a))
Tail2(a) == Blank \o Form(a)
Tail1(a) == LengthLine(Len(Form(a))) \o Tail2(a)
Rest(a) ==
    IF a.method # POST THEN HostLine \o Blank
    ELSE IF a.typed THEN TypeLine \o Tail1(a) ELSE Tail1(a)

\* No byte of a request's URI ends or divides a line.
LEMMA UriFacts ==
    ASSUME NEW a \in PinAsk
    PROVE  /\ UriOf(a) \in Str /\ UriOf(a)[1] = W_pin /\ Len(UriOf(a)) >= 1
           /\ \A i \in 1..Len(UriOf(a)) : UriOf(a)[i] # LF /\ UriOf(a)[i] # SP
           /\ a.method # POST => Drop(UriOf(a), 2) = Form(a) /\ strchr(UriOf(a), Query) = 2
           /\ a.method = POST => strchr(UriOf(a), Query) = 0
<1> DEFINE p == <<W_pin, Query>>
           F == Form(a)
           u == p \o F
<1>1. F \in Str /\ \A i \in 1..Len(F) : F[i] # LF /\ F[i] # SP
  BY FormOf
<1>2. p \in Str /\ Len(p) = 2 /\ p[1] = W_pin /\ p[2] = Query
  BY DEF Str, W_pin, Query
<1>3. UriOf(a) = IF a.method # POST THEN u ELSE << W_pin >>
  BY DEF UriOf, p, F
<1> HIDE DEF p, F
<1>4. /\ u \in Str /\ Len(u) = Len(p) + Len(F)
      /\ \A i \in 1..Len(p) : u[i] = p[i]
      /\ \A i \in 1..Len(F) : u[Len(p) + i] = F[i]
  BY <1>1, <1>2, Cat
<1>5. Drop(u, Len(p)) = F
  BY <1>1, <1>2, DropCat
<1> HIDE DEF u
<1>6. u[1] = W_pin /\ u[2] = Query /\ Len(u) = 2 + Len(F) /\ Len(F) \in Nat
  BY <1>1, <1>2, <1>4, StrFacts
<1>7. ASSUME NEW i \in 1..Len(u) PROVE u[i] # LF /\ u[i] # SP
  <2>1. CASE i <= 2
    <3>1. i = 1 \/ i = 2
      BY <1>6, <2>1
    <3> QED
      BY <1>6, <3>1 DEF W_pin, Query, LF, SP
  <2>2. CASE ~(i <= 2)
    <3>1. i - 2 \in 1..Len(F) /\ 2 + (i - 2) = i
      BY <1>6, <2>2
    <3>2. u[i] = F[i - 2]
      BY <1>2, <1>4, <3>1
    <3> QED
      BY <1>1, <3>1, <3>2
  <2> QED
    BY <2>1, <2>2
<1>8. strchr(u, Query) = 2
  <2>1. u[1] # Query
    BY <1>6 DEF W_pin, Query
  <2>2. 2 \in 1..Len(u) /\ \A i \in 1..2 - 1 : u[i] # Query
    BY <1>6, <2>1
  <2> QED
    BY <1>4, <1>6, <2>2, StrchrIs
<1>9. CASE a.method # POST
  <2>1. UriOf(a) = u /\ Len(u) >= 1 /\ Drop(u, 2) = F
    BY <1>2, <1>3, <1>5, <1>6, <1>9
  <2> QED
    BY <1>4, <1>6, <1>7, <1>8, <1>9, <2>1 DEF F
<1>10. CASE a.method = POST
  <2> DEFINE v == << W_pin >>
  <2>1. UriOf(a) = v
    BY <1>3, <1>10
  <2>2. v \in Str /\ Len(v) = 1 /\ v[1] = W_pin
    BY DEF Str, W_pin
  <2>3. W_pin # LF /\ W_pin # SP /\ W_pin # Query
    BY DEF W_pin, Query, LF, SP
  <2> HIDE DEF v
  <2>4. \A i \in 1..Len(v) : v[i] = W_pin
    BY <2>2
  <2>5. strchr(v, Query) = 0
    BY <2>2, <2>3, <2>4, StrchrNone
  <2> QED
    BY <1>10, <2>1, <2>2, <2>3, <2>4, <2>5
<1> QED
  BY <1>9, <1>10

LEMMA MethodFacts ==
    ASSUME NEW a \in PinAsk
    PROVE  /\ a.method \in Nat /\ a.method # LF /\ a.method # SP
           /\ VersionOf(a) \in Nat /\ VersionOf(a) # LF /\ VersionOf(a) # SP /\ VersionOf(a) \in {HTTP10, HTTP11}
BY PinAskType DEF VersionOf, GET, POST, W_other, LF, SP, HTTP10, HTTP11

LEMMA FirstLineOf ==
    ASSUME NEW a \in PinAsk
    PROVE  /\ FirstLine(a) \in Str /\ Ended1(FirstLine(a))
           /\ parse_request_line(FirstLine(a)) = <<<< a.method >>, UriOf(a), << VersionOf(a) >>>>
<1> DEFINE m == a.method
           u == UriOf(a)
           v == VersionOf(a)
<1>1. u \in Str /\ (\A i \in 1..Len(u) : u[i] # LF) /\ \A i \in 1..Len(u) : u[i] # SP
  BY UriFacts
<1>2. m \in Nat /\ m # LF /\ m # SP /\ v \in Nat /\ v # LF /\ v # SP
  BY MethodFacts
<1>3. FirstLine(a) = ReqLine(m, u, v)
  BY DEF FirstLine
<1> HIDE DEF m, u, v
<1>4. Ended1(ReqLine(m, u, v))
  BY <1>1, <1>2, ReqLineEnds
<1>5. parse_request_line(ReqLine(m, u, v)) = <<<< m >>, u, << v >>>>
  BY <1>1, <1>2, ParseReq
<1>6. FirstLine(a) \in Str /\ Ended1(FirstLine(a))
  BY <1>3, <1>4 DEF Ended1
<1> QED
  BY <1>3, <1>5, <1>6 DEF m, u, v

LEMMA TailsOf ==
    ASSUME NEW a \in PinAsk
    PROVE  /\ Tail2(a) \in Str /\ Tail1(a) \in Str /\ Rest(a) \in Str
           /\ Ended1(LengthLine(Len(Form(a))))
<1>1. Form(a) \in Str /\ Len(Form(a)) \in Nat /\ Len(Form(a)) <= INT_MAX
  BY FormOf
<1>2. Ended1(LengthLine(Len(Form(a)))) /\ LengthLine(Len(Form(a))) \in Str
  BY <1>1, LengthLineOf DEF Ended1
<1>3. HostLine \in Str /\ TypeLine \in Str /\ Blank \in Str
  BY HostLineOf, TypeLineOf, BlankOf DEF Ended1
<1>4. Tail2(a) \in Str
  BY <1>1, <1>3, Cat DEF Tail2
<1>5. Tail1(a) \in Str
  BY <1>2, <1>4, Cat DEF Tail1
<1>6. HostLine \o Blank \in Str /\ TypeLine \o Tail1(a) \in Str
  BY <1>3, <1>5, Cat
<1> QED
  BY <1>2, <1>4, <1>5, <1>6 DEF Rest

LEMMA Words3 ==
    ASSUME NEW x \in Str, NEW y \in Str, NEW z \in Str
    PROVE  append_strings(<<x, y, z>>) = (x \o y) \o z
<1>1. x \in Seq(Nat) /\ y \in Seq(Nat) /\ z \in Seq(Nat)
  BY DEF Str
<1>2. <<x, y>> \in Seq(Seq(Nat)) /\ Append(<<x, y>>, z) = <<x, y, z>>
  BY <1>1, Triple
<1>3. FlattenSeq(<<x, y>>) = x \o y
  BY <1>1, Append2 DEF append_strings
<1>4. FlattenSeq(Append(<<x, y>>, z)) = FlattenSeq(<<x, y>>) \o z
  BY <1>1, <1>2, FlattenAppend
<1> QED
  BY <1>2, <1>3, <1>4 DEF append_strings

LEMMA RequestOf ==
    ASSUME NEW a \in PinAsk
    PROVE  ClientRequest(a) = FirstLine(a) \o Rest(a)
<1> DEFINE F == Form(a)
           p == <<W_pin, Query>>
           m == <<a.method, SP>>
<1>1. F \in Str /\ Len(F) \in Nat /\ Len(F) <= INT_MAX
  BY FormOf
<1>2. a.method \in Nat /\ SP \in Nat /\ W_pin \in Nat /\ Query \in Nat /\ HTTP11 \in Nat /\ HTTP10 \in Nat /\ CR \in Nat /\ LF \in Nat
      /\ POST \in Nat
  BY MethodFacts DEF SP, W_pin, Query, HTTP11, HTTP10, CR, LF, POST
<1>3. HostLine \in Str /\ TypeLine \in Str /\ Blank \in Str /\ FirstLine(a) \in Str
  BY HostLineOf, TypeLineOf, BlankOf, FirstLineOf DEF Ended1
<1>4. CASE a.method # POST
  <2> DEFINE e == <<SP, HTTP11>>
             q == <<a.method, SP, W_pin, Query>>
             r == <<SP, HTTP11, CR, LF>>
  <2>1. ClientRequest(a) = (Line(<<q, F, e>>) \o HostLine) \o Blank
    BY <1>4, HostLineOf DEF ClientRequest, F, Blank
  <2>2. Line(<<q, F, e>>) = append_strings(<<q, F, e>>) \o Blank
    BY DEF Line, Blank
  <2>3. m \o p = q /\ m \in Str /\ q \in Str
    BY <1>2, Tuples
  <2>4. p \in Str /\ e \in Str /\ r \in Str /\ e \o Blank = r
    <3>1. p \in Str /\ e \in Str /\ r \in Str
      BY <1>2 DEF Str
    <3>2. e \o <<CR, LF>> = r
      <4>1. SP \in Nat /\ HTTP11 \in Nat /\ CR \in Nat /\ LF \in Nat
        BY <1>2
      <4> QED
        BY ONLY <4>1, Tuples
    <3> QED
      BY <3>1, <3>2 DEF Blank
  <2>5. FirstLine(a) = (m \o (p \o F)) \o r
    BY <1>4 DEF FirstLine, ReqLine, UriOf, VersionOf, F, p, m, r
  <2>6. Rest(a) = HostLine \o Blank
    BY <1>4 DEF Rest
  <2> HIDE DEF F, p, m, e, q, r
  <2>7. append_strings(<<q, F, e>>) = (q \o F) \o e
    <3>1. q \in Str /\ F \in Str /\ e \in Str
      BY <1>1, <2>3, <2>4
    <3> QED
      BY ONLY <3>1, Words3
  <2>8. q \o F = m \o (p \o F) /\ q \o F \in Str
    <3>1. p \in Str /\ m \in Str /\ q \in Str /\ F \in Str /\ m \o p = q
      BY <1>1, <2>3, <2>4
    <3>2. (m \o p) \o F = m \o (p \o F)
      BY ONLY <3>1, CatAssoc
    <3>3. q \o F \in Str
      BY ONLY <3>1, Cat
    <3> QED
      BY <3>1, <3>2, <3>3
  <2>9. ((q \o F) \o e) \o Blank = (q \o F) \o r
    BY <1>3, <2>4, <2>8, CatAssoc, ZenonT(60)
  <2>10. Line(<<q, F, e>>) = FirstLine(a)
    BY <2>2, <2>5, <2>7, <2>8, <2>9
  <2> QED
    <3>1. (FirstLine(a) \o HostLine) \o Blank = FirstLine(a) \o (HostLine \o Blank)
      BY <1>3, CatAssoc
    <3> QED
      BY <2>1, <2>6, <2>10, <3>1
<1>5. CASE a.method = POST
  <2> DEFINE s == <<POST, SP, W_pin, SP, HTTP10>>
             t == IF a.typed THEN TypeLine ELSE <<>>
             w == << W_pin >>
             r == <<SP, HTTP10, CR, LF>>
             z == s \o Blank
             R == ReqLine(POST, w, HTTP10)
  <2>1. /\ s \in Str /\ Len(s) = 5 /\ s[1] = POST /\ s[2] = SP /\ s[3] = W_pin /\ s[4] = SP /\ s[5] = HTTP10
        /\ w \in Str /\ Len(w) = 1 /\ w[1] = W_pin
    BY DEF Str, POST, SP, W_pin, HTTP10
  <2>2. FirstLine(a) = R
    BY <1>5 DEF FirstLine, UriOf, VersionOf, w
  <2>3. Line(<<<<POST, SP, W_pin, SP, HTTP10>>>>) = Line(<<s>>)
    OBVIOUS
  <2>4. ClientRequest(a) =
           (((Line(<<s>>) \o t) \o Line(<<<<W_length, Colon, SP>>, to_string(Len(F))>>)) \o Blank) \o F
    BY <1>5, TypeLineOf DEF ClientRequest, PostRequest, F, Blank, s, t
  <2> HIDE DEF s, t, w, r
  <2>5. Line(<<s>>) = z
    BY <2>1, LineOne
  <2>6. /\ z \in Str /\ Len(z) = 7 /\ (\A i \in 1..5 : z[i] = s[i]) /\ z[5 + 1] = CR /\ z[5 + 2] = LF
    <3>1. \A i \in 1..Len(s) : s[i] # LF
      <4>1. s[1] # LF /\ s[2] # LF /\ s[3] # LF /\ s[4] # LF /\ s[5] # LF
        BY <2>1 DEF POST, SP, W_pin, HTTP10, LF
      <4> QED
        BY <2>1, <4>1
    <3>2. /\ z \in Str /\ Len(z) = Len(s) + 2 /\ (\A i \in 1..Len(s) : z[i] = s[i])
          /\ z[Len(s) + 1] = CR /\ z[Len(s) + 2] = LF
      BY <2>1, <3>1, EndedBy
    <3> HIDE DEF z
    <3> QED
      BY <2>1, <3>2
  <2>7. ReqLineIs(POST, w, HTTP10)
    BY <1>2, <2>1, ReqLineAs
  <2>8. /\ R \in Str /\ Len(R) = Len(w) + 6
        /\ R[1] = POST /\ R[2] = SP /\ (\A i \in 1..Len(w) : R[2 + i] = w[i])
        /\ R[Len(w) + 3] = SP /\ R[Len(w) + 4] = HTTP10 /\ R[Len(w) + 5] = CR /\ R[Len(w) + 6] = LF
    BY <2>7 DEF ReqLineIs
  <2> HIDE DEF z, R
  <2>9. /\ Len(R) = 7 /\ R[1] = POST /\ R[2] = SP /\ R[3] = W_pin /\ R[4] = SP /\ R[5] = HTTP10
        /\ R[6] = CR /\ R[7] = LF
    <3>1. R[2 + 1] = W_pin
      BY <2>1, <2>8
    <3> QED
      BY <2>1, <2>8, <3>1
  <2>10. z[1] = POST /\ z[2] = SP /\ z[3] = W_pin /\ z[4] = SP /\ z[5] = HTTP10 /\ z[6] = CR /\ z[7] = LF
    BY <2>1, <2>6
  <2>11. z = R
    <3>1. \A i \in 1..Len(z) : z[i] = R[i]
      BY <2>6, <2>9, <2>10
    <3>2. z \in Str /\ R \in Str /\ Len(z) = Len(R)
      BY <2>6, <2>8, <2>9
    <3> QED
      BY <3>1, <3>2, SameStr
  <2> DEFINE L == LengthLine(Len(F))
  <2>12. Line(<<<<W_length, Colon, SP>>, to_string(Len(F))>>) = L /\ L \in Str
    BY <1>1, LengthLineOf
  <2>13. Rest(a) = IF a.typed THEN TypeLine \o (L \o (Blank \o F)) ELSE L \o (Blank \o F)
    BY <1>5 DEF Rest, Tail1, Tail2, L, F
  <2> HIDE DEF L, F
  <2>14. ClientRequest(a) = (((R \o t) \o L) \o Blank) \o F
    BY <2>4, <2>5, <2>11, <2>12
  <2>15. t \in Str /\ R \in Str /\ R \o t \in Str /\ L \o (Blank \o F) \in Str
    <3>1. t \in Str
      BY <1>3, StrFacts DEF t, Str
    <3>2. Blank \o F \in Str
      BY <1>1, <1>3, Cat
    <3> QED
      BY <2>8, <2>12, <3>1, <3>2, Cat
  <2>16. (R \o t) \o L \in Str
    BY <2>12, <2>15, Cat
  <2>17. (((R \o t) \o L) \o Blank) \o F = ((R \o t) \o L) \o (Blank \o F)
    BY <1>1, <1>3, <2>16, CatAssoc
  <2>18. Blank \o F \in Str
    BY <1>1, <1>3, Cat
  <2>19. ((R \o t) \o L) \o (Blank \o F) = (R \o t) \o (L \o (Blank \o F))
    BY <2>12, <2>15, <2>18, CatAssoc, ZenonT(60)
  <2>20. (R \o t) \o (L \o (Blank \o F)) = R \o (t \o (L \o (Blank \o F)))
    BY <2>15, CatAssoc
  <2>21. t \o (L \o (Blank \o F)) = Rest(a)
    <3>1. CASE a.typed
      BY <2>13, <3>1 DEF t
    <3>2. CASE ~a.typed
      BY <2>13, <2>15, <3>2, CatEmpty DEF t
    <3> QED
      BY <3>1, <3>2
  <2> QED
    BY <2>2, <2>14, <2>17, <2>19, <2>20, <2>21
<1> QED
  BY <1>4, <1>5

LEMMA FitsOf ==
    ASSUME NEW a \in PinAsk
    PROVE  /\ Fits(a) <=> Len(FirstLine(a)) <= MAXLINE - 1
           /\ ClientRequest(a) \in Str
<1> DEFINE l == FirstLine(a)
           r == Rest(a)
           z == l \o r
           n == Len(l)
<1>1. l \in Str /\ Ended1(l) /\ r \in Str
  BY FirstLineOf, TailsOf
<1>2. ClientRequest(a) = z
  BY RequestOf
<1> HIDE DEF l, r
<1>3. n \in Nat /\ n >= 1 /\ l[n] = LF /\ \A i \in 1..n - 1 : l[i] # LF
  BY <1>1, StrFacts DEF Ended1
<1>4. z \in Str /\ Len(z) = n + Len(r) /\ (\A i \in 1..n : z[i] = l[i]) /\ Len(r) \in Nat
  BY <1>1, Cat, StrFacts
<1> HIDE DEF z, n
<1>5. strchr(z, LF) = n
  <2>1. n \in 1..Len(z) /\ z[n] = LF
    BY <1>3, <1>4
  <2>2. \A i \in 1..n - 1 : z[i] # LF
    BY <1>3, <1>4
  <2> QED
    BY <1>4, <2>1, <2>2, StrchrIs
<1> QED
  BY <1>2, <1>4, <1>5 DEF Fits, n, l

-----------------------------------------------------------------------------
(* Headers.                                                                  *)

LEMMA StartsWith ==
    ASSUME NEW w \in Nat, NEW s \in Str
    PROVE  starts_with(<< w >>, s) <=> Len(s) >= 1 /\ s[1] = w
<1> DEFINE p == << w >>
<1>1. p \in Str /\ Len(p) = 1 /\ p[1] = w
  BY DEF Str
<1>2. starts_with(<< w >>, s) <=> Len(p) <= Len(s) /\ SubSeq(p, 1, Len(p)) = SubSeq(s, 1, Len(p))
  BY DEF starts_with, IsPrefix
<1> HIDE DEF p
<1>3. SubSeq(p, 1, Len(p)) = p
  BY <1>1, Whole
<1>4. Len(s) \in Nat
  BY StrFacts
<1>5. CASE Len(s) >= 1
  <2> DEFINE x == SubSeq(s, 1, 1)
  <2>1. x \in Str /\ Len(x) = 1 /\ \A i \in 1..1 : x[i] = s[i]
    BY <1>5, FirstPart
  <2> HIDE DEF x
  <2>2. x[1] = s[1]
    BY <2>1
  <2>3. s[1] = w => x = p
    <3>1. SUFFICES ASSUME s[1] = w PROVE x = p
      OBVIOUS
    <3>2. \A i \in 1..Len(x) : x[i] = p[i]
      BY <1>1, <2>1, <2>2, <3>1
    <3> QED
      BY <1>1, <2>1, <3>2, SameStr
  <2>4. x = p => s[1] = w
    BY <1>1, <2>2
  <2> QED
    BY <1>1, <1>2, <1>3, <1>5, <2>3, <2>4 DEF x
<1>6. CASE ~(Len(s) >= 1)
  BY <1>1, <1>2, <1>4, <1>6
<1> QED
  BY <1>5, <1>6

\* A number that begins with a digit has no white space and no sign.
LEMMA AtoiPlain ==
    ASSUME NEW s \in Str, s = <<>> \/ s[1] \in Digit
    PROVE  atoi(s) = Number(s)
<1> DEFINE at == {i \in DOMAIN s : ~IsSpace(s[i])} \cup {Len(s) + 1}
           text == SubSeq(s, Min(at), Len(s))
<1>1. DOMAIN s = 1..Len(s) /\ Len(s) \in Nat
  BY StrFacts
<1>2. s # <<>> => Len(s) >= 1 /\ s[1] \in Digit
  BY <1>1, StrFacts
<1>3. \A d \in Digit : ~IsSpace(d) /\ d # Minus /\ d # Plus
  BY DigitBounds DEF IsSpace, Minus, Plus
<1>4. 1 \in at
  <2>1. s = <<>> => Len(s) + 1 = 1
    OBVIOUS
  <2> QED
    BY <1>1, <1>2, <1>3, <2>1
<1>5. at \in SUBSET Nat /\ \A y \in at : 1 <= y
  BY <1>1
<1> HIDE DEF at
<1>6. Min(at) = 1
  BY <1>4, <1>5, MinIs
<1>7. text = s
  BY <1>6, Whole
<1>8. ~IsPrefix(<< Minus >>, s) /\ ~IsPrefix(<< Plus >>, s)
  <2>1. Minus \in Nat /\ Plus \in Nat
    BY DEF Minus, Plus
  <2>2. starts_with(<< Minus >>, s) => Len(s) >= 1 /\ s[1] = Minus
    BY <2>1, StartsWith
  <2>3. starts_with(<< Plus >>, s) => Len(s) >= 1 /\ s[1] = Plus
    BY <2>1, StartsWith
  <2>4. Len(s) >= 1 => s # <<>>
    BY <1>1, StrFacts
  <2>5. ~starts_with(<< Minus >>, s) /\ ~starts_with(<< Plus >>, s)
    BY <1>2, <1>3, <2>2, <2>3, <2>4
  <2> QED
    BY <2>5 DEF starts_with
<1>9. atoi(s) = IF IsPrefix(<< Minus >>, text) THEN -Number(Tail(text))
                ELSE IF IsPrefix(<< Plus >>, text) THEN Number(Tail(text))
                ELSE Number(text)
  BY DEF atoi, at
<1> HIDE DEF text
<1> QED
  BY <1>7, <1>8, <1>9

LEMMA AtoiOf ==
    ASSUME NEW s \in Str, NEW k \in Nat, k <= Len(s), \A i \in 1..k : s[i] \in Digit,
           k < Len(s) => s[k + 1] \notin Digit, k = 0 => s = <<>>
    PROVE  AllDigits(SubSeq(s, 1, k)) /\ atoi(s) = Value(SubSeq(s, 1, k))
<1>1. AllDigits(SubSeq(s, 1, k)) /\ Number(s) = Value(SubSeq(s, 1, k))
  BY NumberOf
<1>2. s = <<>> \/ s[1] \in Digit
  OBVIOUS
<1> QED
  BY <1>1, <1>2, AtoiPlain

LEMMA AtoiInt ==
    ASSUME NEW s \in Str
    PROVE  atoi(s) \in Int
<1> DEFINE at == {i \in DOMAIN s : ~IsSpace(s[i])} \cup {Len(s) + 1}
           text == SubSeq(s, Min(at), Len(s))
<1>1. DOMAIN s = 1..Len(s) /\ Len(s) \in Nat
  BY StrFacts
<1>2. at \in SUBSET Nat /\ at # {} /\ \A y \in at : 1 <= y /\ y <= Len(s) + 1
  BY <1>1
<1>3. atoi(s) = IF IsPrefix(<< Minus >>, text) THEN -Number(Tail(text))
                ELSE IF IsPrefix(<< Plus >>, text) THEN Number(Tail(text))
                ELSE Number(text)
  BY DEF atoi
<1> HIDE DEF at
<1>4. PICK m \in Nat : m = Min(at) /\ 1 <= m /\ m <= Len(s) + 1
  BY <1>2, MinOf
<1>5. text \in Str
  <2>1. PICK k \in Nat : m = k + 1 /\ k <= Len(s)
    <3>1. m - 1 \in Nat /\ m = (m - 1) + 1 /\ m - 1 <= Len(s)
      BY <1>1, <1>4
    <3> QED
      BY <3>1
  <2>2. text = Drop(s, k)
    BY <1>4, <2>1 DEF Drop
  <2> QED
    BY <2>1, <2>2, DropOf
<1> HIDE DEF text
<1>6. ASSUME NEW w \in Nat, IsPrefix(<< w >>, text) PROVE Tail(text) \in Str
  <2>1. Len(text) >= 1
    BY <1>5, <1>6, StartsWith DEF starts_with
  <2>2. text # <<>>
    BY <1>5, <2>1, StrFacts
  <2> QED
    BY <1>5, <2>2 DEF Str
<1>7. Minus \in Nat /\ Plus \in Nat
  BY DEF Minus, Plus
<1>8. CASE IsPrefix(<< Minus >>, text)
  <2>1. Number(Tail(text)) \in Nat
    BY <1>6, <1>7, <1>8, NumberNat
  <2> QED
    BY <1>3, <1>8, <2>1
<1>9. CASE ~IsPrefix(<< Minus >>, text) /\ IsPrefix(<< Plus >>, text)
  <2>1. Number(Tail(text)) \in Nat
    BY <1>6, <1>7, <1>9, NumberNat
  <2> QED
    BY <1>3, <1>9, <2>1
<1>10. CASE ~IsPrefix(<< Minus >>, text) /\ ~IsPrefix(<< Plus >>, text)
  <2>1. Number(text) \in Nat
    BY <1>5, NumberNat
  <2> QED
    BY <1>3, <1>10, <2>1
<1> QED
  BY <1>8, <1>9, <1>10

\* The first digits of a number are no more than the number.
LEMMA ValuePrefix ==
    ASSUME NEW s, AllDigits(s), NEW k \in Nat, k <= Len(s)
    PROVE  Value(SubSeq(s, 1, k)) \in Nat /\ Value(SubSeq(s, 1, k)) <= Value(s)
<1> DEFINE n == Len(s)
           P(j) == SubSeq(s, 1, j)
<1>1. s \in Str /\ n \in Nat /\ \A i \in 1..n : s[i] \in Digit
  BY StrFacts DEF AllDigits
<1>2. ASSUME NEW j \in Nat, j <= n PROVE AllDigits(P(j)) /\ Value(P(j)) \in Nat /\ Len(P(j)) = j
  <2>1. P(j) \in Str /\ Len(P(j)) = j /\ \A i \in 1..j : P(j)[i] = s[i]
    BY <1>1, <1>2, FirstPart
  <2>2. AllDigits(P(j))
    BY <1>1, <1>2, <2>1 DEF AllDigits
  <2> QED
    BY <2>1, <2>2, ValueRun
<1>3. ASSUME NEW j \in Nat, j + 1 <= n PROVE Value(P(j)) <= Value(P(j + 1))
  <2>1. j <= n /\ j + 1 \in 1..n /\ j + 1 \in Nat
    BY <1>1, <1>3
  <2>2. AllDigits(P(j)) /\ Value(P(j)) \in Nat /\ Len(P(j)) = j
    BY <1>2, <2>1
  <2>3. P(j + 1) = Append(P(j), s[j + 1])
    <3> DEFINE x == P(j)
               y == P(j + 1)
               z == Append(P(j), s[j + 1])
    <3>1. y \in Str /\ Len(y) = j + 1 /\ \A i \in 1..j + 1 : y[i] = s[i]
      BY <1>1, <1>3, <2>1, FirstPart
    <3>2. x \in Str /\ Len(x) = j /\ \A i \in 1..j : x[i] = s[i]
      BY <1>1, <2>1, FirstPart
    <3>3. s[j + 1] \in Nat
      BY <1>1, <2>1, StrFacts
    <3> HIDE DEF x, y
    <3>4. z \in Str /\ Len(z) = j + 1 /\ z[j + 1] = s[j + 1] /\ \A i \in 1..j : z[i] = x[i]
      BY <3>2, <3>3, AppendProperties DEF Str, x
    <3> HIDE DEF z
    <3>5. ASSUME NEW i \in 1..j + 1 PROVE y[i] = z[i]
      <4>1. i \in 1..j \/ i = j + 1
        BY <2>1
      <4> QED
        BY <3>1, <3>2, <3>4, <4>1
    <3>6. y = z
      BY <3>1, <3>4, <3>5, SameStr
    <3> QED
      BY <3>6 DEF y, z
  <2>4. s[j + 1] \in Digit
    BY <1>1, <2>1
  <2>5. Value(P(j + 1)) = 10 * Value(P(j)) + (s[j + 1] - 48)
    BY <2>2, <2>3, <2>4, ValueAppend
  <2>6. s[j + 1] \in Nat /\ s[j + 1] >= 48
    BY <2>4, DigitBounds
  <2> HIDE DEF P
  <2> QED
    BY <2>2, <2>5, <2>6
<1>4. P(n) = s
  BY <1>1, Whole
<1> DEFINE T == {d \in Nat : d <= n /\ ~(Value(P(n - d)) <= Value(s))}
<1>5. T = {}
  <2>1. SUFFICES ASSUME T # {} PROVE FALSE
    OBVIOUS
  <2>2. PICK d \in T : \A y \in T : d <= y
    <3>1. T \in SUBSET Nat
      OBVIOUS
    <3> QED
      BY <2>1, <3>1, LeastOf
  <2>3. d \in Nat /\ d <= n /\ ~(Value(P(n - d)) <= Value(s))
    BY <2>2
  <2>4. n \in Nat /\ n <= n /\ Value(P(n)) \in Nat
    BY <1>1, <1>2
  <2>5. d # 0
    <3>1. Value(P(n)) <= Value(s)
      <4>1. Value(P(n)) = Value(s)
        BY <1>4, Zenon
      <4>2. ASSUME NEW x \in Nat, NEW y, x = y PROVE x <= y
        BY ONLY x \in Nat, x = y
      <4> HIDE DEF P
      <4> QED
        BY ONLY <2>4, <4>1, <4>2
    <3>2. d = 0 => n - d = n
      BY <1>1
    <3> QED
      BY <2>3, <3>1, <3>2
  <2>6. PICK e \in Nat : d = e + 1 /\ ~(d <= e) /\ e <= n
    <3>1. d - 1 \in Nat /\ d = (d - 1) + 1 /\ ~(d <= d - 1) /\ d - 1 <= n
      BY <1>1, <2>3, <2>5
    <3> QED
      BY <3>1
  <2>7. Value(P(n - e)) <= Value(s)
    <3>1. e \notin T
      BY <2>2, <2>6
    <3> QED
      BY <2>6, <3>1
  <2>8. PICK j \in Nat : j = n - d /\ j + 1 = n - e /\ j + 1 <= n /\ j <= n
    <3>1. n - d \in Nat /\ (n - d) + 1 = n - e /\ (n - d) + 1 <= n /\ n - d <= n
      BY <1>1, <2>3, <2>6
    <3> QED
      BY <3>1
  <2>9. Value(P(j)) <= Value(P(j + 1)) /\ Value(P(j)) \in Nat /\ Value(P(j + 1)) \in Nat
    <3>1. j + 1 \in Nat
      OBVIOUS
    <3> QED
      BY <1>2, <1>3, <2>8, <3>1
  <2>10. Value(s) \in Nat
    BY <1>4, <2>4
  <2> HIDE DEF P
  <2>11. Value(P(j + 1)) <= Value(s) /\ ~(Value(P(j)) <= Value(s))
    BY <2>3, <2>7, <2>8
  <2> QED
    BY ONLY <2>9, <2>10, <2>11
<1>6. Value(P(k)) <= Value(s)
  <2>1. PICK d \in Nat : d = n - k /\ d <= n /\ n - d = k
    <3>1. n - k \in Nat /\ n - k <= n /\ n - (n - k) = k
      BY <1>1
    <3> QED
      BY <3>1
  <2>2. d \notin T
    BY <1>5
  <2> QED
    BY <2>1, <2>2
<1> QED
  BY <1>2, <1>6

LEMMA TrimIs ==
    ASSUME NEW s \in Str, NEW i \in Nat, NEW j \in 1..Len(s), i < j,
           ~IsSpace(s[i + 1]), ~IsSpace(s[j]),
           \A k \in 1..Len(s) : k <= i \/ j < k => IsSpace(s[k])
    PROVE  Trim(s) = SubSeq(s, i + 1, j)
<1> DEFINE text == {k \in DOMAIN s : ~IsSpace(s[k])}
<1>1. DOMAIN s = 1..Len(s) /\ Len(s) \in Nat
  BY StrFacts
<1>2. text \in SUBSET Nat /\ i + 1 \in text /\ j \in text /\ \A k \in text : i + 1 <= k /\ k <= j
  BY <1>1
<1> HIDE DEF text
<1>3. Min(text) = i + 1
  BY <1>2, MinIs
<1>4. Max(text) = j
  <2>1. \A m \in text : (\A k \in text : m >= k) => m = j
    BY <1>2
  <2>2. \A k \in text : j >= k
    BY <1>2
  <2>3. (CHOOSE m \in text : \A k \in text : m >= k) = j
    BY <1>2, <2>1, <2>2
  <2> QED
    BY <2>3 DEF Max
<1>5. text # {}
  BY <1>2
<1>6. Trim(s) = IF text = {} THEN <<>> ELSE SubSeq(s, Min(text), Max(text))
  BY DEF Trim, text
<1> QED
  BY <1>3, <1>4, <1>5, <1>6

HasType(h, a) ==
    /\ h \in Dict /\ (<< W_type >> \in DOMAIN h <=> a.typed)
    /\ a.typed => h[<< W_type >>] = << W_urlencoded >>

\* A header of a word and of something after the colon.
LEMMA HeaderParsed ==
    ASSUME NEW w \in Nat, w >= 256, NEW buf \in Str, NEW i \in Nat, NEW j \in Nat, NEW v \in Str, NEW d \in Dict,
           Len(buf) >= 3, buf[1] = w, buf[2] = Colon, 2 <= i, i < j, j <= Len(buf),
           ~IsSpace(buf[i + 1]), ~IsSpace(buf[j]),
           \A k \in 3..Len(buf) : k <= i \/ j < k => IsSpace(buf[k]),
           Len(v) = j - i, \A k \in 1..Len(v) : v[k] = buf[i + k], CString(v) = v
    PROVE  SetIs(parse_header_line(buf, d), d, << w >>, v)
<1> DEFINE c == strchr(buf, Colon)
           n == Len(buf)
           b == SubSeq(buf, 1, 1)
           t == Drop(buf, 2)
           p == << w >>
<1>1. n \in Nat
  BY StrFacts
<1>2. c = 2
  <2>1. 2 \in 1..Len(buf) /\ buf[1] # Colon
    BY <1>1 DEF Colon
  <2>2. \A k \in 1..2 - 1 : buf[k] # Colon
    BY <2>1
  <2> QED
    BY <2>1, <2>2, StrchrIs
<1>3. b = p
  <2>1. b \in Str /\ Len(b) = 1 /\ \A k \in 1..1 : b[k] = buf[k]
    BY <1>1, FirstPart
  <2>2. p \in Str /\ Len(p) = 1 /\ p[1] = w
    BY WordFacts
  <2> HIDE DEF b, p
  <2>3. b[1] = w
    BY <2>1
  <2>4. \A k \in 1..Len(b) : b[k] = p[k]
    BY <2>1, <2>2, <2>3
  <2> QED
    BY <2>1, <2>2, <2>4, SameStr
<1>4. t \in Str /\ Len(t) = n - 2 /\ \A k \in 1..n - 2 : t[k] = buf[k + 2]
  <2>1. 2 \in Nat /\ 2 <= Len(buf)
    BY <1>1
  <2>2. t \in Str /\ Len(t) = Len(buf) - 2 /\ \A k \in 1..Len(buf) - 2 : t[k] = buf[k + 2]
    BY <2>1, DropOf
  <2> QED
    BY <2>2
<1>5. parse_header_line(buf, d) = Set(d, b, Trim(t))
  <2>1. Before(buf, 2) = b /\ After(buf, 2) = t
    BY DEF Before, After, Drop
  <2>2. parse_header_line(buf, d) = IF c = 0 THEN d ELSE Set(d, Before(buf, c), Trim(After(buf, c)))
    BY DEF parse_header_line
  <2> HIDE DEF c, b, t
  <2> QED
    BY <1>2, <2>1, <2>2
<1> HIDE DEF t, b, c
<1> DEFINE x == SubSeq(t, (i - 2) + 1, j - 2)
<1>6. Trim(t) = x
  <2>1. i - 2 \in Nat /\ j - 2 \in 1..Len(t) /\ i - 2 < j - 2
    BY <1>1, <1>4
  <2>2. t[(i - 2) + 1] = buf[i + 1] /\ t[j - 2] = buf[j]
    <3>1. (i - 2) + 1 \in 1..n - 2 /\ j - 2 \in 1..n - 2 /\ ((i - 2) + 1) + 2 = i + 1 /\ (j - 2) + 2 = j
      BY <1>1
    <3> QED
      BY <1>4, <3>1
  <2>3. ASSUME NEW k \in 1..Len(t), k <= i - 2 \/ j - 2 < k PROVE IsSpace(t[k])
    <3>1. k + 2 \in 3..Len(buf) /\ k \in 1..n - 2 /\ (k + 2 <= i \/ j < k + 2)
      BY <1>1, <1>4, <2>3
    <3> QED
      BY <1>4, <3>1
  <2> DEFINE e == i - 2
             f == j - 2
  <2> HIDE DEF e, f
  <2>4. /\ e \in Nat /\ f \in 1..Len(t) /\ e < f /\ ~IsSpace(t[e + 1]) /\ ~IsSpace(t[f])
        /\ \A k \in 1..Len(t) : k <= e \/ f < k => IsSpace(t[k])
    BY <2>1, <2>2, <2>3 DEF e, f
  <2>5. Trim(t) = SubSeq(t, e + 1, f)
    BY <1>4, <2>4, TrimIs
  <2> QED
    BY <2>5 DEF e, f
<1>7. x = v
  <2>1. i - 2 \in Nat /\ j - 2 \in Nat /\ i - 2 <= j - 2 /\ j - 2 <= Len(t) /\ (j - 2) - (i - 2) = j - i
    BY <1>1, <1>4
  <2> DEFINE e == i - 2
             f == j - 2
  <2> HIDE DEF e, f
  <2>2. e \in Nat /\ f \in Nat /\ e <= f /\ f <= Len(t) /\ f - e = j - i
    BY <2>1 DEF e, f
  <2>3. SubSeq(t, e + 1, f) \in Str /\ Len(SubSeq(t, e + 1, f)) = f - e /\ \A k \in 1..f - e : SubSeq(t, e + 1, f)[k] = t[e + k]
    BY <1>4, <2>2, Part
  <2>4. x = SubSeq(t, e + 1, f)
    BY DEF e, f
  <2> HIDE DEF x
  <2>5. ASSUME NEW k \in 1..Len(x) PROVE x[k] = v[k]
    <3>1. k \in 1..f - e /\ k \in 1..Len(v)
      BY <2>2, <2>3, <2>4
    <3>2. x[k] = t[e + k] /\ v[k] = buf[i + k]
      BY <2>3, <2>4, <3>1
    <3>3. e + k \in 1..n - 2 /\ (e + k) + 2 = i + k
      BY <1>1, <2>2, <3>1 DEF e, f
    <3> QED
      BY <1>4, <3>2, <3>3
  <2>6. x \in Str /\ Len(x) = Len(v)
    BY <2>2, <2>3, <2>4
  <2> QED
    BY <2>5, <2>6, SameStr
<1>8. p \in Str /\ CString(p) = p
  BY WordFacts
<1> HIDE DEF p, x
<1>9. SetIs(Set(d, p, v), d, p, v)
  BY <1>8, SetPlain
<1> QED
  BY <1>3, <1>5, <1>6, <1>7, <1>9 DEF p

LEMMA TypeParsed ==
    ASSUME NEW a \in PinAsk, a.typed
    PROVE  HasType(parse_header_line(TypeLine, <<>>), a)
<1> DEFINE T == TypeLine
           v == << W_urlencoded >>
           o == <<>>
           w == << W_type >>
<1>1. /\ T \in Str /\ Len(T) = 6 /\ T[1] = W_type /\ T[2] = Colon /\ T[3] = W_urlencoded /\ T[4] = SP
      /\ T[5] = CR /\ T[6] = LF
  BY TypeLineOf DEF Ended1
<1>2. W_type \in Nat /\ W_type >= 256 /\ W_urlencoded \in Nat /\ W_urlencoded >= 256
  BY DEF W_type, W_urlencoded
<1>3. v \in Str /\ Len(v) = 1 /\ v[1] = W_urlencoded /\ CString(v) = v
  BY <1>2, WordFacts
<1>4. o \in Dict /\ DOMAIN o = {}
  BY DictEmpty
<1>5. ~IsSpace(W_urlencoded) /\ IsSpace(SP) /\ IsSpace(CR) /\ IsSpace(LF)
  BY DEF IsSpace, W_urlencoded, SP, CR, LF
<1> HIDE DEF T, v, o
<1>6. ASSUME NEW k \in 3..Len(T), k <= 2 \/ 3 < k PROVE IsSpace(T[k])
  <2>1. k = 4 \/ k = 5 \/ k = 6
    BY <1>1, <1>6
  <2> QED
    BY <1>1, <1>5, <2>1
<1>7. ~IsSpace(T[2 + 1]) /\ ~IsSpace(T[3]) /\ Len(v) = 3 - 2 /\ \A k \in 1..Len(v) : v[k] = T[2 + k]
  BY <1>1, <1>3, <1>5
<1>8. SetIs(parse_header_line(T, o), o, w, v)
  <2> DEFINE c == W_type
             i == 2
             j == 3
  <2>1. /\ c \in Nat /\ c >= 256 /\ i \in Nat /\ j \in Nat
        /\ Len(T) >= 3 /\ T[1] = c /\ T[2] = Colon /\ 2 <= i /\ i < j /\ j <= Len(T)
        /\ ~IsSpace(T[i + 1]) /\ ~IsSpace(T[j])
        /\ (\A k \in 3..Len(T) : k <= i \/ j < k => IsSpace(T[k]))
        /\ Len(v) = j - i /\ (\A k \in 1..Len(v) : v[k] = T[i + k]) /\ CString(v) = v
    BY <1>1, <1>2, <1>3, <1>6, <1>7
  <2> HIDE DEF c, i, j, w
  <2>2. SetIs(parse_header_line(T, o), o, << c >>, v)
    BY <1>1, <1>3, <1>4, <2>1, HeaderParsed
  <2> QED
    BY <2>2 DEF c, w
<1> HIDE DEF w
<1>9. HasType(parse_header_line(T, o), a) <=> HasType(parse_header_line(TypeLine, <<>>), a)
  BY DEF T, o
<1> QED
  BY <1>4, <1>8, <1>9 DEF SetIs, HasType, w, v

LEMMA LengthParsed ==
    ASSUME NEW a \in PinAsk, NEW h, HasType(h, a), NEW n \in Nat, n <= INT_MAX
    PROVE  LET g == parse_header_line(LengthLine(n), h)
           IN  HasType(g, a) /\ << W_length >> \in DOMAIN g /\ g[<< W_length >>] = to_string(n)
<1> DEFINE L == LengthLine(n)
           d == to_string(n)
           k == Len(d)
           w == << W_length >>
<1>1. /\ L \in Str /\ Len(L) = k + 5 /\ k \in Nat /\ k >= 1
      /\ L[1] = W_length /\ L[2] = Colon /\ L[3] = SP /\ (\A i \in 1..k : L[3 + i] = d[i])
      /\ L[k + 4] = CR /\ L[k + 5] = LF
  BY LengthLineOf
<1>2. d \in Str /\ \A i \in 1..k : d[i] \in Digit
  BY ToStringOf DEF AllDigits
<1> HIDE DEF L, d
<1>3. \A c \in Digit : ~IsSpace(c) /\ c # NUL
  BY DEF IsSpace, Digit, NUL
<1>4. CString(d) = d
  BY <1>2, <1>3, CStringOf
<1>5. W_length \in Nat /\ W_length >= 256 /\ IsSpace(SP) /\ IsSpace(CR) /\ IsSpace(LF)
  BY DEF W_length, IsSpace, SP, CR, LF
<1>6. h \in Dict
  BY DEF HasType
<1>7. ~IsSpace(L[3 + 1]) /\ ~IsSpace(L[k + 3])
  <2>1. 1 \in 1..k /\ k \in 1..k /\ k + 3 = 3 + k
    BY <1>1
  <2>2. L[3 + 1] = d[1] /\ L[3 + k] = d[k]
    BY <1>1, <2>1
  <2> QED
    BY <1>2, <1>3, <2>1, <2>2
<1>8. ASSUME NEW i \in 3..Len(L), i <= 3 \/ k + 3 < i PROVE IsSpace(L[i])
  <2>1. i = 3 \/ i = k + 4 \/ i = k + 5
    BY <1>1, <1>8
  <2> QED
    BY <1>1, <1>5, <2>1
<1>9. SetIs(parse_header_line(L, h), h, w, d)
  <2> DEFINE c == W_length
             i == 3
             j == k + 3
  <2>1. /\ c \in Nat /\ c >= 256 /\ i \in Nat /\ j \in Nat
        /\ Len(L) >= 3 /\ L[1] = c /\ L[2] = Colon /\ 2 <= i /\ i < j /\ j <= Len(L)
        /\ ~IsSpace(L[i + 1]) /\ ~IsSpace(L[j])
        /\ (\A m \in 3..Len(L) : m <= i \/ j < m => IsSpace(L[m]))
        /\ Len(d) = j - i /\ (\A m \in 1..Len(d) : d[m] = L[i + m]) /\ CString(d) = d
    BY <1>1, <1>4, <1>5, <1>7, <1>8
  <2> HIDE DEF c, i, j, w
  <2>2. SetIs(parse_header_line(L, h), h, << c >>, d)
    BY <1>1, <1>2, <1>6, <2>1, HeaderParsed
  <2> QED
    BY <2>2 DEF c, w
<1>10. w # << W_type >>
  BY DEF w, W_length, W_type
<1> HIDE DEF w
<1> DEFINE g == parse_header_line(L, h)
<1>11. HasType(g, a) /\ w \in DOMAIN g /\ g[w] = d
  <2> HIDE DEF g
  <2>1. g \in Dict /\ DOMAIN g = DOMAIN h \cup {w} /\ g[w] = d /\ \A y \in DOMAIN h : y # w => g[y] = h[y]
    BY <1>9 DEF SetIs, g
  <2> QED
    BY <1>10, <2>1 DEF HasType
<1> QED
  BY <1>11 DEF L, d, w

LEMMA AtoiDigits ==
    ASSUME NEW n \in Nat
    PROVE  atoi(to_string(n)) = n
<1> DEFINE d == to_string(n)
           k == Len(d)
<1>1. AllDigits(d) /\ Value(d) = n
  BY ToStringOf
<1> HIDE DEF d
<1>2. d \in Str /\ k \in Nat /\ \A i \in 1..k : d[i] \in Digit
  BY <1>1, StrFacts DEF AllDigits
<1>3. atoi(d) = Value(SubSeq(d, 1, k))
  <2>1. k = 0 => d = <<>>
    BY <1>2, StrFacts
  <2>2. k <= Len(d) /\ ~(k < Len(d))
    BY <1>2
  <2> QED
    BY <1>2, <2>1, <2>2, AtoiOf
<1>4. SubSeq(d, 1, k) = d
  BY <1>2, Whole
<1> QED
  BY <1>1, <1>3, <1>4 DEF d

LEMMA PinUri ==
    ASSUME NEW a \in PinAsk
    PROVE  /\ starts_with(<< W_pin >>, UriOf(a)) /\ ~starts_with(<< W_places >>, UriOf(a))
           /\ a.method # POST => PinQuery(parse_uriquery(UriOf(a), <<>>), a)
           /\ a.method = POST => parse_uriquery(UriOf(a), <<>>) = <<>>
<1> DEFINE u == UriOf(a)
           q == strchr(u, Query)
<1>1. u \in Str /\ u[1] = W_pin /\ Len(u) >= 1
  BY UriFacts
<1>2. starts_with(<< W_pin >>, u) /\ ~starts_with(<< W_places >>, u)
  <2>1. W_pin \in Nat /\ W_places \in Nat /\ W_pin # W_places
    BY DEF W_pin, W_places
  <2> HIDE DEF u
  <2> QED
    BY <1>1, <2>1, StartsWith
<1>3. parse_uriquery(u, <<>>) = IF q = 0 THEN <<>> ELSE parse_query(After(u, q), <<>>)
  BY DEF parse_uriquery
<1>4. CASE a.method # POST
  <2>1. q = 2 /\ Drop(u, 2) = Form(a)
    BY <1>4, UriFacts
  <2>2. After(u, 2) = Drop(u, 2)
    BY DEF After, Drop
  <2> HIDE DEF u, q
  <2>3. parse_uriquery(u, <<>>) = parse_query(Form(a), <<>>)
    BY <1>3, <2>1, <2>2
  <2>4. PinQuery(parse_query(Form(a), <<>>), a)
    BY FormParsed
  <2> QED
    BY <1>2, <1>4, <2>3, <2>4 DEF u
<1>5. CASE a.method = POST
  <2>1. q = 0
    BY <1>5, UriFacts
  <2> HIDE DEF u, q
  <2> QED
    BY <1>2, <1>3, <1>5, <2>1 DEF u
<1> QED
  BY <1>4, <1>5

LEMMA CopyUri ==
    ASSUME NEW name \in Seq(Byte)
    PROVE  /\ ~starts_with(<< W_pin >>, CopyUrl(name)) /\ starts_with(<< W_places >>, CopyUrl(name))
           /\ parse_uriquery(CopyUrl(name), <<>>) = parse_query(WordField(W_person_field, name), <<>>)
<1> DEFINE u == CopyUrl(name)
           F == WordField(W_person_field, name)
           q == strchr(u, Query)
<1>1. u \in Str /\ F \in Str /\ Len(u) = Len(F) + 2 /\ u[1] = W_places /\ Drop(u, 2) = F /\ q = 2
  BY CopyUrlOf
<1>2. After(u, 2) = Drop(u, 2)
  BY DEF After, Drop
<1>3. parse_uriquery(u, <<>>) = IF q = 0 THEN <<>> ELSE parse_query(After(u, q), <<>>)
  BY DEF parse_uriquery
<1> HIDE DEF u, F, q
<1>4. W_pin \in Nat /\ W_places \in Nat /\ W_pin # W_places /\ Len(u) >= 1
  <2>1. Len(F) \in Nat
    BY <1>1, StrFacts
  <2> QED
    BY <1>1, <2>1 DEF W_pin, W_places
<1>5. ~starts_with(<< W_pin >>, u) /\ starts_with(<< W_places >>, u)
  BY <1>1, <1>4, StartsWith
<1>6. parse_uriquery(u, <<>>) = parse_query(F, <<>>)
  BY <1>1, <1>2, <1>3
<1> QED
  BY <1>5, <1>6 DEF u, F

CopyAsk == {a \in Ask : a.op = "copy"}

LEMMA CopyAskType ==
    ASSUME NEW a \in CopyAsk
    PROVE  a \in Ask /\ a.op = "copy" /\ a.name \in Seq(Byte)
BY WireAssumption DEF CopyAsk, AskType, Name, Byte

LEMMA CopyRequestOf ==
    ASSUME NEW a \in CopyAsk
    PROVE  CopyRequest(a) = CopyLine(a.name) \o Blank /\ CopyLine(a.name) \in Str /\ Ended1(Blank)
<1> DEFINE p == <<W_person_field, Equal>>
           b == <<W_places, Query>>
           m == <<GET, SP>>
           e == <<SP, HTTP11, CR, LF, CR, LF>>
           r == <<SP, HTTP11, CR, LF>>
           x == a.name
           F == p \o x
           u == b \o F
<1>1. x \in Str
  BY CopyAskType, CStringAll
<1>2. p \in Str /\ b \in Str /\ m \in Str
  BY DEF Str, W_person_field, Equal, W_places, Query, GET, SP
<1>3. r \in Str /\ e \in Str /\ Len(r) = 4 /\ Len(e) = 6
  BY DEF Str, SP, HTTP11, CR, LF
<1>4. CopyRequest(a) = append_strings(<<m, append_strings(<<b, append_strings(<<p, x>>)>>), e>>)
  BY DEF CopyRequest, p, b, m, e, x
<1>5. e = r \o Blank
  <2> DEFINE z == r \o Blank
  <2>1. /\ z \in Str /\ Len(z) = Len(r) + Len(Blank) /\ (\A i \in 1..Len(r) : z[i] = r[i])
        /\ \A i \in 1..Len(Blank) : z[Len(r) + i] = Blank[i]
    BY <1>3, BlankOf, Cat, ZenonT(60)
  <2>2. r[1] = SP /\ r[2] = HTTP11 /\ r[3] = CR /\ r[4] = LF
    OBVIOUS
  <2>3. e[1] = SP /\ e[2] = HTTP11 /\ e[3] = CR /\ e[4] = LF /\ e[5] = CR /\ e[6] = LF
    OBVIOUS
  <2> HIDE DEF z, r, e
  <2>4. /\ Len(z) = 6 /\ z[1] = SP /\ z[2] = HTTP11 /\ z[3] = CR /\ z[4] = LF /\ z[4 + 1] = CR /\ z[4 + 2] = LF
    BY <1>3, <2>1, <2>2, BlankOf
  <2>5. \A i \in 1..Len(z) : z[i] = e[i]
    BY <2>3, <2>4
  <2> QED
    BY <1>3, <2>1, <2>4, <2>5, SameStr, ZenonT(60) DEF z
<1>6. CopyLine(x) = (m \o u) \o r
  BY DEF CopyLine, ReqLine, CopyUrl, WordField, m, b, p, r
<1> HIDE DEF p, b, m, e, r, x
<1>7. append_strings(<<p, x>>) = F
  BY <1>1, <1>2, Append2 DEF Str
<1>8. F \in Str
  BY <1>1, <1>2, Cat
<1> HIDE DEF F
<1>9. append_strings(<<b, F>>) = u
  BY <1>2, <1>8, Append2 DEF Str
<1>10. u \in Str
  BY <1>2, <1>8, Cat
<1> HIDE DEF u
<1>11. append_strings(<<m, u, e>>) = (m \o u) \o e
  BY <1>2, <1>3, <1>10, Words3
<1>12. m \o u \in Str
  BY <1>2, <1>10, Cat
<1> DEFINE h == m \o u
<1> HIDE DEF h
<1>13. h \o (r \o Blank) = (h \o r) \o Blank /\ h \o r \in Str
  <2>1. h \in Str /\ r \in Str /\ Blank \in Str
    BY <1>3, <1>12, BlankOf DEF h
  <2> QED
    BY <2>1, CatAssoc, Cat, ZenonT(60)
<1>14. CopyRequest(a) = (h \o r) \o Blank /\ CopyLine(x) = h \o r
  BY <1>4, <1>5, <1>6, <1>7, <1>9, <1>11, <1>13 DEF h
<1> QED
  BY <1>13, <1>14, BlankOf DEF x

-----------------------------------------------------------------------------
(* Replies to a /copy.                                                       *)

StatusLine(e) == ((<<HTTP10, SP>> \o to_string(e)) \o <<SP, W_other>>) \o Blank
OtherLine == << W_other >> \o Blank
Body(p) == IF p \in DOMAIN Known THEN join_strings(Known[p], LF) ELSE <<>>
Reply4(p) == Blank \o Body(p)
Reply3(p) == OtherLine \o Reply4(p)
Reply2(p) == LengthLine(Len(Body(p))) \o Reply3(p)
Reply1(p) == OtherLine \o Reply2(p)

\* A line that begins with a word.
WordLine(l) == Ended1(l) /\ Len(l) <= MAXLINE - 1 /\ l[1] >= 256

LEMMA OtherLineOf ==
    /\ OtherLine = Line(<<<<W_other>>>>) /\ OtherLine \in Str
    /\ WordLine(OtherLine) /\ ~starts_with(<< W_length >>, OtherLine)
<1> DEFINE s == << W_other >>
<1>1. W_other \in Nat /\ W_other >= 256 /\ W_other # LF /\ W_length \in Nat /\ W_length # W_other
  BY DEF W_other, W_length, LF
<1>2. s \in Str /\ Len(s) = 1 /\ s[1] = W_other
  BY <1>1, WordFacts
<1>3. OtherLine = s \o Blank /\ Line(<<<<W_other>>>>) = Line(<<s>>)
  BY DEF OtherLine, s
<1> HIDE DEF s
<1>4. Line(<<s>>) = s \o Blank
  BY <1>2, LineOne
<1>5. \A i \in 1..Len(s) : s[i] # LF
  BY <1>1, <1>2
<1> DEFINE z == s \o Blank
<1>6. /\ z \in Str /\ Len(z) = Len(s) + 2 /\ (\A i \in 1..Len(s) : z[i] = s[i]) /\ Ended1(z)
  BY <1>2, <1>5, EndedBy
<1> HIDE DEF z
<1>7. Len(z) = 3 /\ z[1] = W_other
  BY <1>2, <1>6
<1>8. WordLine(z)
  <2>1. Len(z) <= MAXLINE - 1
    BY <1>7, RioAssumption
  <2> QED
    BY <1>1, <1>6, <1>7, <2>1 DEF WordLine
<1>9. ~starts_with(<< W_length >>, z)
  BY <1>1, <1>6, <1>7, StartsWith
<1> QED
  BY <1>3, <1>4, <1>6, <1>8, <1>9 DEF z

LEMMA StatusLineOf ==
    ASSUME NEW e \in Nat, e <= INT_MAX
    PROVE  LET L == StatusLine(e)
               k == Len(to_string(e))
           IN  /\ L = Line(<<<<HTTP10, SP>>, to_string(e), <<SP, W_other>>>>)
               /\ L \in Str /\ WordLine(L) /\ Len(L) = k + 6 /\ k \in Nat /\ k >= 1
               /\ L[1] = HTTP10 /\ L[2] = SP /\ (\A i \in 1..k : L[2 + i] = to_string(e)[i])
               /\ L[k + 3] = SP
<1> DEFINE d == to_string(e)
           k == Len(d)
           p == <<HTTP10, SP>>
           q == <<SP, W_other>>
           h == p \o d
           s == h \o q
           z == s \o Blank
<1>1. d \in Str /\ k \in Nat /\ k >= 1 /\ k <= 10 /\ \A i \in 1..k : d[i] \in Digit
  BY ToStringOf, StrFacts DEF AllDigits
<1>2. p \in Str /\ Len(p) = 2 /\ p[1] = HTTP10 /\ p[2] = SP /\ q \in Str /\ Len(q) = 2 /\ q[1] = SP /\ q[2] = W_other
  BY DEF Str, HTTP10, SP, W_other
<1>3. StatusLine(e) = z /\ Line(<<<<HTTP10, SP>>, to_string(e), <<SP, W_other>>>>) = append_strings(<<p, d, q>>) \o Blank
  BY DEF StatusLine, Line, Blank
<1> HIDE DEF d, p, q
<1>4. append_strings(<<p, d, q>>) = s
  BY <1>1, <1>2, Words3
<1>5. /\ h \in Str /\ Len(h) = Len(p) + k
      /\ (\A i \in 1..Len(p) : h[i] = p[i]) /\ \A i \in 1..k : h[Len(p) + i] = d[i]
  BY <1>1, <1>2, Cat
<1> HIDE DEF h
<1>6. /\ s \in Str /\ Len(s) = Len(h) + Len(q)
      /\ (\A i \in 1..Len(h) : s[i] = h[i]) /\ \A i \in 1..Len(q) : s[Len(h) + i] = q[i]
  BY <1>2, <1>5, Cat
<1> HIDE DEF s
<1>7. Len(h) = k + 2 /\ Len(s) = k + 4
  BY <1>1, <1>2, <1>5, <1>6
<1>8. s[1] = HTTP10 /\ s[2] = SP
  <2>1. 1 \in 1..Len(h) /\ 2 \in 1..Len(h)
    BY <1>1, <1>7
  <2> QED
    BY <1>2, <1>5, <1>6, <2>1
<1>9. ASSUME NEW i \in 1..k PROVE s[2 + i] = d[i]
  <2>1. 2 + i \in 1..Len(h)
    BY <1>1, <1>7
  <2> QED
    BY <1>2, <1>5, <1>6, <2>1
<1>10. s[k + 3] = SP /\ s[k + 4] = W_other
  <2>1. s[Len(h) + 1] = q[1] /\ s[Len(h) + 2] = q[2]
    BY <1>2, <1>6
  <2>2. Len(h) + 1 = k + 3 /\ Len(h) + 2 = k + 4
    BY <1>1, <1>7
  <2> QED
    BY <1>2, <2>1, <2>2
<1>11. ASSUME NEW i \in 1..Len(s) PROVE s[i] # LF
  <2>1. HTTP10 # LF /\ SP # LF /\ W_other # LF
    BY DEF HTTP10, SP, W_other, LF
  <2>2. CASE i \in 3..k + 2
    <3>1. i - 2 \in 1..k /\ 2 + (i - 2) = i
      BY <1>1, <2>2
    <3>2. s[i] = d[i - 2]
      BY <1>9, <3>1
    <3>3. s[i] \in Digit
      BY <1>1, <3>1, <3>2
    <3> QED
      BY <3>3 DEF Digit, LF
  <2>3. CASE i \notin 3..k + 2
    <3>1. i = 1 \/ i = 2 \/ i = k + 3 \/ i = k + 4
      BY <1>1, <1>7, <2>3
    <3> QED
      BY <1>8, <1>10, <2>1, <3>1
  <2> QED
    BY <2>2, <2>3
<1>12. z \in Str /\ Len(z) = Len(s) + 2 /\ (\A i \in 1..Len(s) : z[i] = s[i]) /\ Ended1(z)
  BY <1>6, <1>11, EndedBy
<1> HIDE DEF z, k
<1>13. Len(z) = k + 6 /\ z[1] = HTTP10 /\ z[2] = SP /\ z[k + 3] = SP
  <2>1. 1 \in 1..Len(s) /\ 2 \in 1..Len(s) /\ k + 3 \in 1..Len(s)
    BY <1>1, <1>7
  <2> QED
    BY <1>1, <1>7, <1>8, <1>10, <1>12, <2>1
<1>14. ASSUME NEW i \in 1..k PROVE z[2 + i] = d[i]
  <2>1. 2 + i \in 1..Len(s)
    BY <1>1, <1>7
  <2> QED
    BY <1>9, <1>12, <2>1
<1>15. WordLine(z)
  <2>1. HTTP10 >= 256
    BY DEF HTTP10
  <2>2. Len(z) <= MAXLINE - 1
    BY <1>1, <1>13, RioAssumption
  <2> QED
    BY <1>12, <1>13, <2>1, <2>2 DEF WordLine
<1>16. Line(<<<<HTTP10, SP>>, to_string(e), <<SP, W_other>>>>) = z
  BY <1>3, <1>4 DEF z
<1> QED
  BY <1>1, <1>3, <1>12, <1>13, <1>14, <1>15, <1>16 DEF k, d

LEMMA PiecesSome ==
    ASSUME NEW s \in Str, NEW c, s # <<>>
    PROVE  Len(Pieces(s, {c})) >= 1 /\ Pieces(s, {c}) \in Seq(Str)
<1> DEFINE p == strchr(s, c)
<1>1. /\ p \in Nat /\ p <= Len(s)
      /\ p = 0 <=> \A i \in 1..Len(s) : s[i] # c
      /\ p # 0 => s[p] = c /\ \A i \in 1..p - 1 : s[i] # c
  BY StrchrOf
<1>2. Pieces(s, {c}) \in Seq(Str)
  BY PiecesType
<1> HIDE DEF p
<1>3. CASE p = 0
  <2>1. \A i \in 1..Len(s) : s[i] \notin {c}
    BY <1>1, <1>3
  <2>2. Pieces(s, {c}) = <<s>>
    BY <2>1, PiecesLast
  <2> QED
    BY <1>2, <2>2
<1>4. CASE p # 0
  <2>1. p \in 1..Len(s) /\ s[p] \in {c} /\ \A i \in 1..p - 1 : s[i] \notin {c}
    BY <1>1, <1>4, StrFacts
  <2>2. Pieces(s, {c}) = <<SubSeq(s, 1, p - 1)>> \o Pieces(Drop(s, p), {c})
    BY <2>1, PiecesFirst
  <2> DEFINE a == SubSeq(s, 1, p - 1)
             b == Pieces(Drop(s, p), {c})
  <2>3. b \in Seq(Str)
    <3>1. p \in Nat /\ p <= Len(s)
      BY <1>1
    <3>2. Drop(s, p) \in Str
      BY <3>1, DropOf
    <3> QED
      BY <3>2, PiecesType
  <2>4. a \in Str
    <3>1. p - 1 \in Nat /\ p - 1 <= Len(s)
      BY <2>1, StrFacts
    <3> QED
      BY <3>1, FirstPart
  <2> HIDE DEF a, b
  <2>5. Prepended(<<a>> \o b, a, b, Str)
    BY <2>3, <2>4, PrependSeq
  <2>6. Len(<<a>> \o b) >= 1
    BY <2>5 DEF Prepended
  <2> QED
    BY <1>2, <2>2, <2>6 DEF a, b
<1> QED
  BY <1>3, <1>4

\* Where s ends with the first separator.
SplitOnce(s, p, c) ==
    LET L == Pieces(s, {c})
        M == Pieces(Drop(s, p), {c})
    IN  /\ L \in Seq(Str) /\ M \in Seq(Str) /\ Len(L) = Len(M) + 1 /\ Len(M) \in Nat
        /\ L[1] = SubSeq(s, 1, p - 1) /\ \A i \in 1..Len(M) : L[i + 1] = M[i]

LEMMA SplitOnceOf ==
    ASSUME NEW s \in Str, NEW c, NEW p \in 1..Len(s), s[p] = c, \A i \in 1..p - 1 : s[i] # c
    PROVE  SplitOnce(s, p, c) /\ Drop(s, p) \in Str /\ Len(Drop(s, p)) = Len(s) - p
<1> DEFINE a == SubSeq(s, 1, p - 1)
           b == Pieces(Drop(s, p), {c})
<1>1. p \in Nat /\ p <= Len(s) /\ p - 1 \in Nat /\ p - 1 <= Len(s)
  BY StrFacts
<1>2. Drop(s, p) \in Str /\ Len(Drop(s, p)) = Len(s) - p
  BY <1>1, DropOf
<1>3. a \in Str
  BY <1>1, FirstPart
<1>4. b \in Seq(Str)
  BY <1>2, PiecesType
<1>5. Pieces(s, {c}) = <<a>> \o b
  <2>1. s[p] \in {c} /\ \A i \in 1..p - 1 : s[i] \notin {c}
    OBVIOUS
  <2> QED
    BY <2>1, PiecesFirst
<1> HIDE DEF a, b
<1>6. Prepended(<<a>> \o b, a, b, Str)
  BY <1>3, <1>4, PrependSeq
<1> DEFINE L == <<a>> \o b
<1> HIDE DEF L
<1>7. L \in Seq(Str) /\ Len(L) = Len(b) + 1 /\ Len(b) \in Nat /\ L[1] = a /\ \A i \in 1..Len(b) : L[i + 1] = b[i]
  BY <1>6 DEF Prepended, L
<1>8. Pieces(s, {c}) = L
  BY <1>5 DEF L
<1> QED
  BY <1>2, <1>4, <1>7, <1>8 DEF SplitOnce, a, b

\* The status in a reply that is there, and that more than its first word is.
LEMMA StatusOf ==
    ASSUME NEW e \in Nat, e <= INT_MAX
    PROVE  atoi(split_string(StatusLine(e), SP)[2]) = e
<1> DEFINE L == StatusLine(e)
           d == to_string(e)
           k == Len(d)
           t == Drop(L, 2)
<1>1. /\ L \in Str /\ Len(L) = k + 6 /\ k \in Nat /\ k >= 1
      /\ L[1] = HTTP10 /\ L[2] = SP /\ (\A i \in 1..k : L[2 + i] = d[i]) /\ L[k + 3] = SP
  BY StatusLineOf
<1>2. d \in Str /\ atoi(d) = e /\ \A i \in 1..k : d[i] # SP
  <2>1. d \in Str /\ \A i \in 1..k : d[i] \in Digit
    BY ToStringOf DEF AllDigits
  <2>2. SP \notin Digit
    BY DEF Digit, SP
  <2> QED
    BY <2>1, <2>2, AtoiDigits
<1> HIDE DEF L, d
<1>3. SplitOnce(L, 2, SP)
  <2>1. 2 \in 1..Len(L) /\ L[1] # SP
    BY <1>1 DEF HTTP10, SP
  <2>2. \A i \in 1..2 - 1 : L[i] # SP
    BY <2>1
  <2> QED
    BY <1>1, <2>1, <2>2, SplitOnceOf
<1>4. t \in Str /\ Len(t) = k + 4 /\ \A i \in 1..k + 4 : t[i] = L[i + 2]
  <2>1. 2 \in Nat /\ 2 <= Len(L) /\ Len(L) - 2 = k + 4
    BY <1>1
  <2>2. t \in Str /\ Len(t) = Len(L) - 2 /\ \A i \in 1..Len(L) - 2 : t[i] = L[i + 2]
    BY <1>1, <2>1, DropOf
  <2> HIDE DEF t
  <2> QED
    BY <2>1, <2>2
<1> HIDE DEF t
<1>5. ASSUME NEW i \in 1..k PROVE t[i] = d[i]
  <2>1. i \in 1..k + 4 /\ i + 2 = 2 + i
    BY <1>1
  <2> QED
    BY <1>1, <1>4, <2>1
<1>6. t[k + 1] = SP
  <2>1. k + 1 \in 1..k + 4 /\ (k + 1) + 2 = k + 3
    BY <1>1
  <2> QED
    BY <1>1, <1>4, <2>1
<1>7. SplitOnce(t, k + 1, SP)
  <2>1. k + 1 \in 1..Len(t) /\ (k + 1) - 1 = k
    BY <1>1, <1>4
  <2>2. \A i \in 1..(k + 1) - 1 : t[i] # SP
    BY <1>2, <1>5, <2>1
  <2> DEFINE p == k + 1
  <2> HIDE DEF p
  <2>3. p \in 1..Len(t) /\ t[p] = SP /\ \A i \in 1..p - 1 : t[i] # SP
    BY <1>6, <2>1, <2>2 DEF p
  <2>4. SplitOnce(t, p, SP)
    BY <1>4, <2>3, SplitOnceOf
  <2> QED
    BY <2>4 DEF p
<1>8. SubSeq(t, 1, k) = d
  <2> DEFINE x == SubSeq(t, 1, k)
  <2>1. x \in Str /\ Len(x) = k /\ \A i \in 1..k : x[i] = t[i]
    <3>1. k \in Nat /\ k <= Len(t)
      BY <1>1, <1>4
    <3> QED
      BY <1>4, <3>1, FirstPart
  <2> HIDE DEF x
  <2>2. \A i \in 1..Len(x) : x[i] = d[i]
    BY <1>5, <2>1
  <2>3. x = d
    BY <1>2, <2>1, <2>2, SameStr
  <2> QED
    BY <2>3 DEF x
<1>9. Pieces(t, {SP})[1] = d /\ Len(Pieces(t, {SP})) >= 1
  <2>1. (k + 1) - 1 = k
    BY <1>1
  <2> QED
    <3>1. SubSeq(t, 1, (k + 1) - 1) = d
      BY <1>8, <2>1
    <3> DEFINE A == Pieces(t, {SP})
               B == Pieces(Drop(t, k + 1), {SP})
    <3>2. A[1] = SubSeq(t, 1, (k + 1) - 1) /\ Len(A) = Len(B) + 1 /\ Len(B) \in Nat
      BY <1>7 DEF SplitOnce
    <3> HIDE DEF A, B
    <3>3. A[1] = d /\ Len(A) >= 1
      BY <3>1, <3>2
    <3> QED
      BY <3>3 DEF A
<1>10. Pieces(L, {SP})[2] = d
  <2>1. \A i \in 1..Len(Pieces(t, {SP})) : Pieces(L, {SP})[i + 1] = Pieces(t, {SP})[i]
    BY <1>3 DEF SplitOnce, t
  <2>2. Len(Pieces(t, {SP})) \in Nat
    BY <1>3 DEF SplitOnce, t
  <2>3. 1 \in 1..Len(Pieces(t, {SP})) /\ 1 + 1 = 2
    BY <1>9, <2>2
  <2>4. Pieces(L, {SP})[1 + 1] = Pieces(t, {SP})[1]
    BY <2>1, <2>3
  <2> QED
    BY <1>9, <2>3, <2>4
<1> QED
  BY <1>2, <1>10 DEF split_string, L

\* Of three bytes on a reply has a second word.
LEMMA StatusTwo ==
    ASSUME NEW e \in Nat, e <= INT_MAX, NEW n \in Nat, n <= Len(StatusLine(e)), n >= 3
    PROVE  Len(split_string(SubSeq(StatusLine(e), 1, n), SP)) >= 2
<1> DEFINE L == StatusLine(e)
           g == SubSeq(L, 1, n)
<1>1. L \in Str /\ L[1] = HTTP10 /\ L[2] = SP
  BY StatusLineOf
<1>2. n <= Len(L)
  OBVIOUS
<1> HIDE DEF L
<1>3. g \in Str /\ Len(g) = n /\ \A i \in 1..n : g[i] = L[i]
  BY <1>1, <1>2, FirstPart
<1> HIDE DEF g
<1>4. 2 \in 1..Len(g) /\ g[2] = SP /\ \A i \in 1..2 - 1 : g[i] # SP
  <2>1. g[1] # SP
    BY <1>1, <1>3 DEF HTTP10, SP
  <2> QED
    BY <1>1, <1>3, <2>1
<1>5. SplitOnce(g, 2, SP) /\ Drop(g, 2) \in Str /\ Len(Drop(g, 2)) = Len(g) - 2
  BY <1>3, <1>4, SplitOnceOf
<1>6. Drop(g, 2) # <<>>
  <2>1. Len(Drop(g, 2)) # 0
    BY <1>3, <1>5
  <2> QED
    BY <1>5, <2>1, StrFacts
<1>7. Len(Pieces(Drop(g, 2), {SP})) >= 1
  BY <1>5, <1>6, PiecesSome
<1>8. Len(Pieces(g, {SP})) >= 2
  BY <1>5, <1>7 DEF SplitOnce
<1> QED
  BY <1>8 DEF split_string, g, L

KnownOf(p) == IF p \in DOMAIN Known THEN Known[p] ELSE <<>>

LEMMA BodyOf ==
    ASSUME NEW p
    PROVE  /\ KnownOf(p) \in Seq(Entry) /\ Body(p) = join_strings(KnownOf(p), LF)
           /\ Body(p) \in Seq(Byte) /\ Body(p) \in Str /\ Len(Body(p)) \in Nat
           /\ Len(Body(p)) < INT_MAX /\ Len(Body(p)) <= INT_MAX - 2
<1>1. KnownOf(p) \in Seq(Entry) /\ Body(p) = join_strings(KnownOf(p), LF)
  <2>1. CASE p \in DOMAIN Known
    BY <2>1, WireAssumption DEF KnownOf, Body
  <2>2. CASE p \notin DOMAIN Known
    <3> DEFINE o == <<>>
    <3>1. o \in Seq(Entry) /\ join_strings(o, LF) = o
      BY JoinEmpty
    <3>2. KnownOf(p) = o /\ Body(p) = o
      BY <2>2 DEF KnownOf, Body
    <3> HIDE DEF o
    <3> QED
      BY <3>1, <3>2
  <2> QED
    BY <2>1, <2>2
<1>2. Body(p) \in Seq(Byte)
  BY <1>1, JoinBytes
<1>3. Body(p) \in Str
  BY <1>2, CStringAll
<1>4. Len(Body(p)) < INT_MAX - 1
  <2>1. CASE p \in DOMAIN Known
    BY <2>1, LengthAssumption DEF Body
  <2>2. CASE p \notin DOMAIN Known
    BY <2>2, SMT DEF Body, INT_MAX
  <2> QED
    BY <2>1, <2>2
<1>5. Len(Body(p)) < INT_MAX /\ Len(Body(p)) <= INT_MAX - 2
  <2>1. INT_MAX \in Nat
    BY ONLY SMT DEF INT_MAX
  <2>2. Len(Body(p)) \in Nat
    BY <1>3, StrFacts
  <2> QED
    BY ONLY <1>4, <2>1, <2>2
<1> QED
  BY <1>1, <1>2, <1>3, <1>5, StrFacts

LEMMA BodyCut ==
    ASSUME NEW p, NEW g \in Str, NEW t \in Str, Body(p) = g \o t
    PROVE  /\ CutNames(split_string(CString(g), LF), KnownOf(p))
           /\ t = <<>> => split_string(CString(g), LF) = KnownOf(p)
<1> DEFINE b == Body(p)
           k == Len(g)
           names == KnownOf(p)
<1>1. names \in Seq(Entry) /\ b = join_strings(names, LF) /\ b \in Seq(Byte) /\ b \in Str
  BY BodyOf
<1> HIDE DEF names
<1>2. /\ k \in Nat /\ Len(t) \in Nat /\ Len(g \o t) = k + Len(t) /\ (Len(t) = 0 <=> t = <<>>)
      /\ \A i \in 1..k : (g \o t)[i] = g[i]
  BY Cat, StrFacts
<1>3. b = g \o t
  OBVIOUS
<1> HIDE DEF b
<1>4. k <= Len(b) /\ (t = <<>> => Len(b) - k = 0) /\ \A i \in 1..k : b[i] = g[i]
  BY <1>2, <1>3
<1>5. SubSeq(b, 1, k) = g
  <2> DEFINE x == SubSeq(b, 1, k)
  <2>1. x \in Str /\ Len(x) = k /\ \A i \in 1..k : x[i] = b[i]
    BY <1>1, <1>2, <1>4, FirstPart
  <2> HIDE DEF x
  <2>2. \A i \in 1..Len(x) : x[i] = g[i]
    BY <1>4, <2>1
  <2>3. x = g
    BY <2>1, <2>2, SameStr
  <2> QED
    BY <2>3 DEF x
<1>6. CString(g) = g
  <2>1. \A i \in 1..Len(b) : b[i] # NUL
    BY <1>1, CStringAll
  <2>2. \A i \in 1..k : g[i] # NUL
    BY <1>2, <1>3, <1>4, <2>1
  <2> QED
    BY <2>2, CStringOf
<1>7. SplitsAt(names, k)
  BY <1>1, <1>2, <1>4, SplitPart
<1>8. /\ Len(b) - k <= (IF names = <<>> THEN 0 ELSE 1) => split_string(g, LF) = names
      /\ CutNames(split_string(g, LF), names)
  BY <1>1, <1>5, <1>7 DEF SplitsAt
<1>9. t = <<>> => Len(b) - k <= (IF names = <<>> THEN 0 ELSE 1)
  BY <1>4
<1> QED
  BY <1>6, <1>8, <1>9 DEF names

LEMMA LengthCount ==
    ASSUME NEW n \in Nat, n <= INT_MAX
    PROVE  /\ LengthLine(n) \in Str /\ WordLine(LengthLine(n)) /\ starts_with(<< W_length >>, LengthLine(n))
           /\ atoi(SubSeq(LengthLine(n), 4, Len(LengthLine(n)))) = n
<1> DEFINE L == LengthLine(n)
           d == to_string(n)
           k == Len(d)
           t == Drop(L, 3)
<1>1. /\ L \in Str /\ Len(L) = k + 5 /\ k \in Nat /\ k >= 1 /\ Ended1(L) /\ Len(L) <= MAXLINE - 1
      /\ L[1] = W_length /\ (\A i \in 1..k : L[3 + i] = d[i])
      /\ L[k + 4] = CR
  BY LengthLineOf
<1>2. d \in Str /\ atoi(d) = n /\ (\A i \in 1..k : d[i] \in Digit) /\ CR \notin Digit
  BY ToStringOf, AtoiDigits DEF AllDigits, CR, Digit
<1>7. Value(d) = n
  BY ToStringOf
<1> HIDE DEF L, d
<1>3. W_length \in Nat /\ W_length >= 256
  BY DEF W_length
<1>4. WordLine(L) /\ starts_with(<< W_length >>, L)
  BY <1>1, <1>3, StartsWith DEF WordLine
<1>5. t \in Str /\ Len(t) = k + 2 /\ \A i \in 1..k + 2 : t[i] = L[i + 3]
  <2>1. 3 \in Nat /\ 3 <= Len(L) /\ Len(L) - 3 = k + 2
    BY <1>1
  <2>2. t \in Str /\ Len(t) = Len(L) - 3 /\ \A i \in 1..Len(L) - 3 : t[i] = L[i + 3]
    BY <1>1, <2>1, DropOf
  <2> HIDE DEF t
  <2> QED
    BY <2>1, <2>2
<1>6. t = SubSeq(L, 4, Len(L))
  BY DEF t, Drop
<1> HIDE DEF t
<1>8. ASSUME NEW i \in 1..k PROVE t[i] = d[i]
  <2>1. i \in 1..k + 2 /\ i + 3 = 3 + i
    BY <1>1
  <2> QED
    BY <1>1, <1>5, <2>1
<1>9. t[k + 1] = CR
  <2>1. k + 1 \in 1..k + 2 /\ (k + 1) + 3 = k + 4
    BY <1>1
  <2> QED
    BY <1>1, <1>5, <2>1
<1>10. atoi(t) = Value(SubSeq(t, 1, k))
  <2>1. k <= Len(t) /\ t[k + 1] \notin Digit /\ k # 0 /\ \A i \in 1..k : t[i] \in Digit
    BY <1>1, <1>2, <1>5, <1>8, <1>9
  <2> HIDE DEF k
  <2> QED
    BY <1>1, <1>5, <2>1, AtoiOf
<1>11. SubSeq(t, 1, k) = d
  <2> DEFINE x == SubSeq(t, 1, k)
  <2>1. x \in Str /\ Len(x) = k /\ \A i \in 1..k : x[i] = t[i]
    <3>1. k \in Nat /\ k <= Len(t)
      BY <1>1, <1>5
    <3> QED
      BY <1>5, <3>1, FirstPart
  <2> HIDE DEF x
  <2>2. \A i \in 1..Len(x) : x[i] = d[i]
    BY <1>8, <2>1
  <2>3. x = d
    BY <1>2, <2>1, <2>2, SameStr
  <2> QED
    BY <2>3 DEF x
<1> QED
  BY <1>1, <1>4, <1>6, <1>7, <1>10, <1>11 DEF L

LEMMA ReplyOf ==
    ASSUME NEW p
    PROVE  /\ PlacesReply(p) = StatusLine(200) \o Reply1(p)
           /\ Reply1(p) \in Str /\ Reply2(p) \in Str /\ Reply3(p) \in Str /\ Reply4(p) \in Str /\ Body(p) \in Str
<1> DEFINE b == Body(p)
           S == StatusLine(200)
           O == OtherLine
           L == LengthLine(Len(b))
<1>1. b \in Str /\ Len(b) \in Nat /\ Len(b) < INT_MAX
  BY BodyOf
<1>2. O \in Str /\ O = Line(<<<<W_other>>>>) /\ Blank \in Str
  BY OtherLineOf, BlankOf
<1>3. L \in Str /\ L = Line(<<<<W_length, Colon, SP>>, to_string(Len(b))>>)
  <2>1. Len(b) <= INT_MAX
    BY <1>1, SMT DEF INT_MAX
  <2> HIDE DEF b
  <2> QED
    BY <1>1, <2>1, LengthLineOf
<1>4. S \in Str /\ S = Line(<<<<HTTP10, SP>>, to_string(200), <<SP, W_other>>>>)
  <2>1. 200 \in Nat /\ 200 <= INT_MAX
    BY SMT DEF INT_MAX
  <2> QED
    BY <2>1, StatusLineOf
<1>5. PlacesReply(p) = ok_header(Len(b)) \o b
  BY DEF PlacesReply, b, Body
<1>6. ok_header(Len(b)) = (((S \o O) \o L) \o O) \o Blank
  BY <1>2, <1>3, <1>4 DEF ok_header, Blank
<1>7. Reply4(p) = Blank \o b /\ Reply3(p) = O \o Reply4(p) /\ Reply2(p) = L \o Reply3(p) /\ Reply1(p) = O \o Reply2(p)
  BY DEF Reply4, Reply3, Reply2, Reply1
<1> DEFINE r4 == Blank \o b
           r3 == O \o r4
           r2 == L \o r3
           r1 == O \o r2
<1>8. Reply4(p) = r4 /\ Reply3(p) = r3 /\ Reply2(p) = r2 /\ Reply1(p) = r1
  BY <1>7
<1> HIDE DEF b, S, O, L
<1>9. r4 \in Str
  BY <1>1, <1>2, Cat
<1>10. (((((S \o O) \o L) \o O) \o Blank) \o b) = (((S \o O) \o L) \o O) \o r4
  <2>1. S \o O \in Str
    BY <1>2, <1>4, Cat
  <2>2. (S \o O) \o L \in Str
    BY <1>3, <2>1, Cat
  <2>3. ((S \o O) \o L) \o O \in Str
    BY <1>2, <2>2, Cat
  <2> QED
    BY <1>1, <1>2, <2>3, CatAssoc, SMTT(30)
<1> HIDE DEF r4
<1>11. r3 \in Str
  BY <1>2, <1>9, Cat
<1>12. (((S \o O) \o L) \o O) \o r4 = ((S \o O) \o L) \o r3
  <2>1. S \o O \in Str
    BY <1>2, <1>4, Cat
  <2>2. (S \o O) \o L \in Str
    BY <1>3, <2>1, Cat
  <2> QED
    BY <1>2, <1>9, <2>2, CatAssoc
<1> HIDE DEF r3
<1>13. r2 \in Str
  BY <1>3, <1>11, Cat
<1>14. ((S \o O) \o L) \o r3 = (S \o O) \o r2
  <2>1. S \o O \in Str
    BY <1>2, <1>4, Cat
  <2> QED
    BY <1>3, <1>11, <2>1, CatAssoc
<1> HIDE DEF r2
<1>15. r1 \in Str /\ (S \o O) \o r2 = S \o r1
  <2>1. r1 \in Str
    BY <1>2, <1>13, Cat
  <2>2. (S \o O) \o r2 = S \o (O \o r2)
    BY <1>2, <1>4, <1>13, CatAssoc
  <2> QED
    BY <2>1, <2>2
<1>16. PlacesReply(p) = S \o r1
  BY <1>5, <1>6, <1>10, <1>12, <1>14, <1>15
<1> QED
  BY <1>1, <1>8, <1>9, <1>11, <1>13, <1>15, <1>16 DEF S, b

LEMMA ErrorOf ==
    ASSUME NEW e \in Nat, e <= INT_MAX
    PROVE  \E r \in Str : clienterror(e) = StatusLine(e) \o r
<1> DEFINE S == StatusLine(e)
           O == OtherLine
           L == LengthLine(1)
           B == <<CR, LF, W_other>>
<1>1. O \in Str /\ O = Line(<<<<W_other>>>>)
  BY OtherLineOf
<1>2. L \in Str /\ L = Line(<<<<W_length, Colon, SP>>, to_string(1)>>)
  <2>1. 1 \in Nat /\ 1 <= INT_MAX
    BY SMT DEF INT_MAX
  <2> QED
    BY <2>1, LengthLineOf
<1>3. S \in Str /\ S = Line(<<<<HTTP10, SP>>, to_string(e), <<SP, W_other>>>>)
  BY StatusLineOf
<1>4. B \in Str
  BY DEF Str, CR, LF, W_other
<1>5. clienterror(e) = ((S \o O) \o L) \o B
  BY <1>1, <1>2, <1>3 DEF clienterror
<1> HIDE DEF S, O, L, B
<1>6. S \o O \in Str
  BY <1>1, <1>3, Cat
<1>7. ((S \o O) \o L) \o B = (S \o O) \o (L \o B) /\ L \o B \in Str
  BY <1>2, <1>4, <1>6, CatAssoc, Cat
<1> DEFINE M == L \o B
<1> HIDE DEF M
<1>8. M \in Str
  BY <1>7 DEF M
<1>9. (S \o O) \o M = S \o (O \o M) /\ O \o M \in Str
  <2>1. O \o M \in Str
    BY <1>1, <1>8, Cat
  <2>2. (S \o O) \o M = S \o (O \o M)
    BY <1>1, <1>3, <1>8, CatAssoc, SMTT(30)
  <2> QED
    BY <2>1, <2>2
<1>10. clienterror(e) = S \o (O \o M)
  BY <1>5, <1>7, <1>9 DEF M
<1> QED
  BY <1>9, <1>10 DEF S

-----------------------------------------------------------------------------
(* The reader.                                                               *)

\* What the call has, and what is still to be read.
ToCome == rio_buf \o wire
Ahead == got \o ToCome

ReaderInv ==
    /\ wire \in Str /\ rio_buf \in Str /\ got \in Str /\ open \in BOOLEAN
    /\ Len(rio_buf) <= RIO_BUFSIZE
    /\ call \in [op : {"none", "line", "bytes"}, n : Nat]
    /\ call.op = "none" => call = NoCall
    /\ call.op = "line" => call = ReadLine /\ Len(got) < MAXLINE - 1 /\ \A i \in 1..Len(got) : got[i] # LF
    /\ call.op = "bytes" => Len(got) < call.n

InLine == call = ReadLine \/ (call = NoCall /\ LineDone(got, ToCome, ~open))
InBytes(n) ==
    \/ call.op = "bytes" /\ call.n = n
    \/ call = NoCall /\ (Len(got) = n \/ (rio_buf = <<>> /\ wire = <<>> /\ ~open))

LEMMA FrontBack ==
    ASSUME NEW s \in Str, NEW k \in Nat, k <= Len(s)
    PROVE  SubSeq(s, 1, k) \o Drop(s, k) = s
<1> DEFINE o == 0
<1>1. Len(s) \in Nat /\ o \in Nat /\ o <= k /\ o + 1 = 1 /\ Len(s) <= Len(s)
  BY StrFacts
<1> HIDE DEF o
<1>2. SubSeq(s, o + 1, k) \o SubSeq(s, k + 1, Len(s)) = SubSeq(s, o + 1, Len(s))
  BY <1>1, CatParts
<1>3. SubSeq(s, 1, Len(s)) = s
  BY Whole
<1> QED
  BY <1>1, <1>2, <1>3 DEF Drop

\* What a step of the reader does to the bytes.
Moved ==
    /\ wire' \in Str /\ rio_buf' \in Str /\ got' \in Str /\ Len(rio_buf') <= RIO_BUFSIZE
    /\ got' \o (rio_buf' \o wire') = Ahead

LEMMA ReadMoves ==
    ASSUME ReaderInv, Read
    PROVE  Moved
<1> DEFINE m == Min({Len(wire), RIO_BUFSIZE})
<1>1. PICK k \in 1..m : rio_buf' = SubSeq(wire, 1, k) /\ wire' = Drop(wire, k)
  BY DEF Read, Drop
<1>2. Len(wire) \in Nat /\ RIO_BUFSIZE \in Nat /\ wire \in Str /\ got \in Str /\ got' = got /\ rio_buf = <<>>
  BY StrFacts, RioAssumption DEF ReaderInv, Read
<1>3. m \in Nat /\ m <= Len(wire) /\ m <= RIO_BUFSIZE
  <2>1. {Len(wire), RIO_BUFSIZE} \in SUBSET Nat /\ {Len(wire), RIO_BUFSIZE} # {}
    BY <1>2
  <2> QED
    BY <1>2, <2>1, MinOf
<1> HIDE DEF m
<1>4. k \in Nat /\ k <= Len(wire) /\ k <= RIO_BUFSIZE
  BY <1>2, <1>3
<1>5. SubSeq(wire, 1, k) \in Str /\ Len(SubSeq(wire, 1, k)) = k
  BY <1>2, <1>4, FirstPart
<1>6. Drop(wire, k) \in Str
  BY <1>2, <1>4, DropOf
<1>7. SubSeq(wire, 1, k) \o Drop(wire, k) = wire
  BY <1>2, <1>4, FrontBack
<1>8. Ahead = got \o wire
  <2>1. <<>> \o wire = wire
    BY <1>2, CatEmpty
  <2> QED
    BY <1>2, <2>1 DEF Ahead, ToCome
<1> QED
  BY <1>1, <1>2, <1>4, <1>5, <1>6, <1>7, <1>8 DEF Moved

LEMMA WantedOf ==
    ASSUME ReaderInv, Busy, rio_buf # <<>>
    PROVE  /\ Wanted \in Nat /\ 1 <= Wanted /\ Wanted <= Len(rio_buf) /\ Len(got) + Wanted <= call.n
           /\ call.op = "line" => \A i \in 1..Wanted - 1 : rio_buf[i] # LF
<1> DEFINE a == call.n - Len(got)
           b == IF call.op = "line" THEN UpToLine ELSE Len(rio_buf)
           p == strchr(rio_buf, LF)
<1>1. /\ rio_buf \in Str /\ got \in Str /\ Len(got) \in Nat /\ Len(rio_buf) \in Nat /\ Len(rio_buf) >= 1
      /\ call.n \in Nat /\ call.op \in {"line", "bytes"}
  BY StrFacts DEF ReaderInv, Busy
<1>2. a \in Nat /\ a >= 1
  <2>1. Len(got) < call.n
    <3>1. CASE call.op = "line"
      <4>1. call.n = MAXLINE - 1
        BY <3>1 DEF ReaderInv, ReadLine
      <4> QED
        BY <3>1, <4>1 DEF ReaderInv
    <3>2. CASE call.op = "bytes"
      BY <3>2 DEF ReaderInv
    <3> QED
      BY <1>1, <3>1, <3>2
  <2> QED
    BY <1>1, <2>1
<1>3. /\ p \in Nat /\ p <= Len(rio_buf)
      /\ p = 0 => \A i \in 1..Len(rio_buf) : rio_buf[i] # LF
      /\ p # 0 => \A i \in 1..p - 1 : rio_buf[i] # LF
  BY <1>1, StrchrOf
<1>4. b \in Nat /\ b >= 1 /\ b <= Len(rio_buf) /\ (call.op = "line" => \A i \in 1..b - 1 : rio_buf[i] # LF)
  <2>1. UpToLine = IF p = 0 THEN Len(rio_buf) ELSE p
    BY DEF UpToLine
  <2> HIDE DEF p
  <2>2. CASE call.op = "line" /\ p = 0
    BY <1>1, <1>3, <2>1, <2>2
  <2>3. CASE call.op = "line" /\ p # 0
    BY <1>1, <1>3, <2>1, <2>3
  <2>4. CASE call.op # "line"
    BY <1>1, <2>4
  <2> QED
    BY <2>2, <2>3, <2>4
<1>5. Wanted = Min({a, b})
  BY DEF Wanted
<1> HIDE DEF a, b
<1>6. Min({a, b}) \in {a, b} /\ Min({a, b}) <= a /\ Min({a, b}) <= b
  <2>1. {a, b} \in SUBSET Nat /\ {a, b} # {}
    BY <1>2, <1>4
  <2> QED
    BY <2>1, MinOf
<1>7. Wanted \in Nat /\ 1 <= Wanted /\ Wanted <= b /\ Wanted <= a
  BY <1>2, <1>4, <1>5, <1>6
<1>8. Len(got) + Wanted <= call.n
  BY <1>1, <1>7 DEF a
<1>9. call.op = "line" => \A i \in 1..Wanted - 1 : rio_buf[i] # LF
  BY <1>4, <1>7
<1> QED
  BY <1>1, <1>4, <1>7, <1>8, <1>9

LEMMA TakeMoves ==
    ASSUME ReaderInv, Take
    PROVE  /\ Moved /\ wire' = wire
           /\ Len(got') <= call.n /\ Len(got') >= 1 /\ Len(got') \in Nat
           /\ call.op = "line" => \A i \in 1..Len(got') - 1 : got'[i] # LF
<1> DEFINE w == Wanted
           f == SubSeq(rio_buf, 1, w)
           d == Drop(rio_buf, w)
           g == got \o f
           n == Len(got)
<1>1. /\ rio_buf \in Str /\ got \in Str /\ wire \in Str /\ Len(rio_buf) \in Nat /\ n \in Nat
      /\ Len(rio_buf) <= RIO_BUFSIZE /\ RIO_BUFSIZE \in Nat /\ call.n \in Nat
  BY StrFacts, RioAssumption DEF ReaderInv
<1>2. /\ w \in Nat /\ 1 <= w /\ w <= Len(rio_buf) /\ n + w <= call.n
      /\ call.op = "line" => \A i \in 1..w - 1 : rio_buf[i] # LF
  BY WantedOf DEF Take
<1>3. got' = g /\ rio_buf' = d /\ wire' = wire
  BY DEF Take, Drop
<1> HIDE DEF w
<1>4. f \in Str /\ Len(f) = w /\ \A i \in 1..w : f[i] = rio_buf[i]
  BY <1>1, <1>2, FirstPart
<1>5. d \in Str /\ Len(d) = Len(rio_buf) - w
  BY <1>1, <1>2, DropOf
<1>6. f \o d = rio_buf
  BY <1>1, <1>2, FrontBack
<1> HIDE DEF f, d
<1>7. /\ g \in Str /\ Len(g) = n + Len(f) /\ (\A i \in 1..n : g[i] = got[i])
      /\ \A i \in 1..Len(f) : g[n + i] = f[i]
  BY <1>1, <1>4, Cat
<1>8. g \o (d \o wire) = Ahead
  <2>1. d \o wire \in Str
    BY <1>1, <1>5, Cat
  <2>2. g \o (d \o wire) = got \o (f \o (d \o wire))
    BY <1>1, <1>4, <2>1, CatAssoc
  <2>3. f \o (d \o wire) = (f \o d) \o wire
    BY <1>1, <1>4, <1>5, CatAssoc
  <2> QED
    BY <1>6, <2>2, <2>3 DEF Ahead, ToCome
<1>9. Moved
  <2>1. Len(d) <= RIO_BUFSIZE
    BY <1>1, <1>2, <1>5
  <2> QED
    BY <1>1, <1>3, <1>5, <1>7, <1>8, <2>1 DEF Moved
<1> HIDE DEF g
<1>10. Len(g) = n + w /\ Len(g) <= call.n /\ Len(g) >= 1 /\ Len(g) \in Nat
  BY <1>1, <1>2, <1>4, <1>7
<1>11. ASSUME call.op = "line", NEW i \in 1..Len(g) - 1 PROVE g[i] # LF
  <2>1. CASE i <= n
    <3>1. call.op = "line" => \A j \in 1..n : got[j] # LF
      BY DEF ReaderInv
    <3>2. i \in 1..n
      BY <1>1, <1>10, <2>1
    <3> QED
      BY <1>7, <1>11, <3>1, <3>2
  <2>2. CASE ~(i <= n)
    <3>1. i - n \in 1..w - 1 /\ i - n \in 1..Len(f) /\ i - n \in 1..w /\ n + (i - n) = i
      BY <1>1, <1>2, <1>4, <1>10, <2>2
    <3>2. g[i] = f[i - n]
      BY <1>7, <3>1
    <3>3. f[i - n] = rio_buf[i - n]
      BY <1>4, <3>1
    <3> QED
      BY <1>2, <1>11, <3>1, <3>2, <3>3
  <2> QED
    BY <2>1, <2>2
<1> QED
  BY <1>3, <1>9, <1>10, <1>11

LEMMA ReadKeeps ==
    ASSUME ReaderInv, RioStep
    PROVE  /\ ReaderInv' /\ Ahead' = Ahead /\ open' = open
           /\ InLine => InLine'
           /\ \A n \in Nat : InBytes(n) => InBytes(n)'
<1>1. Busy /\ call.op \in {"line", "bytes"} /\ call # NoCall /\ call.n \in Nat /\ got \in Str
  BY DEF ReaderInv, RioStep, Read, Take, EndOfFile, Busy, NoCall
<1>2. InLine => call.op = "line"
  BY <1>1 DEF InLine, ReadLine
<1>3. \A n \in Nat : InBytes(n) => call.op = "bytes" /\ call.n = n
  BY <1>1 DEF InBytes
<1>4. call.op = "line" => call = ReadLine /\ call.n = MAXLINE - 1
  BY DEF ReaderInv, ReadLine
<1>5. CASE Read
  <2>1. Moved /\ got' = got /\ call' = call /\ open' = open
    BY <1>5, ReadMoves DEF Read
  <2>2. ReaderInv'
    BY <2>1 DEF ReaderInv, Moved
  <2>3. Ahead' = Ahead
    BY <2>1 DEF Moved, Ahead, ToCome
  <2>4. InLine => InLine'
    BY <1>2, <1>4, <2>1 DEF InLine, ReadLine
  <2>5. ASSUME NEW n \in Nat, InBytes(n) PROVE InBytes(n)'
    BY <1>3, <2>1, <2>5 DEF InBytes
  <2> QED
    BY <2>1, <2>2, <2>3, <2>4, <2>5
<1>6. CASE Take
  <2>1. /\ Moved /\ open' = open
        /\ Len(got') <= call.n /\ Len(got') >= 1 /\ Len(got') \in Nat
        /\ call.op = "line" => \A i \in 1..Len(got') - 1 : got'[i] # LF
    BY <1>6, TakeMoves DEF Take
  <2>2. call' = IF Enough(got') THEN NoCall ELSE call
    BY <1>6 DEF Take
  <2>3. Enough(got') <=> (Len(got') = call.n \/ (call.op = "line" /\ got'[Len(got')] = LF))
    BY DEF Enough, Last
  <2>4. CASE Enough(got')
    <3>1. call' = NoCall
      BY <2>2, <2>4
    <3>2. ReaderInv'
      BY <2>1, <3>1 DEF ReaderInv, Moved, NoCall
    <3>3. ASSUME InLine PROVE InLine'
      <4>1. LineDone(got', ToCome', ~open')
        BY <1>2, <1>4, <2>1, <2>3, <2>4, <3>3 DEF LineDone
      <4> QED
        BY <3>1, <4>1 DEF InLine
    <3>4. ASSUME NEW n \in Nat, InBytes(n) PROVE InBytes(n)'
      <4>1. Len(got') = n
        BY <1>3, <2>3, <2>4, <3>4
      <4> QED
        BY <3>1, <4>1 DEF InBytes, NoCall
    <3>5. Ahead' = Ahead
      BY <2>1 DEF Moved, Ahead, ToCome
    <3> QED
      BY <2>1, <3>2, <3>3, <3>4, <3>5
  <2>5. CASE ~Enough(got')
    <3>1. call' = call
      BY <2>2, <2>5
    <3>2. ReaderInv'
      <4>1. Len(got') < call.n
        BY <1>1, <2>1, <2>3, <2>5
      <4>2. ASSUME call.op = "line" PROVE \A i \in 1..Len(got') : got'[i] # LF
        <5>1. got'[Len(got')] # LF
          BY <2>3, <2>5, <4>2
        <5>2. \A i \in 1..Len(got') : i \in 1..Len(got') - 1 \/ i = Len(got')
          BY <2>1
        <5> QED
          BY <2>1, <4>2, <5>1, <5>2
      <4>3. call.op = "line" => Len(got') < MAXLINE - 1
        BY <1>4, <4>1
      <4> QED
        BY <1>1, <1>4, <2>1, <3>1, <4>1, <4>2, <4>3 DEF ReaderInv, Moved
    <3>3. InLine => InLine'
      BY <1>2, <1>4, <3>1 DEF InLine, ReadLine
    <3>4. ASSUME NEW n \in Nat, InBytes(n) PROVE InBytes(n)'
      BY <1>3, <3>1, <3>4 DEF InBytes
    <3>5. Ahead' = Ahead
      BY <2>1 DEF Moved, Ahead, ToCome
    <3> QED
      BY <2>1, <3>2, <3>3, <3>4, <3>5
  <2> QED
    BY <2>4, <2>5
<1>7. CASE EndOfFile
  <2>1. /\ call' = NoCall /\ wire' = wire /\ rio_buf' = rio_buf /\ got' = got /\ open' = open
        /\ rio_buf = <<>> /\ wire = <<>> /\ ~open
    BY <1>7 DEF EndOfFile
  <2>2. ReaderInv'
    BY <2>1 DEF ReaderInv, NoCall
  <2>3. Ahead' = Ahead
    BY <2>1 DEF Ahead, ToCome
  <2>4. ASSUME InLine PROVE InLine'
    <3>1. Len(got) < MAXLINE - 1 /\ (\A i \in 1..Len(got) : got[i] # LF) /\ Len(got) \in Nat /\ MAXLINE \in Nat
      BY <1>1, <1>2, <2>4, StrFacts, RioAssumption DEF ReaderInv
    <3>2. <<>> \o <<>> = <<>>
      OBVIOUS
    <3>3. ToCome' = <<>>
      BY <2>1, <3>2 DEF ToCome
    <3>4. Len(got) <= MAXLINE - 1 /\ \A i \in 1..Len(got) - 1 : got[i] # LF
      BY <3>1
    <3>5. LineDone(got', ToCome', ~open')
      BY <2>1, <3>3, <3>4 DEF LineDone
    <3> QED
      BY <2>1, <3>5 DEF InLine
  <2>5. ASSUME NEW n \in Nat, InBytes(n) PROVE InBytes(n)'
    BY <2>1 DEF InBytes
  <2> QED
    BY <2>1, <2>2, <2>3, <2>4, <2>5
<1> QED
  BY <1>5, <1>6, <1>7 DEF RioStep

-----------------------------------------------------------------------------
(* The inductive invariant.                                                  *)

\* What is ahead is r, of which the end may be missing.
Cut(r) == \E t \in Str : r = Ahead \o t /\ (whole => t = <<>>)
Lost == Ahead = <<>> /\ ~whole

Arrived == Unchanged(ask.name) => looked = ask.name

PinParts(a) == <<<< a.method >>, UriOf(a), << VersionOf(a) >>>>
CopyParts(a) == <<<< GET >>, CopyUrl(a.name), << HTTP11 >>>>
Accepted(a) == Fits(a) /\ a.method # W_other

\* The headers of a /pin that are to be read, and what was read of them.
PinHeaders ==
    \/ ask.method # POST /\ Ahead \in {HostLine \o Blank, Blank}
    \/ ask.method = POST /\ ask.typed /\ headers = <<>> /\ Ahead = TypeLine \o Tail1(ask)
    \/ ask.method = POST /\ HasType(headers, ask) /\ Ahead = Tail1(ask)
    \/ /\ ask.method = POST /\ HasType(headers, ask) /\ Ahead = Tail2(ask)
       /\ << W_length >> \in DOMAIN headers /\ headers[<< W_length >>] = to_string(Len(Form(ask)))

PinInv ==
    /\ open /\ whole
    /\ pc \in {"request line", "headers", "post data", "serve", "done", "died"}
    /\ pc = "request line" =>
         InLine /\ Ahead = ClientRequest(ask) /\ headers = <<>> /\ query = <<>>
    /\ pc = "headers" =>
         InLine /\ Accepted(ask) /\ request = PinParts(ask) /\ PinHeaders
    /\ pc = "post data" =>
         /\ ask.method = POST /\ Accepted(ask) /\ request = PinParts(ask)
         /\ HasType(headers, ask) /\ query = <<>>
         /\ InBytes(Len(Form(ask))) /\ Ahead = Form(ask)
    /\ pc = "serve" => call = NoCall /\ Accepted(ask) /\ request = PinParts(ask) /\ PinQuery(query, ask)
    /\ pc = "done" => call = NoCall /\ list = (IF Accepted(ask) THEN <<ask.people, ask.places>> ELSE <<>>)
    /\ pc = "died" => call = NoCall /\ ask.method = POST /\ ~ask.typed
    /\ pc # "done" => list = <<>>

ReplyAhead ==
    \/ \E e \in {400, 501} : Cut(clienterror(e))
    \/ Arrived /\ Cut(PlacesReply(looked))
HeadersAhead ==
    \/ Cut(Reply1(looked))
    \/ Cut(Reply2(looked))
    \/ content_length = Len(Body(looked)) /\ Cut(Reply3(looked))
    \/ content_length = Len(Body(looked)) /\ Cut(Reply4(looked))

CopyInv ==
    /\ content_length <= INT_MAX - 2
    /\ pc \in {"request line", "headers", "serve", "status", "fetch headers", "body", "imported", "refused", "died"}
    /\ IF pc \in {"request line", "headers", "serve"} THEN open /\ whole ELSE ~open
    /\ pc = "request line" => InLine /\ Ahead = CopyRequest(ask)
    /\ pc = "headers" => InLine /\ Ahead = Blank /\ request = CopyParts(ask)
    /\ pc = "serve" =>
         /\ call = NoCall /\ request = CopyParts(ask)
         /\ query = parse_query(WordField(W_person_field, ask.name), <<>>)
    /\ pc = "status" => InLine /\ ReplyAhead
    /\ pc = "fetch headers" => InLine /\ (Lost \/ (Arrived /\ HeadersAhead))
    /\ pc = "body" =>
         /\ \/ call.op = "bytes" /\ Len(Ahead) < call.n
            \/ call = NoCall /\ rio_buf = <<>> /\ wire = <<>>
         /\ Lost \/ (Arrived /\ Cut(Body(looked)))
    /\ pc = "imported" =>
         /\ call = NoCall
         /\ whole => list = KnownOf(looked) /\ Arrived
         /\ CutNames(list, KnownOf(looked))
    /\ pc = "refused" => call = NoCall
    /\ pc = "died" => call = NoCall /\ ~whole /\ Len(got) \in {1, 2} /\ got[1] = HTTP10

WireInv ==
    /\ ReaderInv
    /\ ask \in Ask /\ whole \in BOOLEAN /\ content_length \in Nat /\ Len(request) \in {0, 3} /\ query \in Dict
    /\ ask.op \in {"pin", "copy"}
    /\ ask.op = "pin" => PinInv
    /\ ask.op = "copy" => CopyInv

-----------------------------------------------------------------------------
(* Calls.                                                                    *)

LEMMA AheadOf ==
    ASSUME ReaderInv
    PROVE  ToCome \in Str /\ Ahead \in Str /\ got \in Str
BY Cat DEF ReaderInv, ToCome, Ahead

LEMMA Fresh ==
    ASSUME ReaderInv, got' = <<>>, wire' = wire, rio_buf' = rio_buf
    PROVE  ToCome' = ToCome /\ Ahead' = ToCome
<1>1. ToCome' = ToCome
  BY DEF ToCome
<1>2. <<>> \o ToCome = ToCome
  BY AheadOf, CatEmpty
<1> QED
  BY <1>1, <1>2 DEF Ahead

LEMMA CallLine ==
    ASSUME ReaderInv, Call(ReadLine), wire' = wire, rio_buf' = rio_buf, open' = open
    PROVE  ReaderInv' /\ Ahead' = ToCome /\ InLine'
<1>1. call' = ReadLine /\ got' = <<>>
  BY DEF Call
<1>2. Ahead' = ToCome
  BY <1>1, Fresh
<1>3. <<>> \in Str /\ Len(<<>>) = 0 /\ MAXLINE \in Nat /\ MAXLINE >= 20
  BY RioAssumption DEF Str
<1>4. ReaderInv'
  <2>1. ReadLine.op = "line" /\ ReadLine \in [op : {"none", "line", "bytes"}, n : Nat]
    BY <1>3 DEF ReadLine
  <2>2. got' \in Str /\ Len(got') < MAXLINE - 1 /\ \A i \in 1..Len(got') : got'[i] # LF
    BY <1>1, <1>3
  <2>3. call' = ReadLine
    BY <1>1
  <2>4. call' \in [op : {"none", "line", "bytes"}, n : Nat] /\ call'.op = "line"
    BY <2>1, <2>3
  <2> QED
    BY <2>2, <2>3, <2>4 DEF ReaderInv, ReadLine
<1>5. InLine'
  BY <1>1 DEF InLine, ReadLine
<1> QED
  BY <1>2, <1>4, <1>5

LEMMA CallBytes ==
    ASSUME ReaderInv, NEW n \in Nat, n > 0, Call(ReadBytes(n)), wire' = wire, rio_buf' = rio_buf, open' = open
    PROVE  ReaderInv' /\ Ahead' = ToCome /\ InBytes(n)' /\ call'.op = "bytes" /\ call'.n = n
<1>1. call' = [op |-> "bytes", n |-> n] /\ got' = <<>>
  BY DEF Call, ReadBytes
<1>2. Ahead' = ToCome
  BY <1>1, Fresh
<1>3. <<>> \in Str /\ Len(<<>>) = 0
  BY DEF Str
<1>4. call'.op = "bytes" /\ call'.n = n /\ call' \in [op : {"none", "line", "bytes"}, n : Nat] /\ got' \in Str /\ Len(got') < n
  BY <1>1, <1>3
<1>5. ReaderInv'
  BY <1>4 DEF ReaderInv
<1> QED
  BY <1>2, <1>4, <1>5 DEF InBytes

\* A line was asked for and a call has returned.
LEMMA Turn ==
    ASSUME ReaderInv, Returned, InLine, NEW l, NEW r \in Str, NEW t \in Str, Ahead \o t = l \o r,
           Ended1(l), Len(l) <= MAXLINE - 1
    PROVE  \/ got = l /\ ToCome \o t = r
           \/ ~open /\ ToCome = <<>> /\ t # <<>> /\ Len(got) < Len(l) /\ got = SubSeq(l, 1, Len(got))
<1>1. got \in Str /\ ToCome \in Str
  BY AheadOf
<1>2. LineDone(got, ToCome, ~open)
  BY DEF InLine, ReadLine, Returned, Busy
<1>3. (got \o ToCome) \o t = l \o r
  BY DEF Ahead
<1>4. (~open) \in BOOLEAN
  OBVIOUS
<1> DEFINE g == got
           x == ToCome
           closed == ~open
<1>5. /\ g \in Str /\ x \in Str /\ closed \in BOOLEAN /\ (g \o x) \o t = l \o r /\ LineDone(g, x, closed)
      /\ Ended1(l) /\ Len(l) <= MAXLINE - 1
  BY <1>1, <1>2, <1>3, <1>4
<1> HIDE DEF g, x, closed
<1>6. \/ g = l /\ x \o t = r
      \/ closed /\ x = <<>> /\ t # <<>> /\ Len(g) < Len(l) /\ g = SubSeq(l, 1, Len(g))
  <2>1. LineAt(g, x, t, l, r, closed)
    BY <1>5 DEF LineAt
  <2> QED
    BY ONLY <2>1, LineCut
<1> QED
  BY <1>6 DEF g, x, closed

LEMMA TurnOpen ==
    ASSUME ReaderInv, Returned, InLine, open, NEW l, NEW r \in Str, Ahead = l \o r,
           Ended1(l), Len(l) <= MAXLINE - 1
    PROVE  got = l /\ ToCome = r
<1> DEFINE t == <<>>
<1>1. t \in Str /\ Ahead \o t = Ahead /\ ToCome \o t = ToCome
  BY AheadOf, CatEmpty DEF Str
<1> HIDE DEF t
<1>2. Ahead \o t = l \o r
  BY <1>1
<1> QED
  BY <1>1, <1>2, Turn

\* The reader is silent while a handler runs.
LEMMA Idle ==
    ASSUME ReaderInv, Returned
    PROVE  call = NoCall /\ call # ReadLine /\ (InLine => LineDone(got, ToCome, ~open))
BY DEF ReaderInv, Returned, Busy, NoCall, ReadLine, InLine

-----------------------------------------------------------------------------
(* A /pin.                                                                   *)

LEMMA PinAsked ==
    ASSUME WireInv, ask.op = "pin"
    PROVE  ask \in PinAsk /\ PinInv /\ ReaderInv
BY DEF WireInv, PinAsk

\* The request line, when it fits.
LEMMA PinFirst ==
    ASSUME WireInv, ask.op = "pin", At("request line"), Fits(ask)
    PROVE  got = FirstLine(ask) /\ ToCome = Rest(ask) /\ parse_request_line(got) = PinParts(ask)
<1>1. ask \in PinAsk /\ PinInv /\ ReaderInv /\ Returned /\ pc = "request line"
  BY PinAsked DEF At
<1>2. InLine /\ open /\ Ahead = FirstLine(ask) \o Rest(ask)
  BY <1>1, RequestOf DEF PinInv
<1>3. Rest(ask) \in Str /\ Ended1(FirstLine(ask)) /\ Len(FirstLine(ask)) <= MAXLINE - 1
  BY <1>1, TailsOf, FirstLineOf, FitsOf
<1>4. got = FirstLine(ask) /\ ToCome = Rest(ask)
  BY <1>1, <1>2, <1>3, TurnOpen
<1> QED
  BY <1>1, <1>4, FirstLineOf DEF PinParts

\* One that does not fit is not parsed.
LEMMA PinLong ==
    ASSUME WireInv, ask.op = "pin", At("request line"), ~Fits(ask)
    PROVE  parse_request_line(got) = <<>>
<1>1. ask \in PinAsk /\ PinInv /\ ReaderInv /\ Returned /\ pc = "request line"
  BY PinAsked DEF At
<1>2. InLine /\ open /\ Ahead = FirstLine(ask) \o Rest(ask)
  BY <1>1, RequestOf DEF PinInv
<1>3. Rest(ask) \in Str /\ Ended1(FirstLine(ask)) /\ ~(Len(FirstLine(ask)) <= MAXLINE - 1)
  BY <1>1, TailsOf, FirstLineOf, FitsOf
<1>4. LineDone(got, ToCome, ~open) /\ got \in Str /\ ToCome \in Str
  BY <1>1, <1>2, Idle, AheadOf
<1>5. LineDone(got, ToCome, FALSE)
  BY <1>2, <1>4 DEF LineDone
<1>6. got \o ToCome = FirstLine(ask) \o Rest(ask)
  BY <1>2 DEF Ahead
<1>7. Len(got) >= 1 /\ got[Len(got)] # LF
  BY <1>3, <1>4, <1>5, <1>6, LineLong
<1> QED
  BY <1>4, <1>7, ParseShort

LEMMA PinRefusal ==
    ASSUME NEW a \in PinAsk
    PROVE  Refusal(PinParts(a)) = 0 <=> a.method # W_other
<1> DEFINE u == UriOf(a)
           v == VersionOf(a)
<1>1. PinParts(a) = << << a.method >>, u, << v >> >> /\ v \in {HTTP10, HTTP11} /\ a.method \in {GET, POST, W_other}
  BY MethodFacts, PinAskType DEF PinParts
<1> HIDE DEF u, v
<1>2. W_other # GET /\ W_other # POST
  BY DEF W_other, GET, POST
<1>3. PinParts(a)[3] \in {<<HTTP10>>, <<HTTP11>>} /\ PinParts(a)[1] = << a.method >> /\ PinParts(a) # <<>>
  BY <1>1
<1>4. << a.method >> \in {<<GET>>, <<POST>>} <=> a.method # W_other
  BY <1>1, <1>2
<1> QED
  BY <1>3, <1>4 DEF Refusal

LEMMA PinRefuse ==
    ASSUME WireInv, ask.op = "pin", Refuse
    PROVE  WireInv'
<1>1. /\ ask \in PinAsk /\ PinInv /\ ReaderInv /\ Returned /\ At("request line") /\ pc = "request line"
      /\ list = <<>> /\ open /\ whole
  BY PinAsked DEF At, PinInv, Refuse
<1>2. ~Accepted(ask)
  <2>1. ASSUME Fits(ask) PROVE ask.method = W_other
    <3>1. parse_request_line(got) = PinParts(ask)
      BY <1>1, <2>1, PinFirst
    <3>2. Refusal(PinParts(ask)) # 0
      BY <3>1 DEF Refuse
    <3> QED
      BY <1>1, <3>2, PinRefusal
  <2> QED
    BY <2>1 DEF Accepted
<1>3. /\ pc' = "done" /\ wire' = wire /\ open' = open /\ rio_buf' = rio_buf /\ call' = call /\ got' = got
      /\ whole' = whole /\ ask' = ask /\ request' = request /\ headers' = headers /\ query' = query
      /\ content_length' = content_length /\ list' = list
  BY DEF Refuse, Reply, rio
<1>4. ReaderInv'
  BY <1>1, <1>3 DEF ReaderInv
<1>5. PinInv'
  <2>1. call = NoCall
    BY <1>1, Idle
  <2> QED
    BY <1>1, <1>2, <1>3, <2>1 DEF PinInv, NoCall
<1> QED
  BY <1>3, <1>4, <1>5 DEF WireInv

LEMMA NoHeaders ==
    ASSUME NEW a \in PinAsk, ~a.typed
    PROVE  HasType(<<>>, a)
BY DictEmpty DEF HasType

LEMMA PinRequestLine ==
    ASSUME WireInv, ask.op = "pin", RequestLine
    PROVE  WireInv'
<1>1. /\ ask \in PinAsk /\ PinInv /\ ReaderInv /\ Returned /\ At("request line") /\ pc = "request line"
      /\ list = <<>> /\ open /\ whole /\ headers = <<>>
  BY PinAsked DEF At, PinInv, RequestLine
<1>2. Fits(ask)
  <2>1. Refusal(<<>>) # 0
    BY DEF Refusal
  <2> QED
    BY <1>1, <2>1, PinLong DEF RequestLine
<1>3. parse_request_line(got) = PinParts(ask) /\ ToCome = Rest(ask)
  BY <1>1, <1>2, PinFirst
<1>4. Accepted(ask) /\ ask.method \in {GET, POST}
  <2>1. Refusal(PinParts(ask)) = 0
    BY <1>3 DEF RequestLine
  <2> QED
    BY <1>1, <1>2, <2>1, PinRefusal, PinAskType DEF Accepted
<1>5. /\ pc' = "headers" /\ wire' = wire /\ open' = open /\ rio_buf' = rio_buf /\ Call(ReadLine)
      /\ whole' = whole /\ ask' = ask /\ request' = PinParts(ask) /\ headers' = headers /\ query' = query
      /\ content_length' = content_length /\ list' = list
  BY <1>3 DEF RequestLine
<1>6. ReaderInv' /\ Ahead' = Rest(ask) /\ InLine'
  BY <1>1, <1>3, <1>5, CallLine
<1>7. PinHeaders'
  <2>1. CASE ask.method # POST
    <3>1. Ahead' = HostLine \o Blank
      BY <1>6, <2>1 DEF Rest
    <3> QED
      BY <1>5, <2>1, <3>1 DEF PinHeaders
  <2>2. CASE ask.method = POST /\ ask.typed
    <3>1. Ahead' = TypeLine \o Tail1(ask) /\ headers' = <<>>
      BY <1>1, <1>5, <1>6, <2>2 DEF Rest
    <3> QED
      BY <1>5, <2>2, <3>1 DEF PinHeaders
  <2>3. CASE ask.method = POST /\ ~ask.typed
    <3>1. Ahead' = Tail1(ask) /\ headers' = <<>>
      BY <1>1, <1>5, <1>6, <2>3 DEF Rest
    <3>2. HasType(<<>>, ask)
      BY <1>1, <2>3, NoHeaders
    <3> QED
      BY <1>5, <2>3, <3>1, <3>2 DEF PinHeaders
  <2> QED
    BY <2>1, <2>2, <2>3
<1>8. PinInv'
  BY <1>1, <1>4, <1>5, <1>6, <1>7 DEF PinInv
<1>9. Len(PinParts(ask)) = 3
  BY DEF PinParts
<1> QED
  BY <1>5, <1>6, <1>8, <1>9 DEF WireInv, PinAsk

LEMMA PinHeader ==
    ASSUME WireInv, ask.op = "pin", At("headers")
    PROVE  /\ ask \in PinAsk /\ PinInv /\ ReaderInv /\ Returned /\ InLine /\ Accepted(ask) /\ request = PinParts(ask)
           /\ PinHeaders /\ list = <<>> /\ open /\ whole /\ pc = "headers"
           /\ Tail1(ask) \in Str /\ Tail2(ask) \in Str /\ Form(ask) \in Str
           /\ \A l : \A r \in Str : Ahead = l \o r /\ Ended1(l) /\ Len(l) <= MAXLINE - 1 => got = l /\ ToCome = r
<1>1. /\ ask \in PinAsk /\ PinInv /\ ReaderInv /\ Returned /\ InLine /\ Accepted(ask) /\ request = PinParts(ask)
      /\ PinHeaders /\ list = <<>> /\ open /\ whole /\ pc = "headers"
  BY PinAsked DEF At, PinInv
<1>2. Tail1(ask) \in Str /\ Tail2(ask) \in Str /\ Form(ask) \in Str
  BY <1>1, TailsOf, FormOf
<1>3. ASSUME NEW l, NEW r \in Str, Ahead = l \o r, Ended1(l), Len(l) <= MAXLINE - 1 PROVE got = l /\ ToCome = r
  BY <1>1, <1>3, TurnOpen
<1> QED
  BY <1>1, <1>2, <1>3

LEMMA BlankAlone == Blank = Blank \o <<>> /\ <<>> \in Str /\ Blank \in Str
BY BlankOf, CatEmpty DEF Str

LEMMA PinHeaderLine ==
    ASSUME WireInv, ask.op = "pin", HeaderLine
    PROVE  WireInv'
<1>1. /\ ask \in PinAsk /\ PinInv /\ ReaderInv /\ Returned /\ InLine /\ Accepted(ask) /\ request = PinParts(ask)
      /\ PinHeaders /\ list = <<>> /\ open /\ whole /\ pc = "headers"
      /\ Tail1(ask) \in Str /\ Tail2(ask) \in Str /\ Form(ask) \in Str
  BY PinHeader DEF HeaderLine
<1>2. \A l : \A r \in Str : Ahead = l \o r /\ Ended1(l) /\ Len(l) <= MAXLINE - 1 => got = l /\ ToCome = r
  BY PinHeader DEF HeaderLine
<1>3. /\ got # Blank /\ headers' = parse_header_line(got, headers)
      /\ pc' = pc /\ wire' = wire /\ open' = open /\ rio_buf' = rio_buf /\ Call(ReadLine)
      /\ whole' = whole /\ ask' = ask /\ request' = request /\ query' = query
      /\ content_length' = content_length /\ list' = list
  BY DEF HeaderLine, Blank
<1>4. ReaderInv' /\ Ahead' = ToCome /\ InLine'
  BY <1>1, <1>3, CallLine
<1>5. Ahead # Blank
  BY <1>2, <1>3, BlankAlone, BlankOf
<1>6. Form(ask) \in Str /\ Len(Form(ask)) \in Nat /\ Len(Form(ask)) <= INT_MAX
  BY <1>1, FormOf
<1>7. PinHeaders'
  <2>1. CASE ask.method # POST /\ Ahead = HostLine \o Blank
    <3>1. ToCome = Blank
      BY <1>2, <2>1, HostLineOf, BlankOf
    <3> QED
      BY <1>3, <1>4, <2>1, <3>1 DEF PinHeaders
  <2>2. CASE ask.method = POST /\ ask.typed /\ headers = <<>> /\ Ahead = TypeLine \o Tail1(ask)
    <3>1. got = TypeLine /\ ToCome = Tail1(ask)
      BY <1>1, <1>2, <2>2, TypeLineOf
    <3>2. HasType(headers', ask)
      BY <1>1, <1>3, <2>2, <3>1, TypeParsed
    <3> QED
      BY <1>3, <1>4, <2>2, <3>1, <3>2 DEF PinHeaders
  <2>3. CASE ask.method = POST /\ HasType(headers, ask) /\ Ahead = Tail1(ask)
    <3> DEFINE n == Len(Form(ask))
               l == LengthLine(n)
    <3>1. Ended1(l) /\ Len(l) <= MAXLINE - 1
      BY <1>6, LengthLineOf
    <3>2. Ahead = l \o Tail2(ask)
      BY <2>3 DEF Tail1
    <3> HIDE DEF l
    <3>3. got = l /\ ToCome = Tail2(ask)
      BY <1>1, <1>2, <3>1, <3>2
    <3>4. headers' = parse_header_line(LengthLine(n), headers)
      BY <1>3, <3>3 DEF l
    <3> HIDE DEF n
    <3>5. HasType(headers', ask) /\ << W_length >> \in DOMAIN headers' /\ headers'[<< W_length >>] = to_string(n)
      BY <1>1, <1>6, <2>3, <3>4, LengthParsed DEF n
    <3> QED
      BY <1>3, <1>4, <2>3, <3>3, <3>5 DEF PinHeaders, n
  <2>4. CASE Ahead = Tail2(ask)
    <3>1. got = Blank
      BY <1>1, <1>2, <2>4, BlankOf DEF Tail2
    <3> QED
      BY <1>3, <3>1
  <2> QED
    BY <1>1, <1>5, <2>1, <2>2, <2>3, <2>4 DEF PinHeaders
<1>8. PinInv'
  BY <1>1, <1>3, <1>4, <1>7 DEF PinInv
<1> QED
  BY <1>3, <1>4, <1>8, <1>1 DEF WireInv, PinAsk

LEMMA PinRequest ==
    ASSUME NEW a \in PinAsk
    PROVE  PinParts(a)[2] = UriOf(a) /\ (PinParts(a)[1] = <<POST>> <=> a.method = POST)
<1>1. PinParts(a)[1] = << a.method >> /\ PinParts(a)[2] = UriOf(a)
  BY DEF PinParts
<1> QED
  BY <1>1

\* Which of the headers' lines the empty one is.
LEMMA PinBlank ==
    ASSUME WireInv, ask.op = "pin", At("headers"), got = Blank
    PROVE  \/ ask.method # POST
           \/ /\ ask.method = POST /\ HasType(headers, ask) /\ ToCome = Form(ask)
              /\ << W_length >> \in DOMAIN headers /\ headers[<< W_length >>] = to_string(Len(Form(ask)))
<1>1. /\ ask \in PinAsk /\ PinHeaders /\ Tail1(ask) \in Str /\ Tail2(ask) \in Str /\ Form(ask) \in Str
  BY PinHeader
<1>2. \A l : \A r \in Str : Ahead = l \o r /\ Ended1(l) /\ Len(l) <= MAXLINE - 1 => got = l /\ ToCome = r
  BY PinHeader
<1>3. Ahead # TypeLine \o Tail1(ask)
  BY <1>1, <1>2, TypeLineOf
<1>4. Ahead # Tail1(ask)
  <2> DEFINE l == LengthLine(Len(Form(ask)))
  <2>1. Ended1(l) /\ Len(l) <= MAXLINE - 1 /\ l # Blank
    BY <1>1, FormOf, LengthLineOf
  <2>2. Tail1(ask) = l \o Tail2(ask)
    BY DEF Tail1
  <2> HIDE DEF l
  <2> QED
    BY <1>1, <1>2, <2>1, <2>2
<1>5. Ahead = Tail2(ask) => ToCome = Form(ask)
  BY <1>1, <1>2, BlankOf DEF Tail2
<1> QED
  BY <1>1, <1>3, <1>4, <1>5 DEF PinHeaders

LEMMA PinEndOfHeaders ==
    ASSUME WireInv, ask.op = "pin", EndOfHeaders
    PROVE  WireInv'
<1>1. /\ ask \in PinAsk /\ PinInv /\ ReaderInv /\ Returned /\ InLine /\ Accepted(ask) /\ request = PinParts(ask)
      /\ PinHeaders /\ list = <<>> /\ open /\ whole /\ pc = "headers"
  BY PinHeader DEF EndOfHeaders
<1>2. /\ query' = parse_uriquery(UriOf(ask), <<>>)
      /\ wire' = wire /\ open' = open /\ rio_buf' = rio_buf
      /\ whole' = whole /\ ask' = ask /\ request' = request /\ headers' = headers
      /\ content_length' = content_length /\ list' = list
  BY <1>1, PinRequest DEF EndOfHeaders
<1>3. \/ ask.method # POST
      \/ /\ ask.method = POST /\ HasType(headers, ask) /\ ToCome = Form(ask)
         /\ << W_length >> \in DOMAIN headers /\ headers[<< W_length >>] = to_string(Len(Form(ask)))
  <2>1. At("headers") /\ got = Blank
    BY DEF EndOfHeaders, Blank
  <2> QED
    BY <2>1, PinBlank
<1>4. CASE ask.method # POST
  <2>1. pc' = "serve" /\ call' = call /\ got' = got
    BY <1>1, <1>4, PinRequest DEF EndOfHeaders
  <2>2. ReaderInv'
    BY <1>1, <1>2, <2>1 DEF ReaderInv
  <2>3. PinQuery(query', ask)
    BY <1>1, <1>2, <1>4, PinUri
  <2>4. call = NoCall
    BY <1>1, Idle
  <2>5. PinInv'
    BY <1>1, <1>2, <2>1, <2>3, <2>4 DEF PinInv, NoCall
  <2>6. query' \in Dict
    BY <2>3 DEF PinQuery
  <2> QED
    BY <1>1, <1>2, <2>2, <2>5, <2>6 DEF WireInv, PinAsk
<1>5. CASE ask.method = POST
  <2>1. PICK n \in Nat : n = Len(Form(ask)) /\ n > 0
    BY <1>1, FormOf
  <2>2. atoi(Get(headers, <<W_length>>)) = n
    <3>1. Get(headers, <<W_length>>) = to_string(n)
      BY <1>3, <1>5, <2>1 DEF Get
    <3> QED
      BY <2>1, <3>1, AtoiDigits
  <2>3. pc' = "post data" /\ Call(ReadBytes(n))
    <3>1. n \in -1..INT_MAX - 1 /\ n \in 0..INT_MAX - 1 /\ n # -1
      <4>1. n < INT_MAX
        BY <1>1, <2>1, FormOf
      <4>2. INT_MAX \in Nat
        BY ONLY SMT DEF INT_MAX
      <4> QED
        BY ONLY <4>1, <4>2, n \in Nat
    <3>2. request[1] = <<POST>>
      BY <1>1, <1>5, PinRequest
    <3> HIDE DEF INT_MAX
    <3> QED
      BY <2>2, <3>1, <3>2 DEF EndOfHeaders
  <2>4. ReaderInv' /\ Ahead' = ToCome /\ InBytes(n)'
    BY <1>1, <1>2, <2>1, <2>3, CallBytes
  <2>5. query' = <<>>
    BY <1>1, <1>2, <1>5, PinUri
  <2>6. Ahead' = Form(ask) /\ HasType(headers, ask)
    BY <1>3, <1>5, <2>4
  <2>7. PinInv'
    <3>1. InBytes(Len(Form(ask)))'
      BY <1>2, <2>1, <2>4 DEF InBytes
    <3> QED
      BY <1>1, <1>2, <1>5, <2>3, <2>5, <2>6, <3>1 DEF PinInv
  <2>8. query' \in Dict
    BY <2>5, DictEmpty
  <2> QED
    BY <1>1, <1>2, <2>4, <2>7, <2>8 DEF WireInv, PinAsk
<1> QED
  BY <1>4, <1>5

LEMMA PinPostData ==
    ASSUME WireInv, ask.op = "pin", PostData
    PROVE  WireInv'
<1>1. /\ ask \in PinAsk /\ PinInv /\ ReaderInv /\ Returned /\ call = NoCall /\ pc = "post data"
      /\ ask.method = POST /\ Accepted(ask) /\ request = PinParts(ask) /\ HasType(headers, ask) /\ query = <<>>
      /\ InBytes(Len(Form(ask))) /\ Ahead = Form(ask) /\ open /\ whole /\ list = <<>>
  BY PinAsked, Idle DEF At, PinInv, PostData
<1>2. /\ wire' = wire /\ open' = open /\ rio_buf' = rio_buf /\ call' = call /\ got' = got
      /\ whole' = whole /\ ask' = ask /\ request' = request /\ headers' = headers
      /\ content_length' = content_length /\ list' = list
  BY DEF PostData, rio
<1>3. ReaderInv'
  BY <1>1, <1>2 DEF ReaderInv
<1>4. got = Form(ask)
  <2>1. Len(got) = Len(Form(ask))
    <3>1. call.op # "bytes"
      BY <1>1 DEF NoCall
    <3> QED
      BY <1>1, <3>1 DEF InBytes
  <2>2. got \in Str /\ ToCome \in Str /\ Form(ask) \in Str
    BY <1>1, AheadOf, FormOf
  <2>3. got \o ToCome = Form(ask) \o <<>> /\ <<>> \in Str
    BY <1>1, <2>2, CatEmpty, BlankAlone DEF Ahead
  <2> QED
    BY <2>1, <2>2, <2>3, CatCancel
<1>5. CASE ask.typed
  <2>1. Get(headers, <<W_type>>) = <<W_urlencoded>> /\ <<W_type>> \in DOMAIN headers
    BY <1>1, <1>5 DEF HasType, Get
  <2>2. query' = parse_query(Form(ask), <<>>) /\ pc' = "serve"
    BY <1>1, <1>4, <2>1 DEF PostData
  <2>3. PinQuery(query', ask)
    BY <1>1, <2>2, FormParsed
  <2>4. query' \in Dict
    BY <2>3 DEF PinQuery
  <2>5. PinInv'
    BY <1>1, <1>2, <2>2, <2>3 DEF PinInv, NoCall
  <2> QED
    BY <1>1, <1>2, <1>3, <2>4, <2>5 DEF WireInv, PinAsk
<1>6. CASE ~ask.typed
  <2>1. <<W_type>> \notin DOMAIN headers
    BY <1>1, <1>6 DEF HasType
  <2>2. pc' = "died"
    BY <2>1 DEF PostData
  <2>3. Get(headers, <<W_type>>) # <<W_urlencoded>>
    <3>1. Get(headers, <<W_type>>) = <<>>
      BY <2>1 DEF Get
    <3> QED
      BY <3>1
  <2>4. query' = query
    BY <2>3 DEF PostData
  <2>5. PinInv'
    BY <1>1, <1>2, <1>6, <2>2 DEF PinInv, NoCall
  <2> QED
    BY <1>1, <1>2, <1>3, <2>4, <2>5 DEF WireInv, PinAsk
<1> QED
  BY <1>5, <1>6

LEMMA PinServe ==
    ASSUME WireInv, ask.op = "pin", At("serve")
    PROVE  /\ ask \in PinAsk /\ PinInv /\ ReaderInv /\ call = NoCall /\ Accepted(ask) /\ pc = "serve"
           /\ PinQuery(query, ask) /\ request[2] = UriOf(ask) /\ open /\ whole
           /\ starts_with(<<W_pin>>, request[2]) /\ ~starts_with(<<W_places>>, request[2])
<1>1. /\ ask \in PinAsk /\ PinInv /\ ReaderInv /\ call = NoCall /\ Accepted(ask) /\ pc = "serve"
      /\ PinQuery(query, ask) /\ request = PinParts(ask) /\ open /\ whole
  BY PinAsked DEF At, PinInv
<1> QED
  BY <1>1, PinRequest, PinUri

LEMMA PinServed ==
    ASSUME WireInv, ask.op = "pin", ServePin
    PROVE  WireInv'
<1>1. /\ ask \in PinAsk /\ PinInv /\ ReaderInv /\ call = NoCall /\ Accepted(ask) /\ pc = "serve"
      /\ PinQuery(query, ask) /\ open /\ whole
  BY PinServe DEF ServePin
<1>2. /\ wire' = wire /\ open' = open /\ rio_buf' = rio_buf /\ call' = call /\ got' = got
      /\ whole' = whole /\ ask' = ask /\ request' = request /\ headers' = headers /\ query' = query
      /\ content_length' = content_length /\ pc' = "done"
  BY DEF ServePin, rio
<1>3. ReaderInv'
  BY <1>1, <1>2 DEF ReaderInv
<1>4. list' = <<ask.people, ask.places>>
  BY <1>1 DEF ServePin, PinQuery
<1>5. PinInv'
  BY <1>1, <1>2, <1>4 DEF PinInv, NoCall
<1> QED
  BY <1>1, <1>2, <1>3, <1>5 DEF WireInv, PinAsk

\* The steps of a /copy are none of a /pin.
LEMMA PinHandler ==
    ASSUME WireInv, ask.op = "pin", Handler
    PROVE  WireInv'
<1>1. ~ServePlaces
  BY PinServe DEF ServePlaces
<1>2. pc \notin {"status", "fetch headers", "body"}
  BY PinAsked DEF PinInv
<1>3. ~Status /\ ~FetchHeader /\ ~FetchBody /\ ~Import
  BY <1>2 DEF Status, FetchHeader, FetchBody, Import, At
<1> QED
  BY <1>1, <1>3, PinRefuse, PinRequestLine, PinHeaderLine, PinEndOfHeaders, PinPostData, PinServed DEF Handler

LEMMA PinReader ==
    ASSUME WireInv, ask.op = "pin", Reader
    PROVE  WireInv'
<1>1. ask \in PinAsk /\ PinInv /\ ReaderInv /\ RioStep
  BY PinAsked DEF Reader
<1>2. /\ ask' = ask /\ pc' = pc /\ request' = request /\ headers' = headers /\ query' = query
      /\ content_length' = content_length /\ whole' = whole /\ list' = list
  BY DEF Reader
<1>3. ReaderInv' /\ Ahead' = Ahead /\ open' = open /\ (InLine => InLine')
  BY <1>1, ReadKeeps
<1>4. PICK n \in Nat : n = Len(Form(ask))
  BY <1>1, FormOf
<1>5. InBytes(Len(Form(ask))) => InBytes(Len(Form(ask)))'
  <2>1. InBytes(n) => InBytes(n)'
    BY <1>1, ReadKeeps
  <2> QED
    BY <1>2, <1>4, <2>1 DEF InBytes
<1>6. PinHeaders => PinHeaders'
  BY <1>2, <1>3 DEF PinHeaders
<1>7. call # NoCall
  BY <1>1 DEF RioStep, Read, Take, EndOfFile, Busy, NoCall
<1>8. PinInv'
  BY <1>1, <1>2, <1>3, <1>5, <1>6, <1>7 DEF PinInv
<1> QED
  BY <1>1, <1>2, <1>3, <1>8 DEF WireInv, PinAsk

-----------------------------------------------------------------------------
(* A /copy: the request.                                                     *)

\* The reply goes over the connection as far as it gets.
LEMMA CopyReply ==
    ASSUME ReaderInv, ask.op = "copy", NEW reply \in Str, Reply(reply)
    PROVE  /\ ReaderInv' /\ InLine' /\ open' = FALSE /\ pc' = "status" /\ whole' \in BOOLEAN
           /\ \E t \in Str : reply = Ahead' \o t /\ (whole' => t = <<>>)
<1>1. PICK n \in 0..Len(reply) : Connection(SubSeq(reply, 1, n)) /\ whole' = (n = Len(reply))
  BY DEF Reply
<1>2. open' = FALSE /\ pc' = "status" /\ Call(ReadLine)
  BY DEF Reply
<1> DEFINE x == SubSeq(reply, 1, n)
           t == Drop(reply, n)
<1>3. Len(reply) \in Nat /\ n \in Nat /\ n <= Len(reply)
  BY StrFacts
<1>4. x \in Str /\ t \in Str /\ Len(t) = Len(reply) - n /\ x \o t = reply
  BY <1>3, FirstPart, DropOf, FrontBack
<1>5. wire' = x /\ rio_buf' = <<>> /\ got' = <<>> /\ call' = ReadLine
  BY <1>1, <1>2 DEF Connection, Call
<1> HIDE DEF x
<1>6. Ahead' = x
  <2>1. <<>> \o x = x /\ <<>> \o (<<>> \o x) = x
    BY <1>4, CatEmpty
  <2> QED
    BY <1>5, <2>1 DEF Ahead, ToCome
<1>7. whole' => t = <<>>
  <2>0. whole' => n = Len(reply)
    BY <1>1
  <2>1. whole' => Len(t) = 0
    <3>1. Len(t) = Len(reply) - n
      BY <1>4
    <3> HIDE DEF t
    <3> QED
      BY <1>3, <2>0, <3>1
  <2> HIDE DEF t
  <2> QED
    BY <1>4, <2>1, StrFacts
<1> HIDE DEF t
<1>8. <<>> \in Str /\ Len(<<>>) = 0 /\ MAXLINE \in Nat /\ MAXLINE >= 20 /\ RIO_BUFSIZE \in Nat
  BY BlankAlone, RioAssumption
<1>9. ReaderInv'
  <2>1. ReadLine.op = "line" /\ ReadLine \in [op : {"none", "line", "bytes"}, n : Nat]
    BY <1>8 DEF ReadLine
  <2>2. got' \in Str /\ Len(got') < MAXLINE - 1 /\ \A i \in 1..Len(got') : got'[i] # LF
    BY <1>5, <1>8
  <2>3. call' = ReadLine
    BY <1>5
  <2>4. call' \in [op : {"none", "line", "bytes"}, n : Nat] /\ call'.op = "line"
    BY <2>1, <2>3
  <2>5. wire' \in Str /\ rio_buf' \in Str /\ open' \in BOOLEAN
    BY <1>2, <1>4, <1>5, <1>8
  <2>6. Len(rio_buf') <= RIO_BUFSIZE
    <3>1. Len(rio_buf') = 0
      BY <1>5
    <3> QED
      BY <1>8, <3>1
  <2> QED
    BY <2>2, <2>3, <2>4, <2>5, <2>6 DEF ReaderInv, ReadLine
<1>10. InLine'
  BY <1>5 DEF InLine, ReadLine
<1>11. whole' \in BOOLEAN
  BY <1>1
<1>12. reply = Ahead' \o t
  BY <1>4, <1>6
<1> QED
  BY <1>2, <1>4, <1>7, <1>9, <1>10, <1>11, <1>12

LEMMA CopyAsked ==
    ASSUME WireInv, ask.op = "copy"
    PROVE  ask \in CopyAsk /\ ask.name \in Seq(Byte) /\ CopyInv /\ ReaderInv
BY CopyAskType DEF WireInv, CopyAsk

\* The reply of an error.
LEMMA CopyError ==
    ASSUME ReaderInv, ask.op = "copy", NEW e \in {400, 501}, Reply(clienterror(e))
    PROVE  /\ ReaderInv' /\ InLine' /\ open' = FALSE /\ pc' = "status" /\ whole' \in BOOLEAN /\ ReplyAhead'
<1>1. e \in Nat /\ e <= INT_MAX
  BY SMT DEF INT_MAX
<1>2. PICK r \in Str : clienterror(e) = StatusLine(e) \o r
  BY <1>1, ErrorOf
<1>3. clienterror(e) \in Str
  <2>1. StatusLine(e) \in Str
    BY <1>1, StatusLineOf
  <2> QED
    BY <1>2, <2>1, Cat
<1>4. PICK reply \in Str : reply = clienterror(e)
  BY <1>3
<1>5. /\ ReaderInv' /\ InLine' /\ open' = FALSE /\ pc' = "status" /\ whole' \in BOOLEAN
      /\ \E t \in Str : reply = Ahead' \o t /\ (whole' => t = <<>>)
  <2>1. Reply(reply)
    BY <1>4 DEF Reply
  <2> QED
    BY <1>4, <2>1, CopyReply DEF Reply
<1>6. ReplyAhead'
  <2>1. Cut(clienterror(e))'
    BY <1>4, <1>5 DEF Cut
  <2> QED
    BY <2>1 DEF ReplyAhead
<1> QED
  BY <1>5, <1>6

LEMMA RefusalIs ==
    ASSUME NEW parts
    PROVE  /\ Refusal(parts) \in {0, 400, 501}
           /\ Refusal(parts) = 0 => parts # <<>> /\ parts[3] \in {<<HTTP10>>, <<HTTP11>>}
BY DEF Refusal

LEMMA CopyRefuse ==
    ASSUME WireInv, ask.op = "copy", Refuse
    PROVE  WireInv'
<1>1. ask \in CopyAsk /\ CopyInv /\ ReaderInv
  BY CopyAsked
<1>2. PICK e \in {400, 501} : Reply(clienterror(e))
  <2>0. Refusal(parse_request_line(got)) # 0
    BY DEF Refuse
  <2>1. PICK e \in {400, 501} : e = Refusal(parse_request_line(got))
    BY <2>0, RefusalIs
  <2> QED
    BY <2>1, ZenonT(60) DEF Refuse, Reply
<1>3. ask' = ask /\ request' = request /\ query' = query /\ content_length' = content_length
      /\ content_length <= INT_MAX - 2
  BY <1>1 DEF Refuse, CopyInv
<1>4. ReaderInv' /\ InLine' /\ open' = FALSE /\ pc' = "status" /\ whole' \in BOOLEAN /\ ReplyAhead'
  BY <1>1, <1>2, CopyError, ZenonT(60)
<1>5. CopyInv'
  <2>1. content_length' <= (INT_MAX - 2)'
    BY <1>3 DEF INT_MAX
  <2> QED
    BY <1>3, <1>4, <2>1 DEF CopyInv
<1> QED
  BY <1>3, <1>4, <1>5 DEF WireInv

LEMMA CopyRequestLine ==
    ASSUME WireInv, ask.op = "copy", RequestLine
    PROVE  WireInv'
<1>1. /\ ask \in CopyAsk /\ ask.name \in Seq(Byte) /\ CopyInv /\ ReaderInv /\ pc = "request line"
      /\ Ahead = CopyRequest(ask) /\ open /\ whole
  BY CopyAsked DEF CopyInv, RequestLine, At
<1>2. /\ pc' = "headers" /\ wire' = wire /\ open' = open /\ rio_buf' = rio_buf /\ Call(ReadLine)
      /\ whole' = whole /\ ask' = ask /\ query' = query
      /\ request' = parse_request_line(got) /\ content_length' = content_length
  BY DEF RequestLine
<1>3. ReaderInv' /\ Ahead' = ToCome /\ InLine'
  BY <1>1, <1>2, CallLine
<1>4. parse_request_line(got) # <<>> /\ parse_request_line(got)[3] \in {<<HTTP10>>, <<HTTP11>>}
  BY RefusalIs, ZenonT(60) DEF RequestLine
<1>5. got \in Str /\ ToCome \in Str /\ got \o ToCome = CopyLine(ask.name) \o <<CR, LF>>
  BY <1>1, AheadOf, CopyRequestOf DEF Ahead, Blank
<1>6. ToCome = Blank /\ parse_request_line(got) = CopyParts(ask)
  BY <1>1, <1>4, <1>5, ParseCopy DEF Blank, CopyParts
<1>7. CopyInv'
  BY <1>1, <1>2, <1>3, <1>6 DEF CopyInv
<1>8. Len(CopyParts(ask)) = 3
  BY DEF CopyParts
<1> QED
  BY <1>2, <1>3, <1>6, <1>7, <1>8 DEF WireInv, CopyAsk

LEMMA CopyHeader ==
    ASSUME WireInv, ask.op = "copy", At("headers")
    PROVE  /\ ask \in CopyAsk /\ ask.name \in Seq(Byte) /\ CopyInv /\ ReaderInv /\ call = NoCall
           /\ got = Blank /\ open /\ whole /\ request = CopyParts(ask)
<1>1. /\ ask \in CopyAsk /\ ask.name \in Seq(Byte) /\ CopyInv /\ ReaderInv /\ pc = "headers" /\ Returned
      /\ Ahead = Blank /\ InLine /\ open /\ whole /\ request = CopyParts(ask)
  BY CopyAsked DEF CopyInv, At
<1>2. got = Blank
  BY <1>1, BlankAlone, BlankOf, TurnOpen
<1> QED
  BY <1>1, <1>2, Idle

LEMMA CopyEndOfHeaders ==
    ASSUME WireInv, ask.op = "copy", EndOfHeaders
    PROVE  WireInv'
<1>1. /\ ask \in CopyAsk /\ ask.name \in Seq(Byte) /\ CopyInv /\ ReaderInv /\ call = NoCall
      /\ open /\ whole /\ request = CopyParts(ask)
  BY CopyHeader DEF EndOfHeaders
<1>2. request[1] # <<POST>> /\ request[2] = CopyUrl(ask.name)
  <2>1. CopyParts(ask)[1] = <<GET>> /\ CopyParts(ask)[2] = CopyUrl(ask.name)
    BY DEF CopyParts
  <2>2. GET # POST
    BY DEF GET, POST
  <2>3. <<GET>> # <<POST>>
    BY <2>2
  <2> QED
    BY <1>1, <2>1, <2>3
<1>3. /\ query' = parse_query(WordField(W_person_field, ask.name), <<>>) /\ pc' = "serve"
      /\ wire' = wire /\ open' = open /\ rio_buf' = rio_buf /\ call' = call /\ got' = got
      /\ whole' = whole /\ ask' = ask /\ request' = request /\ content_length' = content_length
  BY <1>1, <1>2, CopyUri DEF EndOfHeaders
<1>4. ReaderInv'
  BY <1>1, <1>3 DEF ReaderInv
<1>5. query' \in Dict
  <2>1. W_person_field \in Nat /\ W_person_field >= 256
    BY DEF W_person_field
  <2> QED
    BY <1>1, <1>3, <2>1, NameParsed
<1>6. CopyInv'
  BY <1>1, <1>3 DEF CopyInv, NoCall
<1> QED
  BY <1>1, <1>3, <1>4, <1>5, <1>6 DEF WireInv, CopyAsk

LEMMA CopyServe ==
    ASSUME WireInv, ask.op = "copy", At("serve")
    PROVE  /\ ask \in CopyAsk /\ ask.name \in Seq(Byte) /\ CopyInv /\ ReaderInv
           /\ query = parse_query(WordField(W_person_field, ask.name), <<>>)
           /\ ~starts_with(<<W_pin>>, request[2])
<1>1. /\ ask \in CopyAsk /\ ask.name \in Seq(Byte) /\ CopyInv /\ ReaderInv
      /\ query = parse_query(WordField(W_person_field, ask.name), <<>>) /\ request = CopyParts(ask)
  BY CopyAsked DEF CopyInv, At
<1>2. request[2] = CopyUrl(ask.name)
  BY <1>1 DEF CopyParts
<1> QED
  BY <1>1, <1>2, CopyUri

LEMMA PlacesReplyCut ==
    ASSUME ReaderInv, ask.op = "copy", NEW p, Reply(PlacesReply(p))
    PROVE  /\ ReaderInv' /\ InLine' /\ open' = FALSE /\ pc' = "status" /\ whole' \in BOOLEAN
           /\ \E t \in Str : PlacesReply(p) = Ahead' \o t /\ (whole' => t = <<>>)
<1>1. StatusLine(200) \in Str
  <2> DEFINE e == 200
  <2>1. e \in Nat /\ e <= INT_MAX
    BY SMT DEF INT_MAX
  <2> HIDE DEF e
  <2>2. StatusLine(e) \in Str
    BY <2>1, StatusLineOf
  <2> QED
    BY <2>2 DEF e
<1>2. PlacesReply(p) \in Str
  <2>1. PlacesReply(p) = StatusLine(200) \o Reply1(p) /\ Reply1(p) \in Str
    BY ReplyOf
  <2> QED
    BY <1>1, <2>1, Cat
<1>3. PICK reply \in Str : reply = PlacesReply(p)
  BY <1>2
<1>4. Reply(reply)
  BY <1>3 DEF Reply
<1>5. /\ ReaderInv' /\ InLine' /\ open' = FALSE /\ pc' = "status" /\ whole' \in BOOLEAN
      /\ \E t \in Str : reply = Ahead' \o t /\ (whole' => t = <<>>)
  BY <1>3, <1>4, CopyReply DEF Reply
<1> QED
  BY <1>3, <1>5

LEMMA CopyServed ==
    ASSUME WireInv, ask.op = "copy", ServePlaces
    PROVE  WireInv'
<1>1. /\ ask \in CopyAsk /\ ask.name \in Seq(Byte) /\ CopyInv /\ ReaderInv
      /\ query = parse_query(WordField(W_person_field, ask.name), <<>>)
  BY CopyServe DEF ServePlaces
<1>2. PICK k : /\ << W_person_field >> \in DOMAIN query /\ Kept(ask.name, k)
               /\ query[<< W_person_field >>] = CString(query_decode(SubSeq(ask.name, 1, k)))
  <2>1. W_person_field \in Nat /\ W_person_field >= 256
    BY DEF W_person_field
  <2> QED
    BY <1>1, <2>1, NameParsed
<1>3. PICK p : p = query[<< W_person_field >>]
  OBVIOUS
<1>4. looked' = p /\ Reply(PlacesReply(p))
  BY <1>2, <1>3 DEF ServePlaces, Reply
<1>5. ask' = ask /\ request' = request /\ query' = query /\ content_length' = content_length
  BY DEF ServePlaces
<1>6. /\ ReaderInv' /\ InLine' /\ open' = FALSE /\ pc' = "status" /\ whole' \in BOOLEAN
      /\ \E t \in Str : PlacesReply(p) = Ahead' \o t /\ (whole' => t = <<>>)
  BY <1>1, <1>4, PlacesReplyCut DEF Reply
<1>7. Arrived'
  <2>1. p = ask.name <=> Unchanged(ask.name)
    BY <1>1, <1>2, <1>3, NameArrives
  <2> QED
    BY <1>4, <1>5, <2>1 DEF Arrived
<1>8. Cut(PlacesReply(looked))'
  BY <1>4, <1>6 DEF Cut
<1>9. CopyInv'
  <2>1. content_length <= INT_MAX - 2
    BY <1>1 DEF CopyInv
  <2> QED
    BY <1>5, <1>6, <1>7, <1>8, <2>1 DEF CopyInv, ReplyAhead
<1> QED
  BY <1>1, <1>5, <1>6, <1>9 DEF WireInv, CopyAsk

-----------------------------------------------------------------------------
(* A /copy: the reply.                                                       *)

LEMMA CopyLines ==
    ASSUME WireInv, ask.op = "copy", Returned, pc \in {"status", "fetch headers"}
    PROVE  /\ ask \in CopyAsk /\ CopyInv /\ ReaderInv /\ call = NoCall /\ InLine /\ ~open /\ open \in BOOLEAN
           /\ whole \in BOOLEAN /\ got \in Str /\ ToCome \in Str
<1>1. ask \in CopyAsk /\ CopyInv /\ ReaderInv
  BY CopyAsked
<1>2. InLine /\ ~open /\ open \in BOOLEAN
  BY <1>1 DEF CopyInv, ReaderInv
<1> QED
  BY <1>1, <1>2, Idle, AheadOf DEF WireInv

\* The next line of the reply is l, and behind it comes r: it was read, or the
\* reply broke off within it.
LEMMA ReplyTurn ==
    ASSUME WireInv, ask.op = "copy", Returned, pc \in {"status", "fetch headers"},
           NEW l, NEW r \in Str, Cut(l \o r), Ended1(l), Len(l) <= MAXLINE - 1
    PROVE  \/ got = l /\ \E t \in Str : r = ToCome \o t /\ (whole => t = <<>>)
           \/ ToCome = <<>> /\ ~whole /\ Len(got) < Len(l) /\ got = SubSeq(l, 1, Len(got))
<1>1. PICK t \in Str : l \o r = Ahead \o t /\ (whole => t = <<>>)
  BY DEF Cut
<1>2. ReaderInv /\ InLine
  BY CopyLines
<1>3. \/ got = l /\ ToCome \o t = r
      \/ ~open /\ ToCome = <<>> /\ t # <<>> /\ Len(got) < Len(l) /\ got = SubSeq(l, 1, Len(got))
  BY <1>1, <1>2, Turn
<1> QED
  BY <1>1, <1>3

\* Each of the lines of a reply is one of them that go on.
LEMMA WordMore ==
    ASSUME WordLine(got), got \in Str
    PROVE  More
<1>1. 1 \in DOMAIN got
  BY StrFacts DEF WordLine, Ended1
<1> QED
  BY <1>1 DEF More, WordLine

LEMMA BlankNotMore ==
    ASSUME got = Blank
    PROVE  ~More
<1>1. CR < 256 /\ LF < 256 /\ CR \in Nat /\ LF \in Nat
  BY DEF CR, LF
<1>2. Len(got) = 2 /\ DOMAIN got = 1..2 /\ got[1] = CR /\ got[2] = LF
  BY DEF Blank
<1> QED
  BY <1>1, <1>2 DEF More

\* What is read of the status line of e, and what is made of it.
StatusRead(e, r) ==
    \/ /\ got = StatusLine(e) /\ WordLine(got)
       /\ Len(split_string(got, SP)) >= 2 /\ atoi(split_string(got, SP)[2]) = e
       /\ \E t \in Str : r = ToCome \o t /\ (whole => t = <<>>)
    \/ /\ ToCome = <<>> /\ ~whole
       /\ More /\ ~(Len(split_string(got, SP)) >= 2) => Len(got) \in {1, 2} /\ got[1] = HTTP10

LEMMA StatusTurn ==
    ASSUME WireInv, ask.op = "copy", Returned, pc = "status",
           NEW e \in Nat, e <= INT_MAX, NEW r \in Str, Cut(StatusLine(e) \o r)
    PROVE  StatusRead(e, r)
<1> DEFINE l == StatusLine(e)
<1>1. l \in Str /\ WordLine(l) /\ Ended1(l) /\ Len(l) <= MAXLINE - 1 /\ Len(l) >= 3 /\ Len(l) \in Nat /\ l[1] = HTTP10
  <2>1. StatusLine(e) \in Str /\ WordLine(StatusLine(e)) /\ StatusLine(e)[1] = HTTP10
    BY StatusLineOf
  <2>2. Len(StatusLine(e)) = Len(to_string(e)) + 6 /\ Len(to_string(e)) \in Nat
    BY StatusLineOf
  <2> HIDE DEF l
  <2>3. l = StatusLine(e)
    BY DEF l
  <2> QED
    BY <2>1, <2>2, <2>3 DEF WordLine
<1>2. \A n \in Nat : n <= Len(l) /\ n >= 3 => Len(split_string(SubSeq(l, 1, n), SP)) >= 2
  BY StatusTwo
<1>3. atoi(split_string(l, SP)[2]) = e
  BY StatusOf
<1>4. \/ got = l /\ \E t \in Str : r = ToCome \o t /\ (whole => t = <<>>)
      \/ ToCome = <<>> /\ ~whole /\ Len(got) < Len(l) /\ got = SubSeq(l, 1, Len(got))
  <2> HIDE DEF l
  <2>1. Cut(l \o r)
    BY DEF l
  <2> QED
    BY <1>1, <2>1, ReplyTurn
<1>5. got \in Str /\ Len(got) \in Nat
  BY CopyLines, StrFacts
<1> HIDE DEF l
<1>6. CASE got = l /\ \E t \in Str : r = ToCome \o t /\ (whole => t = <<>>)
  <2>1. SubSeq(l, 1, Len(l)) = l
    BY <1>1, Whole
  <2>2. Len(split_string(l, SP)) >= 2
    <3>1. PICK n \in Nat : n = Len(l) /\ n >= 3 /\ n <= Len(l)
      BY <1>1
    <3>2. Len(split_string(SubSeq(l, 1, n), SP)) >= 2
      BY <1>2, <3>1
    <3> QED
      BY <2>1, <3>1, <3>2
  <2>3. /\ got = l /\ WordLine(got)
        /\ Len(split_string(got, SP)) >= 2 /\ atoi(split_string(got, SP)[2]) = e
        /\ \E t \in Str : r = ToCome \o t /\ (whole => t = <<>>)
    BY <1>1, <1>3, <1>6, <2>2
  <2> QED
    BY <2>3 DEF StatusRead, l
<1>7. CASE ToCome = <<>> /\ ~whole /\ Len(got) < Len(l) /\ got = SubSeq(l, 1, Len(got))
  <2>1. ASSUME More, ~(Len(split_string(got, SP)) >= 2) PROVE Len(got) \in {1, 2} /\ got[1] = HTTP10
    <3>0. PICK n \in Nat : n = Len(got) /\ n < Len(l) /\ got = SubSeq(l, 1, n)
      BY <1>5, <1>7
    <3>1. ~(n >= 3)
      <4>1. n >= 3 => n <= Len(l) /\ n \in Nat
        BY <1>1, <3>0
      <4>2. n >= 3 => Len(split_string(got, SP)) >= 2
        BY <1>2, <3>0, <4>1
      <4> QED
        BY <2>1, <4>2
    <3>2. n # 0
      BY <1>5, <2>1, <3>0 DEF More
    <3>3. Len(got) \in {1, 2}
      <4>1. n \in {1, 2}
        BY ONLY <3>1, <3>2, n \in Nat
      <4> QED
        BY <3>0, <4>1
    <3>4. SubSeq(l, 1, Len(got))[1] = l[1]
      BY <1>1, <1>5, <1>7, <3>3, FirstPart
    <3> QED
      BY <1>1, <1>7, <3>3, <3>4
  <2> QED
    BY <1>7, <2>1 DEF StatusRead
<1> QED
  BY <1>4, <1>6, <1>7

\* Whatever the reply is, its first line is a status line.
LEMMA StatusAhead ==
    ASSUME WireInv, ask.op = "copy", Returned, pc = "status"
    PROVE  \/ \E e \in {400, 501} : \E r \in Str : StatusRead(e, r)
           \/ Arrived /\ StatusRead(200, Reply1(looked))
<1>1. ReplyAhead
  BY CopyAsked DEF CopyInv
<1>2. CASE Arrived /\ Cut(PlacesReply(looked))
  <2>1. PICK e \in Nat : e = 200 /\ e <= INT_MAX
    BY SMT DEF INT_MAX
  <2>2. PICK r \in Str : r = Reply1(looked) /\ PlacesReply(looked) = StatusLine(e) \o r
    BY <2>1, ReplyOf
  <2>3. Cut(StatusLine(e) \o r)
    BY <1>2, <2>2 DEF Cut
  <2>4. StatusRead(e, r)
    BY <2>1, <2>3, StatusTurn
  <2>5. StatusRead(200, Reply1(looked))
    BY <2>1, <2>2, <2>4 DEF StatusRead
  <2> QED
    BY <1>2, <2>5
<1>3. CASE \E e \in {400, 501} : Cut(clienterror(e))
  <2>1. PICK e \in {400, 501} : Cut(clienterror(e))
    BY <1>3
  <2>2. e \in Nat /\ e <= INT_MAX
    BY SMT DEF INT_MAX
  <2>3. PICK r \in Str : clienterror(e) = StatusLine(e) \o r
    BY <2>2, ErrorOf
  <2>4. Cut(StatusLine(e) \o r)
    BY <2>1, <2>3 DEF Cut
  <2>5. StatusRead(e, r)
    BY <2>2, <2>4, StatusTurn
  <2> QED
    BY <2>5
<1> QED
  BY <1>1, <1>2, <1>3 DEF ReplyAhead

LEMMA CopyStatus ==
    ASSUME WireInv, ask.op = "copy", Status
    PROVE  WireInv'
<1>1. /\ ask \in CopyAsk /\ CopyInv /\ ReaderInv /\ call = NoCall /\ ~open /\ whole \in BOOLEAN /\ pc = "status"
      /\ Returned /\ More
  BY CopyLines DEF Status, At
<1>2. /\ wire' = wire /\ open' = open /\ rio_buf' = rio_buf
      /\ whole' = whole /\ ask' = ask /\ request' = request /\ query' = query /\ looked' = looked
      /\ content_length' = content_length
  BY DEF Status
<1> DEFINE two == Len(split_string(got, SP)) >= 2
           number == atoi(split_string(got, SP)[2])
<1>3. PICK short \in BOOLEAN : /\ short <=> Len(split_string(got, SP)) < 2
                               /\ two => ~short
                               /\ short => ~two
  <2>1. Len(split_string(got, SP)) \in Nat
    <3>1. got \in Str
      BY CopyLines DEF Status, At
    <3>2. split_string(got, SP) \in Seq(Str)
      BY <3>1, PiecesType DEF split_string
    <3> QED
      BY <3>2
  <2>2. Len(split_string(got, SP)) < 2 <=> ~two
    BY ONLY <2>1
  <2>3. PICK short \in BOOLEAN : short <=> ~two
    <3> HIDE DEF two
    <3> QED
      BY Zenon
  <2> QED
    BY ONLY <2>2, <2>3, Zenon
<1>4. /\ pc' = IF short THEN "died" ELSE IF number # 200 THEN "refused" ELSE "fetch headers"
      /\ pc' = "fetch headers" => Call(ReadLine)
      /\ pc' # "fetch headers" => call' = call /\ got' = got
  BY <1>3 DEF Status
<1>5. /\ got \in Str
      /\ \/ \E e \in {400, 501} : \E r \in Str : StatusRead(e, r)
         \/ Arrived /\ StatusRead(200, Reply1(looked))
  BY <1>1, StatusAhead, CopyLines
<1>6. \/ two /\ number \in {400, 501}
      \/ two /\ number = 200 /\ Arrived /\ \E t \in Str : Reply1(looked) = ToCome \o t /\ (whole => t = <<>>)
      \/ ToCome = <<>> /\ ~whole /\ (~two => Len(got) \in {1, 2} /\ got[1] = HTTP10)
  BY <1>1, <1>5 DEF StatusRead
<1> HIDE DEF two, number
<1>7. CASE pc' = "fetch headers"
  <2>1. ReaderInv' /\ Ahead' = ToCome /\ InLine'
    BY <1>1, <1>2, <1>4, <1>7, CallLine
  <2>2. number = 200
    BY <1>4, <1>7
  <2>3. \/ ToCome = <<>> /\ ~whole
        \/ Arrived /\ \E t \in Str : Reply1(looked) = ToCome \o t /\ (whole => t = <<>>)
    BY <1>6, <2>2
  <2>4. Lost' \/ (Arrived' /\ HeadersAhead')
    <3>1. CASE ToCome = <<>> /\ ~whole
      BY <1>2, <2>1, <3>1 DEF Lost
    <3>2. CASE Arrived /\ \E t \in Str : Reply1(looked) = ToCome \o t /\ (whole => t = <<>>)
      <4>1. Cut(Reply1(looked))'
        BY <1>2, <2>1, <3>2 DEF Cut
      <4> QED
        BY <1>2, <3>2, <4>1 DEF Arrived, HeadersAhead
    <3> QED
      BY <2>3, <3>1, <3>2
  <2>5. CopyInv'
    BY <1>1, <1>2, <1>7, <2>1, <2>4 DEF CopyInv
  <2> QED
    BY <1>1, <1>2, <2>1, <2>5 DEF WireInv, CopyAsk
<1>8. CASE pc' # "fetch headers"
  <2>1. ReaderInv' /\ call' = NoCall /\ got' = got
    BY <1>1, <1>2, <1>4, <1>8 DEF ReaderInv
  <2>2. pc' \in {"died", "refused"}
    BY <1>3, <1>4, <1>8
  <2>3. pc' = "died" => ~whole /\ Len(got) \in {1, 2} /\ got[1] = HTTP10
    <3>1. pc' = "died" => ~two
      BY <1>3, <1>4
    <3> QED
      BY <1>6, <3>1
  <2>4. CopyInv'
    BY <1>1, <1>2, <2>1, <2>2, <2>3 DEF CopyInv, NoCall
  <2> QED
    BY <1>1, <1>2, <2>1, <2>4 DEF WireInv, CopyAsk
<1> QED
  BY <1>7, <1>8

\* What is read of the headers, and what is left.
HeaderRead(l, r) ==
    \/ got = l /\ \E t \in Str : r = ToCome \o t /\ (whole => t = <<>>)
    \/ ToCome = <<>> /\ ~whole

HeadersRead ==
    \/ ToCome = <<>> /\ ~whole
    \/ got = OtherLine /\ More /\ Arrived /\ \E t \in Str : Reply2(looked) = ToCome \o t /\ (whole => t = <<>>)
    \/ /\ got = LengthLine(Len(Body(looked))) /\ More /\ Arrived
       /\ \E t \in Str : Reply3(looked) = ToCome \o t /\ (whole => t = <<>>)
    \/ /\ got = OtherLine /\ More /\ Arrived /\ content_length = Len(Body(looked))
       /\ \E t \in Str : Reply4(looked) = ToCome \o t /\ (whole => t = <<>>)
    \/ /\ got = Blank /\ ~More /\ Arrived /\ content_length = Len(Body(looked))
       /\ \E t \in Str : Body(looked) = ToCome \o t /\ (whole => t = <<>>)

LEMMA HeaderTurn ==
    ASSUME WireInv, ask.op = "copy", Returned, pc = "fetch headers"
    PROVE  HeadersRead
<1>1. ReaderInv /\ got \in Str /\ ToCome \in Str /\ (Lost \/ (Arrived /\ HeadersAhead))
  BY CopyLines, CopyAsked DEF CopyInv
<1> DEFINE n == Len(Body(looked))
<1>2. /\ Reply2(looked) \in Str /\ Reply3(looked) \in Str /\ Reply4(looked) \in Str /\ Body(looked) \in Str
      /\ n \in Nat /\ n <= INT_MAX
  <2>1. n \in Nat /\ n < INT_MAX
    BY BodyOf
  <2>2. INT_MAX \in Nat
    BY ONLY SMT DEF INT_MAX
  <2> HIDE DEF n
  <2>3. n <= INT_MAX
    BY ONLY <2>1, <2>2
  <2> QED
    BY <2>1, <2>3, ReplyOf
<1>3. ASSUME NEW l, NEW r \in Str, Cut(l \o r), Ended1(l), Len(l) <= MAXLINE - 1
      PROVE  HeaderRead(l, r)
  BY <1>3, ReplyTurn DEF HeaderRead
<1>4. CASE Lost
  <2>1. Len(ToCome) = 0
    <3>1. Len(Ahead) = Len(got) + Len(ToCome) /\ Len(got) \in Nat /\ Len(ToCome) \in Nat
      BY <1>1, Cat, StrFacts DEF Ahead
    <3>2. Len(Ahead) = 0
      BY <1>4 DEF Lost
    <3> QED
      BY ONLY <3>1, <3>2
  <2>2. ToCome = <<>>
    BY <1>1, <2>1, StrFacts
  <2> QED
    BY <1>4, <2>2 DEF Lost, HeadersRead
<1>5. CASE Arrived /\ Cut(Reply1(looked))
  <2>1. HeaderRead(OtherLine, Reply2(looked))
    BY <1>2, <1>3, <1>5, OtherLineOf DEF Reply1, WordLine
  <2>2. got = OtherLine => More
    BY <1>1, OtherLineOf, WordMore
  <2> QED
    BY <1>5, <2>1, <2>2 DEF HeaderRead, HeadersRead
<1>6. CASE Arrived /\ Cut(Reply2(looked))
  <2> DEFINE l == LengthLine(n)
  <2>1. WordLine(l)
    BY <1>2, LengthCount
  <2>2. Cut(l \o Reply3(looked))
    BY <1>6 DEF Reply2
  <2> HIDE DEF l
  <2>3. HeaderRead(l, Reply3(looked))
    BY <1>2, <1>3, <2>1, <2>2 DEF WordLine
  <2>4. got = l => More
    BY <1>1, <2>1, WordMore
  <2>5. l = LengthLine(Len(Body(looked)))
    BY DEF l
  <2> QED
    BY <1>6, <2>3, <2>4, <2>5 DEF HeaderRead, HeadersRead
<1>7. CASE Arrived /\ content_length = Len(Body(looked)) /\ Cut(Reply3(looked))
  <2>1. HeaderRead(OtherLine, Reply4(looked))
    BY <1>2, <1>3, <1>7, OtherLineOf DEF Reply3, WordLine
  <2>2. got = OtherLine => More
    BY <1>1, OtherLineOf, WordMore
  <2> QED
    BY <1>7, <2>1, <2>2 DEF HeaderRead, HeadersRead
<1>8. CASE Arrived /\ content_length = Len(Body(looked)) /\ Cut(Reply4(looked))
  <2>1. HeaderRead(Blank, Body(looked))
    BY <1>2, <1>3, <1>8, BlankOf DEF Reply4
  <2>2. got = Blank => ~More
    BY BlankNotMore
  <2> QED
    BY <1>8, <2>1, <2>2 DEF HeaderRead, HeadersRead
<1> QED
  BY <1>1, <1>4, <1>5, <1>6, <1>7, <1>8 DEF HeadersAhead

\* What FetchHeader makes of a line, whole or not, has room in an int.
LengthRead == starts_with(<<W_length>>, got) => atoi(SubSeq(got, 4, Len(got))) \in 0..INT_MAX - 2

LEMMA OtherPart ==
    ASSUME NEW l \in Str, Len(l) >= 1, l[1] # W_length, NEW m \in Nat, m <= Len(l), got = SubSeq(l, 1, m)
    PROVE  LengthRead
<1>1. got \in Str /\ Len(got) = m /\ \A i \in 1..m : got[i] = l[i]
  BY FirstPart
<1>2. W_length \in Nat
  BY DEF W_length
<1>3. Len(got) >= 1 => got[1] # W_length
  BY <1>1
<1>4. ~starts_with(<< W_length >>, got)
  BY <1>1, <1>2, <1>3, StartsWith
<1> QED
  BY <1>4 DEF LengthRead

LEMMA LengthPart ==
    ASSUME NEW n \in Nat, n <= INT_MAX - 2, n <= INT_MAX, NEW m \in Nat, m <= Len(LengthLine(n)),
           got = SubSeq(LengthLine(n), 1, m)
    PROVE  LengthRead
<1> DEFINE L == LengthLine(n)
           d == to_string(n)
           k == Len(d)
           t == SubSeq(got, 4, Len(got))
<1>1. /\ L \in Str /\ Len(L) = k + 5 /\ k \in Nat /\ k >= 1
      /\ (\A i \in 1..k : L[3 + i] = d[i]) /\ L[k + 4] = CR
  BY LengthLineOf
<1>2. AllDigits(d) /\ Value(d) = n /\ d \in Str /\ (\A i \in 1..k : d[i] \in Digit) /\ CR \notin Digit
  BY ToStringOf DEF AllDigits, CR, Digit
<1>3. got \in Str /\ Len(got) = m /\ \A i \in 1..m : got[i] = L[i]
  BY <1>1, FirstPart
<1> HIDE DEF L, d
<1>4. ASSUME NEW v \in Nat, v <= n, atoi(t) = v PROVE LengthRead
  <2>1. INT_MAX \in Nat
    BY ONLY SMT DEF INT_MAX
  <2>2. v \in 0..INT_MAX - 2
    BY ONLY <1>4, <2>1, n \in Nat, n <= INT_MAX - 2
  <2> QED
    BY <1>4, <2>2 DEF LengthRead
<1>5. CASE m <= 3
  <2>1. t = <<>>
    <3>1. PICK i \in Int : i = 4 /\ m < i
      BY <1>5
    <3>2. m \in Int /\ SubSeq(got, i, m) = <<>>
      <4>1. m \in Int /\ m < i
        BY <3>1
      <4> QED
        BY ONLY <4>1, i \in Int, SubSeqEmpty
    <3> QED
      BY <1>3, <3>1, <3>2
  <2>2. <<>> \in Str /\ Len(<<>>) = 0 /\ SubSeq(<<>>, 1, 0) = <<>>
    <3>1. <<>> \in Str /\ Len(<<>>) = 0
      BY BlankAlone
    <3> QED
      BY <3>1, Whole
  <2>3. atoi(<<>>) = Value(<<>>)
    <3> DEFINE o == <<>>
               z == 0
    <3>1. o \in Str /\ Len(o) = z /\ z \in Nat /\ z <= Len(o) /\ ~(z < Len(o)) /\ 1..z = {} /\ SubSeq(o, 1, z) = o
      BY <2>2
    <3>2. o = <<>>
      OBVIOUS
    <3> HIDE DEF o, z
    <3>3. atoi(o) = Value(SubSeq(o, 1, z))
      BY <3>1, <3>2, AtoiOf
    <3> QED
      BY <3>1, <3>2, <3>3
  <2>4. atoi(t) = 0
    BY <2>1, <2>3, ValueEmpty
  <2> HIDE DEF t
  <2> QED
    BY <1>4, <2>4
<1>6. CASE ~(m <= 3)
  <2>1. PICK h \in Nat : h >= 1 /\ m = h + 3
    <3>1. m - 3 \in Nat /\ m - 3 >= 1 /\ m = (m - 3) + 3
      BY <1>6
    <3> QED
      BY <3>1
  <2>2. t \in Str /\ Len(t) = h /\ \A i \in 1..h : t[i] = got[i + 3]
    <3>1. t = Drop(got, 3)
      BY DEF Drop
    <3>2. 3 \in Nat /\ 3 <= Len(got) /\ Len(got) - 3 = h
      BY <1>3, <2>1
    <3>3. Drop(got, 3) \in Str /\ Len(Drop(got, 3)) = Len(got) - 3
          /\ \A i \in 1..Len(got) - 3 : Drop(got, 3)[i] = got[i + 3]
      BY <1>3, <3>2, DropOf
    <3> HIDE DEF t
    <3> QED
      BY <3>1, <3>2, <3>3
  <2> HIDE DEF t
  <2>3. ASSUME NEW i \in 1..h, i <= k PROVE t[i] = d[i]
    <3>1. i \in 1..k /\ i + 3 \in 1..m /\ i + 3 = 3 + i
      BY <1>1, <2>1, <2>3
    <3> QED
      BY <1>1, <1>3, <2>2, <3>1
  <2>4. PICK j \in Nat : j >= 1 /\ j <= k /\ j <= h /\ (j < h => j = k)
    <3>1. h <= k \/ ~(h <= k)
      OBVIOUS
    <3>2. CASE h <= k
      BY <2>1, <3>2
    <3>3. CASE ~(h <= k)
      BY <1>1, <2>1, <3>3
    <3> QED
      BY <3>1, <3>2, <3>3
  <2>5. SubSeq(t, 1, j) = SubSeq(d, 1, j)
    <3> DEFINE x == SubSeq(t, 1, j)
               y == SubSeq(d, 1, j)
    <3>1. x \in Str /\ Len(x) = j /\ \A i \in 1..j : x[i] = t[i]
      BY <2>2, <2>4, FirstPart
    <3>2. y \in Str /\ Len(y) = j /\ \A i \in 1..j : y[i] = d[i]
      BY <1>2, <2>4, FirstPart
    <3> HIDE DEF x, y
    <3>3. ASSUME NEW i \in 1..j PROVE x[i] = y[i]
      <4>1. i \in 1..h /\ i <= k
        BY <1>1, <2>1, <2>4
      <4> QED
        BY <2>3, <3>1, <3>2, <4>1
    <3>4. x = y
      BY <3>1, <3>2, <3>3, SameStr
    <3> QED
      BY <3>4 DEF x, y
  <2>6. ASSUME NEW i \in 1..j PROVE t[i] \in Digit
    <3>1. i \in 1..h /\ i <= k /\ i \in 1..k
      BY <1>1, <2>1, <2>4
    <3> QED
      BY <1>2, <2>3, <3>1
  <2>7. j < h => t[j + 1] \notin Digit
    <3>1. SUFFICES ASSUME j < h PROVE t[k + 1] = CR
      BY <1>2, <2>4
    <3>2. j = k /\ k + 1 \in 1..h /\ (k + 1) + 3 = k + 4 /\ k + 4 \in 1..m
      BY <1>1, <2>1, <2>4, <3>1
    <3> QED
      BY <1>1, <1>3, <2>2, <3>2
  <2>8. j <= Len(t) /\ j # 0 /\ (j < Len(t) => t[j + 1] \notin Digit)
    BY <2>2, <2>4, <2>7
  <2>9. atoi(t) = Value(SubSeq(t, 1, j))
    BY <2>2, <2>6, <2>8, AtoiOf
  <2>10. Value(SubSeq(d, 1, j)) \in Nat /\ Value(SubSeq(d, 1, j)) <= Value(d)
    BY <1>2, <2>4, ValuePrefix
  <2>11. atoi(t) \in Nat /\ atoi(t) <= n
    BY <1>2, <2>5, <2>9, <2>10
  <2> QED
    BY <1>4, <2>11
<1> QED
  BY <1>5, <1>6

LEMMA LengthTurn ==
    ASSUME WireInv, ask.op = "copy", Returned, pc = "fetch headers"
    PROVE  LengthRead
<1>1. ReaderInv /\ got \in Str /\ ToCome \in Str /\ (Lost \/ (Arrived /\ HeadersAhead))
  BY CopyLines, CopyAsked DEF CopyInv
<1> DEFINE n == Len(Body(looked))
<1>2. /\ Reply2(looked) \in Str /\ Reply3(looked) \in Str /\ Reply4(looked) \in Str /\ Body(looked) \in Str
      /\ n \in Nat /\ n <= INT_MAX /\ n <= INT_MAX - 2
  <2>1. n \in Nat /\ n < INT_MAX /\ n <= INT_MAX - 2
    BY BodyOf
  <2>2. INT_MAX \in Nat
    BY ONLY SMT DEF INT_MAX
  <2> HIDE DEF n
  <2>3. n <= INT_MAX
    BY ONLY <2>1, <2>2
  <2> QED
    BY <2>1, <2>3, ReplyOf
<1> HIDE DEF n
<1>3. ASSUME NEW l \in Str, NEW r \in Str, Cut(l \o r), Ended1(l), Len(l) <= MAXLINE - 1
      PROVE  \E m \in Nat : m <= Len(l) /\ got = SubSeq(l, 1, m)
  <2>1. got = l \/ (Len(got) < Len(l) /\ got = SubSeq(l, 1, Len(got)))
    BY <1>3, ReplyTurn
  <2>2. Len(l) \in Nat /\ Len(got) \in Nat /\ SubSeq(l, 1, Len(l)) = l
    BY <1>1, StrFacts, Whole
  <2>3. CASE got = l
    <3>1. Len(l) <= Len(l)
      BY ONLY <2>2
    <3> QED
      BY <2>2, <2>3, <3>1, Zenon
  <2>4. CASE Len(got) < Len(l) /\ got = SubSeq(l, 1, Len(got))
    <3>1. Len(got) <= Len(l)
      BY ONLY <2>2, <2>4
    <3> QED
      BY <2>2, <2>4, <3>1, Zenon
  <2> QED
    BY <2>1, <2>3, <2>4
<1>4. CASE Lost
  <2>1. Len(got) = 0
    <3>1. Len(Ahead) = Len(got) + Len(ToCome) /\ Len(got) \in Nat /\ Len(ToCome) \in Nat
      BY <1>1, Cat, StrFacts DEF Ahead
    <3>2. Len(Ahead) = 0
      BY <1>4 DEF Lost
    <3> QED
      BY ONLY <3>1, <3>2
  <2>2. W_length \in Nat
    BY DEF W_length
  <2>3. ~starts_with(<< W_length >>, got)
    <3>1. ~(Len(got) >= 1)
      BY ONLY <2>1
    <3>2. got \in Str
      BY <1>1
    <3>3. starts_with(<< W_length >>, got) <=> Len(got) >= 1 /\ got[1] = W_length
      BY <2>2, <3>2, StartsWith
    <3> QED
      BY <3>1, <3>3, Zenon
  <2> QED
    BY <2>3 DEF LengthRead
<1>5. ASSUME NEW r \in Str, Cut(OtherLine \o r) PROVE LengthRead
  <2>1. OtherLine \in Str /\ Ended1(OtherLine) /\ Len(OtherLine) <= MAXLINE - 1 /\ Len(OtherLine) >= 1
    BY OtherLineOf DEF WordLine, Ended1
  <2>2. OtherLine[1] # W_length
    <3>1. W_length \in Nat /\ ~starts_with(<< W_length >>, OtherLine)
      BY OtherLineOf DEF W_length
    <3> QED
      BY <2>1, <3>1, StartsWith
  <2>3. PICK m \in Nat : m <= Len(OtherLine) /\ got = SubSeq(OtherLine, 1, m)
    BY <1>3, <1>5, <2>1
  <2> QED
    BY <2>1, <2>2, <2>3, OtherPart
<1>6. CASE Cut(Reply2(looked))
  <2> DEFINE l == LengthLine(n)
  <2>1. l \in Str /\ Ended1(l) /\ Len(l) <= MAXLINE - 1
    BY <1>2, LengthLineOf
  <2>2. Cut(l \o Reply3(looked))
    BY <1>6 DEF Reply2, n
  <2>3. PICK m \in Nat : m <= Len(l) /\ got = SubSeq(l, 1, m)
    <3> HIDE DEF l
    <3> QED
      BY <1>2, <1>3, <2>1, <2>2
  <2> QED
    BY <1>2, <2>3, LengthPart
<1>7. CASE Cut(Reply4(looked))
  <2>1. PICK m \in Nat : m <= Len(Blank) /\ got = SubSeq(Blank, 1, m)
    BY <1>2, <1>3, <1>7, BlankOf DEF Reply4
  <2>2. Blank \in Str /\ Len(Blank) >= 1 /\ Blank[1] # W_length
    <3>1. Blank \in Str /\ Len(Blank) = 2 /\ Blank[1] = CR
      BY BlankOf, Zenon
    <3>2. Len(Blank) >= 1
      BY ONLY <3>1
    <3>3. CR # W_length
      BY ONLY TRUE DEF CR, W_length
    <3> QED
      BY <3>1, <3>2, <3>3, Zenon
  <2> QED
    BY <2>1, <2>2, OtherPart
<1>8. Cut(Reply1(looked)) => Cut(OtherLine \o Reply2(looked))
  BY DEF Reply1
<1>9. Cut(Reply3(looked)) => Cut(OtherLine \o Reply4(looked))
  BY DEF Reply3
<1> QED
  BY <1>1, <1>2, <1>4, <1>5, <1>6, <1>7, <1>8, <1>9 DEF HeadersAhead

LEMMA CopyFetchHeader ==
    ASSUME WireInv, ask.op = "copy", FetchHeader
    PROVE  WireInv'
<1>1. /\ ask \in CopyAsk /\ CopyInv /\ ReaderInv /\ call = NoCall /\ ~open /\ whole \in BOOLEAN /\ pc = "fetch headers"
      /\ Returned /\ More /\ got \in Str /\ content_length \in Nat
  BY CopyLines DEF FetchHeader, At, WireInv
<1>2. /\ wire' = wire /\ open' = open /\ rio_buf' = rio_buf /\ Call(ReadLine) /\ pc' = pc
      /\ whole' = whole /\ ask' = ask /\ request' = request /\ query' = query /\ looked' = looked
      /\ content_length' = IF starts_with(<<W_length>>, got)
                           THEN atoi(SubSeq(got, 4, Len(got))) ELSE content_length
  BY DEF FetchHeader
<1>3. ReaderInv' /\ Ahead' = ToCome /\ InLine'
  BY <1>1, <1>2, CallLine
<1>4. content_length' \in Nat /\ content_length' <= INT_MAX - 2
  <2>1. starts_with(<<W_length>>, got) => atoi(SubSeq(got, 4, Len(got))) \in 0..INT_MAX - 2
    BY <1>1, LengthTurn DEF LengthRead
  <2>2. INT_MAX \in Nat
    BY ONLY SMT DEF INT_MAX
  <2>3. \A v \in 0..INT_MAX - 2 : v \in Nat /\ v <= INT_MAX - 2
    BY ONLY <2>2
  <2>4. content_length <= INT_MAX - 2
    BY <1>1 DEF CopyInv
  <2>5. CASE starts_with(<<W_length>>, got)
    BY <1>2, <2>1, <2>3, <2>5
  <2>6. CASE ~starts_with(<<W_length>>, got)
    BY <1>1, <1>2, <2>4, <2>6
  <2> QED
    BY <2>5, <2>6
<1>5. HeadersRead
  BY <1>1, HeaderTurn
<1>6. Lost' \/ (Arrived' /\ HeadersAhead')
  <2>1. CASE ToCome = <<>> /\ ~whole
    BY <1>2, <1>3, <2>1 DEF Lost
  <2>2. CASE got = OtherLine /\ More /\ Arrived /\ \E t \in Str : Reply2(looked) = ToCome \o t /\ (whole => t = <<>>)
    <3>1. Cut(Reply2(looked))'
      BY <1>2, <1>3, <2>2 DEF Cut
    <3> QED
      BY <1>2, <2>2, <3>1 DEF Arrived, HeadersAhead
  <2>3. CASE /\ got = LengthLine(Len(Body(looked))) /\ More /\ Arrived
             /\ \E t \in Str : Reply3(looked) = ToCome \o t /\ (whole => t = <<>>)
    <3>1. Cut(Reply3(looked))'
      BY <1>2, <1>3, <2>3 DEF Cut
    <3>2. content_length' = Len(Body(looked))
      <4>1. PICK n \in Nat : n = Len(Body(looked)) /\ n <= INT_MAX
        <5>1. INT_MAX \in Nat
          BY SMT DEF INT_MAX
        <5>2. Len(Body(looked)) \in Nat /\ Len(Body(looked)) < INT_MAX
          BY BodyOf
        <5> QED
          BY <5>1, <5>2
      <4>2. starts_with(<< W_length >>, LengthLine(n)) /\ atoi(SubSeq(LengthLine(n), 4, Len(LengthLine(n)))) = n
        BY <4>1, LengthCount
      <4> QED
        BY <1>2, <2>3, <4>1, <4>2
    <3> QED
      BY <1>2, <2>3, <3>1, <3>2 DEF Arrived, HeadersAhead
  <2>4. CASE /\ got = OtherLine /\ More /\ Arrived /\ content_length = Len(Body(looked))
             /\ \E t \in Str : Reply4(looked) = ToCome \o t /\ (whole => t = <<>>)
    <3>1. Cut(Reply4(looked))'
      BY <1>2, <1>3, <2>4 DEF Cut
    <3>2. content_length' = content_length
      BY <1>2, <2>4, OtherLineOf
    <3> QED
      BY <1>2, <2>4, <3>1, <3>2 DEF Arrived, HeadersAhead
  <2> QED
    BY <1>1, <1>5, <2>1, <2>2, <2>3, <2>4 DEF HeadersRead
<1>7. CopyInv'
  BY <1>1, <1>2, <1>3, <1>4, <1>6 DEF CopyInv
<1> QED
  BY <1>1, <1>2, <1>3, <1>4, <1>7 DEF WireInv, CopyAsk

\* The empty line, or the end of a reply that broke off.
LEMMA EndTurn ==
    ASSUME WireInv, ask.op = "copy", FetchBody
    PROVE  \/ ToCome = <<>> /\ ~whole
           \/ /\ Arrived /\ content_length = Len(Body(looked))
              /\ \E t \in Str : Body(looked) = ToCome \o t /\ (whole => t = <<>>)
<1>1. Returned /\ pc \in {"status", "fetch headers"} /\ ~More /\ got \in Str
  BY CopyLines DEF FetchBody, At
<1>2. CASE pc = "status"
  <2>1. ~WordLine(got)
    BY <1>1, WordMore
  <2> QED
    BY <1>1, <1>2, <2>1, StatusAhead DEF StatusRead
<1>3. CASE pc = "fetch headers"
  BY <1>1, <1>3, HeaderTurn DEF HeadersRead
<1> QED
  BY <1>1, <1>2, <1>3

LEMMA CopyFetchBody ==
    ASSUME WireInv, ask.op = "copy", FetchBody
    PROVE  WireInv'
<1>1. /\ ask \in CopyAsk /\ CopyInv /\ ReaderInv /\ ~open /\ whole \in BOOLEAN /\ ToCome \in Str
      /\ content_length \in Nat
  BY CopyLines DEF FetchBody, At, WireInv
<1>3. PICK n \in Nat : n = content_length + 1 /\ n > 0
  BY <1>1
<1>9. pc' = "body" /\ Call(ReadBytes(n))
  <2>1. content_length <= INT_MAX - 2
    BY <1>1 DEF CopyInv
  <2>2. content_length \in Int /\ 0 <= content_length
    BY <1>1
  <2>3. content_length \in -1..INT_MAX - 2 /\ content_length \in -2..INT_MAX - 2 /\ content_length # -2
    BY <2>1, <2>2, Bounds, MaxInt, Zenon
  <2> QED
    BY <1>3, <2>3 DEF FetchBody
<1>2. /\ wire' = wire /\ open' = open /\ rio_buf' = rio_buf /\ pc' = "body"
      /\ whole' = whole /\ ask' = ask /\ request' = request /\ query' = query /\ looked' = looked
      /\ content_length' = content_length
  BY <1>9 DEF FetchBody
<1>4. ReaderInv' /\ Ahead' = ToCome /\ call'.op = "bytes" /\ call'.n = n
  BY <1>1, <1>2, <1>3, <1>9, CallBytes
<1>5. CASE ToCome = <<>> /\ ~whole
  <2>1. Lost' /\ Len(Ahead') = 0
    BY <1>2, <1>4, <1>5 DEF Lost
  <2>2. Len(Ahead') < call'.n
    BY <1>3, <1>4, <2>1
  <2>3. CopyInv'
    BY <1>1, <1>2, <1>4, <2>1, <2>2 DEF CopyInv
  <2> QED
    BY <1>1, <1>2, <1>4, <2>3 DEF WireInv, CopyAsk
<1>6. CASE /\ Arrived /\ content_length = Len(Body(looked))
           /\ \E t \in Str : Body(looked) = ToCome \o t /\ (whole => t = <<>>)
  <2>1. PICK t \in Str : Body(looked) = ToCome \o t /\ (whole => t = <<>>)
    BY <1>6
  <2>2. Len(ToCome) <= content_length /\ Len(ToCome) \in Nat
    <3>1. Len(ToCome \o t) = Len(ToCome) + Len(t) /\ Len(ToCome) \in Nat /\ Len(t) \in Nat
      BY <1>1, Cat, StrFacts
    <3> QED
      BY <1>6, <2>1, <3>1
  <2>3. Len(Ahead') < call'.n
    BY <1>1, <1>3, <1>4, <2>2
  <2>4. Cut(Body(looked))' /\ Arrived'
    BY <1>2, <1>4, <1>6, <2>1 DEF Cut, Arrived
  <2>5. CopyInv'
    BY <1>1, <1>2, <1>4, <2>3, <2>4 DEF CopyInv
  <2> QED
    BY <1>1, <1>2, <1>4, <2>5 DEF WireInv, CopyAsk
<1> QED
  BY <1>5, <1>6, EndTurn

LEMMA CopyImport ==
    ASSUME WireInv, ask.op = "copy", Import
    PROVE  WireInv'
<1>1. /\ ask \in CopyAsk /\ CopyInv /\ ReaderInv /\ ~open /\ call = NoCall /\ rio_buf = <<>> /\ wire = <<>>
      /\ (Lost \/ (Arrived /\ Cut(Body(looked)))) /\ got \in Str
  <2>1. ask \in CopyAsk /\ CopyInv /\ ReaderInv /\ call = NoCall /\ call.op # "bytes" /\ got \in Str /\ pc = "body"
    BY CopyAsked, Idle, AheadOf DEF Import, At, NoCall
  <2> QED
    BY <2>1 DEF CopyInv
<1>2. Ahead = got
  <2>1. <<>> \o <<>> = <<>>
    OBVIOUS
  <2>2. got \o <<>> = got
    BY <1>1, CatEmpty
  <2> QED
    BY <1>1, <2>1, <2>2 DEF Ahead, ToCome
<1>3. /\ wire' = wire /\ open' = open /\ rio_buf' = rio_buf /\ call' = call /\ got' = got /\ pc' = "imported"
      /\ whole' = whole /\ ask' = ask /\ request' = request /\ query' = query /\ looked' = looked
      /\ content_length' = content_length /\ list' = split_string(CString(got), LF)
  BY DEF Import, rio
<1>4. ReaderInv'
  BY <1>1, <1>3 DEF ReaderInv
<1>5. /\ CutNames(list', KnownOf(looked))
      /\ whole => list' = KnownOf(looked) /\ Arrived
  <2>1. CASE Lost
    <3>1. CString(<<>>) = <<>>
      <4>1. <<>> \in Str
        BY BlankAlone
      <4>2. Len(CString(<<>>)) <= Len(<<>>) /\ CString(<<>>) \in Str
        BY <4>1, CStringOf
      <4>3. Len(CString(<<>>)) = 0
        BY <4>2, StrFacts
      <4> QED
        BY <4>2, <4>3, StrFacts
    <3>2. list' = <<>>
      BY <1>2, <1>3, <2>1, <3>1, PiecesEmpty DEF Lost, split_string
    <3> QED
      BY <2>1, <3>2 DEF Lost, CutNames
  <2>2. CASE Arrived /\ Cut(Body(looked))
    <3>1. PICK t \in Str : Body(looked) = got \o t /\ (whole => t = <<>>)
      BY <1>2, <2>2 DEF Cut
    <3>2. /\ CutNames(split_string(CString(got), LF), KnownOf(looked))
          /\ t = <<>> => split_string(CString(got), LF) = KnownOf(looked)
      BY <1>1, <3>1, BodyCut
    <3> QED
      BY <1>3, <2>2, <3>1, <3>2
  <2> QED
    BY <1>1, <2>1, <2>2
<1>6. CopyInv'
  <2>1. CutNames(list, KnownOf(looked))'
    BY <1>3, <1>5 DEF CutNames, KnownOf
  <2>2. whole' => list' = KnownOf(looked)' /\ Arrived'
    BY <1>3, <1>5 DEF Arrived
  <2> QED
    BY <1>1, <1>3, <2>1, <2>2 DEF CopyInv, NoCall
<1> QED
  BY <1>1, <1>3, <1>4, <1>6 DEF WireInv, CopyAsk

LEMMA CopyHandler ==
    ASSUME WireInv, ask.op = "copy", Handler
    PROVE  WireInv'
<1>1. ~HeaderLine
  BY CopyHeader DEF HeaderLine, Blank
<1>2. ~ServePin
  BY CopyServe DEF ServePin
<1>3. ~PostData
  BY CopyAsked DEF CopyInv, PostData, At
<1> QED
  BY <1>1, <1>2, <1>3, CopyRefuse, CopyRequestLine, CopyEndOfHeaders, CopyServed, CopyStatus, CopyFetchHeader,
     CopyFetchBody, CopyImport DEF Handler

LEMMA CopyReader ==
    ASSUME WireInv, ask.op = "copy", Reader
    PROVE  WireInv'
<1>1. ask \in CopyAsk /\ CopyInv /\ ReaderInv /\ RioStep
  BY CopyAsked DEF Reader
<1>2. /\ ask' = ask /\ pc' = pc /\ request' = request /\ headers' = headers /\ query' = query
      /\ content_length' = content_length /\ whole' = whole /\ list' = list /\ looked' = looked
  BY DEF Reader
<1>3. ReaderInv' /\ Ahead' = Ahead /\ open' = open /\ (InLine => InLine')
  BY <1>1, ReadKeeps
<1>4. call # NoCall
  BY <1>1 DEF RioStep, Read, Take, EndOfFile, Busy, NoCall
<1>5. /\ ReplyAhead => ReplyAhead'
      /\ HeadersAhead => HeadersAhead'
      /\ Lost => Lost'
      /\ Arrived => Arrived'
      /\ Cut(Body(looked)) => Cut(Body(looked))'
  <2>1. Arrived => Arrived'
    BY <1>2 DEF Arrived
  <2>2. ASSUME NEW r, Cut(r) PROVE Cut(r)'
    BY <1>2, <1>3, <2>2 DEF Cut
  <2>3. ReplyAhead => ReplyAhead'
    <3>1. ASSUME NEW e \in {400, 501}, Cut(clienterror(e)) PROVE Cut(clienterror(e))'
      BY <1>2, <1>3, <3>1 DEF Cut
    <3>2. Cut(PlacesReply(looked)) => Cut(PlacesReply(looked))'
      BY <1>2, <1>3 DEF Cut
    <3> QED
      BY <2>1, <3>1, <3>2 DEF ReplyAhead
  <2>4. HeadersAhead => HeadersAhead'
    BY <1>2, <1>3 DEF HeadersAhead, Cut
  <2>5. Cut(Body(looked)) => Cut(Body(looked))'
    BY <1>2, <1>3 DEF Cut
  <2>6. Lost => Lost'
    BY <1>2, <1>3 DEF Lost
  <2> QED
    BY <2>1, <2>3, <2>4, <2>5, <2>6
<1>6. pc = "body" => \/ call'.op = "bytes" /\ Len(Ahead') < call'.n
                     \/ call' = NoCall /\ rio_buf' = <<>> /\ wire' = <<>>
  <2>1. SUFFICES ASSUME pc = "body"
                 PROVE  \/ call'.op = "bytes" /\ Len(Ahead') < call'.n
                        \/ call' = NoCall /\ rio_buf' = <<>> /\ wire' = <<>>
    OBVIOUS
  <2>2. call.op = "bytes" /\ Len(Ahead) < call.n /\ call.n \in Nat
    BY <1>1, <1>4, <2>1 DEF CopyInv, ReaderInv
  <2>3. CASE call' = call
    BY <1>3, <2>2, <2>3
  <2>4. CASE Take /\ call' # call
    <3>1. Len(got') = call.n
      <4>1. Enough(got')
        BY <2>4 DEF Take
      <4> QED
        BY <2>2, <4>1 DEF Enough
    <3>2. Len(Ahead') >= Len(got') /\ Len(got') \in Nat /\ Len(Ahead') \in Nat
      <4>1. got' \in Str /\ rio_buf' \in Str /\ wire' \in Str
        BY <1>3 DEF ReaderInv
      <4>2. rio_buf' \o wire' \in Str
        BY <4>1, Cat
      <4>3. Len(got' \o (rio_buf' \o wire')) = Len(got') + Len(rio_buf' \o wire')
            /\ Len(got') \in Nat /\ Len(rio_buf' \o wire') \in Nat
        BY <4>1, <4>2, Cat, StrFacts
      <4>4. Ahead' = got' \o (rio_buf' \o wire')
        BY DEF Ahead, ToCome
      <4> QED
        BY <4>3, <4>4
    <3>3. Len(Ahead') < call.n
      BY <1>3, <2>2
    <3> QED
      BY <2>2, <3>1, <3>2, <3>3
  <2>5. CASE EndOfFile
    BY <2>5 DEF EndOfFile
  <2>6. Read => call' = call
    BY DEF Read
  <2> QED
    BY <1>1, <2>3, <2>4, <2>5, <2>6 DEF RioStep
<1>7. CopyInv'
  BY <1>1, <1>2, <1>3, <1>4, <1>5, <1>6 DEF CopyInv
<1> QED
  BY <1>1, <1>2, <1>3, <1>7 DEF WireInv, CopyAsk

-----------------------------------------------------------------------------
(* The invariant holds at the start and is kept.                             *)

LEMMA WireInit ==
    ASSUME Init, ask.op \in {"pin", "copy"}
    PROVE  WireInv
<1>1. /\ ask \in Ask /\ open = TRUE /\ rio_buf = <<>> /\ got = <<>> /\ call = ReadLine /\ pc = "request line"
      /\ request = <<>> /\ headers = <<>> /\ query = <<>> /\ content_length = MAXLINE /\ whole = TRUE /\ list = <<>>
      /\ wire = IF ask.op = "pin" THEN ClientRequest(ask) ELSE CopyRequest(ask)
  <2>1. CASE ask.op = "pin"
    BY <2>1 DEF Init, Sent
  <2>2. CASE ask.op = "copy"
    BY <2>2 DEF Init, Sent
  <2> QED
    BY <2>1, <2>2
<1>2. ask.op \in {"pin", "copy"}
  OBVIOUS
<1>3. wire \in Str
  <2>1. CASE ask.op = "pin"
    BY <1>1, <2>1, FitsOf DEF PinAsk
  <2>2. CASE ask.op = "copy"
    <3>1. CopyRequest(ask) = CopyLine(ask.name) \o Blank /\ CopyLine(ask.name) \in Str
      BY <1>1, <2>2, CopyRequestOf DEF CopyAsk
    <3> QED
      BY <1>1, <2>2, <3>1, BlankOf, Cat
  <2> QED
    BY <1>2, <2>1, <2>2
<1>4. Ahead = wire
  <2>1. <<>> \o wire = wire /\ <<>> \o (<<>> \o wire) = wire
    BY <1>3, CatEmpty
  <2> QED
    BY <1>1, <2>1 DEF Ahead, ToCome
<1>5. <<>> \in Str /\ Len(<<>>) = 0 /\ MAXLINE \in Nat /\ MAXLINE >= 20 /\ RIO_BUFSIZE \in Nat
  BY BlankAlone, RioAssumption
<1>6. ReaderInv
  <2>1. ReadLine.op = "line" /\ ReadLine \in [op : {"none", "line", "bytes"}, n : Nat]
    BY <1>5 DEF ReadLine
  <2>2. Len(got) < MAXLINE - 1 /\ \A i \in 1..Len(got) : got[i] # LF
    <3>1. Len(got) = 0
      BY <1>1
    <3> QED
      BY <1>5, <3>1
  <2>3. rio_buf \in Str /\ got \in Str /\ open \in BOOLEAN
    BY <1>1, <1>5
  <2>4. Len(rio_buf) <= RIO_BUFSIZE
    <3>1. Len(rio_buf) = 0
      BY <1>1
    <3> QED
      BY <1>5, <3>1
  <2>5. call \in [op : {"none", "line", "bytes"}, n : Nat] /\ call.op = "line" /\ call = ReadLine
    BY <1>1, <2>1
  <2> QED
    BY <1>3, <2>2, <2>3, <2>4, <2>5 DEF ReaderInv
<1>7. InLine
  BY <1>1 DEF InLine
<1>8. ask.op = "pin" => PinInv
  BY <1>1, <1>4, <1>7 DEF PinInv
<1>9. ask.op = "copy" => CopyInv
  <2>1. content_length <= INT_MAX - 2
    <3>1. MAXLINE \in Int
      BY RioAssumption
    <3>2. MAXLINE < INT_MAX - 1
      BY LengthAssumption
    <3>3. MAXLINE <= INT_MAX - 2
      BY <3>1, <3>2, Bounds, MaxInt, Zenon
    <3> QED
      BY <1>1, <3>3
  <2> QED
    BY <1>1, <1>4, <1>7, <2>1 DEF CopyInv
<1>10. query \in Dict
  BY <1>1, DictEmpty
<1>11. Len(request) = 0
  BY <1>1
<1> QED
  BY <1>1, <1>2, <1>5, <1>6, <1>8, <1>9, <1>10, <1>11 DEF WireInv

LEMMA WireStutter ==
    ASSUME WireInv, UNCHANGED vars
    PROVE  WireInv'
<1>1. /\ wire' = wire /\ open' = open /\ rio_buf' = rio_buf /\ call' = call /\ got' = got
      /\ ask' = ask /\ pc' = pc /\ request' = request /\ headers' = headers /\ query' = query /\ looked' = looked
      /\ content_length' = content_length /\ whole' = whole /\ list' = list
  BY DEF vars, rio
<1>2. ReaderInv'
  BY <1>1 DEF WireInv, ReaderInv
<1>3. Ahead' = Ahead /\ ToCome' = ToCome
  BY <1>1 DEF Ahead, ToCome
<1>4. InLine => InLine'
  BY <1>1, <1>3 DEF InLine, ReadLine, NoCall
<1>5. PinHeaders => PinHeaders'
  BY <1>1, <1>3 DEF PinHeaders
<1>6. InBytes(Len(Form(ask))) => InBytes(Len(Form(ask)))'
  BY <1>1 DEF InBytes, NoCall
<1>7. PinInv => PinInv'
  BY <1>1, <1>3, <1>4, <1>5, <1>6 DEF PinInv, NoCall
<1>8. /\ ReplyAhead => ReplyAhead'
      /\ HeadersAhead => HeadersAhead'
      /\ Lost => Lost'
      /\ Arrived => Arrived'
      /\ Cut(Body(looked)) => Cut(Body(looked))'
  <2>1. Arrived => Arrived'
    BY <1>1 DEF Arrived
  <2>2. ReplyAhead => ReplyAhead'
    <3>1. ASSUME NEW e \in {400, 501}, Cut(clienterror(e)) PROVE Cut(clienterror(e))'
      BY <1>1, <1>3, <3>1 DEF Cut
    <3>2. Cut(PlacesReply(looked)) => Cut(PlacesReply(looked))'
      BY <1>1, <1>3 DEF Cut
    <3> QED
      BY <2>1, <3>1, <3>2 DEF ReplyAhead
  <2>3. HeadersAhead => HeadersAhead'
    BY <1>1, <1>3 DEF HeadersAhead, Cut
  <2>4. Cut(Body(looked)) => Cut(Body(looked))'
    BY <1>1, <1>3 DEF Cut
  <2>5. Lost => Lost'
    BY <1>1, <1>3 DEF Lost
  <2> QED
    BY <2>1, <2>2, <2>3, <2>4, <2>5
<1>9. CopyInv => CopyInv'
  BY <1>1, <1>3, <1>4, <1>8 DEF CopyInv, NoCall
<1> QED
  BY <1>1, <1>2, <1>7, <1>9 DEF WireInv

LEMMA WireStep ==
    ASSUME WireInv, [Next]_vars
    PROVE  WireInv'
<1>1. ask.op \in {"pin", "copy"}
  BY DEF WireInv
<1>2. CASE Handler
  BY <1>1, <1>2, PinHandler, CopyHandler
<1>3. CASE Reader
  BY <1>1, <1>3, PinReader, CopyReader
<1>4. CASE UNCHANGED vars
  BY <1>4, WireStutter
<1> QED
  BY <1>2, <1>3, <1>4 DEF Next, Terminated

-----------------------------------------------------------------------------
(* Requests that claim any length, and replies of any server.                *)

LooseInv ==
    /\ ReaderInv
    /\ ask \in Ask /\ ask.op \in {"claim", "foreign"} /\ open = FALSE /\ whole \in BOOLEAN
    /\ headers \in Dict /\ query \in Dict /\ content_length \in Int /\ Len(request) \in {0, 3}
    /\ pc = "headers" => request[2] \in Str

LEMMA LooseStart ==
    ASSUME wire \in Str, ask \in Ask, ask.op \in {"claim", "foreign"}, open = FALSE, rio_buf = <<>>, got = <<>>,
           call = ReadLine, pc # "headers", request = <<>>, headers = <<>>, query = <<>>,
           content_length = MAXLINE, whole = TRUE
    PROVE  LooseInv
<1>1. <<>> \in Str /\ Len(<<>>) = 0 /\ MAXLINE \in Nat /\ MAXLINE >= 20 /\ RIO_BUFSIZE \in Nat
  BY BlankAlone, RioAssumption
<1>2. ReadLine.op = "line" /\ ReadLine \in [op : {"none", "line", "bytes"}, n : Nat]
  BY <1>1 DEF ReadLine
<1>3. Len(got) < MAXLINE - 1 /\ \A i \in 1..Len(got) : got[i] # LF
  <2>1. Len(got) = 0
    BY <1>1
  <2> QED
    BY <1>1, <2>1
<1>4. Len(rio_buf) <= RIO_BUFSIZE
  <2>1. Len(rio_buf) = 0
    BY <1>1
  <2> QED
    BY <1>1, <2>1
<1>5. rio_buf \in Str /\ got \in Str /\ open \in BOOLEAN /\ call.op = "line" /\ call = ReadLine
      /\ call \in [op : {"none", "line", "bytes"}, n : Nat]
  BY <1>1, <1>2
<1>6. ReaderInv
  BY <1>3, <1>4, <1>5 DEF ReaderInv
<1>7. headers \in Dict /\ query \in Dict
  BY DictEmpty
<1>8. content_length \in Int /\ Len(request) = 0
  BY <1>1
<1> QED
  BY <1>6, <1>7, <1>8 DEF LooseInv

LEMMA LooseInit ==
    ASSUME Init, ask.op \notin {"pin", "copy"}
    PROVE  LooseInv
<1>1. ask \in Ask /\ ask.op \in {"claim", "foreign"}
  BY WireAssumption DEF Init, AskType
<1>2. ask.length \in Str /\ ask.data \in Str /\ (ask.op = "foreign" => ask.status \in Str)
  <2>1. ask \in AskType
    BY <1>1, WireAssumption
  <2>2. \/ ask \in [op : {"claim"}, length : Text, data : Name, typed : BOOLEAN]
        \/ ask \in [op : {"foreign"}, status : Text, length : Text, data : Name]
    BY <1>1, <2>1 DEF AskType
  <2>3. Text \subseteq Str /\ Name \subseteq Str
    <3>1. ASSUME NEW S \in SUBSET Nat, NEW x \in Seq(S) PROVE x \in Seq(Nat)
      <4>1. ASSUME NEW i \in 1..Len(x) PROVE x[i] \in Nat
        <5>1. x[i] \in S
          BY ElementOfSeq
        <5> QED
          BY <5>1
      <4>2. Len(x) \in Nat /\ DOMAIN x = 1..Len(x) /\ x = [i \in 1..Len(x) |-> x[i]]
        BY LenProperties
      <4> QED
        BY ONLY <4>1, <4>2
    <3>2. 1..255 \in SUBSET Nat /\ 1..255 \ {LF} \in SUBSET Nat
      OBVIOUS
    <3> QED
      BY <3>1, <3>2 DEF Text, Name, Str
  <2> HIDE DEF Text, Name
  <2>4. CASE ask \in [op : {"claim"}, length : Text, data : Name, typed : BOOLEAN]
    BY <2>3, <2>4
  <2>5. CASE ask \in [op : {"foreign"}, status : Text, length : Text, data : Name]
    BY <2>3, <2>5
  <2> QED
    BY <2>2, <2>4, <2>5
<1>3. /\ open = FALSE /\ rio_buf = <<>> /\ got = <<>> /\ call = ReadLine /\ pc # "headers"
      /\ request = <<>> /\ headers = <<>> /\ query = <<>> /\ content_length = MAXLINE /\ whole = TRUE
      /\ wire = Sent(ask)
  <2>1. open = (ask.op \in {"pin", "copy"}) /\ pc = IF ask.op = "foreign" THEN "status" ELSE "request line"
    BY Zenon DEF Init
  <2>2. open = FALSE
    <3>1. open = (ask.op \in {"pin", "copy"})
      BY <2>1
    <3> DEFINE both == ask.op \in {"pin", "copy"}
    <3>2. both \in BOOLEAN
      BY ONLY SMT
    <3>3. ~both /\ open = both
      BY <1>1, <3>1
    <3> HIDE DEF both
    <3> QED
      BY <3>2, <3>3, Zenon
  <2>3. pc # "headers"
    BY <2>1, Zenon
  <2> QED
    BY <2>2, <2>3, Zenon DEF Init
<1>4. ASSUME NEW words \in Seq(Str) PROVE Line(words) \in Str
  <2>1. append_strings(words) \in Str
    BY FlattenType DEF append_strings, Str
  <2> QED
    BY <2>1, BlankOf, Cat DEF Line, Blank
<1>5. ASSUME NEW x \in Str PROVE <<x>> \in Seq(Str)
  OBVIOUS
<1>6. ASSUME NEW x \in Str, NEW y \in Str PROVE <<x, y>> \in Seq(Str)
  OBVIOUS
<1> DEFINE h == <<W_length, Colon, SP>>
           l == Line(<<h, ask.length>>)
<1>7. l \in Str
  <2>1. h \in Str
    BY DEF Str, W_length, Colon, SP
  <2> HIDE DEF h
  <2> QED
    BY <1>2, <1>4, <1>6, <2>1
<1> HIDE DEF h
<1>8. CASE ask.op = "claim"
  <2> DEFINE r == <<POST, SP, W_pin, SP, HTTP10>>
             t == <<W_type, Colon, W_urlencoded, SP>>
             a == Line(<<r>>)
             b == IF ask.typed THEN Line(<<t>>) ELSE <<>>
  <2>1. r \in Str /\ t \in Str
    BY DEF Str, POST, SP, W_pin, HTTP10, W_type, Colon, W_urlencoded
  <2>2. wire = (((a \o b) \o l) \o Blank) \o ask.data
    BY <1>3, <1>8 DEF Sent, PostRequest, Blank, h
  <2> HIDE DEF r, t
  <2>3. a \in Str
    BY <1>4, <1>5, <2>1
  <2>4. b \in Str
    BY <1>4, <1>5, <2>1, BlankAlone
  <2> HIDE DEF a, b, l
  <2>5. a \o b \in Str
    BY <2>3, <2>4, Cat
  <2>6. (a \o b) \o l \in Str
    BY <1>7, <2>5, Cat
  <2>7. ((a \o b) \o l) \o Blank \in Str
    BY <2>6, BlankOf, Cat
  <2>8. wire \in Str
    BY <1>2, <2>2, <2>7, Cat
  <2> QED
    BY <1>1, <1>3, <2>8, LooseStart
<1>9. CASE ask.op = "foreign"
  <2> DEFINE a == Line(<<ask.status>>)
  <2>1. wire = ((a \o l) \o Blank) \o ask.data
    BY <1>3, <1>9 DEF Sent, ForeignReply, Blank, h
  <2>2. a \in Str
    BY <1>2, <1>4, <1>5, <1>9
  <2> HIDE DEF a, l
  <2>3. a \o l \in Str
    BY <1>7, <2>2, Cat
  <2>4. (a \o l) \o Blank \in Str
    BY <2>3, BlankOf, Cat
  <2>5. wire \in Str
    BY <1>2, <2>1, <2>4, Cat
  <2> QED
    BY <1>1, <1>3, <2>5, LooseStart
<1> QED
  BY <1>1, <1>8, <1>9

\* Whatever line is read.
LEMMA SecondPart ==
    ASSUME NEW buf \in Str, parse_request_line(buf) # <<>>
    PROVE  Len(parse_request_line(buf)) = 3 /\ parse_request_line(buf)[2] \in Str
<1> DEFINE s1 == strchr(buf, SP)
           s2 == s1 + strchr(After(buf, s1), SP)
           text == SubSeq(buf, 1, Len(buf) - 2)
           u == SubSeq(text, s1 + 1, s2 - 1)
<1>1. /\ Len(buf) >= 2 /\ buf[Len(buf) - 1] = CR /\ buf[Len(buf)] = LF
      /\ s1 # 0 /\ s2 # s1
      /\ parse_request_line(buf) = <<Before(text, s1), u, After(text, s2)>>
  BY DEF parse_request_line, parse_three
<1>2. Len(buf) \in Nat /\ s1 \in Nat /\ s1 <= Len(buf)
  BY StrFacts, StrchrOf
<1>3. After(buf, s1) \in Str /\ Len(After(buf, s1)) = Len(buf) - s1
      /\ \A i \in 1..Len(buf) - s1 : After(buf, s1)[i] = buf[i + s1]
  <2>1. After(buf, s1) = Drop(buf, s1)
    BY DEF After, Drop
  <2> QED
    BY <1>2, <2>1, DropOf
<1> DEFINE x == After(buf, s1)
           e == strchr(x, SP)
<1>4. e \in Nat /\ e <= Len(buf) - s1 /\ (e # 0 => x[e] = SP)
  BY <1>3, StrchrOf
<1> HIDE DEF x, s1
<1>5. s2 = s1 + e
  BY DEF x
<1> HIDE DEF e
<1>6. e # 0 /\ e >= 1
  BY <1>1, <1>2, <1>4, <1>5
<1>7. s2 \in Nat /\ s2 <= Len(buf) /\ buf[s2] = SP
  <2>1. e \in 1..Len(buf) - s1 /\ e + s1 = s2
    BY <1>2, <1>4, <1>5, <1>6
  <2>2. buf[e + s1] = SP
    BY <1>3, <1>4, <1>6, <2>1 DEF x
  <2> QED
    BY <1>2, <1>4, <1>5, <2>1, <2>2
<1> HIDE DEF s2
<1>8. s2 <= Len(buf) - 2
  <2>1. s2 # Len(buf) /\ s2 # Len(buf) - 1
    BY <1>1, <1>7 DEF SP, CR, LF
  <2> QED
    BY <1>2, <1>7, <2>1
<1>9. text \in Str /\ Len(text) = Len(buf) - 2
  <2>1. Len(buf) - 2 \in Nat /\ Len(buf) - 2 <= Len(buf)
    BY <1>1, <1>2
  <2> QED
    BY <2>1, FirstPart
<1> HIDE DEF text
<1>10. u \in Str
  <2>2. s1 \in Nat /\ s2 - 1 \in Nat /\ s1 <= s2 - 1 /\ s2 - 1 <= Len(text)
    BY <1>2, <1>4, <1>5, <1>6, <1>7, <1>8, <1>9
  <2> QED
    BY <1>9, <2>2, Part
<1> HIDE DEF u
<1> QED
  BY <1>1, <1>10

LEMMA TrimStr ==
    ASSUME NEW s \in Str
    PROVE  Trim(s) \in Str
<1> DEFINE text == {i \in DOMAIN s : ~IsSpace(s[i])}
<1>1. DOMAIN s = 1..Len(s) /\ Len(s) \in Nat
  BY StrFacts
<1>2. Trim(s) = IF text = {} THEN <<>> ELSE SubSeq(s, Min(text), Max(text))
  BY DEF Trim
<1>3. text \in SUBSET Nat /\ \A i \in text : 1 <= i /\ i <= Len(s)
  BY <1>1
<1> HIDE DEF text
<1>4. CASE text = {}
  BY <1>2, <1>4, BlankAlone
<1>5. CASE text # {}
  <2>1. PICK m \in Nat : m = Min(text) /\ m \in text
    BY <1>3, <1>5, MinOf
  <2> DEFINE back == {d \in Nat : \E i \in text : d = Len(s) - i}
  <2>2. back \in SUBSET Nat /\ Len(s) - m \in back
    BY <1>1, <1>3, <2>1
  <2>3. PICK d \in back : \A y \in back : d <= y
    <3> HIDE DEF back
    <3> QED
      BY <2>2, LeastOf
  <2>4. PICK i \in text : d = Len(s) - i
    BY <2>3
  <2>5. ASSUME NEW j \in text PROVE i >= j
    <3>1. Len(s) - j \in back
      <4>1. Len(s) - j \in Nat
        <5>1. j \in Nat /\ j <= Len(s) /\ Len(s) \in Nat
          BY <1>1, <1>3, Zenon
        <5> QED
          BY ONLY <5>1
      <4> QED
        BY <2>5, <4>1
    <3>2. d <= Len(s) - j
      BY <2>3, <3>1
    <3> QED
      BY <1>1, <1>3, <2>4, <3>2
  <2>6. Max(text) \in text /\ \A j \in text : Max(text) >= j
    BY <2>5 DEF Max
  <2>7. PICK k \in Nat : k = Max(text) /\ m <= k /\ 1 <= m /\ k <= Len(s)
    BY <1>3, <2>1, <2>6
  <2>8. PICK n \in Nat : m = n + 1 /\ n <= k
    <3>1. m - 1 \in Nat /\ m = (m - 1) + 1 /\ m - 1 <= k
      BY <2>7
    <3> QED
      BY <3>1
  <2>9. SubSeq(s, n + 1, k) \in Str
    BY <2>7, <2>8, Part
  <2> QED
    BY <1>2, <1>5, <2>1, <2>7, <2>8, <2>9
<1> QED
  BY <1>4, <1>5

LEMMA HeaderDict ==
    ASSUME NEW buf \in Str, NEW d \in Dict
    PROVE  parse_header_line(buf, d) \in Dict
<1> DEFINE colon == strchr(buf, Colon)
<1>1. colon \in Nat /\ colon <= Len(buf) /\ Len(buf) \in Nat
  BY StrchrOf, StrFacts
<1>2. parse_header_line(buf, d) = IF colon = 0 THEN d ELSE Set(d, Before(buf, colon), Trim(After(buf, colon)))
  BY DEF parse_header_line
<1> HIDE DEF colon
<1>3. After(buf, colon) \in Str
  BY <1>1, DropOf DEF After, Drop
<1>4. CASE colon = 0
  BY <1>2, <1>4
<1>5. CASE colon # 0
  <2>1. colon - 1 \in Nat /\ colon - 1 <= Len(buf)
    BY <1>1, <1>5
  <2>2. Before(buf, colon) \in Str
    BY <2>1, FirstPart DEF Before
  <2>3. Trim(After(buf, colon)) \in Str
    BY <1>3, TrimStr
  <2>4. Set(d, Before(buf, colon), Trim(After(buf, colon))) \in Dict
    BY <2>2, <2>3, SetOf
  <2> QED
    BY <1>2, <1>5, <2>4
<1> QED
  BY <1>4, <1>5

LEMMA UriDict ==
    ASSUME NEW buf \in Str, NEW d \in Dict
    PROVE  parse_uriquery(buf, d) \in Dict
<1> DEFINE q == strchr(buf, Query)
<1>1. q \in Nat /\ q <= Len(buf) /\ Len(buf) \in Nat
  BY StrchrOf, StrFacts
<1>2. parse_uriquery(buf, d) = IF q = 0 THEN d ELSE parse_query(After(buf, q), d)
  BY DEF parse_uriquery
<1> HIDE DEF q
<1>3. After(buf, q) \in Str
  BY <1>1, DropOf DEF After, Drop
<1>4. parse_query(After(buf, q), d) \in Dict
  BY <1>3, ParseRun
<1> QED
  BY <1>2, <1>4

LEMMA CallAny ==
    ASSUME ReaderInv, NEW n \in Nat, Call(ReadBytes(n)), wire' = wire, rio_buf' = rio_buf, open' = open
    PROVE  ReaderInv'
<1>1. CASE n > 0
  BY <1>1, CallBytes
<1>2. CASE n = 0
  <2>1. call' = NoCall /\ got' = <<>>
    BY <1>2 DEF Call, ReadBytes, NoCall
  <2>2. NoCall.op = "none" /\ NoCall \in [op : {"none", "line", "bytes"}, n : Nat]
    BY DEF NoCall
  <2>3. got' \in Str
    BY <2>1, BlankAlone
  <2> QED
    BY <2>1, <2>2, <2>3 DEF ReaderInv
<1> QED
  BY <1>1, <1>2

LEMMA LooseHandler ==
    ASSUME LooseInv, Handler
    PROVE  LooseInv'
<1>1. /\ ReaderInv /\ ask \in Ask /\ ask.op \in {"claim", "foreign"} /\ open = FALSE /\ whole \in BOOLEAN
      /\ headers \in Dict /\ query \in Dict /\ content_length \in Int /\ Len(request) \in {0, 3}
      /\ got \in Str /\ (pc = "headers" => request[2] \in Str) /\ ask.op # "copy"
  BY AheadOf DEF LooseInv
<1> DEFINE Kept1 == wire' = wire /\ rio_buf' = rio_buf /\ open' = open /\ ask' = ask /\ whole' = whole
           Quiet == Kept1 /\ call' = call /\ got' = got
           Same == /\ headers' = headers /\ query' = query /\ content_length' = content_length
                   /\ request' = request
<1>2. Quiet => ReaderInv'
  BY <1>1 DEF ReaderInv
<1>3. ASSUME ReaderInv', Kept1, Same, pc' # "headers" PROVE LooseInv'
  BY <1>1, <1>3 DEF LooseInv
<1>4. ASSUME NEW reply, Reply(reply) PROVE pc' = "done" /\ wire' = wire /\ rio_buf' = rio_buf /\ open' = open
                                           /\ whole' = whole /\ call' = call /\ got' = got
  BY <1>1, <1>4 DEF Reply, rio
<1>5. CASE Refuse
  <2>1. PICK r : Reply(r)
    BY <1>5 DEF Refuse
  <2>2. Same /\ ask' = ask
    BY <1>5 DEF Refuse
  <2> QED
    BY <1>2, <1>3, <1>4, <2>1, <2>2
<1>6. CASE RequestLine
  <2>1. parse_request_line(got) # <<>>
    <3>1. Refusal(parse_request_line(got)) = 0
      BY <1>6 DEF RequestLine
    <3> QED
      BY <3>1, RefusalIs
  <2>2. Len(request') = 3 /\ request'[2] \in Str
    BY <1>1, <1>6, <2>1, SecondPart DEF RequestLine
  <2>3. Call(ReadLine) /\ Kept1 /\ headers' = headers /\ query' = query /\ content_length' = content_length
    BY <1>6 DEF RequestLine
  <2>4. ReaderInv'
    BY <1>1, <2>3, CallLine
  <2> QED
    BY <1>1, <2>2, <2>3, <2>4 DEF LooseInv
<1>7. CASE HeaderLine
  <2>1. Call(ReadLine) /\ Kept1 /\ query' = query /\ content_length' = content_length /\ request' = request /\ pc' = pc
        /\ headers' = parse_header_line(got, headers)
    BY <1>7 DEF HeaderLine
  <2>2. ReaderInv' /\ headers' \in Dict
    BY <1>1, <2>1, CallLine, HeaderDict
  <2> QED
    BY <1>1, <2>1, <2>2 DEF LooseInv
<1>8. CASE EndOfHeaders
  <2> DEFINE len == atoi(Get(headers, <<W_length>>))
             n == IF len = -1 THEN INT_MAX ELSE len
  <2>1. /\ Kept1 /\ headers' = headers /\ content_length' = content_length /\ request' = request /\ pc = "headers"
        /\ query' = parse_uriquery(request[2], <<>>)
    BY <1>8 DEF EndOfHeaders, At
  <2>2. query' \in Dict
    BY <1>1, <2>1, UriDict, DictEmpty
  <2>3. \/ pc' \in {"serve", "died"} /\ call' = call /\ got' = got
        \/ len \in -1..INT_MAX - 1 /\ pc' = "post data" /\ Call(ReadBytes(n))
    BY <1>8 DEF EndOfHeaders
  <2>4. len \in -1..INT_MAX - 1 => n \in Nat
    <3> HIDE DEF len
    <3>1. ASSUME len \in -1..INT_MAX - 1 PROVE len = -1 \/ len \in Nat
      <4>1. len \in Int
        BY <3>1, MaxInt
      <4> QED
        BY <3>1, <4>1, MaxInt, Bounds, Zenon
    <3> QED
      BY <3>1, MaxInt, Zenon
  <2> HIDE DEF n, len
  <2>5. ReaderInv'
    BY <1>1, <1>2, <2>1, <2>3, <2>4, CallAny
  <2>6. pc' # "headers"
    BY <2>3
  <2> QED
    BY <1>1, <2>1, <2>2, <2>5, <2>6 DEF LooseInv
<1>9. CASE PostData
  <2>1. Quiet /\ headers' = headers /\ content_length' = content_length /\ request' = request /\ pc' # "headers"
    BY <1>9 DEF PostData, rio
  <2>2. query' \in Dict
    BY <1>1, <1>9, ParseRun DEF PostData
  <2> QED
    BY <1>1, <1>2, <2>1, <2>2 DEF LooseInv
<1>10. CASE ServePin
  <2>1. Quiet /\ Same /\ pc' # "headers"
    BY <1>10 DEF ServePin, rio
  <2> QED
    BY <1>2, <1>3, <2>1
<1>11. CASE ServePlaces
  <2>1. PICK r : Reply(r)
    BY <1>11 DEF ServePlaces
  <2>2. Same /\ ask' = ask
    BY <1>11 DEF ServePlaces
  <2> QED
    BY <1>2, <1>3, <1>4, <2>1, <2>2
<1>12. CASE Status
  <2>1. Kept1 /\ Same /\ pc' # "headers"
    BY <1>12 DEF Status
  <2>2. Call(ReadLine) \/ (call' = call /\ got' = got)
    BY <1>12 DEF Status
  <2>3. ReaderInv'
    BY <1>1, <1>2, <2>1, <2>2, CallLine
  <2> QED
    BY <1>3, <2>1, <2>3
<1>13. CASE FetchHeader
  <2>1. Kept1 /\ Call(ReadLine) /\ headers' = headers /\ query' = query /\ request' = request /\ pc' = "fetch headers"
        /\ content_length' \in {atoi(SubSeq(got, 4, Len(got))), content_length}
    BY <1>13 DEF FetchHeader, At
  <2>2. SubSeq(got, 4, Len(got)) \in Str
    <3>1. Len(got) \in Nat
      BY <1>1, StrFacts
    <3>2. CASE 3 <= Len(got)
      <4>1. Drop(got, 3) \in Str
        BY <1>1, <3>2, DropOf
      <4> QED
        BY <4>1 DEF Drop
    <3>3. CASE ~(3 <= Len(got))
      <4>1. PICK m \in Int : m = Len(got) /\ m < 4
        BY <3>1, <3>3
      <4>2. PICK i \in Int : i = 4 /\ m < i
        BY <4>1
      <4>3. SubSeq(got, i, m) = <<>>
        <5>1. m < i
          BY <4>2
        <5> QED
          BY ONLY <5>1, i \in Int, m \in Int, SubSeqEmpty
      <4> QED
        BY <4>1, <4>2, <4>3, BlankAlone
    <3> QED
      BY <3>2, <3>3
  <2>3. content_length' \in Int
    BY <1>1, <2>1, <2>2, AtoiInt
  <2>4. ReaderInv'
    BY <1>1, <2>1, CallLine
  <2> QED
    BY <1>1, <2>1, <2>3, <2>4 DEF LooseInv
<1>14. CASE FetchBody
  <2> DEFINE n == IF content_length = -2 THEN INT_MAX ELSE content_length + 1
  <2>1. Kept1 /\ Same /\ pc' # "headers"
    BY <1>14 DEF FetchBody
  <2>2. \/ call' = call /\ got' = got
        \/ content_length \in -2..INT_MAX - 2 /\ Call(ReadBytes(n))
    BY <1>14 DEF FetchBody
  <2>3. content_length \in -2..INT_MAX - 2 => n \in Nat
    <3>1. ASSUME content_length \in -2..INT_MAX - 2 PROVE content_length = -2 \/ content_length + 1 \in Nat
      <4>1. content_length \in Int
        BY <3>1, MaxInt
      <4> QED
        BY <3>1, <4>1, MaxInt, Bounds, Zenon
    <3> QED
      BY <3>1, MaxInt, Zenon
  <2> HIDE DEF n
  <2>4. ReaderInv'
    BY <1>1, <1>2, <2>1, <2>2, <2>3, CallAny
  <2> QED
    BY <1>3, <2>1, <2>4
<1>15. CASE Import
  <2>1. Quiet /\ Same /\ pc' # "headers"
    BY <1>15 DEF Import, rio
  <2> QED
    BY <1>2, <1>3, <2>1
<1> QED
  BY <1>5, <1>6, <1>7, <1>8, <1>9, <1>10, <1>11, <1>12, <1>13, <1>14, <1>15 DEF Handler

LEMMA LooseStep ==
    ASSUME LooseInv, [Next]_vars
    PROVE  LooseInv'
<1>1. CASE Reader
  <2>1. /\ ask' = ask /\ pc' = pc /\ request' = request /\ headers' = headers /\ query' = query
        /\ content_length' = content_length /\ whole' = whole /\ RioStep /\ ReaderInv
    BY <1>1 DEF Reader, LooseInv
  <2>2. ReaderInv' /\ open' = open
    BY <2>1, ReadKeeps
  <2> QED
    BY <2>1, <2>2 DEF LooseInv
<1>2. CASE UNCHANGED vars
  <2>1. /\ wire' = wire /\ open' = open /\ rio_buf' = rio_buf /\ call' = call /\ got' = got
        /\ ask' = ask /\ pc' = pc /\ request' = request /\ headers' = headers /\ query' = query
        /\ content_length' = content_length /\ whole' = whole
    BY <1>2 DEF vars, rio
  <2>2. ReaderInv'
    BY <2>1 DEF LooseInv, ReaderInv
  <2> QED
    BY <2>1, <2>2 DEF LooseInv
<1> QED
  BY <1>1, <1>2, LooseHandler DEF Next, Terminated

-----------------------------------------------------------------------------
(* What follows from the invariant.                                          *)

LEMMA AskOps ==
    ASSUME WireInv
    PROVE  ask.op \in {"pin", "copy"} /\ ReaderInv
BY DEF WireInv

LEMMA RoomLeft ==
    ASSUME ReaderInv
    PROVE  /\ call \in [op : {"none", "line", "bytes"}, n : Nat] /\ Len(rio_buf) <= RIO_BUFSIZE /\ open \in BOOLEAN
           /\ Busy => Len(got) < call.n
<1>1. call.op = "line" => Len(got) < call.n
  BY DEF ReaderInv, ReadLine
<1>2. call.op = "bytes" => Len(got) < call.n
  BY DEF ReaderInv
<1> QED
  BY <1>1, <1>2 DEF ReaderInv, Busy

LEMMA TypeHolds ==
    ASSUME WireInv \/ LooseInv
    PROVE  TypeOK
<1>1. ReaderInv /\ ask \in Ask /\ whole \in BOOLEAN /\ content_length \in Int /\ Len(request) \in {0, 3}
  BY DEF WireInv, LooseInv
<1> QED
  BY <1>1, RoomLeft DEF TypeOK

LEMMA PinHolds ==
    ASSUME WireInv \/ LooseInv
    PROVE  PinAsSent
<1>1. CASE ask.op = "pin"
  BY <1>1 DEF WireInv, LooseInv, PinInv, PinAsSent, Accepted
<1> QED
  BY <1>1 DEF PinAsSent

LEMMA ImportedIs ==
    ASSUME WireInv \/ LooseInv, pc = "imported", ask.op = "copy"
    PROVE  /\ ask \in CopyAsk /\ ask.name \in Seq(Byte)
           /\ whole => list = KnownOf(looked) /\ Arrived
           /\ CutNames(list, KnownOf(looked))
<1>1. WireInv
  BY DEF LooseInv
<1> QED
  BY <1>1, CopyAsked DEF CopyInv

LEMMA NamesHold ==
    ASSUME WireInv \/ LooseInv
    PROVE  NamesKept
<1>1. NamesArrive
  BY ImportedIs DEF NamesArrive, Arrived
<1>2. EntitySafe
  <2>1. SUFFICES ASSUME pc = "imported", ask.op = "copy"
                 PROVE  /\ ToSet(entity_encode(ask.name)) \cap {Less, Greater, Quote} = {}
                        /\ EntityDecoded(entity_encode(ask.name)) = ask.name
    BY DEF EntitySafe
  <2> QED
    BY <2>1, ImportedIs, EntityDecodeEncode
<1> QED
  BY <1>1, <1>2 DEF NamesKept

LEMMA CopyHolds ==
    ASSUME WireInv \/ LooseInv
    PROVE  CopyImports
<1>1. SUFFICES ASSUME pc = "imported", ask.op = "copy"
               PROVE  IF whole THEN list = KnownOf(looked) ELSE FirstOf(KnownOf(looked))
  BY DEF CopyImports, KnownOf
<1>2. (whole => list = KnownOf(looked)) /\ CutNames(list, KnownOf(looked))
  BY <1>1, ImportedIs
<1>3. FirstOf(KnownOf(looked))
  BY <1>2 DEF CutNames, FirstOf, Last
<1> QED
  BY <1>2, <1>3

LEMMA SplitHolds ==
    ASSUME WireInv \/ LooseInv
    PROVE  SplitFits
<1>1. query \in Dict /\ ReaderInv
  BY DEF WireInv, LooseInv
<1>2. \A f \in DOMAIN query : query[f] \in Str
  BY <1>1, DictOf
<1>3. got \in Str
  BY <1>1, AheadOf
<1> QED
  BY <1>2, <1>3, SplitFitsRoom DEF SplitFits

LEMMA SurvivesHolds ==
    ASSUME WireInv
    PROVE  DiesOnlyOf
<1>1. CASE ask.op = "pin"
  BY <1>1 DEF WireInv, PinInv, DiesOnlyOf
<1>2. CASE ask.op = "copy"
  BY <1>2 DEF WireInv, CopyInv, DiesOnlyOf
<1> QED
  BY <1>1, <1>2, AskOps

\* A line that lies ahead is never waited for.
LEMMA NoLineLeft ==
    ASSUME ReaderInv, call = ReadLine, ToCome = <<>>, NEW l \in Str, NEW r \in Str, Len(l) >= 1, l[Len(l)] = LF, Ahead = l \o r
    PROVE  FALSE
<1>1. got \in Str /\ Len(got) \in Nat /\ \A i \in 1..Len(got) : got[i] # LF
  BY AheadOf, StrFacts DEF ReaderInv, ReadLine
<1>2. l \in Str /\ Len(l) \in Nat /\ Len(l) >= 1 /\ l[Len(l)] = LF
  BY StrFacts
<1>3. got = l \o r
  BY <1>1, CatEmpty DEF Ahead
<1>4. /\ Len(l \o r) = Len(l) + Len(r) /\ Len(r) \in Nat
      /\ \A i \in 1..Len(l) : (l \o r)[i] = l[i]
  BY <1>2, Cat, StrFacts
<1>5. PICK n \in Nat : n = Len(l) /\ n \in 1..Len(l) /\ n \in 1..Len(got)
  BY <1>2, <1>3, <1>4
<1>6. got[n] = LF
  BY <1>2, <1>3, <1>4, <1>5
<1> QED
  BY <1>1, <1>5, <1>6

LEMMA WaitingHolds ==
    ASSUME WireInv
    PROVE  NoWaiting
<1>1. SUFFICES ASSUME Busy, rio_buf = <<>>, wire = <<>>, open
               PROVE  FALSE
  BY DEF NoWaiting
<1>2. ReaderInv /\ call # NoCall
  BY <1>1, AskOps DEF Busy, NoCall
<1>3. ToCome = <<>>
  <2>1. <<>> \o <<>> = <<>>
    OBVIOUS
  <2> QED
    BY <1>1, <2>1 DEF ToCome
<1>4. \A l \in Str : \A r \in Str : ~(call = ReadLine /\ Len(l) >= 1 /\ l[Len(l)] = LF /\ Ahead = l \o r)
  BY <1>2, <1>3, NoLineLeft
<1>5. \A l : \A r \in Str : ~(call = ReadLine /\ Ended1(l) /\ Ahead = l \o r)
  BY <1>4 DEF Ended1
<1>6. InLine => call = ReadLine
  BY <1>2 DEF InLine
<1>7. CASE ask.op = "pin"
  <2>1. ask \in PinAsk /\ PinInv
    BY <1>7, PinAsked
  <2>2. CASE pc = "request line"
    <3>1. Ahead = FirstLine(ask) \o Rest(ask) /\ InLine
      BY <2>1, <2>2, RequestOf DEF PinInv
    <3> QED
      BY <1>5, <1>6, <2>1, <3>1, FirstLineOf, TailsOf
  <2>3. CASE pc = "headers"
    <3>1. PinHeaders /\ InLine
      BY <2>1, <2>3 DEF PinInv
    <3>2. Tail1(ask) \in Str /\ Tail2(ask) \in Str /\ Form(ask) \in Str /\ Ended1(LengthLine(Len(Form(ask))))
      BY <2>1, TailsOf, FormOf
    <3>3. \A r \in Str : /\ Ahead # HostLine \o r /\ Ahead # Blank \o r /\ Ahead # TypeLine \o r
                         /\ Ahead # LengthLine(Len(Form(ask))) \o r
      BY <1>5, <1>6, <3>1, <3>2, HostLineOf, TypeLineOf, BlankOf
    <3>4. Ahead # HostLine \o Blank /\ Ahead # Blank /\ Ahead # TypeLine \o Tail1(ask)
      BY <3>2, <3>3, BlankAlone
    <3>5. Ahead # Tail1(ask)
      BY <3>2, <3>3 DEF Tail1
    <3>6. Ahead # Tail2(ask)
      BY <3>2, <3>3 DEF Tail2
    <3> QED
      BY <3>1, <3>4, <3>5, <3>6 DEF PinHeaders
  <2>4. CASE pc = "post data"
    <3>1. call.op = "bytes" /\ call.n = Len(Form(ask)) /\ Ahead = Form(ask)
      BY <1>2, <2>1, <2>4 DEF PinInv, InBytes
    <3>2. Ahead = got
      BY <1>2, <1>3, AheadOf, CatEmpty DEF Ahead
    <3>3. Len(got) < call.n /\ Len(got) \in Nat
      BY <1>2, <3>1, AheadOf, StrFacts DEF ReaderInv
    <3> QED
      BY <3>1, <3>2, <3>3
  <2> QED
    BY <1>2, <2>1, <2>2, <2>3, <2>4 DEF PinInv
<1>8. CASE ask.op = "copy"
  <2>1. ask \in CopyAsk /\ CopyInv
    BY <1>8, CopyAsked
  <2>2. CASE pc = "request line"
    <3>1. Ahead = CopyLine(ask.name) \o Blank /\ InLine
      BY <2>1, <2>2, CopyRequestOf DEF CopyInv
    <3> DEFINE c == CopyLine(ask.name)
               l == c \o Blank
    <3>2. c \in Str /\ Len(c) \in Nat
      BY <2>1, CopyRequestOf, StrFacts
    <3> HIDE DEF c
    <3>3. l \in Str /\ Len(l) = Len(c) + 2 /\ l[Len(c) + 2] = LF
      <4>1. l \in Str /\ Len(l) = Len(c) + Len(Blank) /\ \A i \in 1..Len(Blank) : l[Len(c) + i] = Blank[i]
        BY <3>2, BlankOf, Cat
      <4>2. Len(Blank) = 2 /\ Blank[2] = LF
        BY BlankOf
      <4> HIDE DEF l
      <4> QED
        BY <4>1, <4>2
    <3>4. Len(l) >= 1 /\ l[Len(l)] = LF
      <4> HIDE DEF l
      <4> QED
        BY <3>2, <3>3
    <3>5. Ahead = l \o <<>>
      BY <3>1, <3>3, CatEmpty DEF c
    <3> QED
      BY <1>4, <1>6, <3>1, <3>3, <3>4, <3>5, BlankAlone
  <2>3. CASE pc = "headers"
    <3>1. Ahead = Blank /\ InLine
      BY <2>1, <2>3 DEF CopyInv
    <3> QED
      BY <1>5, <1>6, <3>1, BlankAlone, BlankOf
  <2> QED
    BY <1>1, <1>2, <2>1, <2>2, <2>3 DEF CopyInv
<1> QED
  BY <1>7, <1>8, AskOps

-----------------------------------------------------------------------------
(* The theorems.                                                             *)

LEMMA SpecInv == Spec => [](WireInv \/ LooseInv)
<1>1. Init => WireInv \/ LooseInv
  BY WireInit, LooseInit
<1>2. (WireInv \/ LooseInv) /\ [Next]_vars => (WireInv \/ LooseInv)'
  BY WireStep, LooseStep
<1> QED
  BY <1>1, <1>2, PTL DEF Spec

\* At every moment of a client's /pin or of a /copy between two redpins, what
\* was handed out, what is buffered and what is still to come make up the rest
\* of the text that the other side wrote, from the line that is being read on:
\* doit, the headers, the POST data, the reply.
THEOREM WireInvariant == Spec => [](ask.op \in {"pin", "copy"} => WireInv)
<1>1. (WireInv \/ LooseInv) => (ask.op \in {"pin", "copy"} => WireInv)
  BY DEF LooseInv
<1> QED
  BY <1>1, SpecInv, PTL

\* Whatever was sent or replied, the variables keep their types, and a call of
\* rio_readlineb or rio_readnb that runs has room for another byte in its
\* buffer.
THEOREM WireType == Spec => []TypeOK
BY SpecInv, TypeHolds, PTL

\* serve_request gets the two lists of a /pin exactly as the client wrote
\* them, in the URL or as POST data and for every names, however read() cuts
\* the request; only a long request line or another method is refused.
THEOREM WirePinAsSent == Spec => []PinAsSent
BY SpecInv, PinHolds, PTL

\* The name of a /copy, which get_server_results sends as it is, arrives
\* unchanged if no byte of it means something in a query; and what
\* entity_encode makes of any name can be put into a page and taken back.
THEOREM WireNamesKept == Spec => []NamesKept
BY SpecInv, NamesHold, PTL

\* A /copy imports the places of the person the other server looked up, or,
\* of a reply that broke off, the first of them with the last one perhaps cut.
THEOREM WireCopyImports == Spec => []CopyImports
BY SpecInv, CopyHolds, PTL

\* split_string stays within the array it allocated, for every query and every
\* reply, also one of a server that is no redpin.
THEOREM WireSplitFits == Spec => []SplitFits
BY SpecInv, SplitHolds, PTL

\* A client's /pin that states the length of its data rightly, and a /copy
\* from another redpin, end the process only by POST data without a
\* Content-Type and by a reply that breaks off right after its first word.
\* For the other requests and replies this is not proved.
THEOREM WireSurvives == Spec => [](ask.op \in {"pin", "copy"} => DiesOnlyOf)
<1>1. (WireInv \/ LooseInv) => (ask.op \in {"pin", "copy"} => DiesOnlyOf)
  BY SurvivesHolds DEF LooseInv
<1> QED
  BY <1>1, SpecInv, PTL

\* Rio_readlineb and Rio_readnb never wait for bytes that the other side,
\* which keeps the connection open, is not going to send.
THEOREM WireNoWaiting == Spec => []NoWaiting
<1>1. LooseInv => NoWaiting
  BY DEF LooseInv, NoWaiting
<1> QED
  BY <1>1, SpecInv, WaitingHolds, PTL
=============================================================================
