----------------------------- MODULE StringHash -----------------------------
(***************************************************************************)
(* The hash functions and comparisons of dictionary.c.  A string is the    *)
(* sequence of its bytes; char is signed, as on the machine the course     *)
(* uses, so cs_hash adds bytes from 128 up as negative numbers.            *)
(***************************************************************************)
EXTENDS Integers, SequencesExt

Byte == 0..255

tolower(c) == IF c \in 65..90 THEN c + 32 ELSE c
Signed(c) == IF c < 128 THEN c ELSE c - 256

\* size_t arithmetic wraps at 2^64.  The caller takes the sum modulo a smaller
\* power of two, so the sum itself, negative or not, says as much.
cs_hash(str) == FoldLeft(LAMBDA sum, c : sum + Signed(c), 0, str)
ci_hash(str) == FoldLeft(LAMBDA sum, c : sum + tolower(c), 0, str)

\* Not the code: an even number is left even.
hash2EvenToo(str) == Len(str)

\* Len | 0x1
hash2(str) == IF Len(str) % 2 = 1 THEN Len(str) ELSE Len(str) + 1

\* Two strings are cs_is_equivalent when they are equal, ci_is_equivalent when
\* tolower makes them so.
cs_folded(str) == str
ci_folded(str) == [i \in DOMAIN str |-> tolower(str[i])]
=============================================================================
