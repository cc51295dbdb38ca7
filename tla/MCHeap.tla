------------------------------- MODULE MCHeap -------------------------------
(* Instances of UseMem for TLC. *)
EXTENDS UseMem

Arg(which, n, s, iters, compact) ==
    [which |-> which, n |-> n, s |-> s, iters |-> iters, compact |-> compact]

MCArgs ==
    {Arg("any", 0, 1, 0, FALSE)} \cup
    {Arg("single", 1, s, 2, c) : s \in {1, 16, 40}, c \in BOOLEAN} \cup
    {Arg("singles", n, s, 8, c) : n \in {1, 5, 8}, s \in {1, 24}, c \in BOOLEAN} \cup
    {Arg("excessive", n, s, 3, c) : n \in {2, 5}, s \in {5, 20}, c \in BOOLEAN} \cup
    {Arg("shrinking", n, s, 0, c) : n \in {4, 9}, s \in {5, 16}, c \in BOOLEAN} \cup
    {Arg("growing", n, s, 2, c) : n \in {4, 9}, s \in {5, 16}, c \in BOOLEAN} \cup
    {Arg("timing", n, s, 3, c) : n \in {1, 3}, s \in {5, 20, 40}, c \in BOOLEAN}
=============================================================================
