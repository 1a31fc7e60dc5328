----------------------------- MODULE MCLifetime -----------------------------
(* Small instances of Lifetime. *)
EXTENDS Lifetime, FiniteSets, TLC

Symmetry == Permutations(Threads) \cup Permutations(Files)

\* How many wrappers the program creates at most: any of the instance, in any order.
MaxCreated == 3
FewCreated == Cardinality({o \in Objects : py[o] # "none"}) <= MaxCreated
=============================================================================
