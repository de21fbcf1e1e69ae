------------------------- MODULE MCSimpleLockStack -------------------------
EXTENDS SimpleLockStack, TLC

(* Goroutines and objects are interchangeable. *)
Symmetry == Permutations(Client) \cup Permutations(Object)
=============================================================================
