--------------------------- MODULE MCRequestPools ---------------------------
EXTENDS RequestPools, TLC

CONSTANTS t1, t2, n1, n2

(* Two controllers of different names. *)
DistinctNames == (t1 :> n1) @@ (t2 :> n2)

Symmetry == Permutations(Slot) \cup Permutations(Context) \cup Permutations(Controller)
=============================================================================
