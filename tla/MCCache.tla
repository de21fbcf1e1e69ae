------------------------------ MODULE MCCache ------------------------------
(* Instances of Cache with integers of two bits: the signed ones are -2..1    *)
(* and the unsigned ones 0..3.                                                *)
EXTENDS Cache, TLC

Go(kind, n)  == [kind |-> kind, n |-> n]
SomeValues   == {Go("int", 1), Go("uint", 3), Go("text", 0), Go("nil", 0)}
Symmetry     == Permutations(Client)
=============================================================================
