----------------------------- MODULE MCWatcher -----------------------------
(* Instances of Watcher: one listener with and without eager mode, and two    *)
(* listeners in eager mode, where a refresh of one can be joined for the      *)
(* other.                                                                     *)
EXTENDS Watcher

Alone(k)    == [listeners |-> 1, goroutines |-> k, edits |-> 2]
Together    == [listeners |-> 2, goroutines |-> 1, edits |-> 1]
ThreeSetups == {Alone(0), Alone(2), Together}
EagerAlone  == {Alone(1)}
=============================================================================
