----------------------------- MODULE MCSession -----------------------------
(* An instance of Session: the application stores a text, a struct whose      *)
(* field has a tag and one without, and what JSON cannot hold.                *)
EXTENDS Session

Go(kind, v) == [kind |-> kind, form |-> "go", v |-> v]
SomeInputs  == {Go("text", 1), Go("struct", 1), Go("tagged", 2), Go("func", 1)}
=============================================================================
