----------------------------- MODULE MCResponse -----------------------------
(* Three elements of Accept-Encoding with every weight that is told apart     *)
(* (in tenths), pages of up to two chunks, and three steps before the result. *)
EXTENDS Response

MCCoding == [name : {"gzip", "deflate", "br", "*"}, q : {None, Bad, 0, 3, 10}]
MCBodies == {<< >>, <<"a", "b">>}
=============================================================================
