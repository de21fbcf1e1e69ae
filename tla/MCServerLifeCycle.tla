------------------------- MODULE MCServerLifeCycle -------------------------
(* An instance of ServerLifeCycle: three startup hooks, more than the sorting *)
(* keeps in order, two shutdown hooks, and two prefixes of which one is a     *)
(* prefix of the other.                                                       *)
EXTENDS ServerLifeCycle

ThreeHooks  == <<2, 1, 1>>
TwoHooks    == <<2, 1>>
TwoPrefixes == {<<"api">>, <<"api", "v2">>}
TwoPaths    == {<<"api", "v2", "x">>, <<"home">>}
=============================================================================
