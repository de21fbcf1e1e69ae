--------------------------- MODULE MCFilterConfig ---------------------------
(* Instances of FilterConfig: two actions of one controller, and another       *)
(* controller.                                                                *)
EXTENDS FilterConfig

Owner == [a \in {"App.Index", "App.Show"} |-> "App"]
SessionAndInvoker == <<"SessionFilter", "ActionInvoker">>
=============================================================================
