---------------------------- MODULE MCMeshExport -----------------------------
(* One hub publishes one variable to another, which has an alias for it. *)
EXTENDS MeshExport

MCPublished == {<<"a", "x">>}
MCSubscribed == {<<"b", <<"a", "x">>>>}
Typed(type) == [v \in Var |-> type]
MCBool == Typed("BOOL")
MCAlias == [s \in Subscribed |-> "BOOL"]
==============================================================================
