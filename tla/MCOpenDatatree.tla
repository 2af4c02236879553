--------------------------- MODULE MCOpenDatatree ---------------------------
(* Two names and a chain of three groups, for OpenDatatree. *)
EXTENDS OpenDatatree, TLC

CONSTANTS x, y

AllSources == {"bytes", "branch"}
PathsOnly == {"branch"}

AbsoluteOnly == {"absolute"}
FewSpellings == {"relative", "doubled"}

Variable(role, dim, on) == [role |-> role, dim |-> dim, on |-> on, stamp |-> 0]

XIndex(labels) == x :> Variable("coord", x, labels)

(* Nothing, indexes with other labels, a coordinate along one, one along a *)
(* dimension without an index, scalars in both roles, and one of an        *)
(* index's name.                                                           *)
FewContents ==
  { <<>>,
    XIndex({2}),
    XIndex({1}) @@ (y :> Variable("coord", x, {1})),
    y :> Variable("coord", x, {1, 2}),
    y :> Variable("coord", NoDim, {}),
    y :> Variable("data", NoDim, {}),
    x :> Variable("coord", NoDim, {}) }
=============================================================================
