--------------------------- MODULE MCIcechunkWalk ---------------------------
(* Small snapshots for IcechunkWalk. *)
EXTENDS IcechunkWalk

(* "a-b" sorts between "a" and "a/c": "-" is 45 and "/" is 47. *)
MCNames == {"a", "a-b", "c", "x", "y"}
MCSpelling ==
  [n \in MCNames |->
    CASE n = "a" -> <<97>> [] n = "a-b" -> <<97, 45, 98>> [] n = "c" -> <<99>>
      [] n = "x" -> <<120>> [] n = "y" -> <<121>>]

MCGroups == {<<>>, <<"a">>, <<"a-b">>, <<"a", "c">>, <<"c">>}
MCArrays == {<<"x">>, <<"a", "x">>, <<"a", "y">>, <<"a", "c", "x">>}
StoreRoot == <<>>

(* A glob that prunes "/a-b", which does not parse. *)
MCKeep == MCGroups \ {<<"a-b">>}

(* Any set of nodes at all, those no writer leaves behind included. *)
AnySnapshots == SUBSET (MCGroups \cup MCArrays)

EitherRefusal == {"InvalidInput", "Other"}

MCCorrupt == {<<"a-b">>, <<"c">>, <<"x">>, <<"a", "x">>}

(* It is alone in its batch, or with an array that does not parse. *)
MCPanicky == {<<"a", "y">>}
=============================================================================
