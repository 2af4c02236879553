---------------------------- MODULE MCVanillaWalk ----------------------------
(* A small store for VanillaWalk: "/", "/a", "/a/c", "/b" and "/c" with an *)
(* array in "/" and one in "/a".  Any part of it may be there at first.    *)
EXTENDS VanillaWalk

MCNames == {"a", "b", "c", "x"}
MCGroups == {<<>>, <<"a">>, <<"a", "c">>, <<"b">>, <<"c">>}
MCArrays == {<<"x">>, <<"a", "x">>}
StoreRoot == <<>>

(* A glob that prunes "/c". *)
AllButC == MCGroups \ {<<"c">>}

(* The store may fail requests for "/a" and for the array of "/". *)
AFault == {<<"a">>, <<"x">>}
=============================================================================
