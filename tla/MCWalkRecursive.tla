--------------------------- MODULE MCWalkRecursive ---------------------------
(* A vanilla store of five groups and two arrays, any part of which may be *)
(* there at first, and sessions of up to three groups and eight arrays,    *)
(* with the counts and the caps of the eager phase scaled down.            *)
EXTENDS WalkRecursive

V(array, dims, type, shape, bytes) ==
  [array |-> array, name |-> array[Len(array)], dims |-> dims, type |-> type,
   shape |-> shape, bytes |-> bytes]

MCNames == {"a", "b", "c", "f", "l", "n", "r", "s", "t", "z"}
MCGroups == {<<>>, <<"a">>, <<"a", "c">>, <<"b">>, <<"c">>}
StoreRoot == <<>>

(* A glob that prunes "/c". *)
AllButC == MCGroups \ {<<"c">>}

(* In "/", a coordinate at its cap, a field whose count wraps to 0 and a   *)
(* scalar label.  In "/a", a coordinate one past the cap, labels at the    *)
(* byte cap and one byte past it, raw bytes, and a string field whose count *)
(* wraps to 0.                                                             *)
Metas ==
  {V(<<"t">>, <<"t">>, "numeric", <<20>>, 0),
   V(<<"f">>, <<"y", "x">>, "numeric", <<16, 16>>, 0),
   V(<<"l">>, <<>>, "string", <<>>, 3),
   V(<<"a", "t">>, <<"t">>, "numeric", <<21>>, 0),
   V(<<"a", "n">>, <<"n">>, "string", <<4>>, 10),
   V(<<"a", "z">>, <<"z">>, "string", <<2>>, 11),
   V(<<"a", "r">>, <<>>, "bytes", <<>>, 2),
   V(<<"a", "s">>, <<"s", "x">>, "string", <<32, 8>>, 2)}

MCArrays == {v.array : v \in Metas}
MCMetaOf == [a \in MCArrays |-> CHOOSE v \in Metas : v.array = a]

VanillaArrays == {<<"t">>, <<"a", "n">>}

(* The last four: no group "/", nothing at all, and an array whose group   *)
(* is missing, "/a" in one, "/" in the other.                              *)
Sessions ==
  {{<<>>, <<"a">>} \cup MCArrays, {<<>>, <<"a">>, <<"c">>} \cup VanillaArrays,
   {<<"a">>}, {}, {<<>>, <<"a", "n">>}, {<<"a">>, <<"c">>, <<"a", "c">>, <<"t">>}}

EitherRefusal == {"InvalidInput", "Other"}

MCStores ==
  [vanilla |-> SUBSET (MCGroups \cup VanillaArrays), icechunk |-> Sessions]

(* The store may fail requests for "/a" and for an array of "/". *)
AFault == {<<"a">>, <<"t">>}
=============================================================================
