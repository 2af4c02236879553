----------------------------- MODULE MCGlobPrune -----------------------------
(* Short patterns, and trees of groups with short names, for GlobPrune. *)
EXTENDS GlobPrune

Chars == {"a", "b"}
Words(S, n) == UNION {[1 .. k -> S] : k \in 0 .. n}
SegmentPats == Words(Chars \cup {"*"}, 4)
A == <<"a">>
B == <<"b">>
AB == <<"a", "b">>
ABA == <<"a", "b", "a">>
Dot == <<".">>

Pat(absolute, segments) == [absolute |-> absolute, segments |-> segments]

(* Every pattern of one segment, against every name of up to four letters. *)
OneSegment == {Pat(TRUE, <<s>>) : s \in SegmentPats}
Flat == {{<<>>} \cup {<<n>> : n \in Words(Chars, 4) \ {<<>>}}}

(* Up to three segments, absolute or not, against trees of depth three.  A *)
(* relative pattern does not start with a slash.                           *)
Few == {<<"*">>, A, <<"a", "*">>, <<"*", "b">>, <<"?">>, <<>>}
Multi ==
  {Pat(abs, segs) : abs \in BOOLEAN, segs \in UNION {[1 .. k -> Few] : k \in 1 .. 3}}
    \ {Pat(FALSE, segs) : segs \in {s \in UNION {[1 .. k -> Few] : k \in 1 .. 3} : s[1] = <<>>}}

Bushy ==
  {<<>>, <<A>>, <<B>>, <<AB>>, <<A, A>>, <<A, B>>, <<AB, B>>, <<A, B, AB>>,
   <<AB, B, A>>, <<B, B>>}
Trees ==
  {{path \in Bushy : \A k \in 1 .. Len(path) : SubSeq(path, 1, k) \notin cut} :
     cut \in {{}, {<<A>>}, {<<AB>>}, {<<A, B>>}}}

AnyPattern == OneSegment \cup Multi
AnyStore == Flat \cup Trees

(* Two patterns that PurePosixPath takes for the same one. *)
Dotted == {Pat(TRUE, segs) : segs \in {<<A, Dot, B>>, <<A, B>>}}
=============================================================================
