---------------------------- MODULE MCReadSubset ----------------------------
(* Small arrays and keys for ReadSubset. *)
EXTENDS ReadSubset

Int1(k) == [kind |-> "int", at |-> k]
Slice(a, b, s) == [kind |-> "slice", from |-> a, to |-> b, step |-> s]

Req(shape, chunk, key) ==
  [shape |-> shape, chunk |-> chunk, key |-> key, gridded |-> TRUE]

(* One axis: every chunk size and every key around the bounds. *)
Keys1 == {Int1(k) : k \in -6 .. 5} \cup {Slice(a, b, 1) : a \in -6 .. 6, b \in -6 .. 6}
           \cup {Slice(0, 5, 2)}
OneAxis ==
  {Req(<<n>>, <<c>>, <<k>>) : n \in {0, 1, 5}, c \in {1, 2, 3, 7}, k \in Keys1}

(* Two and three axes, with chunks that do not divide the sizes. *)
Keys2 == {Int1(-1), Int1(2), Slice(1, 3, 1), Slice(0, 4, 1), Slice(2, 1, 1), Slice(-3, 4, 1)}
TwoAxes ==
  {Req(<<4, 3>>, <<c, 2>>, <<j, k>>) : c \in {1, 3}, j \in Keys2, k \in Keys2}
ThreeAxes ==
  {Req(<<2, 3, 3>>, <<1, 2, 2>>, <<Int1(1), k, Slice(1, 3, 1)>>) : k \in Keys2}
Scalar == {Req(<<>>, <<>>, <<>>)}

(* An array that ends exactly one chunk below the word size, 1024. *)
Long ==
  {Req(<<1024 - c>>, <<c>>, <<k>>) :
     c \in {1, 4, 7}, k \in {Int1(-1), Int1(1016), Slice(1010, 1016, 1), Slice(-3, 2000, 1)}}

(* Without a grid, empty or not. *)
Ungridded ==
  {[Req(<<n>>, <<2>>, <<Slice(0, 3, 1)>>) EXCEPT !.gridded = FALSE] : n \in {0, 5}}

MCRequests == OneAxis \cup TwoAxes \cup ThreeAxes \cup Scalar \cup Long \cup Ungridded

=============================================================================
