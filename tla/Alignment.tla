------------------------------ MODULE Alignment ------------------------------
(***************************************************************************)
(* The chunk alignment of one axis of a read: ZarrsArrayHandle.read_subset *)
(* of src/src/array.rs.  Sizes are u64 and their products wrap.            *)
(***************************************************************************)
EXTENDS Integers

CONSTANT Word   \* 2^64

ASSUME AlignmentAssumption == Word \in Nat \ {0}

(* start / cs * cs *)
Floor(start, cs) == (start \div cs) * cs

(* stop.div_ceil(cs) * cs *)
RoundUp(stop, cs) == (((stop + cs - 1) \div cs) * cs) % Word

(* .min(size) *)
CeilUnclipped(stop, cs, size) == RoundUp(stop, cs)

Ceil(stop, cs, size) ==
  IF RoundUp(stop, cs) <= size THEN RoundUp(stop, cs) ELSE size

(* The range read for the range asked for. *)
Aligned(range, cs, size) == <<Floor(range[1], cs), Ceil(range[2], cs, size)>>

(* stop - start *)
Extent(range) == (range[2] - range[1]) % Word

=============================================================================
