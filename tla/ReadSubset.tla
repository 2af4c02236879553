------------------------------ MODULE ReadSubset ------------------------------
(***************************************************************************)
(* One lazy read: RustyBackendArray._raw_indexing_method of                *)
(* src/python/rustytree/_array.py, and read_subset and slice_nd of         *)
(* src/src/array.rs.                                                       *)
(*                                                                         *)
(* The key xarray asks for becomes one range per axis; the ranges are      *)
(* widened to whole chunks, the chunks are read, and slice_nd copies the   *)
(* asked-for elements out of the row-major buffer, one per step.  An       *)
(* element is represented by its coordinates in the array.                 *)
(***************************************************************************)
EXTENDS Alignment, FiniteSets, SequencesExt

CONSTANT Requests   \* records [shape, chunk, key, gridded]: one key entry for each axis

(* An axis ends at least a chunk below the word size. *)
ASSUME ReadSubsetAssumption ==
  \A r \in Requests :
    /\ r.shape \in Seq(Nat) /\ r.chunk \in Seq(Nat \ {0})
    /\ DOMAIN r.chunk = DOMAIN r.shape /\ DOMAIN r.key = DOMAIN r.shape
    /\ r.gridded \in BOOLEAN
    /\ \A i \in DOMAIN r.shape :
         /\ r.shape[i] + r.chunk[i] <= Word
         /\ \/ r.key[i].kind = "int" /\ r.key[i].at \in Int
            \/ /\ r.key[i].kind = "slice"
               /\ {r.key[i].from, r.key[i].to, r.key[i].step} \subseteq Int

VARIABLES
  request,  \* what is read
  pc,       \* "key", "ranges", "copy" or "returned"
  ranges,   \* the range asked for on each axis: start, and stop exclusive
  box,      \* the ranges read
  elements, \* the buffer read
  idx,      \* slice_nd's multi-dimensional index into the result
  out,      \* the elements returned
  error     \* the Python exception raised, or "none"

vars == <<request, pc, ranges, box, elements, idx, out, error>>

-----------------------------------------------------------------------------
Axes == DOMAIN request.shape

ProductOf(s) ==
  LET p[n \in 0 .. Len(s)] == IF n = 0 THEN 1 ELSE p[n - 1] * s[n]
  IN  p[Len(s)]

Extents(rs) == [i \in DOMAIN rs |-> Extent(rs[i])]
Zeros(n) == [i \in 1 .. n |-> 0]

(* src_strides of a row-major buffer. *)
StridesForward(dims) == [i \in DOMAIN dims |-> ProductOf(SubSeq(dims, 1, i - 1))]

Strides(dims) ==
  LET s[i \in DOMAIN dims] ==
        IF i = Len(dims) THEN 1 ELSE s[i + 1] * dims[i + 1]
  IN  s

(* The coordinates of a hyperrectangle, last axis fastest. *)
RowMajor(rs) ==
  LET dims == Extents(rs) IN
  [k \in 1 .. ProductOf(dims) |->
    [i \in DOMAIN rs |->
      rs[i][1] + (((k - 1) \div ProductOf(SubSeq(dims, i + 1, Len(dims)))) % dims[i])]]

(* slice.indices(size) for a unit step. *)
Clamp(v, size) ==
  IF v < 0 THEN (IF v + size < 0 THEN 0 ELSE v + size)
  ELSE IF v > size THEN size ELSE v

(* The range of a key's entry: an int, or a slice from .. to by step.      *)
ReversedKept(start, stop) == <<start, stop>>

Range0(start, stop) == <<start, IF start > stop THEN start ELSE stop>>

RangeOf(entry, size) ==
  IF entry.kind = "int"
  THEN LET at == IF entry.at < 0 THEN entry.at + size ELSE entry.at
       IN  <<at, at + 1>>
  ELSE Range0(Clamp(entry.from, size), Clamp(entry.to, size))

-----------------------------------------------------------------------------
Init ==
  /\ request \in Requests
  /\ pc = "key"
  /\ ranges = <<>> /\ box = <<>> /\ elements = <<>> /\ idx = <<>> /\ out = <<>>
  /\ error = "none"

Raise(exception) ==
  /\ error' = exception
  /\ pc' = "returned"
  /\ UNCHANGED <<request, ranges, box, elements, idx, out>>

(* _raw_indexing_method, up to the call of read_subset.  A negative range  *)
(* cannot cross into Rust as a u64.                                        *)
Translate ==
  /\ pc = "key"
  /\ LET key == request.key
         rs == [i \in Axes |-> RangeOf(key[i], request.shape[i])]
     IN  IF \E i \in Axes : key[i].kind = "slice" /\ key[i].step # 1
         THEN Raise("NotImplementedError")
         ELSE IF \E i \in Axes : rs[i][1] < 0
         THEN Raise("OverflowError")
         ELSE /\ ranges' = rs
              /\ pc' = "ranges"
              /\ UNCHANGED <<request, box, elements, idx, out, error>>

(* The contract read_subset checks before anything is read. *)
Reversed == \E i \in Axes : ranges[i][1] > ranges[i][2]
PastTheEnd == \E i \in Axes : ranges[i][2] > request.shape[i]
Empty == \E i \in Axes : ranges[i][1] = ranges[i][2]

Reject ==
  /\ pc = "ranges"
  /\ Reversed \/ PastTheEnd
  /\ LET first == Min({i \in Axes : \/ ranges[i][1] > ranges[i][2]
                                    \/ ranges[i][2] > request.shape[i]})
     IN  Raise(IF ranges[first][1] > ranges[first][2]
               THEN "ValueError" ELSE "IndexError")

(* The array's grid may have no first chunk to take the chunk shape from,  *)
(* which is looked up for an empty request, too.                           *)
LookUpFails ==
  /\ pc = "ranges" /\ ~Reversed /\ ~PastTheEnd /\ ~request.gridded
  /\ Raise("ValueError")

AlignedBox == [i \in Axes |-> Aligned(ranges[i], request.chunk[i], request.shape[i])]

(* The read of whole chunks; an empty request reads nothing, and neither   *)
(* does zarrs for a range that ends before it starts.                      *)
Fetch ==
  /\ pc = "ranges" /\ ~Reversed /\ ~PastTheEnd /\ request.gridded
  /\ box' = AlignedBox
  /\ elements' = IF Empty \/ \E i \in Axes : box'[i][1] >= box'[i][2]
                  THEN <<>> ELSE RowMajor(AlignedBox)
  /\ IF AlignedBox = ranges
     THEN out' = elements' /\ pc' = "returned"
     ELSE out' = <<>> /\ pc' = "copy"
  /\ idx' = Zeros(Len(request.shape))
  /\ UNCHANGED <<request, ranges, error>>

(* The store fails the read. *)
FetchFails ==
  /\ pc = "ranges" /\ ~Reversed /\ ~PastTheEnd /\ request.gridded /\ ~Empty
  /\ Raise("ValueError")

(* Where in the buffer the next element is. *)
OffsetAbsolute(i) == ranges[i][1]

Offset(i) == ranges[i][1] - box[i][1]

Source ==
  LET src[n \in 0 .. Len(box)] ==
        IF n = 0 THEN 0
        ELSE src[n - 1] + (Offset(n) + idx[n]) * Strides(Extents(box))[n]
  IN  src[Len(box)]

(* The index of the next element, last axis first, carrying. *)
Increment(x, dims) ==
  LET carried == {i \in DOMAIN dims : \A j \in i + 1 .. Len(dims) : x[j] + 1 = dims[j]}
  IN  [i \in DOMAIN dims |->
        IF i \notin carried THEN x[i] ELSE IF x[i] + 1 < dims[i] THEN x[i] + 1 ELSE 0]

Copy ==
  /\ pc = "copy"
  /\ Len(out) < ProductOf(Extents(ranges))
  /\ out' = Append(out, elements[Source + 1])
  /\ idx' = Increment(idx, Extents(ranges))
  /\ UNCHANGED <<request, pc, ranges, box, elements, error>>

Finish ==
  /\ pc = "copy"
  /\ Len(out) = ProductOf(Extents(ranges))
  /\ pc' = "returned"
  /\ UNCHANGED <<request, ranges, box, elements, idx, out, error>>

Returned == pc = "returned" /\ UNCHANGED vars

Read == Translate \/ Reject \/ LookUpFails \/ Fetch \/ FetchFails \/ Copy \/ Finish

Next == Read \/ Returned

Spec == Init /\ [][Next]_vars

-----------------------------------------------------------------------------
(* The buffer is never indexed past its end, which would panic, not even   *)
(* by an empty request, whose buffer is empty.  (array.rs:405-434)         *)
InBounds ==
  pc = "copy" /\ Len(out) < ProductOf(Extents(ranges)) =>
    Source \in 0 .. Len(elements) - 1

(* What an entry selects, as numpy defines it; an int selects one position *)
(* or is an error.                                                         *)
Selected(entry, size) ==
  IF entry.kind = "int"
  THEN {p \in 0 .. size - 1 : p = entry.at \/ p = entry.at + size}
  ELSE LET from == IF entry.from < 0 THEN entry.from + size ELSE entry.from
           to == IF entry.to < 0 THEN entry.to + size ELSE entry.to
       IN  {p \in 0 .. size - 1 : from <= p /\ p < to}

(* A read that raises nothing returns exactly what the key selects, in     *)
(* row-major order, however the chunks lie.                                *)
(* (_array.py:65-108, array.rs:236-435)                                    *)
ReadsWhatIsSelected ==
  pc = "returned" /\ error = "none" =>
    LET sel == [i \in Axes |-> Selected(request.key[i], request.shape[i])]
        n == ProductOf([i \in Axes |-> Cardinality(sel[i])])
    IN  /\ Len(out) = n
        /\ \A i \in Axes : request.key[i].kind = "int" => sel[i] # {}
        /\ {out[k] : k \in DOMAIN out} =
             {c \in [Axes -> UNION {sel[i] : i \in Axes}] :
                \A i \in Axes : c[i] \in sel[i]}
        /\ \A k \in 1 .. n - 1 :
             \E i \in Axes : /\ out[k][i] < out[k + 1][i]
                             /\ \A j \in 1 .. i - 1 : out[k][j] = out[k + 1][j]

(* An exception has a cause of its own: an int that is out of bounds, a    *)
(* step, an array without a grid, or a request to the store, which an      *)
(* empty or reversed range never makes.  (_array.py:77-108,                *)
(* array.rs:236-285)                                                       *)
RaisesForAReason ==
  /\ error = "IndexError" \/ error = "OverflowError" =>
       \E i \in Axes : request.key[i].kind = "int"
                         /\ Selected(request.key[i], request.shape[i]) = {}
  /\ error = "NotImplementedError" =>
       \E i \in Axes : request.key[i].kind = "slice" /\ request.key[i].step # 1
  /\ error = "ValueError" => ~Reversed /\ (~Empty \/ ~request.gridded)

(* Only whole chunks are read, so that no read takes the path that does    *)
(* not know of missing chunks, and only chunks the request touches; an     *)
(* empty request reads nothing.  (array.rs:258-308)                        *)
WholeTouchedChunks ==
  elements # <<>> =>
    /\ ~Empty
    /\ \A i \in Axes :
         LET cs == request.chunk[i] IN
         /\ box[i][1] % cs = 0
         /\ box[i][2] % cs = 0 \/ box[i][2] = request.shape[i]
         /\ box[i][2] <= request.shape[i]
         /\ ranges[i][1] - box[i][1] \in 0 .. cs - 1
         /\ box[i][2] - ranges[i][2] \in 0 .. cs - 1

=============================================================================
