------------------------------ MODULE EagerPhase ------------------------------
(***************************************************************************)
(* The last phase of walk_recursive (src/src/walk.rs): eager_phase reads   *)
(* the values of the small coordinates xarray would read anyway, all in    *)
(* parallel, each under a permit of the walk's semaphore, and puts them on *)
(* the nodes.  It is best-effort: a read that fails leaves its variable to *)
(* be read lazily and never fails the open.  The walk before it, and the   *)
(* specification of both, are in WalkRecursive.                            *)
(*                                                                         *)
(* Element counts are u64 products and wrap (release builds do not check   *)
(* overflow), so they are computed modulo Word.                            *)
(***************************************************************************)
EXTENDS Naturals, FiniteSets, SequencesExt

CONSTANTS
  Word,              \* 2^64: element counts wrap at it
  MaxElements,       \* EAGER_FETCH_MAX_ELEMENTS
  MaxObjectElements, \* EAGER_FETCH_MAX_OBJECT_ELEMENTS
  MaxObjectBytes     \* EAGER_FETCH_MAX_OBJECT_BYTES

VARIABLES
  nodes,    \* the walk's nodes, each a sequence of variables (VarMeta)
  permits,  \* the semaphore's free permits
  stage,    \* "walking" before it, then "reading", or "returned"
  fetch,    \* the state of each read of the work list
  eager     \* the array each variable of each node has values of, or Unread

-----------------------------------------------------------------------------
(* No array's path. *)
Unread == <<>>

(* dims == [name]: xarray will make an index of the variable. *)
IsSelfNamed1D(v) == v.dims = <<v.name>>

Product(shape) == FoldLeft(LAMBDA x, y : x * y, 1, shape)

WrappedProduct(shape) == FoldLeft(LAMBDA x, y : (x * y) % Word, 1, shape)

(* The VarMeta dtype of both strings and raw bytes is "object". *)
IsObject(v) == v.type \in {"string", "bytes"}

(* should_eager_fetch *)
ShouldFetchAnySmall(v) ==
  LET n == WrappedProduct(v.shape) IN
  IF IsObject(v)
  THEN n <= MaxObjectElements /\ (v.shape = <<>> \/ IsSelfNamed1D(v))
  ELSE n <= MaxElements \/ IsSelfNamed1D(v)

ShouldFetch(v) ==
  LET n == WrappedProduct(v.shape) IN
  IF IsObject(v)
  THEN n <= MaxObjectElements /\ (v.shape = <<>> \/ IsSelfNamed1D(v))
  ELSE n <= MaxElements /\ IsSelfNamed1D(v)

(* The reads eager_phase makes, node by node: (node, variable) positions.  *)
WorkOf(ns) ==
  FlattenSeq([i \in DOMAIN ns |->
    FlattenSeq([j \in DOMAIN ns[i] |->
      IF ShouldFetch(ns[i][j]) THEN << <<i, j>> >> ELSE <<>>])])

Work == WorkOf(nodes)
VarAt(p) == nodes[p[1]][p[2]]

Lazy(ns) == [i \in DOMAIN ns |-> [j \in DOMAIN ns[i] |-> Unread]]

Init ==
  /\ nodes = <<>>
  /\ fetch = <<>>
  /\ stage = "walking"
  /\ eager = <<>>

(* eager_phase is called with the walk's nodes. *)
Begin(ns) ==
  /\ stage = "walking"
  /\ nodes' = ns
  /\ fetch' = [k \in DOMAIN WorkOf(ns) |-> "queued"]
  /\ stage' = IF WorkOf(ns) = <<>> THEN "returned" ELSE "reading"
  /\ eager' = Lazy(ns)
  /\ UNCHANGED permits

-----------------------------------------------------------------------------
(* A read gets its permit, which it keeps until it is over. *)
Acquire(k) ==
  /\ fetch[k] = "queued" /\ permits > 0
  /\ permits' = permits - 1
  /\ fetch' = [fetch EXCEPT ![k] = "reading"]
  /\ UNCHANGED <<nodes, stage, eager>>

(* fetch_all_elements returns Ok: only for a type it supports, and for     *)
(* strings only when the bytes that came back are within the cap.          *)
Fetchable(v) ==
  \/ v.type = "numeric"
  \/ v.type = "string" /\ v.bytes <= MaxObjectBytes

Fetched(k) ==
  /\ fetch[k] = "reading"
  /\ Fetchable(VarAt(Work[k]))
  /\ permits' = permits + 1
  /\ fetch' = [fetch EXCEPT ![k] = "fetched"]
  /\ UNCHANGED <<nodes, stage, eager>>

(* It returns Err: the type, the byte cap, or a failed request, which any  *)
(* read may meet.  The variable stays lazy.                                *)
PermitLost == permits

PermitReturnedTwice == permits + 2

PermitAfterSkip == permits + 1

Skipped(k) ==
  /\ fetch[k] = "reading"
  /\ permits' = PermitAfterSkip
  /\ fetch' = [fetch EXCEPT ![k] = "skipped"]
  /\ UNCHANGED <<nodes, stage, eager>>

(* Where the values of the k-th read go: to its (node, variable) position. *)
TargetByVariable(k, i, j) == Work[k][2] = j

Target(k, i, j) == Work[k] = <<i, j>>

Placed(i, j) ==
  LET ks == {k \in DOMAIN Work : fetch[k] = "fetched" /\ Target(k, i, j)}
  IN  IF ks = {} THEN Unread ELSE VarAt(Work[CHOOSE k \in ks : TRUE]).array

(* All reads are over: their values are assigned and the walk returns. *)
Assign ==
  /\ stage = "reading"
  /\ \A k \in DOMAIN fetch : fetch[k] \in {"fetched", "skipped"}
  /\ eager' = [i \in DOMAIN nodes |-> [j \in DOMAIN nodes[i] |-> Placed(i, j)]]
  /\ stage' = "returned"
  /\ UNCHANGED <<nodes, permits, fetch>>

Reads == \E k \in DOMAIN fetch : Acquire(k) \/ Fetched(k) \/ Skipped(k)

-----------------------------------------------------------------------------
InFlight == {k \in DOMAIN fetch : fetch[k] = "reading"}

(* No variable whose real element count or string payload exceeds its cap  *)
(* is ever resident, even when the u64 product of its shape wraps to a     *)
(* small number.  (walk.rs:633-656, 664-687)                               *)
ResidentWithinCaps ==
  \A i \in DOMAIN nodes : \A j \in DOMAIN nodes[i] :
    LET v == nodes[i][j] IN
    eager[i][j] # Unread =>
      IF IsObject(v)
      THEN Product(v.shape) <= MaxObjectElements /\ v.bytes <= MaxObjectBytes
      ELSE Product(v.shape) <= MaxElements

(* When the walk returns, a variable holds values if and only if its own   *)
(* read succeeded, and then they are its own, whatever order the reads     *)
(* ended in and whichever of them failed.  (walk.rs:723-729, 757-761)      *)
OwnValues ==
  stage = "returned" =>
    \A i \in DOMAIN nodes : \A j \in DOMAIN nodes[i] :
      eager[i][j] =
        IF \E k \in DOMAIN Work : Work[k] = <<i, j>> /\ fetch[k] = "fetched"
        THEN nodes[i][j].array ELSE Unread

=============================================================================
