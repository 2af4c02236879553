----------------------------- MODULE OpenDatatree -----------------------------
(***************************************************************************)
(* open_datatree(group=...) of src/python/rustytree/backend.py over an     *)
(* icechunk repository that other writers commit to: one walk of the       *)
(* group's subtree, then one open_dataset per ancestor, then the merge of  *)
(* the ancestors into the new root.  Each of these crosses into Rust, and  *)
(* each resolves the source anew:                                          *)
(*   "bytes"   a session, serialised once and pinned to its snapshot,      *)
(*   "branch"  a local path, whose branch tip is looked up at each open.   *)
(* Which of the two it is, is an argument of the call.                     *)
(*                                                                         *)
(* A path to the group is a chain, so a group is named by its depth.  A    *)
(* dataset maps the names of its variables to                              *)
(*   role   coordinate or data variable,                                   *)
(*   dim    the dimension the variable lies along, or NoDim; a variable    *)
(*          along the dimension of its own name is that dimension's index, *)
(*   on     the labels of the dimension, or the positions along one        *)
(*          without an index, that the variable has values for,            *)
(*   stamp  which stands for the values.                                   *)
(***************************************************************************)
EXTENDS Integers, Sequences, FiniteSets

CONSTANTS
  Names,       \* names of variables and dimensions
  NoDim,       \* the dimension of a scalar
  Labels,      \* labels of a dimension's index, and positions along one
  Contents,    \* what writers put into a group, with stamp 0
  Depth,       \* depth of the deepest group
  Sources,     \* the kinds of source callers open: "bytes", "branch"
  Spellings,   \* the ways to write a group's path that callers use
  MaxCommits   \* bound: commits made during the calls

Depths == 0 .. Depth
Roles == {"coord", "data"}
Stamps == 0 .. MaxCommits

Variables == [role : Roles, dim : Names \cup {NoDim}, on : SUBSET Labels, stamp : Stamps]

IsDataset(ds) == \E S \in SUBSET Names : ds \in [S -> Variables]

(* What a group can hold: the variables along a dimension agree on it, and *)
(* its index is a coordinate.                                              *)
WellFormed(ds) ==
  /\ IsDataset(ds)
  /\ \A n \in DOMAIN ds : /\ ds[n].dim = n => ds[n].role = "coord"
                          /\ ds[n].dim = NoDim => ds[n].on = {}
  /\ \A n, m \in DOMAIN ds : ds[n].dim = ds[m].dim => ds[n].on = ds[m].on

ASSUME OpenDatatreeAssumption ==
  /\ Depth \in Nat /\ MaxCommits \in Nat
  /\ NoDim \notin Names
  /\ \A c \in Contents : WellFormed(c) /\ \A n \in DOMAIN c : c[n].stamp = 0
  /\ Sources \subseteq {"bytes", "branch"}
  /\ Spellings \subseteq {"absolute", "relative", "trailing", "runs", "doubled"}

(* A group exists only if its parent does, and the root always does. *)
IsTree(t) ==
  \E d \in Depths : /\ DOMAIN t = 0 .. d /\ t = [e \in DOMAIN t |-> t[e]]
                    /\ \A e \in 0 .. d : IsDataset(t[e])

VARIABLES
  history,   \* the repository's snapshots, oldest first
  pc,        \* "idle", "called", "merging" or "returned"
  call,      \* the arguments: source, group, spelling, include_ancestor_coords
  start,     \* the snapshot the session was at when it was serialised
  groups,    \* the datasets of the subtree, rerooted
  ancestors, \* the datasets of the ancestors opened so far, closest first
  answer     \* what the call returned

vars == <<history, pc, call, start, groups, ancestors, answer>>

-----------------------------------------------------------------------------
(* _normalize_literal_group.  PurePosixPath keeps exactly two leading      *)
(* slashes, so such a path is not the key of any group.                    *)
AsWritten(spelling) == spelling = "absolute"

Normalized(spelling) == spelling # "doubled"

(* The snapshot the next open reads: _to_rust_source's bytes are reused,   *)
(* a path's branch is resolved again.                                      *)
ViewAtTip(h, s, source) == h[Len(h)]

View(h, s, source) == IF source = "bytes" THEN h[s] ELSE h[Len(h)]

(* _reroot: what is at or below the group, the group becoming the root. *)
RerootUnshifted(tree, g) == [d \in {f \in DOMAIN tree : f >= g} |-> tree[d]]

Reroot(tree, g) == [d \in {e - g : e \in {f \in DOMAIN tree : f >= g}} |-> tree[d + g]]

Tree(nodes) == [kind |-> "tree", nodes |-> nodes]
Raised(exception) == [kind |-> exception, nodes |-> <<>>]

(* Dataset.dims and sizes. *)
Dims(ds) == {ds[n].dim : n \in DOMAIN ds} \ {NoDim}

IsIndex(ds, n) == n \in DOMAIN ds /\ ds[n].dim = n

Size(ds, d) ==
  IF IsIndex(ds, d) THEN Cardinality(ds[d].on)
  ELSE Cardinality(ds[CHOOSE n \in DOMAIN ds : ds[n].dim = d].on)

(* DataTree.from_dict wants a group exactly aligned with its ancestors.    *)
Exact(a, b) ==
  \A d \in Dims(a) \cap Dims(b) :
    IF IsIndex(a, d) /\ IsIndex(b, d) THEN a[d].on = b[d].on ELSE Size(a, d) = Size(b, d)

Assembled(nodes) ==
  IF \A d, e \in DOMAIN nodes : Exact(nodes[d], nodes[e]) THEN Tree(nodes)
  ELSE Raised("AlignmentError")

(* merge(compat="override") first aligns its datasets: a dimension gets    *)
(* the labels of all its indexes, and what lies along it without an index  *)
(* must have as many positions.                                            *)
Holders(dses, n) == {i \in DOMAIN dses : n \in DOMAIN dses[i]}
Indexes(dses, n) == {i \in DOMAIN dses : IsIndex(dses[i], n)}

Joint(dses, d) == UNION {dses[i][d].on : i \in Indexes(dses, d)}

Extents(dses, d) ==
  {Cardinality(Joint(dses, d)) : i \in Indexes(dses, d)} \cup
  {Size(dses[i], d) : i \in {j \in DOMAIN dses \ Indexes(dses, d) : d \in Dims(dses[j])}}

Misaligned(dses) == \E d \in Names : \E s, t \in Extents(dses, d) : s # t

(* No variable may be a coordinate in one of them and data in another.     *)
Ambiguous(dses) ==
  \E n \in Names : \E i, j \in Holders(dses, n) : dses[i][n].role # dses[j][n].role

(* Then an index wins over a variable without one, and the first dataset   *)
(* over the others.  Where a variable has no value for one of the joint    *)
(* labels, merge fills in NaN.                                             *)
FarthestFirst(S) == CHOOSE i \in S : \A j \in S : j <= i

ClosestFirst(S) == CHOOSE i \in S : \A j \in S : i <= j

Override(dses) ==
  [n \in {m \in Names : Holders(dses, m) # {}} |->
     IF Indexes(dses, n) = {} THEN dses[ClosestFirst(Holders(dses, n))][n]
     ELSE [dses[ClosestFirst(Indexes(dses, n))][n] EXCEPT !.on = Joint(dses, n)]]

Promoted(nodes, above) ==
  LET dses == <<nodes[0]>> \o above
  IN  IF Misaligned(dses) THEN Raised("AlignmentError")
      ELSE IF Ambiguous(dses) THEN Raised("MergeError")
      ELSE Assembled([nodes EXCEPT ![0] = Override(dses)])

-----------------------------------------------------------------------------
Calls ==
  [source : Sources \cup {"bytes"}, group : Depths,
   spelling : Spellings \cup {"absolute"}, include : BOOLEAN]

NoCall == [source |-> "bytes", group |-> 0, spelling |-> "absolute", include |-> FALSE]

Init ==
  /\ history \in {<<t>> : t \in UNION {[0 .. d -> Contents] : d \in Depths}}
  /\ pc = "idle"
  /\ call = NoCall
  /\ start = 1
  /\ groups = <<>> /\ ancestors = <<>>
  /\ answer = Raised("none")

(* The other users of the repository: its writers. *)
Tip == history[Len(history)]

Snapshot(t) ==
  /\ history' = Append(history, t)
  /\ UNCHANGED <<pc, call, start, groups, ancestors, answer>>

(* A commit rewrites any number of groups at once. *)
Written(content) == [n \in DOMAIN content |-> [content[n] EXCEPT !.stamp = Len(history)]]

CommitGroups ==
  /\ Len(history) <= MaxCommits
  /\ \E ds \in SUBSET DOMAIN Tip \ {{}}, content \in Contents :
       Snapshot([d \in DOMAIN Tip |-> IF d \in ds THEN Written(content) ELSE Tip[d]])

(* A commit deletes a group, and what is below it. *)
CommitDelete ==
  /\ Len(history) <= MaxCommits
  /\ \E d \in DOMAIN Tip \ {0} : Snapshot([e \in 0 .. d - 1 |-> Tip[e]])

Commit == CommitGroups \/ CommitDelete

(* open_datatree up to and including _to_rust_source. *)
Call ==
  /\ pc = "idle"
  /\ \E source \in Sources, g \in Depths, s \in Spellings, inc \in BOOLEAN :
       call' = [source |-> source, group |-> g, spelling |-> s, include |-> inc]
  /\ start' = Len(history)
  /\ pc' = "called"
  /\ UNCHANGED <<history, groups, ancestors, answer>>

Answer(a) ==
  /\ answer' = a
  /\ pc' = "returned"
  /\ UNCHANGED <<history, call, start>>

(* The walk of the subtree, and the check that the group is in it. *)
OpenTree ==
  /\ pc = "called"
  /\ LET g == call.group
         view == View(history, start, call.source)
     IN  /\ Normalized(call.spelling)
         /\ IF g \notin DOMAIN view
            THEN Answer(Raised("KeyError")) /\ UNCHANGED <<groups, ancestors>>
            ELSE /\ groups' = Reroot(view, g)
                 /\ ancestors' = <<>>
                 /\ IF call.include /\ g # 0
                    THEN pc' = "merging" /\ UNCHANGED <<history, call, start, answer>>
                    ELSE Answer(Assembled(Reroot(view, g)))

(* A path that is not canonical is refused or not found: the root's, too,  *)
(* for "//" is neither ROOT nor a key of the tree.                         *)
OpenTreeMisspelt ==
  /\ pc = "called"
  /\ ~Normalized(call.spelling)
  /\ \E exception \in {"KeyError", "ValueError"} : Answer(Raised(exception))
  /\ UNCHANGED <<groups, ancestors>>

(* open_dataset of the next ancestor, closest first; the last one is       *)
(* followed by the merge.                                                  *)
OpenAncestor ==
  /\ pc = "merging"
  /\ LET d == call.group - 1 - Len(ancestors)
         view == View(history, start, call.source)
     IN  IF d \notin DOMAIN view
         THEN Answer(Raised("KeyError")) /\ UNCHANGED <<groups, ancestors>>
         ELSE /\ ancestors' = Append(ancestors, view[d])
              /\ UNCHANGED groups
              /\ IF d = 0
                 THEN Answer(Promoted(groups, ancestors'))
                 ELSE UNCHANGED <<history, pc, call, start, answer>>

Done == pc = "returned" /\ UNCHANGED vars

Open == Call \/ OpenTree \/ OpenTreeMisspelt \/ OpenAncestor

Next == Commit \/ Open \/ Done

Spec == Init /\ [][Next]_vars

-----------------------------------------------------------------------------
(* The types of the variables. *)
TypeOK ==
  /\ Len(history) \in 1 .. MaxCommits + 1 /\ \A s \in 1 .. Len(history) : IsTree(history[s])
  /\ pc \in {"idle", "called", "merging", "returned"}
  /\ call \in Calls
  /\ start \in 1 .. Len(history)
  /\ Len(ancestors) <= call.group /\ \A i \in 1 .. Len(ancestors) : IsDataset(ancestors[i])
  /\ groups = <<>> \/ IsTree(groups)
  /\ answer.kind \in {"none", "tree", "KeyError", "ValueError", "MergeError",
                     "AlignmentError"}
  /\ answer.nodes = <<>> \/ IsTree(answer.nodes)

(* The datasets of the n closest ancestors of group g in a snapshot. *)
Above(view, g, n) == [i \in 1 .. n |-> view[g - i]]

(* What the call returns if nothing is committed meanwhile. *)
Promised(view, g, include) ==
  IF g \notin DOMAIN view THEN Raised("KeyError")
  ELSE IF include /\ g # 0 THEN Promoted(Reroot(view, g), Above(view, g, g))
  ELSE Assembled(Reroot(view, g))

Doubled == call.spelling = "doubled"

(* The answer of a call on a session is that of the snapshot the session   *)
(* was at when it was serialised, whatever is committed between the opens  *)
(* of the subtree and of each ancestor.  (backend.py:550-570)              *)
SnapshotPinned ==
  pc = "returned" /\ call.source = "bytes" /\ ~Doubled =>
    answer = Promised(history[start], call.group, call.include)

(* A call that says the group is missing has met a snapshot without it,    *)
(* however the path to the group was written: only a path with two leading *)
(* slashes is beyond it.  (backend.py:199-221, 516-521, 635-637)           *)
MissingMeansMissing ==
  answer.kind \in {"KeyError", "ValueError"} /\ ~Doubled =>
    \E s \in start .. Len(history) : call.group \notin DOMAIN history[s]

(* to_dataset(inherit="all_coords") of group g of a full tree. *)
Nearest(view, g, n) ==
  CHOOSE d \in 0 .. g : /\ n \in DOMAIN view[d]
                        /\ \A e \in d + 1 .. g : n \notin DOMAIN view[e]

Inherited(view, g) ==
  [n \in {m \in Names : \E d \in 0 .. g : m \in DOMAIN view[d] /\
                          (d = g \/ view[d][m].role = "coord")} |->
     view[Nearest(view, g, n)][n]]

CoordsOf(ds) == {<<n, ds[n]>> : n \in {m \in DOMAIN ds : ds[m].role = "coord"}}

(* A name that is an index in one group on the way, and not in another. *)
Shadowed(view, g) ==
  \E d, e \in 0 .. g : \E n \in DOMAIN view[d] \cap DOMAIN view[e] :
    IsIndex(view[d], n) /\ ~IsIndex(view[e], n)

Merged == answer.kind = "tree" /\ call.include /\ call.group # 0

(* Where the full tree can be opened at all, the new root of a subtree     *)
(* opened from a session has the coordinates a slice of it inherits, each  *)
(* from the closest group that has it, none with other labels or padded;   *)
(* the groups below are untouched.  (backend.py:333-344, 536-571)          *)
CoordsOfSlice ==
  LET view == history[start]
      g == call.group
  IN  /\ Merged /\ call.source = "bytes"
      /\ Assembled(view).kind = "tree" /\ ~Shadowed(view, g)
      =>
      /\ g \in DOMAIN view
      /\ CoordsOf(answer.nodes[0]) = CoordsOf(Inherited(view, g))
      /\ DOMAIN answer.nodes = {d - g : d \in {e \in DOMAIN view : e >= g}}
      /\ \A d \in DOMAIN answer.nodes \ {0} : answer.nodes[d] = view[d + g]

(* A merged answer is that of some one snapshot, so that there is a full   *)
(* tree it can be a slice of.  Each open of a local path looks the branch  *)
(* tip up again.  (backend.py:544-570, icechunk_store.rs:80-104)           *)
OneSnapshot ==
  Merged =>
    \E s \in start .. Len(history) :
      answer = Promised(history[s], call.group, call.include)

=============================================================================
