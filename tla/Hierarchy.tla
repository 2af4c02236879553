------------------------------ MODULE Hierarchy ------------------------------
(***************************************************************************)
(* The tree of groups and arrays a Zarr v3 store holds, as src/src/walk.rs *)
(* names it: a node is its path, the sequence of names from the store's    *)
(* root, so that <<>> stands for "/" and <<"a", "t">> for "/a/t".          *)
(***************************************************************************)
EXTENDS Naturals, Sequences, FiniteSets

CONSTANTS
  Names,      \* the names path segments are drawn from
  Groups,     \* every path a group may have
  Arrays,     \* every path an array may have
  Root,       \* the group the caller asks for (group=, "/" by default)
  Recursive,  \* recursive=: descend below Root, or open Root only
  Keep        \* the groups could_descendant_match() keeps; all without a glob

ASSUME HierarchyAssumption ==
  /\ IsFiniteSet(Groups) /\ Groups \subseteq Seq(Names)
  /\ IsFiniteSet(Arrays) /\ Arrays \subseteq Seq(Names)
  /\ Groups \cap Arrays = {}
  /\ Root \in Groups
  /\ Keep \subseteq Groups
  /\ Recursive \in BOOLEAN

Nodes == Groups \cup Arrays

-----------------------------------------------------------------------------
(* m is n or one of its ancestors. *)
Above(m, n) == Len(m) <= Len(n) /\ SubSeq(n, 1, Len(m)) = m

(* n is directly below g: g is parent_of(n). *)
IsChild(g, n) == Len(n) = Len(g) + 1 /\ Above(g, n)

ChildGroups(S, g) == {c \in S \cap Groups : IsChild(g, c)}
ChildArrays(S, g) == {a \in S \cap Arrays : IsChild(g, a)}

(***************************************************************************)
(* The groups a walk from Root can reach when the store holds the nodes S: *)
(* every group on the way down from Root is there, and none below Root is  *)
(* pruned.  Root itself is never tested against the glob.                  *)
(***************************************************************************)
Reachable(S) ==
  {g \in S \cap Groups :
     /\ Above(Root, g)
     /\ Recursive \/ g = Root
     /\ \A k \in Len(Root) .. Len(g) :
          LET m == SubSeq(g, 1, k) IN m \in S /\ (m # Root => m \in Keep)}

=============================================================================
