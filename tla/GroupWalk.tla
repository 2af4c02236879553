------------------------------ MODULE GroupWalk ------------------------------
(***************************************************************************)
(* What walk_recursive (src/src/walk.rs) promises its caller, whichever    *)
(* walker it dispatches to: one answer, either an error or a list of       *)
(* nodes, each a group with the arrays directly below it.                  *)
(*                                                                         *)
(* The store may change while the call runs, so the promise is about what  *)
(* it held meanwhile: `stable' is what was there all along, `ever' what    *)
(* was there at some moment.  A group that was stable, and whose ancestors *)
(* up to Root were, may not be left out; a group that was never there may  *)
(* not be made up; parents come before their children; and an error needs  *)
(* a reason.                                                               *)
(*                                                                         *)
(* The two kinds of source differ in three ways.  The snapshot of an       *)
(* icechunk session never changes.  A vanilla store is descended, so that  *)
(* what is below a missing group is out of reach, and the group asked for  *)
(* must be there; a snapshot is listed whole, so that the groups asked for *)
(* are those it holds, none of them perhaps, but an array is not left      *)
(* without its group.  And a session may refuse the call out of hand.      *)
(***************************************************************************)
EXTENDS Hierarchy

CONSTANTS
  Faulty,   \* the nodes whose requests, or metadata, the store may fail
  Refusals  \* how a session may refuse: "InvalidInput", "Other"

VARIABLES
  source,    \* "vanilla" or "icechunk"
  present,   \* the nodes the store holds now
  stable,    \* the nodes it has held ever since the call began
  ever,      \* the nodes it has held at some moment of the call
  answer     \* what the call returned

vars == <<source, present, stable, ever, answer>>

NoAnswer == [kind |-> "none", nodes |-> <<>>]

Init ==
  /\ source \in {"vanilla", "icechunk"}
  /\ present \subseteq Nodes
  /\ stable = present /\ ever = present
  /\ answer = NoAnswer

(* The other users of a vanilla store create and delete nodes. *)
Change ==
  /\ source = "vanilla"
  /\ \E n \in Nodes :
       present' = IF n \in present THEN present \ {n} ELSE present \cup {n}
  /\ stable' = stable \cap present'
  /\ ever' = ever \cup present'
  /\ UNCHANGED <<source, answer>>

(* The groups the call is about, were they all there. *)
Asked ==
  {g \in Groups :
     Above(Root, g) /\ (Recursive \/ g = Root) /\ (g # Root => g \in Keep)}

(* Those a walk comes to when the source holds the nodes S. *)
Walkable(S) == IF source = "vanilla" THEN Reachable(S) ELSE S \cap Asked

(* Groups that are missing, while arrays are there of which they would be  *)
(* the parent.  Only a walk that lists a snapshot comes to see those.      *)
Orphaning == {g \in Asked \ ever : ChildArrays(ever, g) # {}}

PathsOf(nodes) == {nodes[i].path : i \in DOMAIN nodes}

(* Every group once, and after each of its ancestors that is listed. *)
ParentsFirst(nodes) ==
  \A i, j \in DOMAIN nodes :
    Above(nodes[i].path, nodes[j].path) => i <= j

(* Each listed group has the arrays it was seen with. *)
ArraysOf(nodes) ==
  \A i \in DOMAIN nodes :
    /\ ChildArrays(stable, nodes[i].path) \subseteq nodes[i].vars
    /\ nodes[i].vars \subseteq ChildArrays(ever, nodes[i].path)

AnswerNodes ==
  LET nodes == answer'.nodes IN
  /\ answer'.kind = "ok"
  /\ source = "vanilla" => Len(nodes) > 0 /\ nodes[1].path = Root
  /\ source = "icechunk" => Orphaning = {}
  /\ Walkable(stable) \subseteq PathsOf(nodes)
  /\ PathsOf(nodes) \subseteq Walkable(ever)
  /\ ParentsFirst(nodes)
  /\ ArraysOf(nodes)

(* NotFound (a KeyError) needs a group that was missing at some moment,    *)
(* and a store to look for it in.                                          *)
AnswerNotFound ==
  /\ source = "vanilla"
  /\ answer' = [kind |-> "NotFound", nodes |-> <<>>]
  /\ \E g \in Walkable(ever \cup {Root}) : g \notin stable

(* Other (a RuntimeError) needs a request the store failed, an array that  *)
(* went away between being listed and being opened, or one that has no     *)
(* group to go to.                                                         *)
AnswerOther ==
  /\ answer' = [kind |-> "Other", nodes |-> <<>>]
  /\ \/ \E g \in Walkable(ever \cup {Root}) :
          \/ g \in Faulty
          \/ \E a \in ChildArrays(ever, g) : a \in Faulty \/ a \notin stable
     \/ source = "icechunk" /\ Orphaning # {}

(* The session refuses the path, or does not list its nodes. *)
AnswerRefused ==
  /\ source = "icechunk"
  /\ \E kind \in Refusals : answer' = [kind |-> kind, nodes |-> <<>>]

Answer ==
  /\ answer = NoAnswer
  /\ AnswerNodes \/ AnswerNotFound \/ AnswerOther \/ AnswerRefused
  /\ UNCHANGED <<source, present, stable, ever>>

Next == Change \/ Answer

Spec == Init /\ [][Next]_vars

=============================================================================
