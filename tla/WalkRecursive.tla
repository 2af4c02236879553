---------------------------- MODULE WalkRecursive ----------------------------
(***************************************************************************)
(* One call of walk_recursive (src/src/walk.rs): a semaphore is made, the  *)
(* walker of the source runs, and the eager phase goes over the nodes it   *)
(* found, under the permits of the same semaphore.  An error of the walk   *)
(* is the answer; eager_phase has none.                                    *)
(*                                                                         *)
(* A vanilla store is walked as in VanillaWalk, step by step, and others   *)
(* may write to it until the call has returned.  The walk of a session     *)
(* takes no permit and its snapshot never changes, so it is the one step   *)
(* that GroupWalk promises and IcechunkWalk implements.                    *)
(***************************************************************************)
EXTENDS VanillaWalk

CONSTANTS
  Refusals, \* how a session may refuse: "InvalidInput", "Other"
  Stores,   \* what each kind of source may hold at first
  MetaOf,   \* the metadata of each array, a VarMeta
  Word, MaxElements, MaxObjectElements, MaxObjectBytes  \* see EagerPhase

ASSUME WalkRecursiveAssumption ==
  /\ Refusals \subseteq {"InvalidInput", "Other"}
  /\ DOMAIN Stores = {"vanilla", "icechunk"}
  /\ DOMAIN MetaOf = Arrays
  /\ \A a \in Arrays :
       LET v == MetaOf[a] IN
       /\ v.array = a
       /\ v.type \in {"numeric", "string", "bytes"}
       /\ v.shape \in Seq(0 .. Word - 1) /\ Len(v.dims) = Len(v.shape)
  /\ {Word, MaxElements, MaxObjectElements, MaxObjectBytes} \subseteq Nat \ {0}

VARIABLES
  source,       \* "vanilla" or "icechunk"
  stage,        \* the phase of the call: "walking", "reading" or "returned"
  nodes,        \* the nodes the eager phase works on, see EagerPhase
  fetch, eager

Eager == INSTANCE EagerPhase

walking == <<store, phase, task, kids, out, paths, opening, answer>>
reading == <<stage, nodes, fetch, eager>>
callVars == <<source, permits, walking, reading>>

-----------------------------------------------------------------------------
CallInit ==
  /\ source \in DOMAIN Stores
  /\ present \in Stores[source]
  /\ Init
  /\ Eager!Init

(* Bound: others write the nodes a vanilla store may hold at first. *)
Writable == {n \in Nodes : \E S \in Stores["vanilla"] : n \in S}

(* Others may write to a vanilla store as long as the call runs. *)
Overwrite ==
  /\ source = "vanilla" /\ stage # "returned"
  /\ \E n \in Writable : Write(n)
  /\ UNCHANGED <<source, reading>>

VanillaStep(A) == source = "vanilla" /\ A /\ UNCHANGED <<source, reading>>

Promised == INSTANCE GroupWalk

(* The list of the groups that are there, be the one asked for among them  *)
(* or not, in any order in which parents come first, or an error that has  *)
(* a reason.                                                               *)
SnapshotAnswers ==
  {[kind |-> "ok",
    nodes |-> [i \in DOMAIN order |->
                 [path |-> order[i], vars |-> ChildArrays(present, order[i])]]] :
     order \in SetToSeqs(Promised!Walkable(present))}
    \cup {[kind |-> kind, nodes |-> <<>>] : kind \in {"Other"} \cup Refusals}

WalkSnapshot ==
  /\ source = "icechunk" /\ phase # "returned"
  /\ answer' \in SnapshotAnswers
  /\ Promised!Answer
  /\ phase' = "returned"
  /\ UNCHANGED <<source, writes, discovery, opening, reading>>

-----------------------------------------------------------------------------
(* The nodes of the walk's answer, the variables of each in some order. *)
ListedNodes ==
  [i \in DOMAIN answer.nodes |->
     LET order == SetToSeq(answer.nodes[i].vars)
     IN  [j \in DOMAIN order |-> MetaOf[order[j]]]]

BeginEager ==
  /\ phase = "returned" /\ answer.kind = "ok"
  /\ Eager!Begin(ListedNodes)
  /\ UNCHANGED <<source, walking>>

EagerStep(A) == A /\ UNCHANGED <<source, walking>>

(* The walk's error is returned at once. *)
WalkFails ==
  /\ phase = "returned" /\ answer.kind # "ok" /\ stage = "walking"
  /\ stage' = "returned"
  /\ UNCHANGED <<source, permits, walking, nodes, fetch, eager>>

CallReturned == stage = "returned" /\ UNCHANGED callVars

Call ==
  \/ VanillaStep(Discover)
  \/ VanillaStep(Open)
  \/ WalkSnapshot
  \/ WalkFails
  \/ BeginEager
  \/ EagerStep(Eager!Reads)
  \/ EagerStep(Eager!Assign)

CallNext == Overwrite \/ Call \/ CallReturned

(* Requests are answered and block_on keeps polling; writers owe nothing. *)
CallSpec == CallInit /\ [][CallNext]_callVars /\ WF_callVars(Call)

-----------------------------------------------------------------------------
(* One semaphore serves both phases: each of its permits is free, held by  *)
(* a discovery future inside its window, or by an eager read in flight,    *)
(* whatever has failed.  (walk.rs:155, 496-511, 734-755)                   *)
OneSemaphore ==
  permits + Cardinality(Holders) + Cardinality(Eager!InFlight) = Capacity

(* No variable whose real element count or string payload exceeds its cap  *)
(* is ever resident, even when the u64 product of its shape wraps to a     *)
(* small number.  (walk.rs:633-656, 664-687)                               *)
ResidentWithinCaps == Eager!ResidentWithinCaps

(* When the call returns, a variable holds values if and only if its own   *)
(* read succeeded, and then they are its own, whatever order the reads     *)
(* ended in and whichever of them failed.  (walk.rs:723-729, 757-761)      *)
OwnValues == Eager!OwnValues

(* What the caller gets is what GroupWalk promises, of either source:      *)
(* nothing that was there all along is missed or half opened, nothing is   *)
(* made up, parents come first, and an error has a reason of its kind.     *)
(* The eager phase, with reads failing and others writing meanwhile, adds  *)
(* no error and drops no node.  (walk.rs:85-117, 156-184, 745-752)         *)
Given ==
  IF stage # "returned" THEN NoAnswer
  ELSE [answer EXCEPT !.nodes =
          [i \in DOMAIN nodes |->
             [path |-> answer.nodes[i].path,
              vars |-> {nodes[i][j].array : j \in DOMAIN nodes[i]}]]]

Promise == INSTANCE GroupWalk WITH answer <- Given

KeepsPromise == Promise!Spec

(* The call returns, however small the cap, however deep the tree and      *)
(* whatever fails.  (walk.rs:155, 483-488, 745-752)                        *)
Terminates == <>(stage = "returned")

=============================================================================
