----------------------------- MODULE VanillaWalk -----------------------------
(***************************************************************************)
(* The walk of a vanilla Zarr v3 store: walk_via_zarrs, discover_paths and *)
(* open_single of src/src/walk.rs.                                         *)
(*                                                                         *)
(* Discovery is a tree of futures, one per group.  Each waits for a permit *)
(* of the call's semaphore, opens its group, lists the child groups, gives *)
(* the permit back and only then starts and awaits one future per child    *)
(* the glob keeps.  When the root's future is done, every path found is    *)
(* opened with its arrays, all at once and without permits.  The first     *)
(* error of either phase drops every other future and is the answer.       *)
(*                                                                         *)
(* All of it is one future polled by one block_on, so a step is what one   *)
(* completed request lets the walk do; other users of the store write to   *)
(* it in between.  What the walk promises is GroupWalk: WalkRecursive has  *)
(* the rest of the call, and checks the promise.                           *)
(***************************************************************************)
EXTENDS Hierarchy, SequencesExt

CONSTANTS
  Unset,           \* max_concurrency=None
  MaxConcurrency,  \* max_concurrency=, or Unset
  Faulty,          \* the nodes whose requests the store may fail
  MaxWrites        \* bound on the writes of other users during the call

ASSUME VanillaWalkAssumption ==
  /\ MaxConcurrency \in Nat \cup {Unset}
  /\ Faulty \subseteq Nodes
  /\ MaxWrites \in Nat

VARIABLES
  present, stable, ever, writes,  \* the store: see GroupWalk; writes so far
  phase,    \* "discover", "open" or "returned"
  permits,  \* the semaphore's free permits
  task,     \* the state of each group's discover_paths future
  kids,     \* the child groups each future descends into, in listing order
  out,      \* the paths each finished future hands to its parent
  paths,    \* what discovery found
  opener,   \* the state of each found group's open_single future
  vars,     \* the child arrays each open_single has listed
  opened,   \* the arrays whose metadata has been opened
  answer

store == <<present, stable, ever, writes>>
discovery == <<permits, task, kids, out, paths>>
opening == <<opener, vars, opened>>
allVars == <<store, phase, discovery, opening, answer>>

NoAnswer == [kind |-> "none", nodes |-> <<>>]

-----------------------------------------------------------------------------
(* Semaphore::new(max_concurrency.unwrap_or(32).max(1)). *)
Capacity ==
  IF MaxConcurrency = Unset THEN 32
  ELSE IF MaxConcurrency = 0 THEN 1 ELSE MaxConcurrency

(* Where a future stands in the window the permit covers. *)
Holders == {g \in Groups : task[g] \in {"opening", "listing"}}

(* The child groups a future goes on with. *)
Kept(listed) == listed \cap Keep

(* What the permit count is once the window is left. *)
HeldAcrossJoin == permits

ReleasedTwice == permits + 2

Released == permits + 1

JoinableEarly(g) == task[g] = "joining"

Joinable(g) ==
  /\ task[g] = "joining"
  /\ \A i \in DOMAIN kids[g] : task[kids[g][i]] = "done"

(* out.push(path), then out.extend(sub) for each child in listing order. *)
ChildrenFirst(g) ==
  FlattenSeq([i \in DOMAIN kids[g] |-> out[kids[g][i]]]) \o <<g>>

Collected(g) ==
  <<g>> \o FlattenSeq([i \in DOMAIN kids[g] |-> out[kids[g][i]]])

(* try_join_all over open_single for every path. *)
OpenersFor(ps) ==
  [g \in Groups |-> IF g \in ToSet(ps) THEN "opening" ELSE "idle"]

-----------------------------------------------------------------------------
Init ==
  /\ present \in SUBSET Nodes
  /\ stable = present /\ ever = present /\ writes = 0
  /\ permits = Capacity
  /\ kids = [g \in Groups |-> <<>>]
  /\ out = [g \in Groups |-> <<>>]
  /\ vars = [g \in Groups |-> {}]
  /\ opened = {}
  /\ answer = NoAnswer
  /\ IF Recursive
     THEN /\ phase = "discover"
          /\ task = [g \in Groups |-> IF g = Root THEN "queued" ELSE "idle"]
          /\ paths = <<>>
          /\ opener = [g \in Groups |-> "idle"]
     ELSE /\ phase = "open"
          /\ task = [g \in Groups |-> "idle"]
          /\ paths = <<Root>>
          /\ opener = OpenersFor(<<Root>>)

(* Another user of the store creates or deletes the node n. *)
Write(n) ==
  /\ writes < MaxWrites
  /\ present' = IF n \in present THEN present \ {n} ELSE present \cup {n}
  /\ stable' = stable \cap present'
  /\ ever' = ever \cup present'
  /\ writes' = writes + 1
  /\ UNCHANGED <<phase, discovery, opening, answer>>

(* The first error: every future still running is dropped, its permit with *)
(* it, and nothing of what was gathered is returned.                       *)
Fail(kind) ==
  /\ phase' = "returned"
  /\ answer' = [kind |-> kind, nodes |-> <<>>]
  /\ permits' = Capacity
  /\ task' = [g \in Groups |-> "idle"]
  /\ kids' = [g \in Groups |-> <<>>]
  /\ out' = [g \in Groups |-> <<>>]
  /\ paths' = <<>>
  /\ opener' = [g \in Groups |-> "idle"]
  /\ vars' = [g \in Groups |-> {}]
  /\ opened' = {}
  /\ UNCHANGED store

-----------------------------------------------------------------------------
(* Discovery. *)

Acquire(g) ==
  /\ phase = "discover"
  /\ task[g] = "queued" /\ permits > 0
  /\ permits' = permits - 1
  /\ task' = [task EXCEPT ![g] = "opening"]
  /\ UNCHANGED <<store, phase, kids, out, paths, opening, answer>>

(* Group::async_open answers. *)
OpenGroup(g) ==
  /\ phase = "discover"
  /\ task[g] = "opening" /\ g \in present
  /\ task' = [task EXCEPT ![g] = "listing"]
  /\ UNCHANGED <<store, phase, permits, kids, out, paths, opening, answer>>

(* The group's metadata is absent: map_group_open_err. *)
GroupMissing(g) ==
  /\ phase = "discover"
  /\ task[g] = "opening" /\ g \notin present
  /\ Fail("NotFound")

(* async_child_group_paths answers; the permit is dropped before the       *)
(* futures of the children exist.                                          *)
ListKids(g) ==
  /\ phase = "discover"
  /\ task[g] = "listing"
  /\ \E order \in SetToSeqs(Kept(ChildGroups(present, g))) :
       /\ kids' = [kids EXCEPT ![g] = order]
       /\ task' = [h \in Groups |->
                     IF h = g THEN "joining"
                     ELSE IF h \in ToSet(order) THEN "queued" ELSE task[h]]
  /\ permits' = Released
  /\ UNCHANGED <<store, phase, out, paths, opening, answer>>

(* Every child's future is done and so is this one. *)
Join(g) ==
  /\ phase = "discover"
  /\ g # Root /\ Joinable(g)
  /\ task' = [task EXCEPT ![g] = "done"]
  /\ out' = [out EXCEPT ![g] = Collected(g)]
  /\ UNCHANGED <<store, phase, permits, kids, paths, opening, answer>>

(* Discovery is over; walk_via_zarrs starts one open_single per path. *)
JoinRoot ==
  /\ phase = "discover"
  /\ Joinable(Root)
  /\ task' = [task EXCEPT ![Root] = "done"]
  /\ out' = [out EXCEPT ![Root] = Collected(Root)]
  /\ paths' = Collected(Root)
  /\ opener' = OpenersFor(Collected(Root))
  /\ phase' = "open"
  /\ UNCHANGED <<store, permits, kids, vars, opened, answer>>

(* A request for the group fails for a reason other than absence. *)
DiscoveryFault(g) ==
  /\ phase = "discover"
  /\ g \in Holders \cap Faulty
  /\ Fail("Other")

-----------------------------------------------------------------------------
(* Opening: open_single and open_array_meta. *)

OpenNode(g) ==
  /\ phase = "open"
  /\ opener[g] = "opening" /\ g \in present
  /\ opener' = [opener EXCEPT ![g] = "listing"]
  /\ UNCHANGED <<store, phase, discovery, vars, opened, answer>>

NodeMissing(g) ==
  /\ phase = "open"
  /\ opener[g] = "opening" /\ g \notin present
  /\ Fail("NotFound")

ListArrays(g) ==
  /\ phase = "open"
  /\ opener[g] = "listing"
  /\ opener' = [opener EXCEPT ![g] = "arrays"]
  /\ vars' = [vars EXCEPT ![g] = ChildArrays(present, g)]
  /\ UNCHANGED <<store, phase, discovery, opened, answer>>

(* The arrays some open_single is waiting for. *)
AwaitedForever == UNION {vars[g] : g \in Groups}

AwaitedArrays == (UNION {vars[g] : g \in Groups}) \ opened

OpenArray(a) ==
  /\ phase = "open"
  /\ a \in AwaitedArrays \cap present
  /\ opened' = opened \cup {a}
  /\ UNCHANGED <<store, phase, discovery, opener, vars, answer>>

ArrayMissing(a) ==
  /\ phase = "open"
  /\ a \in AwaitedArrays \ present
  /\ Fail("Other")

OpenFault(n) ==
  /\ phase = "open"
  /\ n \in Faulty
  /\ \/ n \in Groups /\ opener[n] \in {"opening", "listing"}
     \/ n \in AwaitedArrays
  /\ Fail("Other")

ListedInAnyCase == \A g \in Groups : opener[g] \in {"idle", "arrays"}

(* Every open_single is done: its group opened and its arrays too. *)
AllOpened ==
  /\ \A g \in Groups : opener[g] \in {"idle", "arrays"}
  /\ AwaitedArrays = {}

Return ==
  /\ phase = "open"
  /\ AllOpened
  /\ answer' = [kind |-> "ok",
                nodes |-> [i \in DOMAIN paths |->
                             [path |-> paths[i],
                              vars |-> vars[paths[i]] \cap opened]]]
  /\ phase' = "returned"
  /\ UNCHANGED <<store, discovery, opening>>

(* The call has returned. *)
Returned == phase = "returned" /\ UNCHANGED allVars

-----------------------------------------------------------------------------
Discover ==
  \/ \E g \in Groups :
       \/ Acquire(g) \/ OpenGroup(g) \/ GroupMissing(g)
       \/ ListKids(g) \/ Join(g) \/ DiscoveryFault(g)
  \/ JoinRoot

Open ==
  \/ \E g \in Groups : OpenNode(g) \/ NodeMissing(g) \/ ListArrays(g)
  \/ \E a \in Arrays : OpenArray(a) \/ ArrayMissing(a)
  \/ \E n \in Nodes : OpenFault(n)
  \/ Return

Next ==
  \/ \E n \in Nodes : Write(n)
  \/ Discover
  \/ Open
  \/ Returned

(* Every request is answered and block_on keeps polling: some step of the  *)
(* walk that can be taken is eventually taken.  Writers owe nothing.       *)
Spec == Init /\ [][Next]_allVars /\ WF_allVars(Discover \/ Open)

-----------------------------------------------------------------------------
TaskStates == {"idle", "queued", "opening", "listing", "joining", "done"}

(* InvalidInput comes from sessions alone: see WalkRecursive. *)
AnswerKinds == {"none", "ok", "NotFound", "Other", "InvalidInput"}
OpenerStates == {"idle", "opening", "listing", "arrays"}

(* The control state is well formed; what `out' and `paths' hold is the    *)
(* subject of PreOrder.  (walk.rs:88-117, 192-211, 489-540)                *)
TypeOK ==
  /\ present \subseteq Nodes /\ stable \subseteq present
  /\ present \subseteq ever /\ ever \subseteq Nodes
  /\ writes \in 0 .. MaxWrites
  /\ phase \in {"discover", "open", "returned"}
  /\ permits \in 0 .. Capacity
  /\ task \in [Groups -> TaskStates]
  /\ kids \in [Groups -> Seq(Groups)]
  /\ opener \in [Groups -> OpenerStates]
  /\ vars \in [Groups -> SUBSET Arrays]
  /\ opened \subseteq Arrays
  /\ answer.kind \in AnswerKinds

(* Until the walk has answered, every permit is free or held by a future   *)
(* inside the window that guards its requests: none leaks, and none is     *)
(* held while a future waits for its children.  With TypeOK it bounds the  *)
(* discovery requests in flight by Capacity.  (walk.rs:483-488, 496-511)   *)
PermitsConserved ==
  phase # "returned" => permits + Cardinality(Holders) = Capacity

(* When discovery is over the semaphore is whole again: no future is left  *)
(* that holds a permit, so that the eager phase, which comes after it,     *)
(* cannot wait for one.  (walk.rs:155, 513-538)                            *)
WholeSemaphore == phase = "open" => permits = Capacity

(* Discovery is never stuck: at any cap and at any depth, until it has     *)
(* answered some future has a request in flight, or can take a free        *)
(* permit, or can join children that are done.  This is what releasing the *)
(* permit before recursing is for.  (walk.rs:483-488)                      *)
NeverStuck ==
  phase = "discover" =>
    \/ Holders # {}
    \/ permits > 0 /\ \E g \in Groups : task[g] = "queued"
    \/ \E g \in Groups : Joinable(g)

(* What a future hands to its parent is its subtree in pre-order: its own  *)
(* path first, every other path below it, and the paths below each of them *)
(* right after it, whatever order the requests finished in.                *)
(* (walk.rs:477-481, 513, 535-537)                                         *)
InPreOrder(seq, top) ==
  /\ Len(seq) > 0 /\ seq[1] = top
  /\ \A i, j \in DOMAIN seq : seq[i] = seq[j] => i = j
  /\ \A i, j \in DOMAIN seq : Above(seq[i], seq[j]) => i <= j
  /\ \A i, j, k \in DOMAIN seq :
       i < j /\ j < k /\ Above(seq[i], seq[k]) => Above(seq[i], seq[j])

PreOrder ==
  \A g \in Groups : task[g] = "done" => InPreOrder(out[g], g)

(* The futures form a tree that grows and finishes in order: one that runs *)
(* was started by its parent's future, exactly the children a parent has   *)
(* listed are started, and a finished one has only finished children.  No  *)
(* future is started twice, forgotten, or outlives its parent.             *)
(* (walk.rs:525-534)                                                       *)
Structured ==
  phase = "discover" =>
    /\ task[Root] \notin {"idle", "done"}
    /\ \A g \in Groups :
         /\ task[g] \in {"idle", "queued", "opening", "listing"} =>
              kids[g] = <<>>
         /\ task[g] # "idle" =>
              /\ Len(Root) <= Len(g)
              /\ g # Root => \E p \in Groups : g \in ToSet(kids[p])
    /\ \A g \in Groups : \A i \in DOMAIN kids[g] :
         /\ IsChild(g, kids[g][i])
         /\ task[kids[g][i]] # "idle"
         /\ task[g] = "done" => task[kids[g][i]] = "done"

(* What walk.rs:734-736 and docs/architecture.md say of the whole walk:    *)
(* the requests in flight in discover_paths and in open_single stay within *)
(* max_concurrency.                                                        *)
InFlight ==
  Cardinality(Holders)
    + Cardinality({g \in Groups : opener[g] \in {"opening", "listing"}})
    + Cardinality(AwaitedArrays)

TotalInFlightBounded == InFlight <= Capacity

=============================================================================
