----------------------------- MODULE IcechunkWalk -----------------------------
(***************************************************************************)
(* The walk of an icechunk session: walk_icechunk_session_snapshot of      *)
(* src/src/walk.rs.                                                        *)
(*                                                                         *)
(* The nodes at or below Root are gathered in one go from the snapshot the *)
(* session holds, under its read lock, and filtered.  The arrays           *)
(* of each parent group are then built by a blocking task of their own, in *)
(* parallel; every task is awaited, and only then are the results looked   *)
(* at, in path order, for an error, and attached to their groups.  The     *)
(* answer lists the groups in the byte order of their paths.               *)
(*                                                                         *)
(* A task that panics is another matter: its JoinHandle yields an error,   *)
(* which ends the call at once and leaves the other tasks to themselves.   *)
(*                                                                         *)
(* The snapshot cannot change: nobody else has the session, and a lock     *)
(* that only readers take excludes nobody.                                 *)
(***************************************************************************)
EXTENDS Hierarchy, SequencesExt

CONSTANTS
  Snapshots,  \* the sets of nodes a snapshot may hold
  Spelling,   \* the bytes of each name
  Refusals,   \* how the session may refuse: "InvalidInput", "Other"
  Corrupt,    \* the nodes whose stored metadata does not parse
  Panicky     \* the arrays whose construction panics

ASSUME IcechunkWalkAssumption ==
  /\ Snapshots \subseteq SUBSET Nodes
  /\ Spelling \in [Names -> Seq(Nat)]
  /\ \A m, n \in Names : Spelling[m] = Spelling[n] => m = n
  /\ \A n \in Names : Spelling[n] # <<>> /\ ~Contains(Spelling[n], 47)
  /\ Refusals \subseteq {"InvalidInput", "Other"}
  /\ Corrupt \subseteq Nodes
  /\ Panicky \subseteq Arrays /\ Panicky \cap Corrupt = {}
  /\ Root \in Keep   \* group= and group_filter= exclude each other

VARIABLES
  snapshot,  \* the nodes the snapshot holds
  refusal,   \* how the session refuses this call, or "none"
  phase,     \* "gather", "build" or "returned"
  groups,    \* the groups kept, keys of the BTreeMap
  job,       \* the state of each parent group's build task
  culprit,   \* the node the error names
  answer

vars == <<snapshot, refusal, phase, groups, job, culprit, answer>>

NoAnswer == [kind |-> "none", nodes |-> <<>>]
Nobody == <<"nobody">>
JoinError == <<"join error">>
Session == <<"session">>

-----------------------------------------------------------------------------
(* The order of a BTreeMap keyed by "/"-joined paths: lexicographic by     *)
(* byte, where "/" is 47.                                                  *)
PathBytes(p) ==
  IF p = <<>> THEN <<47>>
  ELSE FlattenSeq([i \in DOMAIN p |-> <<47>> \o Spelling[p[i]]])

LexBefore(s, t) ==
  \/ IsStrictPrefix(s, t)
  \/ \E i \in DOMAIN s \cap DOMAIN t :
       s[i] < t[i] /\ \A j \in 1 .. i - 1 : s[j] = t[j]

Before(p, q) == LexBefore(PathBytes(p), PathBytes(q))

(* The i-th path of a set is the one that i - 1 others come before. *)
ByPathBackwards(S) ==
  [i \in 1 .. Cardinality(S) |->
     CHOOSE p \in S : Cardinality({q \in S : Before(p, q)}) = i - 1]

ByPath(S) ==
  [i \in 1 .. Cardinality(S) |->
     CHOOSE p \in S : Cardinality({q \in S : Before(q, p)}) = i - 1]

ParentOf(n) == IF Len(n) <= 1 THEN <<>> ELSE Front(n)

-----------------------------------------------------------------------------
(* list_nodes(Root) and the two filters of the partition loop. *)
Listed == {n \in snapshot : Above(Root, n)}

KeptNodes == Listed

KeptGroups ==
  {g \in Listed \cap Groups : (Recursive \/ g = Root) /\ g \in Keep}

KeptArrays ==
  {a \in Listed \cap Arrays :
     (Recursive \/ ParentOf(a) = Root) /\ ParentOf(a) \in Keep}

Batch(p) == {a \in KeptArrays : ParentOf(a) = p}
Parents == {ParentOf(a) : a \in KeptArrays}

(* A task stops at the first of its arrays, in the order list_nodes        *)
(* enumerates, that it cannot build: an error if the metadata is bad.      *)
Failed(p) == Batch(p) \cap Corrupt # {}
Panics(p) == Batch(p) \cap Panicky # {}

Init ==
  /\ snapshot \in Snapshots
  /\ refusal \in Refusals \cup {"none"}
  /\ phase = "gather"
  /\ groups = {}
  /\ job = [p \in {} |-> "queued"]
  /\ culprit = Nobody
  /\ answer = NoAnswer

FailWith(kind, n) ==
  /\ phase' = "returned"
  /\ culprit' = n
  /\ answer' = [kind |-> kind, nodes |-> <<>>]
  /\ UNCHANGED <<snapshot, refusal, groups, job>>

Fail(n) == FailWith("Other", n)

(* IcePath::new does not take the path (InvalidInput), or list_nodes or    *)
(* the enumeration of its nodes fails (Other).                             *)
Refuse ==
  /\ phase = "gather" /\ refusal # "none"
  /\ FailWith(refusal, Session)

(* The partition loop stops at the first group, in the order list_nodes    *)
(* enumerates, whose attributes do not parse.                              *)
Gather ==
  /\ phase = "gather" /\ refusal = "none"
  /\ KeptGroups \cap Corrupt = {}
  /\ groups' = KeptGroups
  /\ job' = [p \in Parents |-> "queued"]
  /\ phase' = "build"
  /\ UNCHANGED <<snapshot, refusal, culprit, answer>>

GatherFails ==
  /\ phase = "gather" /\ refusal = "none"
  /\ KeptGroups \cap Corrupt # {}
  /\ \E g \in KeptGroups \cap Corrupt : Fail(g)

(* A thread of the blocking pool takes a task, and finishes it, whether    *)
(* the call still waits for it or not.                                     *)
Start(p) ==
  /\ job[p] = "queued"
  /\ job' = [job EXCEPT ![p] = "running"]
  /\ UNCHANGED <<snapshot, refusal, phase, groups, culprit, answer>>

Outcome(p) ==
  IF Failed(p) \/ Panics(p)
  THEN {o \in {"error", "panicked"} :
          (o = "error" => Failed(p)) /\ (o = "panicked" => Panics(p))}
  ELSE {"built"}

Finish(p) ==
  /\ job[p] = "running"
  /\ \E o \in Outcome(p) : job' = [job EXCEPT ![p] = o]
  /\ UNCHANGED <<snapshot, refusal, phase, groups, culprit, answer>>

Errors == {p \in DOMAIN job : job[p] = "error"}
OrphansIgnored == {}

Orphaned == {p \in DOMAIN job : job[p] = "built"} \ groups

(* try_join_all over the JoinHandles: it waits for every task, for a task  *)
(* that returned an error has still joined.                                *)
JoinedIfBuilt == \A p \in DOMAIN job : job[p] = "built"

JoinedAtFirstError ==
  Errors # {} \/ \A p \in DOMAIN job : job[p] = "built"

JoinedWhateverTheyDid ==
  \A p \in DOMAIN job : job[p] \in {"built", "error", "panicked"}

Joined == \A p \in DOMAIN job : job[p] \in {"built", "error"}

(* A JoinHandle yields an error as soon as its task has panicked, or when  *)
(* its turn comes; the handles dropped with it detach their tasks.         *)
JoinFails ==
  /\ phase = "build"
  /\ \E p \in DOMAIN job : job[p] = "panicked"
  /\ Fail(JoinError)

(* The results are collected in path order and the first error is the      *)
(* answer; its task stopped at the first array it could not build.         *)
BuildFails ==
  /\ phase = "build" /\ Joined
  /\ Errors # {}
  /\ \E a \in Batch(ByPath(Errors)[1]) \cap Corrupt : Fail(a)

(* Arrays were built for a group that is not there. *)
AttachFails ==
  /\ phase = "build" /\ Joined
  /\ Errors = {} /\ Orphaned # {}
  /\ Fail(ByPath(Orphaned)[1])

(* The order the groups are returned in. *)
ResultOrderBackwards(S) == ByPathBackwards(S)

ResultOrder(S) == ByPath(S)

Attach ==
  /\ phase = "build" /\ Joined
  /\ Errors = {} /\ Orphaned = {}
  /\ LET order == ResultOrder(groups) IN
       answer' = [kind |-> "ok",
                  nodes |-> [i \in DOMAIN order |->
                               [path |-> order[i], vars |-> Batch(order[i])]]]
  /\ phase' = "returned"
  /\ UNCHANGED <<snapshot, refusal, groups, job, culprit>>

Returned == phase = "returned" /\ UNCHANGED vars

Walk ==
  \/ Refuse \/ Gather \/ GatherFails
  \/ \E p \in DOMAIN job : Start(p) \/ Finish(p)
  \/ JoinFails \/ BuildFails \/ AttachFails \/ Attach

Next == Walk \/ Returned

(* The runtime has a free thread sooner or later and keeps polling. *)
Spec == Init /\ [][Next]_vars /\ WF_vars(Walk)

-----------------------------------------------------------------------------
JobStates == {"queued", "running", "built", "error", "panicked"}

(* The state is well formed: walk.rs:228-364. *)
TypeOK ==
  /\ snapshot \in Snapshots
  /\ refusal \in Refusals \cup {"none"}
  /\ phase \in {"gather", "build", "returned"}
  /\ groups \subseteq Groups
  /\ DOMAIN job \subseteq {ParentOf(a) : a \in Arrays}
  /\ \A p \in DOMAIN job : job[p] \in JobStates
  /\ culprit \in Nodes \cup {Nobody, Session, JoinError}
                       \cup {ParentOf(a) : a \in Arrays}
  /\ answer.kind \in {"none", "ok"} \cup Refusals \cup {"Other"}

(* Whether the call fails, and over what, is a function of the session,    *)
(* whatever order the tasks ran and ended in: a refusal comes before all,  *)
(* a group that does not parse next, then a panic, then the batch of the   *)
(* first parent path, in byte order, with an array that cannot be built,   *)
(* then the first parent that is not there.  Only a batch with an array of *)
(* either kind may go one way or the other, by the order of list_nodes.    *)
(* (walk.rs:235-250, 285, 329-358)                                         *)
ExpectedCulprits ==
  LET bad == KeptGroups \cap Corrupt
      panics == {p \in Parents : Panics(p)}
      batches == {p \in Parents : Failed(p)}
      orphans == Parents \ KeptGroups
      first == ByPath(batches)[1]
  IN  IF refusal # "none" THEN {Session}
      ELSE IF bad # {} THEN bad
      ELSE IF panics \ batches # {} THEN {JoinError}
      ELSE IF panics # {} THEN {JoinError} \cup (Batch(first) \cap Corrupt)
      ELSE IF batches # {} THEN Batch(first) \cap Corrupt
      ELSE IF orphans # {} THEN {ByPath(orphans)[1]}
      ELSE {Nobody}

SameAnswerInAnyOrder == phase = "returned" => culprit \in ExpectedCulprits

(* A call that has returned has left no task behind, unless one of its     *)
(* tasks panicked.  (walk.rs:329-346)                                      *)
NoneLeftBehind ==
  phase = "returned" =>
    \/ \A p \in DOMAIN job : job[p] \notin {"queued", "running"}
    \/ culprit = JoinError /\ \E p \in DOMAIN job : job[p] = "panicked"

(* No array of the snapshot the walk should return is dropped without an   *)
(* error, or attached twice: a list of nodes has each of them under exactly *)
(* one group, its parent.  (walk.rs:350-358)                               *)
Wanted ==
  {a \in snapshot \cap Arrays :
     /\ Above(Root, ParentOf(a))
     /\ ParentOf(a) \in Keep
     /\ Recursive \/ ParentOf(a) = Root}

NoArrayLost ==
  answer.kind = "ok" =>
    \A a \in Wanted :
      \E i \in DOMAIN answer.nodes :
        /\ answer.nodes[i].path = ParentOf(a)
        /\ \A j \in DOMAIN answer.nodes : a \in answer.nodes[j].vars <=> j = i

(* The snapshot walker keeps the promise walk_recursive makes of sessions, *)
(* of every snapshot: those that lack the group asked for, or the parent   *)
(* of a node, included.  (walk.rs:157-170, 228-364)                        *)
Promise ==
  INSTANCE GroupWalk WITH
    source <- "icechunk", present <- snapshot, stable <- snapshot,
    ever <- snapshot, Faulty <- Corrupt \cup Panicky

KeepsPromise == Promise!Spec

(* The call returns, whichever tasks fail. *)
Terminates == <>(phase = "returned")

=============================================================================
