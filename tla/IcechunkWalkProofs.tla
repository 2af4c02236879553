-------------------------- MODULE IcechunkWalkProofs --------------------------
(***************************************************************************)
(* Proofs about IcechunkWalk, for every snapshot, tree, glob and choice of *)
(* arrays that do not build or panic.                                      *)
(*                                                                         *)
(* The outcome does not depend on the scheduling of the build tasks: the   *)
(* inductive invariant says that how a task ended tells what is in its     *)
(* batch.  Once every task has ended without a panic, the tasks in error   *)
(* are then exactly the batches that cannot be built, and the answer is a  *)
(* function of the snapshot.                                               *)
(*                                                                         *)
(* The answer is the one GroupWalk promises.  That it lists parents first  *)
(* is a fact about bytes: "/"-joined paths, compared byte by byte, order   *)
(* the paths totally and put ancestors first, because no name is empty or  *)
(* contains a "/".                                                         *)
(***************************************************************************)
EXTENDS IcechunkWalk, SequenceTheorems, FiniteSetTheorems,
        WellFoundedInduction, TLAPS

(* A set that has 0 and, with each number, the next one has them all. *)
LEMMA SetInduction ==
  ASSUME NEW S, 0 \in S, \A n \in Nat : n \in S => n + 1 \in S
  PROVE  Nat \subseteq S
<1> DEFINE T == Nat \ S
<1> SUFFICES ASSUME T # {} PROVE FALSE
  OBVIOUS
<1>1. PICK n \in T : \A m \in T : <<m, n>> \notin OpToRel(<, Nat)
  <2>1. IsWellFoundedOn(OpToRel(<, Nat), Nat) /\ T \subseteq Nat
    BY NatLessThanWellFounded
  <2> HIDE DEF T
  <2> QED
    BY <2>1, WFMin
<1>2. n \in Nat /\ n # 0
  OBVIOUS
<1>3. n - 1 \in Nat /\ (n - 1) + 1 = n
  BY <1>2
<1>4. n - 1 \in T
  BY <1>3
<1>5. <<n - 1, n>> \in OpToRel(<, Nat)
  BY <1>2, <1>3 DEF OpToRel
<1> QED
  BY <1>1, <1>4, <1>5

(* An order of a finite set has each of its members once. *)
LEMMA OrderOfSet ==
  ASSUME NEW S, IsFiniteSet(S), NEW order \in SetToSeqs(S)
  PROVE  /\ order \in Seq(S)
         /\ DOMAIN order = 1 .. Cardinality(S)
         /\ \A i, j \in DOMAIN order : order[i] = order[j] => i = j
         /\ ToSet(order) = S
<1> DEFINE D == 1 .. Cardinality(S)
<1>1. Cardinality(S) \in Nat
  BY FS_CardinalityType
<1>2. order \in [D -> S] /\ \A i, j \in D : i # j => order[i] # order[j]
  BY DEF SetToSeqs
<1>3. order \in Injection(D, S)
  BY <1>2 DEF Injection, IsInjective
<1>4. IsFiniteSet(D) /\ Cardinality(D) = Cardinality(S)
  BY <1>1, FS_Interval
<1>5. order \in Surjection(D, S)
  BY <1>3, <1>4, FS_Injection
<1>6. \A x \in S : \E i \in D : order[i] = x
  BY <1>5 DEF Surjection
<1> QED
  BY <1>1, <1>2, <1>6 DEF ToSet

-----------------------------------------------------------------------------
(***************************************************************************)
(* Ancestors.                                                              *)
(***************************************************************************)
(* An ancestor agrees with its descendant wherever it is long enough. *)
LEMMA AboveMeans ==
  ASSUME NEW m \in Seq(Names), NEW n \in Seq(Names)
  PROVE  Above(m, n) <=> /\ Len(m) <= Len(n)
                         /\ \A k \in 1 .. Len(m) : n[k] = m[k]
<1>1. CASE Len(m) <= Len(n)
  <2> DEFINE p == SubSeq(n, 1, Len(m))
  <2>1. /\ p \in Seq(Names) /\ Len(p) = Len(m)
        /\ \A k \in 1 .. Len(m) : p[k] = n[k]
    BY <1>1
  <2>2. p = m <=> \A k \in 1 .. Len(m) : n[k] = m[k]
    <3> HIDE DEF p
    <3> QED
      BY <2>1, SeqEqual
  <2> QED
    BY <1>1, <2>2 DEF Above
<1>2. CASE ~(Len(m) <= Len(n))
  BY <1>2 DEF Above
<1> QED
  BY <1>1, <1>2

LEMMA AboveTransitive ==
  ASSUME NEW l \in Seq(Names), NEW m \in Seq(Names), NEW n \in Seq(Names),
         Above(l, m), Above(m, n)
  PROVE  Above(l, n)
BY AboveMeans

(* Of the ancestors of a node one is above the other, ... *)
LEMMA AncestorsAgree ==
  ASSUME NEW l \in Seq(Names), NEW m \in Seq(Names), NEW n \in Seq(Names),
         Above(l, n), Above(m, n), Len(l) <= Len(m)
  PROVE  Above(l, m)
BY AboveMeans

(* ... and no two have the same length. *)
LEMMA SameLength ==
  ASSUME NEW m \in Seq(Names), NEW n \in Seq(Names), Above(m, n), Len(m) = Len(n)
  PROVE  m = n
BY AboveMeans, SeqEqual

-----------------------------------------------------------------------------
(***************************************************************************)
(* The outcome of the build tasks.                                         *)
(***************************************************************************)
Truthful ==
  \A p \in DOMAIN job :
    /\ job[p] \in JobStates
    /\ job[p] = "error" => Failed(p)
    /\ job[p] = "panicked" => Panics(p)
    /\ job[p] = "built" => ~Failed(p) /\ ~Panics(p)

IInv ==
  /\ phase \in {"gather", "build", "returned"}
  /\ phase # "returned" => culprit = Nobody
  /\ phase = "gather" => DOMAIN job = {}
  /\ phase = "build" =>
       /\ refusal = "none"
       /\ KeptGroups \cap Corrupt = {}
       /\ groups = KeptGroups /\ DOMAIN job = Parents
  /\ Truthful
  /\ SameAnswerInAnyOrder
  /\ NoneLeftBehind

(* What the definitions say of the snapshot stays when it does. *)
LEMMA SnapshotDecides ==
  ASSUME snapshot' = snapshot, refusal' = refusal
  PROVE  /\ KeptGroups' = KeptGroups /\ Parents' = Parents
         /\ ExpectedCulprits' = ExpectedCulprits
         /\ \A p : Failed(p)' = Failed(p) /\ Panics(p)' = Panics(p)
BY DEF KeptGroups, Parents, ExpectedCulprits, Failed, Panics, Batch, KeptArrays, Listed

LEMMA InitIInv == Init => IInv
BY DEF Init, IInv, Truthful, SameAnswerInAnyOrder, NoneLeftBehind

LEMMA GatherStep == ASSUME IInv, Gather PROVE IInv'
<1>1. /\ phase' = "build" /\ snapshot' = snapshot /\ culprit' = Nobody
      /\ refusal = "none" /\ refusal' = refusal
      /\ groups' = KeptGroups /\ job' = [p \in Parents |-> "queued"]
      /\ KeptGroups \cap Corrupt = {}
  BY DEF Gather, IInv
<1>2. Truthful'
  BY <1>1 DEF Truthful, JobStates
<1> QED BY <1>1, <1>2, SnapshotDecides DEF IInv, SameAnswerInAnyOrder, NoneLeftBehind

LEMMA RefuseStep == ASSUME IInv, Refuse PROVE IInv'
<1>1. /\ phase' = "returned" /\ culprit' = Session /\ UNCHANGED <<snapshot, refusal>>
      /\ job' = job /\ DOMAIN job = {} /\ refusal # "none"
  BY DEF Refuse, FailWith, IInv
<1>2. culprit' \in ExpectedCulprits
  BY <1>1 DEF ExpectedCulprits
<1> QED BY <1>1, <1>2, SnapshotDecides DEF IInv, Truthful, SameAnswerInAnyOrder, NoneLeftBehind

LEMMA GatherFailsStep == ASSUME IInv, GatherFails PROVE IInv'
<1>1. PICK g \in KeptGroups \cap Corrupt : Fail(g)
  BY DEF GatherFails
<1>2. /\ phase' = "returned" /\ culprit' = g
      /\ UNCHANGED <<snapshot, refusal>> /\ job' = job /\ DOMAIN job = {}
      /\ refusal = "none"
  BY <1>1 DEF Fail, FailWith, IInv, GatherFails
<1>3. culprit' \in ExpectedCulprits
  BY <1>2 DEF ExpectedCulprits
<1> QED BY <1>2, <1>3, SnapshotDecides DEF IInv, Truthful, SameAnswerInAnyOrder, NoneLeftBehind

LEMMA TaskStep ==
  ASSUME IInv, NEW p \in DOMAIN job, Start(p) \/ Finish(p) PROVE IInv'
<1>1. /\ UNCHANGED <<snapshot, refusal, phase, groups, culprit>>
      /\ job[p] \in {"queued", "running"} /\ DOMAIN job' = DOMAIN job
      /\ \A q \in DOMAIN job : q # p => job'[q] = job[q]
  BY DEF Start, Finish
<1>2. Truthful'
  <2>1. CASE Start(p)
    BY <2>1, <1>1, SnapshotDecides DEF Start, IInv, Truthful, JobStates
  <2>2. CASE Finish(p)
    <3>1. PICK o \in Outcome(p) : job' = [job EXCEPT ![p] = o]
      BY <2>2 DEF Finish
    <3>2. /\ o \in JobStates
          /\ o = "error" => Failed(p)
          /\ o = "panicked" => Panics(p)
          /\ o = "built" => ~Failed(p) /\ ~Panics(p)
      BY <3>1 DEF Outcome, JobStates
    <3> QED BY <3>1, <3>2, <1>1, SnapshotDecides DEF IInv, Truthful
  <2> QED BY <2>1, <2>2
<1>3. NoneLeftBehind'
  BY <1>1 DEF IInv, NoneLeftBehind
<1>4. SameAnswerInAnyOrder'
  BY <1>1, SnapshotDecides DEF IInv, SameAnswerInAnyOrder
<1> QED BY <1>1, <1>2, <1>3, <1>4, SnapshotDecides DEF IInv

(* A panic wins over whatever else went wrong. *)
LEMMA JoinFailsStep == ASSUME IInv, JoinFails PROVE IInv'
<1>1. PICK p \in DOMAIN job : job[p] = "panicked"
  BY DEF JoinFails
<1>2. /\ phase' = "returned" /\ culprit' = JoinError
      /\ UNCHANGED <<snapshot, refusal>> /\ job' = job
  BY DEF JoinFails, Fail, FailWith
<1>3. refusal = "none" /\ KeptGroups \cap Corrupt = {} /\ p \in Parents /\ Panics(p)
  BY <1>1 DEF JoinFails, IInv, Truthful
<1>4. culprit' \in ExpectedCulprits
  BY <1>2, <1>3 DEF ExpectedCulprits
<1>5. NoneLeftBehind'
  BY <1>1, <1>2 DEF NoneLeftBehind
<1> QED BY <1>2, <1>4, <1>5, SnapshotDecides DEF IInv, Truthful, SameAnswerInAnyOrder

(* Once all tasks are joined, their states say which batches are bad. *)
LEMMA JoinedTells ==
  ASSUME IInv, phase = "build", Joined
  PROVE  /\ refusal = "none" /\ KeptGroups \cap Corrupt = {}
         /\ Errors = {p \in Parents : Failed(p)}
         /\ \A p \in Parents : Panics(p) => Failed(p)
         /\ Errors = {} => Orphaned = Parents \ KeptGroups
         /\ \A p \in DOMAIN job : job[p] \notin {"queued", "running"}
BY DEF IInv, Truthful, Joined, Errors, Orphaned

LEMMA BuildFailsStep == ASSUME IInv, BuildFails PROVE IInv'
<1> DEFINE batches == {p \in Parents : Failed(p)}
<1>1. /\ refusal = "none" /\ KeptGroups \cap Corrupt = {} /\ Errors = batches
      /\ {p \in Parents : Panics(p)} \ batches = {}
      /\ \A p \in DOMAIN job : job[p] \notin {"queued", "running"}
  BY JoinedTells DEF BuildFails
<1>2. batches # {}
  BY <1>1 DEF BuildFails
<1>3. PICK a \in Batch(ByPath(batches)[1]) \cap Corrupt : Fail(a)
  BY <1>1 DEF BuildFails
<1>4. /\ phase' = "returned" /\ culprit' = a
      /\ UNCHANGED <<snapshot, refusal>> /\ job' = job
  BY <1>3 DEF Fail, FailWith
<1>5. culprit' \in ExpectedCulprits
  BY <1>1, <1>2, <1>3, <1>4 DEF ExpectedCulprits
<1> QED BY <1>1, <1>4, <1>5, SnapshotDecides
        DEF IInv, Truthful, SameAnswerInAnyOrder, NoneLeftBehind

LEMMA AttachStep == ASSUME IInv, AttachFails \/ Attach PROVE IInv'
<1> DEFINE orphans == Parents \ KeptGroups
<1>1. Errors = {} /\ phase = "build" /\ Joined
  BY DEF AttachFails, Attach
<1>2. /\ refusal = "none" /\ KeptGroups \cap Corrupt = {} /\ Orphaned = orphans
      /\ {p \in Parents : Failed(p)} = {} /\ {p \in Parents : Panics(p)} = {}
      /\ \A p \in DOMAIN job : job[p] \notin {"queued", "running"}
  BY <1>1, JoinedTells
<1>3. ExpectedCulprits = IF orphans # {} THEN {ByPath(orphans)[1]} ELSE {Nobody}
  BY <1>2 DEF ExpectedCulprits
<1>4. phase' = "returned" /\ UNCHANGED <<snapshot, refusal>> /\ job' = job
  BY DEF AttachFails, Attach, Fail, FailWith
<1>5. culprit' \in ExpectedCulprits
  <2>1. CASE AttachFails
    BY <2>1, <1>2, <1>3 DEF AttachFails, Fail, FailWith
  <2>2. CASE Attach
    BY <2>2, <1>2, <1>3 DEF Attach, IInv
  <2> QED BY <2>1, <2>2
<1> QED BY <1>2, <1>4, <1>5, SnapshotDecides
        DEF IInv, Truthful, SameAnswerInAnyOrder, NoneLeftBehind

-----------------------------------------------------------------------------
LEMMA NextStep == IInv /\ [Next]_vars => IInv'
<1> SUFFICES ASSUME IInv, [Next]_vars PROVE IInv'
  OBVIOUS
<1>1. CASE UNCHANGED vars
  BY <1>1, SnapshotDecides
  DEF vars, IInv, Truthful, SameAnswerInAnyOrder, NoneLeftBehind
<1>2. CASE Walk
  BY <1>2, RefuseStep, GatherStep, GatherFailsStep, TaskStep, JoinFailsStep,
     BuildFailsStep, AttachStep DEF Walk
<1> QED BY <1>1, <1>2 DEF Next, Returned

LEMMA Invariance == Spec => []IInv
BY InitIInv, NextStep, PTL DEF Spec

(* Whatever order the build tasks run and end in, the call fails or not,   *)
(* and over the same node, or answers the panic (walk.rs:285, 329-358).    *)
THEOREM Deterministic == Spec => []SameAnswerInAnyOrder
<1>1. IInv => SameAnswerInAnyOrder
  BY DEF IInv
<1> QED BY <1>1, Invariance, PTL

(* Only a panic makes the call return while a task is still to run or      *)
(* running (walk.rs:329-346).                                              *)
THEOREM TasksJoined == Spec => []NoneLeftBehind
<1>1. IInv => NoneLeftBehind
  BY DEF IInv
<1> QED BY <1>1, Invariance, PTL

-----------------------------------------------------------------------------
(***************************************************************************)
(* The order of the paths.  A byte string is read as if -1 followed it, so *)
(* that one comes before another where they first differ.                  *)
(***************************************************************************)
At(s, d) == IF d <= Len(s) THEN s[d] ELSE -1

Differ(s, t, d) ==
  /\ At(s, d) < At(t, d)
  /\ \A j \in 1 .. d - 1 : At(s, j) = At(t, j)

LEMMA AtType ==
  ASSUME NEW s \in Seq(Nat), NEW d \in Nat \ {0}
  PROVE  At(s, d) \in Int /\ At(s, d) >= -1
BY DEF At

LEMMA PrefixMeans ==
  ASSUME NEW s \in Seq(Nat), NEW t \in Seq(Nat)
  PROVE  IsPrefix(s, t) <=> Len(s) <= Len(t) /\ \A k \in 1 .. Len(s) : t[k] = s[k]
<1>1. CASE Len(s) <= Len(t)
  <2> DEFINE p == SubSeq(t, 1, Len(s))
             q == SubSeq(s, 1, Len(s))
  <2>1. /\ p \in Seq(Nat) /\ Len(p) = Len(s) /\ q \in Seq(Nat) /\ Len(q) = Len(s)
        /\ \A k \in 1 .. Len(s) : p[k] = t[k] /\ q[k] = s[k]
    BY <1>1
  <2>2. p = q <=> \A k \in 1 .. Len(s) : t[k] = s[k]
    <3> HIDE DEF p, q
    <3> QED
      BY <2>1, SeqEqual
  <2> QED
    BY <1>1, <2>2 DEF IsPrefix
<1>2. CASE ~(Len(s) <= Len(t))
  BY <1>2 DEF IsPrefix
<1> QED
  BY <1>1, <1>2

LEMMA LexMeans ==
  ASSUME NEW s \in Seq(Nat), NEW t \in Seq(Nat)
  PROVE  LexBefore(s, t) <=> \E d \in Nat \ {0} : Differ(s, t, d)
<1>1. ASSUME IsStrictPrefix(s, t)
      PROVE  \E d \in Nat \ {0} : Differ(s, t, d)
  <2> DEFINE d == Len(s) + 1
  <2>1. Len(s) <= Len(t) /\ \A k \in 1 .. Len(s) : t[k] = s[k]
    BY <1>1, PrefixMeans DEF IsStrictPrefix
  <2>2. s # t
    BY <1>1 DEF IsStrictPrefix
  <2>3. Len(s) # Len(t)
    BY <2>1, <2>2, SeqEqual
  <2>4. d \in Nat \ {0} /\ d <= Len(t) /\ ~(d <= Len(s))
    BY <2>1, <2>3
  <2>5. At(s, d) < At(t, d)
    BY <2>4 DEF At
  <2>6. \A j \in 1 .. d - 1 : At(s, j) = At(t, j)
    BY <2>1, <2>4 DEF At
  <2> HIDE DEF d
  <2> QED
    BY <2>4, <2>5, <2>6 DEF Differ
<1>2. ASSUME NEW i \in DOMAIN s \cap DOMAIN t,
             s[i] < t[i], \A j \in 1 .. i - 1 : s[j] = t[j]
      PROVE  Differ(s, t, i) /\ i \in Nat \ {0}
  BY <1>2 DEF Differ, At
<1>3. ASSUME NEW d \in Nat \ {0}, Differ(s, t, d)
      PROVE  LexBefore(s, t)
  <2>1. At(s, d) < At(t, d) /\ \A j \in 1 .. d - 1 : At(s, j) = At(t, j)
    BY <1>3 DEF Differ
  <2>2. d <= Len(t)
    BY <2>1, AtType DEF At
  <2>3. CASE d <= Len(s)
    <3>1. d \in DOMAIN s \cap DOMAIN t /\ s[d] < t[d] /\ \A j \in 1 .. d - 1 : s[j] = t[j]
      BY <2>1, <2>2, <2>3 DEF At
    <3> QED
      BY <3>1 DEF LexBefore
  <2>4. CASE ~(d <= Len(s))
    <3>1. Len(s) < Len(t) /\ \A k \in 1 .. Len(s) : t[k] = s[k]
      BY <2>1, <2>2, <2>4 DEF At
    <3>2. IsPrefix(s, t)
      BY <3>1, PrefixMeans
    <3>3. s # t
      BY <3>1
    <3> QED
      BY <3>2, <3>3 DEF LexBefore, IsStrictPrefix
  <2> QED
    BY <2>3, <2>4
<1> QED
  BY <1>1, <1>2, <1>3 DEF LexBefore

LEMMA LexAsymmetric ==
  ASSUME NEW s \in Seq(Nat), NEW t \in Seq(Nat), LexBefore(s, t)
  PROVE  ~LexBefore(t, s)
<1> SUFFICES ASSUME LexBefore(t, s) PROVE FALSE
  OBVIOUS
<1>1. PICK d \in Nat \ {0} : Differ(s, t, d)
  BY LexMeans
<1>2. PICK e \in Nat \ {0} : Differ(t, s, e)
  BY LexMeans
<1>3. /\ At(s, d) < At(t, d) /\ \A j \in 1 .. d - 1 : At(s, j) = At(t, j)
      /\ At(t, e) < At(s, e) /\ \A j \in 1 .. e - 1 : At(t, j) = At(s, j)
  BY <1>1, <1>2 DEF Differ
<1>4. At(s, d) \in Int /\ At(t, d) \in Int /\ At(s, e) \in Int /\ At(t, e) \in Int
  BY AtType
<1> QED
  BY <1>3, <1>4

LEMMA LexTransitive ==
  ASSUME NEW s \in Seq(Nat), NEW t \in Seq(Nat), NEW u \in Seq(Nat),
         LexBefore(s, t), LexBefore(t, u)
  PROVE  LexBefore(s, u)
<1>1. PICK d \in Nat \ {0} : Differ(s, t, d)
  BY LexMeans
<1>2. PICK e \in Nat \ {0} : Differ(t, u, e)
  BY LexMeans
<1>3. /\ At(s, d) < At(t, d) /\ \A j \in 1 .. d - 1 : At(s, j) = At(t, j)
      /\ At(t, e) < At(u, e) /\ \A j \in 1 .. e - 1 : At(t, j) = At(u, j)
  BY <1>1, <1>2 DEF Differ
<1>4. /\ At(s, d) \in Int /\ At(t, d) \in Int /\ At(s, e) \in Int /\ At(t, e) \in Int
      /\ At(u, d) \in Int /\ At(u, e) \in Int
  BY AtType
<1>5. CASE d <= e
  <2>1. Differ(s, u, d)
    BY <1>3, <1>4, <1>5 DEF Differ
  <2> QED
    BY <2>1, LexMeans
<1>6. CASE e < d
  <2>1. Differ(s, u, e)
    BY <1>3, <1>4, <1>6 DEF Differ
  <2> QED
    BY <2>1, LexMeans
<1> QED
  BY <1>5, <1>6

LEMMA LexTotal ==
  ASSUME NEW s \in Seq(Nat), NEW t \in Seq(Nat), s # t
  PROVE  LexBefore(s, t) \/ LexBefore(t, s)
<1> DEFINE D == {d \in Nat \ {0} : At(s, d) # At(t, d)}
<1>1. D # {}
  <2> SUFFICES ASSUME D = {} PROVE FALSE
    OBVIOUS
  <2>1. \A d \in Nat \ {0} : At(s, d) = At(t, d)
    OBVIOUS
  <2>2. Len(s) = Len(t)
    <3>1. CASE Len(s) < Len(t)
      <4>1. At(s, Len(t)) = -1 /\ At(t, Len(t)) \in Nat /\ Len(t) \in Nat \ {0}
        BY <3>1 DEF At
      <4> QED
        BY <2>1, <4>1
    <3>2. CASE Len(t) < Len(s)
      <4>1. At(t, Len(s)) = -1 /\ At(s, Len(s)) \in Nat /\ Len(s) \in Nat \ {0}
        BY <3>2 DEF At
      <4> QED
        BY <2>1, <4>1
    <3> QED
      BY <3>1, <3>2
  <2>3. \A k \in 1 .. Len(s) : s[k] = t[k]
    BY <2>1, <2>2 DEF At
  <2> QED
    BY <2>2, <2>3, SeqEqual
<1>2. IsWellFoundedOn(OpToRel(<, Nat), Nat) /\ D \subseteq Nat
  BY NatLessThanWellFounded
<1> HIDE DEF D
<1>3. PICK d \in D : \A e \in D : <<e, d>> \notin OpToRel(<, Nat)
  BY <1>1, <1>2, WFMin
<1>4. d \in Nat \ {0} /\ At(s, d) # At(t, d)
  BY DEF D
<1>5. \A j \in 1 .. d - 1 : At(s, j) = At(t, j)
  <2> SUFFICES ASSUME NEW j \in 1 .. d - 1, j \in D PROVE FALSE
    BY <1>4 DEF D
  <2>1. <<j, d>> \in OpToRel(<, Nat)
    BY <1>4 DEF OpToRel
  <2> QED
    BY <1>3, <2>1
<1>6. Differ(s, t, d) \/ Differ(t, s, d)
  BY <1>4, <1>5, AtType DEF Differ
<1> QED
  BY <1>4, <1>6, LexMeans

-----------------------------------------------------------------------------
(* The recursive function inside FlattenSeq exists. *)
Flattening(s, f) ==
  f = [i \in 1 .. Len(s) |-> IF i = 1 THEN s[i] ELSE f[i - 1] \o s[i]]

LEMMA FlatteningExists ==
  ASSUME NEW s, Len(s) \in Nat
  PROVE  \E f : Flattening(s, f)
<1> DEFINE Upto(n, f) ==
             f = [i \in 1 .. n |-> IF i = 1 THEN s[i] ELSE f[i - 1] \o s[i]]
           S == {n \in Nat : \E f : Upto(n, f)}
<1>1. 0 \in S
  <2>1. Upto(0, [i \in 1 .. 0 |-> IF i = 1 THEN s[i] ELSE s[i - 1] \o s[i]])
    OBVIOUS
  <2> QED
    BY <2>1
<1>2. ASSUME NEW n \in Nat, n \in S
      PROVE  n + 1 \in S
  <2>1. PICK f : Upto(n, f)
    BY <1>2
  <2> DEFINE g == [i \in 1 .. n + 1 |->
                     IF i = n + 1 THEN IF i = 1 THEN s[i] ELSE f[i - 1] \o s[i]
                     ELSE f[i]]
  <2>2. ASSUME NEW i \in 1 .. n + 1
        PROVE  g[i] = IF i = 1 THEN s[i] ELSE g[i - 1] \o s[i]
    <3>1. CASE i = n + 1
      <4>1. i # 1 => g[i - 1] = f[i - 1]
        BY <3>1
      <4> QED
        BY <3>1, <4>1
    <3>2. CASE i \in 1 .. n
      <4>1. g[i] = f[i] /\ (i # 1 => g[i - 1] = f[i - 1])
        BY <3>2
      <4> HIDE DEF g
      <4>2. f[i] = IF i = 1 THEN s[i] ELSE f[i - 1] \o s[i]
        BY <2>1, <3>2
      <4> QED
        BY <4>1, <4>2
    <3> QED
      BY <3>1, <3>2
  <2>3. Upto(n + 1, g)
    <3>1. g = [i \in 1 .. n + 1 |-> g[i]]
      OBVIOUS
    <3> HIDE DEF g
    <3> QED
      BY <2>2, <3>1
  <2> QED
    <3> HIDE DEF Upto, g
    <3> QED BY <2>3
<1>3. Nat \subseteq S
  <2> HIDE DEF S
  <2> QED
    BY <1>1, <1>2, SetInduction
<1>4. PICK f : Upto(Len(s), f)
  BY <1>3
<1> QED
  BY <1>4 DEF Flattening

(* There is one such function. *)
LEMMA FlattenIs ==
  ASSUME NEW s, Len(s) \in Nat \ {0}, NEW f, Flattening(s, f)
  PROVE  FlattenSeq(s) = f[Len(s)]
<1> DEFINE g == CHOOSE h : Flattening(s, h)
           S == {n \in Nat : n \in 1 .. Len(s) => f[n] = g[n]}
<1>1. Flattening(s, g)
  OBVIOUS
<1>2. FlattenSeq(s) = g[Len(s)]
  BY DEF FlattenSeq, Flattening
<1> HIDE DEF g
<1>3. /\ \A i \in 1 .. Len(s) : f[i] = IF i = 1 THEN s[i] ELSE f[i - 1] \o s[i]
      /\ \A i \in 1 .. Len(s) : g[i] = IF i = 1 THEN s[i] ELSE g[i - 1] \o s[i]
  BY <1>1 DEF Flattening
<1>4. 0 \in S
  OBVIOUS
<1>5. ASSUME NEW n \in Nat, n \in S PROVE n + 1 \in S
  <2> SUFFICES ASSUME n + 1 \in 1 .. Len(s) PROVE f[n + 1] = g[n + 1]
    OBVIOUS
  <2>1. CASE n = 0
    BY <1>3, <2>1
  <2>2. CASE n # 0
    <3>1. f[n] = g[n] /\ n + 1 # 1 /\ (n + 1) - 1 = n
      BY <1>5, <2>2
    <3> QED
      BY <1>3, <3>1
  <2> QED
    BY <2>1, <2>2
<1>6. Nat \subseteq S
  <2> HIDE DEF S
  <2> QED
    BY <1>4, <1>5, SetInduction
<1> QED
  BY <1>2, <1>6

LEMMA FlattenType ==
  ASSUME NEW T, NEW s \in Seq(Seq(T))
  PROVE  FlattenSeq(s) \in Seq(T)
<1>1. Len(s) \in Nat /\ \A i \in 1 .. Len(s) : s[i] \in Seq(T)
  OBVIOUS
<1>2. CASE Len(s) = 0
  <2>1. FlattenSeq(s) = s /\ s = <<>>
    BY <1>2 DEF FlattenSeq
  <2> QED
    BY <2>1
<1>3. CASE Len(s) # 0
  <2>1. PICK f : Flattening(s, f)
    BY <1>1, FlatteningExists
  <2>2. \A i \in 1 .. Len(s) : f[i] = IF i = 1 THEN s[i] ELSE f[i - 1] \o s[i]
    BY <2>1 DEF Flattening
  <2> DEFINE S == {n \in Nat : n \in 1 .. Len(s) => f[n] \in Seq(T)}
  <2>3. 0 \in S
    OBVIOUS
  <2>4. ASSUME NEW n \in Nat, n \in S PROVE n + 1 \in S
    <3> SUFFICES ASSUME n + 1 \in 1 .. Len(s) PROVE f[n + 1] \in Seq(T)
      OBVIOUS
    <3>1. CASE n = 0
      BY <1>1, <2>2, <3>1
    <3>2. CASE n # 0
      <4>1. /\ n \in 1 .. Len(s) /\ n + 1 # 1 /\ (n + 1) - 1 = n
            /\ f[n] \in Seq(T)
        BY <1>1, <2>4, <3>2
      <4>2. f[n + 1] = f[n] \o s[n + 1]
        BY <2>2, <4>1
      <4> QED
        BY <1>1, <4>1, <4>2
    <3> QED
      BY <3>1, <3>2
  <2>5. Nat \subseteq S
    <3> HIDE DEF S
    <3> QED
      BY <2>3, <2>4, SetInduction
  <2>6. FlattenSeq(s) = f[Len(s)]
    BY <1>1, <1>3, <2>1, FlattenIs
  <2>7. f[Len(s)] \in Seq(T)
    BY <1>1, <1>3, <2>5
  <2> QED
    BY <2>6, <2>7
<1> QED
  BY <1>2, <1>3

(* A last block is what the concatenation ends with. *)
LEMMA FlattenAppend ==
  ASSUME NEW T, NEW s \in Seq(Seq(T)), NEW b \in Seq(T)
  PROVE  FlattenSeq(Append(s, b)) = FlattenSeq(s) \o b
<1> DEFINE t == Append(s, b)
           n == Len(s)
<1>1. /\ n \in Nat /\ Len(t) = n + 1 /\ t[n + 1] = b
      /\ \A i \in 1 .. n : t[i] = s[i]
  OBVIOUS
<1> HIDE DEF t
<1>2. PICK g : Flattening(t, g)
  BY <1>1, FlatteningExists
<1>3. \A i \in 1 .. n + 1 : g[i] = IF i = 1 THEN t[i] ELSE g[i - 1] \o t[i]
  BY <1>1, <1>2 DEF Flattening
<1>4. FlattenSeq(t) = g[n + 1]
  BY <1>1, <1>2, FlattenIs
<1>5. CASE n = 0
  <2>1. FlattenSeq(s) = <<>>
    BY <1>5 DEF FlattenSeq
  <2>2. g[1] = b
    BY <1>1, <1>3, <1>5
  <2> QED
    BY <1>4, <1>5, <2>1, <2>2 DEF t
<1>6. CASE n # 0
  <2> DEFINE f == [i \in 1 .. n |-> g[i]]
  <2>1. ASSUME NEW i \in 1 .. n PROVE f[i] = IF i = 1 THEN s[i] ELSE f[i - 1] \o s[i]
    <3>1. g[i] = IF i = 1 THEN s[i] ELSE g[i - 1] \o s[i]
      BY <1>1, <1>3
    <3>2. i # 1 => f[i - 1] = g[i - 1]
      OBVIOUS
    <3> QED
      BY <3>1, <3>2
  <2>2. Flattening(s, f)
    <3>1. f = [i \in 1 .. n |-> f[i]]
      OBVIOUS
    <3> HIDE DEF f
    <3> QED
      BY <2>1, <3>1 DEF Flattening
  <2>3. FlattenSeq(s) = f[n]
    <3> HIDE DEF f
    <3> QED
      BY <1>1, <1>6, <2>2, FlattenIs
  <2>4. f[n] = g[n]
    BY <1>1, <1>6
  <2>5. g[n + 1] = g[n] \o b
    <3>1. n + 1 \in 1 .. n + 1 /\ n + 1 # 1 /\ (n + 1) - 1 = n
      BY <1>1, <1>6
    <3> QED
      BY <1>1, <1>3, <3>1
  <2> QED
    BY <1>4, <2>3, <2>4, <2>5 DEF t
<1> QED
  BY <1>5, <1>6

-----------------------------------------------------------------------------
(***************************************************************************)
(* The bytes of a path.  No name has a "/" in it, so that the last one     *)
(* tells where the last name begins, and a path is told by its bytes.      *)
(***************************************************************************)
Block(x) == <<47>> \o Spelling[x]

Slashed(p) == FlattenSeq([i \in DOMAIN p |-> Block(p[i])])

LEMMA SpellingType ==
  ASSUME NEW x \in Names
  PROVE  /\ Spelling[x] \in Seq(Nat) /\ Len(Spelling[x]) \in Nat \ {0}
         /\ \A k \in 1 .. Len(Spelling[x]) : Spelling[x][k] # 47
<1>1. Spelling[x] \in Seq(Nat) /\ Spelling[x] # <<>>
  BY IcechunkWalkAssumption
<1>2. \A k \in 1 .. Len(Spelling[x]) : Spelling[x][k] # 47
  BY IcechunkWalkAssumption DEF Contains
<1> QED
  BY <1>1, <1>2

LEMMA Concatenated ==
  ASSUME NEW a \in Seq(Nat), NEW b \in Seq(Nat)
  PROVE  /\ a \o b \in Seq(Nat) /\ Len(a \o b) = Len(a) + Len(b)
         /\ \A k \in 1 .. Len(a) : (a \o b)[k] = a[k]
         /\ \A k \in 1 .. Len(b) : (a \o b)[Len(a) + k] = b[k]
<1>1. Len(a) \in Nat /\ Len(b) \in Nat
  BY LenProperties
<1>2. /\ a \o b \in Seq(Nat) /\ Len(a \o b) = Len(a) + Len(b)
      /\ \A i \in 1 .. Len(a) + Len(b) :
           (a \o b)[i] = IF i <= Len(a) THEN a[i] ELSE b[i - Len(a)]
  BY ConcatProperties
<1>3. ASSUME NEW k \in 1 .. Len(a) PROVE (a \o b)[k] = a[k]
  <2>1. k \in 1 .. Len(a) + Len(b) /\ k <= Len(a)
    BY <1>1
  <2> QED
    BY <1>2, <2>1
<1>4. ASSUME NEW k \in 1 .. Len(b) PROVE (a \o b)[Len(a) + k] = b[k]
  <2>1. /\ Len(a) + k \in 1 .. Len(a) + Len(b)
        /\ ~(Len(a) + k <= Len(a)) /\ (Len(a) + k) - Len(a) = k
    BY <1>1
  <2> QED
    BY <1>2, <2>1
<1> QED
  BY <1>2, <1>3, <1>4

LEMMA Slash == <<47>> \in Seq(Nat) /\ Len(<<47>>) = 1 /\ <<47>>[1] = 47
OBVIOUS

LEMMA BlockIs ==
  ASSUME NEW x \in Names
  PROVE  /\ Block(x) \in Seq(Nat) /\ Len(Block(x)) = 1 + Len(Spelling[x])
         /\ Len(Block(x)) > 1
         /\ Block(x)[1] = 47
         /\ \A k \in 1 .. Len(Spelling[x]) : Block(x)[1 + k] = Spelling[x][k]
<1> DEFINE a == <<47>>
           b == Spelling[x]
<1>1. /\ a \in Seq(Nat) /\ Len(a) = 1 /\ a[1] = 47
      /\ b \in Seq(Nat) /\ Len(b) \in Nat \ {0}
  BY SpellingType, Slash
<1> HIDE DEF a, b
<1>2. /\ a \o b \in Seq(Nat) /\ Len(a \o b) = Len(a) + Len(b)
      /\ \A k \in 1 .. Len(a) : (a \o b)[k] = a[k]
      /\ \A k \in 1 .. Len(b) : (a \o b)[Len(a) + k] = b[k]
  BY <1>1, Concatenated
<1>3. Block(x) = a \o b
  BY DEF Block, a, b
<1> QED
  BY <1>1, <1>2, <1>3 DEF b

LEMMA SlashedAppend ==
  ASSUME NEW p \in Seq(Names), NEW x \in Names
  PROVE  /\ Slashed(p) \in Seq(Nat)
         /\ Slashed(Append(p, x)) = Slashed(p) \o Block(x)
<1> DEFINE blocks(q) == [i \in DOMAIN q |-> Block(q[i])]
<1>1. ASSUME NEW q \in Seq(Names) PROVE blocks(q) \in Seq(Seq(Nat))
  <2>1. DOMAIN q = 1 .. Len(q) /\ Len(q) \in Nat /\ \A i \in 1 .. Len(q) : q[i] \in Names
    BY LenProperties, ElementOfSeq
  <2>2. \A i \in 1 .. Len(q) : Block(q[i]) \in Seq(Nat)
    BY <2>1, BlockIs
  <2>3. blocks(q) \in [1 .. Len(q) -> Seq(Nat)]
    BY <2>1, <2>2
  <2> HIDE DEF blocks
  <2> QED
    BY <2>1, <2>3, SeqDef
<1>2. Append(p, x) \in Seq(Names)
  OBVIOUS
<1> DEFINE b == Block(x)
<1>3. b \in Seq(Nat)
  BY BlockIs
<1>4. blocks(Append(p, x)) = Append(blocks(p), b)
  <2>1. /\ DOMAIN Append(p, x) = 1 .. Len(p) + 1
        /\ \A i \in 1 .. Len(p) : Append(p, x)[i] = p[i]
        /\ Append(p, x)[Len(p) + 1] = x
    OBVIOUS
  <2>2. /\ blocks(Append(p, x)) \in Seq(Seq(Nat)) /\ Append(blocks(p), b) \in Seq(Seq(Nat))
        /\ Len(blocks(p)) = Len(p)
    BY <1>1, <1>2, <1>3
  <2>3. Len(blocks(Append(p, x))) = Len(p) + 1 /\ Len(Append(blocks(p), b)) = Len(p) + 1
    BY <2>1, <2>2
  <2>4. ASSUME NEW i \in 1 .. Len(p) + 1
        PROVE  blocks(Append(p, x))[i] = Append(blocks(p), b)[i]
    <3>1. blocks(Append(p, x))[i] = Block(Append(p, x)[i])
      BY <2>1
    <3>2. CASE i \in 1 .. Len(p)
      BY <2>1, <2>2, <3>1, <3>2
    <3>3. CASE i = Len(p) + 1
      BY <2>1, <2>2, <3>1, <3>3
    <3> QED
      BY <3>2, <3>3
  <2> HIDE DEF blocks, b
  <2> QED
    BY <2>2, <2>3, <2>4, SeqEqual
<1>5. blocks(p) \in Seq(Seq(Nat))
  BY <1>1
<1> HIDE DEF blocks, b
<1>6. FlattenSeq(blocks(p)) \in Seq(Nat)
  BY <1>5, FlattenType
<1>7. FlattenSeq(Append(blocks(p), b)) = FlattenSeq(blocks(p)) \o b
  BY <1>3, <1>5, FlattenAppend
<1> QED
  BY <1>4, <1>6, <1>7 DEF Slashed, blocks, b

LEMMA SlashedEmpty == Slashed(<<>>) = <<>>
BY DEF Slashed, FlattenSeq

LEMMA SlashedType ==
  ASSUME NEW p \in Seq(Names)
  PROVE  Slashed(p) \in Seq(Nat)
<1>1. CASE p = <<>>
  BY <1>1, SlashedEmpty, EmptySeq
<1>2. CASE p # <<>>
  <2>1. Len(p) \in Nat \ {0} /\ p[Len(p)] \in Names
    BY <1>2
  <2> QED
    BY <2>1, SlashedAppend
<1> QED
  BY <1>1, <1>2

(* Every path but the root's is a shorter one and a name. *)
LEMMA LastName ==
  ASSUME NEW p \in Seq(Names), p # <<>>
  PROVE  /\ Front(p) \in Seq(Names) /\ Len(Front(p)) = Len(p) - 1
         /\ p[Len(p)] \in Names
         /\ p = Append(Front(p), p[Len(p)])
         /\ Above(Front(p), p)
<1>1. Len(p) \in Nat \ {0}
  OBVIOUS
<1>2. Front(p) \in Seq(Names) /\ Len(Front(p)) = Len(p) - 1 /\ p[Len(p)] \in Names
  <2> DEFINE n == Len(p) - 1
  <2>1. n \in Int /\ 1 \in Int /\ n - 1 + 1 = n /\ \A i \in 1 .. n : p[i] \in Names
    BY <1>1
  <2>2. Front(p) = SubSeq(p, 1, n)
    BY DEF Front
  <2>3. n \in Nat /\ \A m \in Nat : (IF 1 <= m THEN m - 1 + 1 ELSE 0) = m
    BY <1>1
  <2>4. p[Len(p)] \in Names
    BY <1>1, ElementOfSeq
  <2> HIDE DEF n
  <2>5. /\ SubSeq(p, 1, n) \in Seq(Names)
        /\ Len(SubSeq(p, 1, n)) = IF 1 <= n THEN n - 1 + 1 ELSE 0
    BY <2>1, SubSeqProperties
  <2> QED
    BY <2>2, <2>3, <2>4, <2>5 DEF n
<1>3. \A k \in 1 .. Len(p) - 1 : Front(p)[k] = p[k]
  BY <1>1 DEF Front
<1> DEFINE q == Append(Front(p), p[Len(p)])
<1>4. q \in Seq(Names) /\ Len(q) = Len(p) /\ \A k \in 1 .. Len(p) : q[k] = p[k]
  BY <1>1, <1>2, <1>3
<1>5. p = q
  <2> HIDE DEF q
  <2> QED
    BY <1>4, SeqEqual
<1>6. Above(Front(p), p)
  BY <1>1, <1>2, <1>3, AboveMeans
<1> QED
  BY <1>2, <1>5, <1>6

(* What ends with a "/" and then none can be split there only. *)
SlashThen(c, u) ==
  /\ Len(c) = 1 + Len(u) /\ c[1] = 47
  /\ \A k \in 1 .. Len(u) : c[1 + k] = u[k]

NoSlash(u) == \A k \in 1 .. Len(u) : u[k] # 47

SlashBetween(l, a, u) ==
  /\ Len(l) = Len(a) + 1 + Len(u)
  /\ \A k \in 1 .. Len(a) : l[k] = a[k]
  /\ l[Len(a) + 1] = 47
  /\ \A k \in 1 .. Len(u) : l[Len(a) + 1 + k] = u[k]

LEMMA EndsWith ==
  ASSUME NEW a \in Seq(Nat), NEW c \in Seq(Nat), NEW u \in Seq(Nat), SlashThen(c, u)
  PROVE  SlashBetween(a \o c, a, u)
<1>1. Len(a) \in Nat /\ Len(u) \in Nat
  BY LenProperties
<1> DEFINE l == a \o c
<1>2. /\ l \in Seq(Nat) /\ Len(l) = Len(a) + Len(c)
      /\ \A k \in 1 .. Len(a) : l[k] = a[k]
      /\ \A k \in 1 .. Len(c) : l[Len(a) + k] = c[k]
  BY Concatenated
<1> HIDE DEF l
<1>3. Len(l) = Len(a) + 1 + Len(u)
  BY <1>1, <1>2 DEF SlashThen
<1>4. l[Len(a) + 1] = 47
  <2>1. 1 \in 1 .. Len(c)
    BY <1>1 DEF SlashThen
  <2> QED
    BY <1>2, <2>1 DEF SlashThen
<1>5. ASSUME NEW k \in 1 .. Len(u) PROVE l[Len(a) + 1 + k] = u[k]
  <2>1. 1 + k \in 1 .. Len(c) /\ Len(a) + (1 + k) = Len(a) + 1 + k
    BY <1>1 DEF SlashThen
  <2>2. l[Len(a) + (1 + k)] = c[1 + k]
    BY <1>2, <2>1
  <2>3. c[1 + k] = u[k]
    BY DEF SlashThen
  <2> QED
    BY <2>1, <2>2, <2>3
<1> QED
  BY <1>2, <1>3, <1>4, <1>5 DEF l, SlashBetween

LEMMA NotShorter ==
  ASSUME NEW m \in Nat, NEW n \in Nat, NEW u \in Seq(Nat), NEW v \in Seq(Nat),
         NEW l,
         m + 1 + Len(u) = n + 1 + Len(v), l[n + 1] = 47, NoSlash(u),
         \A k \in 1 .. Len(u) : l[m + 1 + k] = u[k]
  PROVE  ~(m < n)
<1> SUFFICES ASSUME m < n PROVE FALSE
  OBVIOUS
<1> DEFINE k == n - m
<1>1. Len(u) \in Nat /\ Len(v) \in Nat
  BY LenProperties
<1>2. k \in 1 .. Len(u) /\ m + 1 + k = n + 1
  BY <1>1
<1> HIDE DEF k
<1>3. l[m + 1 + k] = u[k] /\ u[k] # 47
  BY <1>2 DEF NoSlash
<1> QED
  BY <1>2, <1>3

LEMMA SplitAtSlash ==
  ASSUME NEW a \in Seq(Nat), NEW b \in Seq(Nat), NEW x \in Names, NEW y \in Names,
         a \o Block(x) = b \o Block(y)
  PROVE  a = b /\ x = y
<1> DEFINE u == Spelling[x]
           v == Spelling[y]
           l == a \o Block(x)
<1>1. /\ u \in Seq(Nat) /\ v \in Seq(Nat)
      /\ NoSlash(u) /\ NoSlash(v)
  BY SpellingType DEF NoSlash
<1>2. /\ Block(x) \in Seq(Nat) /\ SlashThen(Block(x), u)
      /\ Block(y) \in Seq(Nat) /\ SlashThen(Block(y), v)
  BY BlockIs DEF SlashThen
<1>3. SlashBetween(l, a, u)
  BY <1>1, <1>2, EndsWith
<1>4. SlashBetween(l, b, v)
  BY <1>1, <1>2, EndsWith
<1>5. /\ Len(a) \in Nat /\ Len(b) \in Nat /\ Len(u) \in Nat /\ Len(v) \in Nat
  BY <1>1, LenProperties
<1> HIDE DEF u, v, l
<1>6. ~(Len(a) < Len(b))
  <2>1. Len(a) + 1 + Len(u) = Len(b) + 1 + Len(v)
    BY <1>3, <1>4 DEF SlashBetween
  <2> QED
    BY <1>1, <1>3, <1>4, <1>5, <2>1, NotShorter DEF SlashBetween
<1>7. ~(Len(b) < Len(a))
  <2>1. Len(b) + 1 + Len(v) = Len(a) + 1 + Len(u)
    BY <1>3, <1>4 DEF SlashBetween
  <2> QED
    BY <1>1, <1>3, <1>4, <1>5, <2>1, NotShorter DEF SlashBetween
<1>8. Len(a) = Len(b)
  BY <1>5, <1>6, <1>7
<1>9. Len(u) = Len(v)
  BY <1>3, <1>4, <1>5, <1>8 DEF SlashBetween
<1>10. a = b
  <2>1. \A k \in 1 .. Len(a) : a[k] = b[k]
    BY <1>3, <1>4, <1>8 DEF SlashBetween
  <2> QED
    BY <1>8, <2>1, SeqEqual
<1>11. u = v
  <2>1. ASSUME NEW k \in 1 .. Len(u) PROVE u[k] = v[k]
    <3>1. l[Len(a) + 1 + k] = u[k]
      BY <1>3 DEF SlashBetween
    <3>2. l[Len(b) + 1 + k] = v[k]
      BY <1>4, <1>9 DEF SlashBetween
    <3> QED
      BY <1>8, <3>1, <3>2
  <2> QED
    BY <1>1, <1>9, <2>1, SeqEqual
<1> QED
  BY <1>10, <1>11, IcechunkWalkAssumption DEF u, v

(* A path's bytes tell it. *)
LEMMA SlashedInjective ==
  ASSUME NEW p \in Seq(Names), NEW q \in Seq(Names), Slashed(p) = Slashed(q)
  PROVE  p = q
<1> DEFINE Told(n) == \A a, b \in Seq(Names) :
             Len(a) = n /\ Slashed(a) = Slashed(b) => a = b
           S == {n \in Nat : Told(n)}
<1>1. ASSUME NEW a \in Seq(Names), a # <<>>
      PROVE  /\ Slashed(a) = Slashed(Front(a)) \o Block(a[Len(a)])
             /\ Slashed(a) # <<>>
  <2>1. /\ Front(a) \in Seq(Names) /\ a[Len(a)] \in Names
        /\ a = Append(Front(a), a[Len(a)])
    BY <1>1, LastName
  <2>2. /\ Slashed(Front(a)) \in Seq(Nat)
        /\ Slashed(a) = Slashed(Front(a)) \o Block(a[Len(a)])
    BY <2>1, SlashedAppend
  <2>3. Block(a[Len(a)]) \in Seq(Nat) /\ Len(Block(a[Len(a)])) > 1
    BY <2>1, BlockIs
  <2>4. Len(Slashed(Front(a)) \o Block(a[Len(a)])) # 0
    BY <2>2, <2>3
  <2> QED
    BY <2>2, <2>4
<1>2. 0 \in S
  <2> SUFFICES ASSUME NEW a \in Seq(Names), NEW b \in Seq(Names), Len(a) = 0,
                      Slashed(a) = Slashed(b)
               PROVE  a = b
    OBVIOUS
  <2>1. a = <<>>
    OBVIOUS
  <2>2. Slashed(b) = <<>>
    BY <2>1, SlashedEmpty
  <2> QED
    BY <1>1, <2>1, <2>2
<1>3. ASSUME NEW n \in Nat, n \in S PROVE n + 1 \in S
  <2> SUFFICES ASSUME NEW a \in Seq(Names), NEW b \in Seq(Names), Len(a) = n + 1,
                      Slashed(a) = Slashed(b)
               PROVE  a = b
    OBVIOUS
  <2>1. a # <<>>
    OBVIOUS
  <2>2. Slashed(a) # <<>>
    BY <1>1, <2>1
  <2>3. b # <<>>
    BY <2>2, SlashedEmpty
  <2>4. /\ Front(a) \in Seq(Names) /\ a[Len(a)] \in Names /\ Len(Front(a)) = n
        /\ a = Append(Front(a), a[Len(a)])
    BY <2>1, LastName
  <2>5. /\ Front(b) \in Seq(Names) /\ b[Len(b)] \in Names
        /\ b = Append(Front(b), b[Len(b)])
    BY <2>3, LastName
  <2>6. Slashed(Front(a)) \in Seq(Nat) /\ Slashed(Front(b)) \in Seq(Nat)
    BY <2>4, <2>5, SlashedType
  <2>7. Slashed(Front(a)) = Slashed(Front(b)) /\ a[Len(a)] = b[Len(b)]
    <3>1. Slashed(Front(a)) \o Block(a[Len(a)]) = Slashed(Front(b)) \o Block(b[Len(b)])
      BY <1>1, <2>1, <2>3
    <3> DEFINE Extended(c, x) == c \o Block(x)
    <3>2. \A c, d \in Seq(Nat) : \A x, y \in Names :
            Extended(c, x) = Extended(d, y) => c = d /\ x = y
      BY SplitAtSlash, Zenon
    <3>3. Extended(Slashed(Front(a)), a[Len(a)]) = Extended(Slashed(Front(b)), b[Len(b)])
      BY <3>1
    <3> HIDE DEF Extended
    <3> QED
      BY <2>4, <2>5, <2>6, <3>2, <3>3
  <2>8. Front(a) = Front(b)
    BY <1>3, <2>4, <2>5, <2>7
  <2> QED
    BY <2>4, <2>5, <2>7, <2>8
<1>4. Nat \subseteq S
  <2> HIDE DEF S
  <2> QED
    BY <1>2, <1>3, SetInduction
<1>5. Len(p) \in S
  BY <1>4
<1> QED
  BY <1>5

(* The bytes of an ancestor are where those of a path begin. *)
LEMMA SlashedPrefix ==
  ASSUME NEW m \in Seq(Names), NEW n \in Seq(Names), Above(m, n), m # n
  PROVE  IsStrictPrefix(Slashed(m), Slashed(n))
<1> DEFINE Starts(l) ==
             \A a \in Seq(Names) : Len(a) = l /\ Above(m, a) =>
               /\ IsPrefix(Slashed(m), Slashed(a))
               /\ m # a => Len(Slashed(m)) < Len(Slashed(a))
           S == {l \in Nat : Starts(l)}
<1>0. Slashed(m) \in Seq(Nat) /\ IsPrefix(Slashed(m), Slashed(m))
  BY SlashedType, PrefixMeans
<1>1. 0 \in S
  <2> SUFFICES ASSUME NEW a \in Seq(Names), Len(a) = 0, Above(m, a)
               PROVE  m = a
    BY <1>0
  <2>1. Len(m) = 0
    BY DEF Above
  <2> QED
    BY <2>1
<1>2. ASSUME NEW l \in Nat, l \in S PROVE l + 1 \in S
  <2> SUFFICES ASSUME NEW a \in Seq(Names), Len(a) = l + 1, Above(m, a), m # a
               PROVE  /\ IsPrefix(Slashed(m), Slashed(a))
                      /\ Len(Slashed(m)) < Len(Slashed(a))
    BY <1>0
  <2> DEFINE f == Front(a)
             b == Block(a[Len(a)])
  <2>1. /\ f \in Seq(Names) /\ Len(f) = l /\ Above(f, a)
        /\ Slashed(a) = Slashed(f) \o b
        /\ b \in Seq(Nat) /\ Len(b) > 1
    <3>1. a # <<>>
      OBVIOUS
    <3>2. /\ f \in Seq(Names) /\ Len(f) = l /\ Above(f, a)
          /\ a[Len(a)] \in Names /\ a = Append(f, a[Len(a)])
      BY <3>1, LastName
    <3> HIDE DEF f
    <3>4. Slashed(Append(f, a[Len(a)])) = Slashed(f) \o b
      BY <3>2, SlashedAppend
    <3>5. b \in Seq(Nat) /\ Len(b) > 1
      BY <3>2, BlockIs
    <3> HIDE DEF b
    <3> QED
      BY <3>2, <3>4, <3>5
  <2> HIDE DEF f, b
  <2>2. Len(m) <= l
    <3>1. Len(m) <= l + 1 /\ Len(m) # l + 1
      BY SameLength DEF Above
    <3> QED
      BY <3>1
  <2>3. Above(m, f)
    BY <2>1, <2>2, AncestorsAgree
  <2>4. /\ IsPrefix(Slashed(m), Slashed(f))
        /\ Slashed(f) \in Seq(Nat)
    BY <1>2, <2>1, <2>3, SlashedType
  <2>5. /\ Len(Slashed(m)) <= Len(Slashed(f))
        /\ \A k \in 1 .. Len(Slashed(m)) : Slashed(f)[k] = Slashed(m)[k]
    BY <1>0, <2>4, PrefixMeans
  <2>6. /\ Slashed(a) \in Seq(Nat)
        /\ Len(Slashed(a)) > Len(Slashed(f))
        /\ \A k \in 1 .. Len(Slashed(f)) : Slashed(a)[k] = Slashed(f)[k]
    BY <2>1, <2>4
  <2>7. /\ Len(Slashed(m)) < Len(Slashed(a))
        /\ \A k \in 1 .. Len(Slashed(m)) : Slashed(a)[k] = Slashed(m)[k]
    BY <1>0, <2>4, <2>5, <2>6
  <2> QED
    BY <1>0, <2>6, <2>7, PrefixMeans
<1>3. Nat \subseteq S
  <2> HIDE DEF S
  <2> QED
    BY <1>1, <1>2, SetInduction
<1>4. Starts(Len(n))
  BY <1>3
<1> QED
  BY <1>4 DEF IsStrictPrefix

(* The same for the bytes with which the root is spelled "/". *)
LEMMA PathBytesIs ==
  ASSUME NEW p \in Seq(Names)
  PROVE  /\ PathBytes(p) = IF p = <<>> THEN <<47>> ELSE Slashed(p)
         /\ PathBytes(p) \in Seq(Nat)
         /\ p # <<>> => IsStrictPrefix(<<47>>, Slashed(p))
<1>1. PathBytes(p) = IF p = <<>> THEN <<47>> ELSE Slashed(p)
  BY DEF PathBytes, Slashed, Block
<1>2. ASSUME p # <<>>
      PROVE  IsStrictPrefix(<<47>>, Slashed(p))
  <2> DEFINE x == p[1]
             q == Append(<<>>, x)
  <2>1. x \in Names /\ Len(p) \in Nat \ {0}
    BY <1>2, EmptySeq, ElementOfSeq
  <2>2. q \in Seq(Names) /\ Len(q) = 1 /\ q[1] = p[1]
    BY <2>1
  <2>3. Slashed(q) = <<>> \o Block(x)
    BY <2>1, SlashedAppend, SlashedEmpty, EmptySeq
  <2>4. /\ Slashed(q) \in Seq(Nat) /\ Len(Slashed(q)) > 1
        /\ Slashed(q)[1] = 47
    BY <2>1, <2>3, BlockIs, ConcatEmptySeq
  <2> HIDE DEF q, x
  <2>5. Above(q, p)
    BY <2>1, <2>2, AboveMeans
  <2>6. Slashed(p) \in Seq(Nat) /\ IsPrefix(Slashed(q), Slashed(p))
    <3>1. CASE q = p
      BY <2>4, <3>1, PrefixMeans
    <3>2. CASE q # p
      BY <2>2, <2>5, <3>2, SlashedPrefix, SlashedType DEF IsStrictPrefix
    <3> QED
      BY <3>1, <3>2
  <2>7. Len(Slashed(p)) > 1 /\ Slashed(p)[1] = 47
    <3>1. Len(Slashed(q)) \in Nat /\ Len(Slashed(p)) \in Nat
      BY <2>4, <2>6, LenProperties
    <3>2. /\ Len(Slashed(q)) <= Len(Slashed(p))
          /\ \A k \in 1 .. Len(Slashed(q)) : Slashed(p)[k] = Slashed(q)[k]
      BY <2>4, <2>6, PrefixMeans
    <3>3. 1 \in 1 .. Len(Slashed(q))
      BY <2>4, <3>1
    <3>4. Slashed(p)[1] = Slashed(q)[1]
      BY <3>2, <3>3
    <3> QED
      BY <2>4, <3>1, <3>2, <3>4
  <2> DEFINE s == <<47>>
  <2>8. s \in Seq(Nat) /\ Len(s) = 1 /\ s[1] = 47
    BY Slash
  <2> HIDE DEF s
  <2>9. IsPrefix(s, Slashed(p)) /\ s # Slashed(p)
    <3>1. Len(Slashed(p)) \in Nat
      BY <2>6, LenProperties
    <3>2. Len(s) <= Len(Slashed(p)) /\ s # Slashed(p)
      <4>1. Len(s) <= Len(Slashed(p))
        BY <2>7, <2>8, <3>1
      <4>2. ASSUME s = Slashed(p) PROVE FALSE
        <5>1. \A k \in Nat : k > 1 => k # 1
          OBVIOUS
        <5>2. Len(Slashed(p)) # 1
          BY <2>7, <3>1, <5>1, Zenon
        <5> QED
          BY <2>8, <4>2, <5>2
      <4> QED
        BY <4>1, <4>2
    <3>3. \A k \in 1 .. Len(s) : Slashed(p)[k] = s[k]
      BY <2>7, <2>8
    <3> QED
      BY <2>6, <2>8, <3>2, <3>3, PrefixMeans
  <2> QED
    BY <2>9 DEF IsStrictPrefix, s
<1> QED
  BY <1>1, <1>2, SlashedType, Slash

LEMMA PathBytesInjective ==
  ASSUME NEW p \in Seq(Names), NEW q \in Seq(Names), p # q
  PROVE  PathBytes(p) # PathBytes(q)
BY PathBytesIs, SlashedInjective DEF IsStrictPrefix

(* A path comes after its ancestors. *)
LEMMA AncestorBefore ==
  ASSUME NEW m \in Seq(Names), NEW n \in Seq(Names), Above(m, n), m # n
  PROVE  Before(m, n)
<1>1. n # <<>>
  <2>1. ASSUME n = <<>> PROVE m = <<>>
    BY <2>1 DEF Above
  <2> QED
    BY <2>1
<1>2. IsStrictPrefix(PathBytes(m), PathBytes(n))
  BY <1>1, PathBytesIs, SlashedPrefix
<1> QED
  BY <1>2 DEF Before, LexBefore

(* The order is total and strict. *)
LEMMA BeforeOrders ==
  /\ \A p, q \in Seq(Names) : Before(p, q) => ~Before(q, p)
  /\ \A p, q, r \in Seq(Names) : Before(p, q) /\ Before(q, r) => Before(p, r)
  /\ \A p, q \in Seq(Names) : p # q => Before(p, q) \/ Before(q, p)
<1>1. \A p \in Seq(Names) : PathBytes(p) \in Seq(Nat)
  BY PathBytesIs
<1>2. \A p, q \in Seq(Names) : Before(p, q) => ~Before(q, p)
  BY <1>1, LexAsymmetric DEF Before
<1>3. \A p, q, r \in Seq(Names) : Before(p, q) /\ Before(q, r) => Before(p, r)
  BY <1>1, LexTransitive DEF Before
<1>4. \A p, q \in Seq(Names) : p # q => Before(p, q) \/ Before(q, p)
  BY <1>1, LexTotal, PathBytesInjective DEF Before
<1> QED
  BY <1>2, <1>3, <1>4

(* ByPath lists a set, each path once, in that order. *)
Sorted(order) == \A i, j \in DOMAIN order : i < j => Before(order[i], order[j])

LEMMA ByPathOrders ==
  ASSUME NEW S, IsFiniteSet(S), S \subseteq Seq(Names)
  PROVE  ByPath(S) \in SetToSeqs(S) /\ Sorted(ByPath(S))
<1> DEFINE n == Cardinality(S)
           Below(p) == {q \in S : Before(q, p)}
           Rank(p) == Cardinality(Below(p))
           order == ByPath(S)
<1>1. n \in Nat
  BY FS_CardinalityType
<1>2. ASSUME NEW p \in S
      PROVE  IsFiniteSet(Below(p)) /\ Rank(p) \in 0 .. n - 1
  <2>1. ~Before(p, p)
    BY BeforeOrders
  <2>2. Below(p) \in SUBSET S /\ Below(p) # S
    BY <2>1
  <2>3. IsFiniteSet(Below(p)) /\ Rank(p) <= n /\ Rank(p) # n
    BY <2>2, FS_Subset
  <2>4. Rank(p) \in Nat
    BY <2>3, FS_CardinalityType
  <2> HIDE DEF Below, n, Rank
  <2> QED
    BY <1>1, <2>3, <2>4
<1>3. ASSUME NEW p \in S, NEW q \in S, Before(p, q)
      PROVE  Rank(p) < Rank(q)
  <2>1. Below(p) \in SUBSET Below(q)
    BY <1>3, BeforeOrders
  <2>2. p \in Below(q) /\ p \notin Below(p)
    BY <1>3, BeforeOrders
  <2>3. IsFiniteSet(Below(q)) /\ Rank(p) \in Nat /\ Rank(q) \in Nat
    <3> HIDE DEF Below, Rank, n
    <3> QED
      BY <1>1, <1>2
  <2>4. Rank(p) <= Rank(q) /\ Rank(p) # Rank(q)
    <3> HIDE DEF Below
    <3> QED
      BY <2>1, <2>2, <2>3, FS_Subset
  <2> HIDE DEF Rank
  <2> QED
    BY <2>3, <2>4
<1> HIDE DEF Below, Rank
<1>4. ASSUME NEW p \in S, NEW q \in S, p # q
      PROVE  Rank(p) # Rank(q)
  <2>1. Rank(p) \in Nat /\ Rank(q) \in Nat
    BY <1>1, <1>2
  <2>2. Rank(p) < Rank(q) \/ Rank(q) < Rank(p)
    BY <1>3, <1>4, BeforeOrders
  <2> QED
    BY <2>1, <2>2
<1> DEFINE D == 1 .. n
           place == [p \in S |-> Rank(p) + 1]
<1>5. place \in Injection(S, D)
  <2>1. \A p \in S : place[p] \in D
    BY <1>1, <1>2
  <2>2. \A p, q \in S : place[p] = place[q] => p = q
    BY <1>1, <1>2, <1>4
  <2> QED
    BY <2>1, <2>2 DEF Injection, IsInjective
<1>6. place \in Surjection(S, D)
  <2>1. IsFiniteSet(D) /\ Cardinality(D) = Cardinality(S)
    BY <1>1, FS_Interval
  <2> HIDE DEF place, D
  <2> QED
    BY <1>5, <2>1, FS_Injection
<1>7. \A i \in D : \E p \in S : Rank(p) = i - 1
  <2>1. \A i \in D : \E p \in S : place[p] = i
    BY <1>6 DEF Surjection
  <2> QED
    BY <1>1, <1>2, <2>1
<1>8. order = [i \in D |-> CHOOSE p \in S : Rank(p) = i - 1]
  BY DEF ByPath, Rank, Below
<1>9. \A i \in D : order[i] \in S /\ Rank(order[i]) = i - 1
  <2> HIDE DEF D, n
  <2> QED
    BY <1>7, <1>8
<1>10. DOMAIN order = D /\ order \in [D -> S]
  <2> HIDE DEF D, n
  <2> QED
    BY <1>8, <1>9
<1> HIDE DEF order
<1>11. \A i, j \in D : i # j => order[i] # order[j]
  BY <1>1, <1>9
<1>12. ASSUME NEW i \in D, NEW j \in D, i < j
       PROVE  Before(order[i], order[j])
  <2>1. order[i] \in S /\ order[j] \in S
    BY <1>9
  <2>2. order[i] # order[j]
    BY <1>1, <1>11, <1>12
  <2>3. ~Before(order[j], order[i])
    <3>1. ASSUME Before(order[j], order[i]) PROVE FALSE
      <4>1. Rank(order[j]) < Rank(order[i])
        BY <1>3, <2>1, <3>1
      <4>2. Rank(order[i]) = i - 1 /\ Rank(order[j]) = j - 1
        BY <1>9
      <4> QED
        BY <1>1, <1>12, <4>1, <4>2
    <3> QED
      BY <3>1
  <2> QED
    BY <2>1, <2>2, <2>3, BeforeOrders
<1> QED
  BY <1>10, <1>11, <1>12 DEF SetToSeqs, Sorted, order

-----------------------------------------------------------------------------
(***************************************************************************)
(* The state is well formed.                                               *)
(***************************************************************************)
ParentPaths == {ParentOf(a) : a \in Arrays}

LEMMA ParentType ==
  ASSUME NEW a \in Seq(Names)
  PROVE  ParentOf(a) \in Seq(Names) /\ Above(ParentOf(a), a)
<1>1. CASE Len(a) <= 1
  <2>1. ParentOf(a) = <<>> /\ <<>> \in Seq(Names)
    BY <1>1, EmptySeq DEF ParentOf
  <2>2. ASSUME NEW e \in Seq(Names), Len(e) = 0 PROVE Above(e, a)
    <3>1. Len(e) <= Len(a)
      BY <2>2, LenProperties
    <3>2. \A k \in 1 .. Len(e) : FALSE
      BY <2>2
    <3> QED
      BY <3>1, <3>2, AboveMeans
  <2>3. Above(<<>>, a)
    BY <2>1, <2>2
  <2> QED
    BY <2>1, <2>3
<1>2. CASE ~(Len(a) <= 1)
  <2>1. ParentOf(a) = Front(a) /\ a # <<>>
    BY <1>2, EmptySeq DEF ParentOf
  <2> QED
    BY <2>1, LastName
<1> QED
  BY <1>1, <1>2

LEMMA ParentPathsFinite ==
  IsFiniteSet(ParentPaths) /\ ParentPaths \subseteq Seq(Names)
<1> DEFINE f == [a \in Arrays |-> ParentOf(a)]
<1>1. IsFiniteSet(Arrays) /\ Arrays \subseteq Seq(Names)
  BY HierarchyAssumption DEF HierarchyAssumption
<1>2. f \in Surjection(Arrays, ParentPaths)
  BY DEF Surjection, ParentPaths
<1>3. IsFiniteSet(ParentPaths)
  <2> HIDE DEF f
  <2> QED
    BY <1>1, <1>2, FS_Surjection
<1> QED
  BY <1>1, <1>3, ParentType DEF ParentPaths

(* The first of a set's paths is one of them. *)
LEMMA FirstIsMember ==
  ASSUME NEW S, IsFiniteSet(S), S \subseteq Seq(Names), S # {}
  PROVE  ByPath(S)[1] \in S
<1>1. ByPath(S) \in SetToSeqs(S)
  BY ByPathOrders
<1>2. Cardinality(S) \in Nat /\ Cardinality(S) # 0
  BY FS_EmptySet, FS_CardinalityType
<1>3. 1 \in 1 .. Cardinality(S)
  BY <1>2
<1> QED
  BY <1>1, <1>3 DEF SetToSeqs

LEMMA InitTypeOK == Init => TypeOK
BY DEF Init, TypeOK, NoAnswer, JobStates

LEMMA FailTypeOK ==
  ASSUME TypeOK, NEW n \in Nodes \cup {Session, JoinError} \cup ParentPaths,
         NEW kind \in Refusals \cup {"Other"}, FailWith(kind, n)
  PROVE  TypeOK'
BY DEF TypeOK, FailWith, ParentPaths

LEMMA StepTypeOK == TypeOK /\ [Next]_vars => TypeOK'
<1> SUFFICES ASSUME TypeOK, [Next]_vars PROVE TypeOK'
  OBVIOUS
<1>0. Corrupt \subseteq Nodes
  BY IcechunkWalkAssumption
<1>1. CASE UNCHANGED vars
  BY <1>1 DEF TypeOK, vars
<1>2. CASE Gather
  <2>1. KeptGroups \subseteq Groups /\ Parents \subseteq ParentPaths
    BY DEF KeptGroups, Parents, KeptArrays, ParentPaths
  <2>2. /\ groups' = KeptGroups /\ job' = [p \in Parents |-> "queued"]
        /\ phase' = "build" /\ UNCHANGED <<snapshot, refusal, culprit, answer>>
    BY <1>2 DEF Gather
  <2>3. DOMAIN job' \subseteq ParentPaths /\ \A p \in DOMAIN job' : job'[p] \in JobStates
    BY <2>1, <2>2 DEF JobStates
  <2> QED
    BY <2>1, <2>2, <2>3 DEF TypeOK, ParentPaths
<1>3. CASE GatherFails
  BY <1>0, <1>3, FailTypeOK DEF GatherFails, Fail
<1>4. ASSUME NEW p \in DOMAIN job, Start(p) \/ Finish(p)
      PROVE  TypeOK'
  <2>1. PICK o \in JobStates : job' = [job EXCEPT ![p] = o]
    BY <1>4 DEF Start, Finish, Outcome, JobStates
  <2>2. UNCHANGED <<snapshot, refusal, phase, groups, culprit, answer>>
    BY <1>4 DEF Start, Finish
  <2>3. DOMAIN job' = DOMAIN job /\ \A q \in DOMAIN job : job'[q] \in JobStates
    BY <2>1 DEF TypeOK
  <2> QED
    BY <2>2, <2>3 DEF TypeOK
<1>5. CASE JoinFails
  BY <1>5, FailTypeOK DEF JoinFails, Fail
<1>6. CASE BuildFails
  BY <1>0, <1>6, FailTypeOK DEF BuildFails, Fail
<1>7. CASE AttachFails
  <2>1. Orphaned # {} /\ Fail(ByPath(Orphaned)[1])
    BY <1>7 DEF AttachFails
  <2>2. Orphaned \in SUBSET ParentPaths
    BY DEF Orphaned, TypeOK, ParentPaths
  <2>3. IsFiniteSet(Orphaned) /\ Orphaned \subseteq Seq(Names)
    BY <2>2, ParentPathsFinite, FS_Subset
  <2>4. ByPath(Orphaned)[1] \in ParentPaths
    BY <2>1, <2>2, <2>3, FirstIsMember
  <2> QED
    BY <2>1, <2>4, FailTypeOK DEF Fail
<1>8. CASE Attach
  BY <1>8 DEF Attach, TypeOK
<1>9. CASE Refuse
  <2>1. refusal \in Refusals /\ FailWith(refusal, Session)
    BY <1>9 DEF Refuse, TypeOK
  <2> QED
    BY <2>1, FailTypeOK
<1> QED
  BY <1>9, <1>1, <1>2, <1>3, <1>4, <1>5, <1>6, <1>7, <1>8 DEF Next, Walk, Returned

(* The state is well formed (walk.rs:228-364). *)
THEOREM TypeCorrect == Spec => []TypeOK
BY InitTypeOK, StepTypeOK, PTL DEF Spec

-----------------------------------------------------------------------------
(***************************************************************************)
(* What the answer lists.                                                  *)
(***************************************************************************)
KeptIsFinite(S) == IsFiniteSet(S) /\ S \subseteq Seq(Names)

LEMMA KeptGroupsFinite == KeptIsFinite(KeptGroups)
<1>1. KeptGroups \in SUBSET Groups
  BY DEF KeptGroups
<1>2. IsFiniteSet(Groups) /\ Groups \subseteq Seq(Names)
  BY HierarchyAssumption DEF HierarchyAssumption
<1> QED
  BY <1>1, <1>2, FS_Subset DEF KeptIsFinite

(* The list `nodes' has the groups S in the order of their paths, each     *)
(* with its batch.                                                         *)
Lists(nodes, S) ==
  /\ nodes \in Seq([path : S, vars : SUBSET Arrays])
  /\ \A i \in DOMAIN nodes : nodes[i].vars = Batch(nodes[i].path)
  /\ \A g \in S : \E i \in DOMAIN nodes : nodes[i].path = g
  /\ \A i, j \in DOMAIN nodes :
       /\ nodes[i].path = nodes[j].path => i = j
       /\ i < j => Before(nodes[i].path, nodes[j].path)

LEMMA AttachLists ==
  ASSUME IInv, Attach
  PROVE  /\ answer'.kind = "ok" /\ Lists(answer'.nodes, KeptGroups)
         /\ Parents \subseteq KeptGroups
         /\ answer' = [kind |-> "ok", nodes |-> answer'.nodes]
<1> DEFINE order == ByPath(KeptGroups)
           nodes == [i \in DOMAIN order |-> [path |-> order[i], vars |-> Batch(order[i])]]
<1>1. /\ phase = "build" /\ Joined /\ Errors = {} /\ Orphaned = {}
      /\ answer' = [kind |-> "ok", nodes |-> nodes]
  BY DEF Attach, ResultOrder, IInv
<1>2. Parents \subseteq KeptGroups
  BY <1>1, JoinedTells
<1>3. /\ order \in Seq(KeptGroups)
      /\ DOMAIN order = 1 .. Cardinality(KeptGroups)
      /\ \A i, j \in DOMAIN order : order[i] = order[j] => i = j
      /\ ToSet(order) = KeptGroups
      /\ Sorted(order)
  BY KeptGroupsFinite, ByPathOrders, OrderOfSet DEF KeptIsFinite
<1>4. \A g \in KeptGroups : \E i \in DOMAIN order : order[i] = g
  BY <1>3 DEF ToSet
<1>5. \A i \in DOMAIN order : order[i] \in KeptGroups
  BY <1>3 DEF ToSet
<1>6. Cardinality(KeptGroups) \in Nat
  BY KeptGroupsFinite, FS_CardinalityType DEF KeptIsFinite
<1> HIDE DEF order
<1>7. /\ DOMAIN nodes = DOMAIN order
      /\ \A i \in DOMAIN order : nodes[i].path = order[i] /\ nodes[i].vars = Batch(order[i])
  OBVIOUS
<1>9. nodes \in Seq([path : KeptGroups, vars : SUBSET Arrays])
  <2>1. \A g : Batch(g) \in SUBSET Arrays
    BY DEF Batch, KeptArrays
  <2>2. nodes \in [1 .. Cardinality(KeptGroups) -> [path : KeptGroups, vars : SUBSET Arrays]]
    BY <1>3, <1>5, <2>1
  <2>3. \A E : \A n \in Nat : \A f \in [1 .. n -> E] : f \in Seq(E)
    BY SeqDef
  <2> HIDE DEF nodes
  <2> QED
    BY <1>6, <2>2, <2>3, Zenon
<1> HIDE DEF nodes
<1>10. Lists(nodes, KeptGroups)
  BY <1>3, <1>4, <1>5, <1>7, <1>9 DEF Lists, Sorted
<1> QED
  BY <1>1, <1>2, <1>10

(***************************************************************************)
(* No array is lost.                                                       *)
(***************************************************************************)
LEMMA WantedIsKept ==
  ASSUME TypeOK, NEW a \in Wanted
  PROVE  a \in KeptArrays /\ ParentOf(a) \in Parents
<1>1. a \in Seq(Names) /\ Root \in Seq(Names)
  BY HierarchyAssumption DEF HierarchyAssumption, Wanted
<1>2. Above(Root, a)
  BY <1>1, ParentType, AboveTransitive DEF Wanted
<1> QED
  BY <1>2 DEF Wanted, KeptArrays, Parents, Listed

LEMMA InitNoArrayLost == Init => NoArrayLost
BY DEF Init, NoAnswer, NoArrayLost

LEMMA StepNoArrayLost == NoArrayLost /\ TypeOK /\ IInv /\ [Next]_vars => NoArrayLost'
<1> SUFFICES ASSUME NoArrayLost, TypeOK, IInv, [Next]_vars PROVE NoArrayLost'
  OBVIOUS
<1>1. snapshot' = snapshot /\ Wanted' = Wanted
  BY DEF Next, Walk, Returned, vars, Refuse, Gather, GatherFails, Start, Finish,
         JoinFails, BuildFails, AttachFails, Attach, Fail, FailWith, Wanted
<1>2. CASE answer' = answer
  BY <1>1, <1>2 DEF NoArrayLost
<1>3. CASE answer'.kind # "ok"
  BY <1>3 DEF NoArrayLost
<1>4. CASE Attach
  <2>1. Lists(answer'.nodes, KeptGroups) /\ Parents \subseteq KeptGroups
    BY <1>4, AttachLists
  <2> DEFINE nodes == answer'.nodes
  <2>2. ASSUME NEW a \in Wanted
        PROVE  \E i \in DOMAIN nodes :
                 /\ nodes[i].path = ParentOf(a)
                 /\ \A j \in DOMAIN nodes : a \in nodes[j].vars <=> j = i
    <3>1. a \in KeptArrays /\ ParentOf(a) \in KeptGroups
      BY <2>1, WantedIsKept
    <3>2. PICK i \in DOMAIN nodes : nodes[i].path = ParentOf(a)
      BY <2>1, <3>1 DEF Lists
    <3>3. ASSUME NEW j \in DOMAIN nodes
          PROVE  a \in nodes[j].vars <=> j = i
      <4>1. nodes[j].vars = Batch(nodes[j].path)
        BY <2>1 DEF Lists
      <4>2. a \in nodes[j].vars <=> ParentOf(a) = nodes[j].path
        BY <3>1, <4>1 DEF Batch
      <4> QED
        BY <2>1, <3>2, <4>2 DEF Lists
    <3> QED
      BY <3>2, <3>3
  <2> QED
    BY <1>1, <2>2 DEF NoArrayLost
<1>5. CASE Refuse
  <2>1. answer'.kind = refusal /\ refusal \in Refusals
    BY <1>5 DEF Refuse, FailWith, TypeOK
  <2> QED
    BY <1>3, <2>1, IcechunkWalkAssumption
<1> QED
  BY <1>2, <1>3, <1>4, <1>5 DEF Next, Walk, Returned, vars, Gather, GatherFails, Start,
     Finish, JoinFails, BuildFails, AttachFails, Fail, FailWith

(* An array the walk should return is in the answer under its parent and   *)
(* nowhere else, or the call fails (walk.rs:350-358).                      *)
THEOREM EveryArrayAttached == Spec => []NoArrayLost
BY InitTypeOK, StepTypeOK, InitIInv, NextStep, InitNoArrayLost, StepNoArrayLost, PTL DEF Spec

-----------------------------------------------------------------------------
(***************************************************************************)
(* The promise of GroupWalk.  The groups kept are those asked for that the *)
(* snapshot holds, and each array kept is directly below a group asked for,*)
(* whether the snapshot holds that or not.                                 *)
(***************************************************************************)
LEMMA SameTree ==
  /\ \A S, g : Promise!ChildArrays(S, g) = ChildArrays(S, g)
  /\ \A m, n : Promise!Above(m, n) = Above(m, n)
  /\ Promise!Nodes = Nodes
BY DEF Promise!ChildArrays, ChildArrays, Promise!IsChild, IsChild, Promise!Above, Above,
       Promise!Nodes, Nodes

LEMMA KeptIsAsked ==
  /\ KeptGroups = snapshot \cap Promise!Asked
  /\ \A S : Promise!Walkable(S) = S \cap Promise!Asked
BY SameTree, IcechunkWalkAssumption
   DEF KeptGroups, Listed, Promise!Asked, Promise!Walkable

LEMMA KeptArrayHasParent ==
  ASSUME NEW a \in KeptArrays
  PROVE  /\ a \in Arrays /\ a \in snapshot
         /\ ParentOf(a) \in Promise!Asked /\ IsChild(ParentOf(a), a)
<1>1. /\ a \in Arrays /\ a \in snapshot /\ Above(Root, a) /\ ParentOf(a) \in Keep
      /\ Recursive \/ ParentOf(a) = Root
      /\ a \in Seq(Names) /\ Root \in Seq(Names) /\ Root \in Groups
      /\ Groups \cap Arrays = {} /\ Keep \subseteq Groups
  BY HierarchyAssumption DEF HierarchyAssumption, KeptArrays, Listed
<1>2. Len(Root) < Len(a)
  <2>1. Root # a
    BY <1>1
  <2>2. Len(Root) # Len(a)
    BY <1>1, <2>1, SameLength
  <2>3. Len(Root) <= Len(a) /\ Len(Root) \in Nat /\ Len(a) \in Nat
    BY <1>1 DEF Above
  <2> QED
    BY <2>2, <2>3
<1>3. a # <<>> /\ Len(a) \in Nat \ {0}
  <2>1. Len(Root) \in Nat /\ Len(a) \in Nat
    BY <1>1
  <2>2. Len(a) # 0
    BY <1>2, <2>1
  <2> QED
    BY <2>1, <2>2
<1>4. /\ ParentOf(a) = Front(a)
      /\ Front(a) \in Seq(Names) /\ Len(Front(a)) = Len(a) - 1
      /\ Above(Front(a), a)
  <2>1. /\ Front(a) \in Seq(Names) /\ Len(Front(a)) = Len(a) - 1
        /\ Above(Front(a), a)
    BY <1>1, <1>3, LastName
  <2>2. CASE Len(a) <= 1
    <3>1. Len(Front(a)) = 0
      BY <1>3, <2>1, <2>2
    <3>2. Front(a) = <<>>
      BY <2>1, <3>1, EmptySeq
    <3> QED
      BY <2>1, <2>2, <3>2 DEF ParentOf
  <2>3. CASE ~(Len(a) <= 1)
    BY <2>1, <2>3 DEF ParentOf
  <2> QED
    BY <2>2, <2>3
<1>5. Above(Root, Front(a))
  <2>1. Len(Root) <= Len(Front(a))
    BY <1>1, <1>2, <1>3, <1>4
  <2> QED
    BY <1>1, <1>4, <2>1, AncestorsAgree
<1>6. IsChild(ParentOf(a), a)
  BY <1>3, <1>4 DEF IsChild
<1> QED
  BY <1>1, <1>4, <1>5, <1>6, SameTree DEF Promise!Asked

(* An array directly below a group asked for is kept, in that batch. *)
LEMMA ChildIsKept ==
  ASSUME NEW g \in Promise!Asked, NEW a \in ChildArrays(snapshot, g)
  PROVE  a \in KeptArrays /\ ParentOf(a) = g
<1>0. (Recursive \/ g = Root) /\ Root \in Keep
  BY IcechunkWalkAssumption DEF Promise!Asked
<1>1. /\ g \in Groups /\ g \in Keep /\ Above(Root, g)
      /\ g \in Seq(Names) /\ Root \in Seq(Names)
  BY <1>0, SameTree, HierarchyAssumption DEF HierarchyAssumption, Promise!Asked
<1>2. /\ a \in snapshot /\ a \in Arrays /\ a \in Seq(Names)
      /\ Len(a) = Len(g) + 1 /\ Above(g, a)
      /\ Len(g) \in Nat /\ Len(a) \in Nat
  BY <1>1, HierarchyAssumption DEF HierarchyAssumption, ChildArrays, IsChild
<1>3. Above(Root, a)
  BY <1>1, <1>2, AboveTransitive
<1>4. a # <<>> /\ Len(a) # 0
  BY <1>2
<1>5. ParentOf(a) \in Seq(Names) /\ Above(ParentOf(a), a) /\ Len(ParentOf(a)) = Len(g)
  <2>1. Len(Front(a)) = Len(a) - 1
    BY <1>2, <1>4, LastName
  <2>2. Len(ParentOf(a)) = Len(a) - 1
    <3>1. CASE Len(a) <= 1
      <4>1. Len(a) = 1 /\ ParentOf(a) = <<>>
        BY <1>2, <1>4, <3>1 DEF ParentOf
      <4> QED
        BY <4>1
    <3>2. CASE ~(Len(a) <= 1)
      BY <2>1, <3>2 DEF ParentOf
    <3> QED
      BY <3>1, <3>2
  <2> QED
    BY <1>2, <2>2, ParentType
<1>6. ParentOf(a) = g
  <2>1. Above(ParentOf(a), g)
    BY <1>1, <1>2, <1>5, AncestorsAgree
  <2> QED
    BY <1>1, <1>5, <2>1, SameLength
<1>7. Recursive \/ ParentOf(a) = Root
  BY <1>0, <1>6, Zenon
<1>8. a \in Listed \cap Arrays /\ ParentOf(a) \in Keep
  BY <1>1, <1>2, <1>3, <1>6 DEF Listed
<1>9. a \in KeptArrays
  BY <1>7, <1>8, Zenon DEF KeptArrays
<1> QED
  BY <1>6, <1>9

LEMMA BatchIsChildren ==
  ASSUME NEW g \in KeptGroups
  PROVE  Batch(g) = ChildArrays(snapshot, g)
<1>1. ASSUME NEW a \in Batch(g) PROVE a \in ChildArrays(snapshot, g)
  BY KeptArrayHasParent DEF Batch, ChildArrays
<1>2. ASSUME NEW a \in ChildArrays(snapshot, g) PROVE a \in Batch(g)
  BY ChildIsKept, KeptIsAsked DEF Batch
<1> QED
  BY <1>1, <1>2

-----------------------------------------------------------------------------
(* Nothing is answered before the end. *)
Unanswered == phase # "returned" => answer = NoAnswer

(* The reasons for an error that GroupWalk knows of. *)
Reason ==
  \/ \E g \in Promise!Walkable(snapshot \cup {Root}) :
       \/ g \in Corrupt \cup Panicky
       \/ \E a \in ChildArrays(snapshot, g) :
            a \in Corrupt \cup Panicky \/ a \notin snapshot
  \/ Promise!Orphaning # {}

(* An array kept that is faulty is one of them, and so is a parent that is *)
(* not there.                                                              *)
LEMMA NoParent ==
  ASSUME NEW p \in Parents \ KeptGroups
  PROVE  p \in Promise!Orphaning
<1>1. PICK a \in KeptArrays : p = ParentOf(a)
  BY DEF Parents
<1>2. p \in Promise!Asked /\ a \in ChildArrays(snapshot, p)
  BY <1>1, KeptArrayHasParent DEF ChildArrays
<1>3. p \notin snapshot
  BY <1>2, KeptIsAsked
<1> QED
  BY <1>2, <1>3, SameTree DEF Promise!Orphaning

LEMMA FaultyArray ==
  ASSUME NEW a \in KeptArrays, a \in Corrupt \cup Panicky
  PROVE  Reason
<1>1. /\ ParentOf(a) \in Promise!Asked /\ ParentOf(a) \in Parents
      /\ a \in ChildArrays(snapshot, ParentOf(a))
  BY KeptArrayHasParent DEF ChildArrays, Parents
<1>2. CASE ParentOf(a) \in KeptGroups
  BY <1>1, <1>2, KeptIsAsked DEF Reason
<1>3. CASE ParentOf(a) \notin KeptGroups
  BY <1>1, <1>3, NoParent DEF Reason
<1> QED
  BY <1>2, <1>3

LEMMA ErrorJustified ==
  ASSUME IInv, Unanswered,
         GatherFails \/ JoinFails \/ BuildFails \/ AttachFails
  PROVE  Promise!Answer
<1>1. /\ answer = NoAnswer /\ snapshot' = snapshot
      /\ answer' = [kind |-> "Other", nodes |-> <<>>]
  BY DEF GatherFails, JoinFails, BuildFails, AttachFails, Fail, FailWith, Unanswered
<1>2. Reason
  <2>1. CASE GatherFails
    <3>1. PICK g \in KeptGroups : g \in Corrupt
      BY <2>1 DEF GatherFails
    <3>2. g \in Promise!Walkable(snapshot \cup {Root})
      BY KeptIsAsked
    <3> QED
      BY <3>1, <3>2 DEF Reason
  <2>2. CASE JoinFails
    <3>1. PICK p \in DOMAIN job : job[p] = "panicked"
      BY <2>2 DEF JoinFails
    <3>2. Panics(p)
      BY <3>1 DEF IInv, Truthful
    <3>3. PICK a \in KeptArrays : a \in Panicky
      BY <3>2 DEF Panics, Batch
    <3> QED
      BY <3>3, FaultyArray
  <2>3. CASE BuildFails
    <3>1. PICK a \in KeptArrays : a \in Corrupt
      BY <2>3 DEF BuildFails, Batch
    <3> QED
      BY <3>1, FaultyArray
  <2>4. CASE AttachFails
    <3>1. Parents \ KeptGroups # {}
      BY <2>4, JoinedTells DEF AttachFails
    <3> QED
      BY <3>1, NoParent DEF Reason
  <2> QED
    BY <2>1, <2>2, <2>3, <2>4
<1>3. Promise!AnswerOther
  BY <1>1, <1>2, SameTree DEF Promise!AnswerOther, Reason
<1> QED
  BY <1>1, <1>3 DEF Promise!Answer, NoAnswer, Promise!NoAnswer

LEMMA RefusalJustified ==
  ASSUME TypeOK, Unanswered, Refuse
  PROVE  Promise!Answer
<1>1. /\ answer = NoAnswer /\ snapshot' = snapshot /\ refusal \in Refusals
      /\ answer' = [kind |-> refusal, nodes |-> <<>>]
  BY DEF Refuse, FailWith, TypeOK, Unanswered
<1>2. Promise!AnswerRefused
  BY <1>1 DEF Promise!AnswerRefused
<1> QED
  BY <1>1, <1>2 DEF Promise!Answer, NoAnswer, Promise!NoAnswer

(* What a list is made of. *)
LEMMA ListType ==
  ASSUME NEW nodes, Lists(nodes, KeptGroups)
  PROVE  /\ Len(nodes) \in Nat /\ DOMAIN nodes = 1 .. Len(nodes)
         /\ \A i \in DOMAIN nodes : nodes[i].path \in KeptGroups
<1> DEFINE E == [path : KeptGroups, vars : SUBSET Arrays]
<1>1. \A e \in E : e.path \in KeptGroups
  OBVIOUS
<1> HIDE DEF E
<1>2. nodes \in Seq(E)
  BY DEF Lists, E
<1>3. Len(nodes) \in Nat /\ DOMAIN nodes = 1 .. Len(nodes)
  BY <1>2
<1>4. \A i \in DOMAIN nodes : nodes[i] \in E
  BY <1>2
<1> QED
  BY <1>1, <1>3, <1>4

LEMMA ListJustified ==
  ASSUME NEW nodes, Lists(nodes, KeptGroups)
  PROVE  /\ Promise!PathsOf(nodes) = Promise!Walkable(snapshot)
         /\ Promise!ParentsFirst(nodes)
         /\ \A i \in DOMAIN nodes : nodes[i].vars = ChildArrays(snapshot, nodes[i].path)
<1>1. /\ nodes \in Seq([path : KeptGroups, vars : SUBSET Arrays])
      /\ \A i \in DOMAIN nodes : nodes[i].vars = Batch(nodes[i].path)
      /\ \A g \in KeptGroups : \E i \in DOMAIN nodes : nodes[i].path = g
      /\ \A i, j \in DOMAIN nodes : i < j => Before(nodes[i].path, nodes[j].path)
  BY DEF Lists
<1>2. /\ Len(nodes) \in Nat /\ DOMAIN nodes = 1 .. Len(nodes)
      /\ \A i \in DOMAIN nodes : nodes[i].path \in KeptGroups
  BY ListType
<1>3. Promise!PathsOf(nodes) = Promise!Walkable(snapshot)
  <2>1. Promise!PathsOf(nodes) = KeptGroups
    BY <1>1, <1>2 DEF Promise!PathsOf
  <2> QED
    BY <2>1, KeptIsAsked
<1>4. \A g \in KeptGroups : g \in Seq(Names)
  BY HierarchyAssumption DEF HierarchyAssumption, KeptGroups, Listed
<1>5. ASSUME NEW i \in DOMAIN nodes, NEW j \in DOMAIN nodes,
             Above(nodes[i].path, nodes[j].path)
      PROVE  i <= j
  <2>1. i \in Nat /\ j \in Nat
    BY <1>2
  <2>2. ASSUME j < i PROVE FALSE
    <3>1. /\ nodes[i].path \in Seq(Names) /\ nodes[j].path \in Seq(Names)
          /\ Before(nodes[j].path, nodes[i].path)
      BY <1>1, <1>2, <1>4, <2>2
    <3>2. nodes[i].path # nodes[j].path
      BY <3>1, BeforeOrders
    <3>3. Before(nodes[i].path, nodes[j].path)
      BY <1>5, <3>1, <3>2, AncestorBefore
    <3> QED
      BY <3>1, <3>3, BeforeOrders
  <2> QED
    BY <2>1, <2>2
<1>6. Promise!ParentsFirst(nodes)
  BY <1>5, SameTree DEF Promise!ParentsFirst
<1>7. \A i \in DOMAIN nodes : nodes[i].vars = ChildArrays(snapshot, nodes[i].path)
  BY <1>1, <1>2, BatchIsChildren
<1> QED
  BY <1>3, <1>6, <1>7

LEMMA AnswerJustified ==
  ASSUME IInv, Unanswered, Attach
  PROVE  Promise!Answer
<1> DEFINE nodes == answer'.nodes
<1>1. /\ answer = NoAnswer /\ snapshot' = snapshot
      /\ answer'.kind = "ok" /\ Lists(nodes, KeptGroups)
      /\ Parents \subseteq KeptGroups
  <2>1. answer = NoAnswer /\ snapshot' = snapshot
    BY DEF Attach, Unanswered
  <2> QED
    BY <2>1, AttachLists
<1>2. /\ Promise!PathsOf(nodes) = Promise!Walkable(snapshot)
      /\ Promise!ParentsFirst(nodes)
      /\ \A i \in DOMAIN nodes : nodes[i].vars = ChildArrays(snapshot, nodes[i].path)
  BY <1>1, ListJustified
<1>3. Promise!ArraysOf(nodes)
  BY <1>2, SameTree DEF Promise!ArraysOf
<1>4. Promise!Orphaning = {}
  <2> SUFFICES ASSUME NEW g \in Promise!Asked, g \notin snapshot,
                      NEW a \in ChildArrays(snapshot, g)
               PROVE  FALSE
    BY SameTree DEF Promise!Orphaning
  <2>1. a \in KeptArrays /\ ParentOf(a) = g
    BY ChildIsKept
  <2>2. g \in KeptGroups
    BY <1>1, <2>1 DEF Parents
  <2> QED
    BY <2>2, KeptIsAsked
<1>5. Promise!AnswerNodes
  BY <1>1, <1>2, <1>3, <1>4 DEF Promise!AnswerNodes
<1> QED
  BY <1>1, <1>5 DEF Promise!Answer, NoAnswer, Promise!NoAnswer

-----------------------------------------------------------------------------
LEMMA InitUnanswered == Init => Unanswered
BY DEF Init, Unanswered

LEMMA StepUnanswered == Unanswered /\ [Next]_vars => Unanswered'
<1> SUFFICES ASSUME Unanswered, [Next]_vars PROVE Unanswered'
  OBVIOUS
<1> QED
  BY DEF Unanswered, Next, Walk, Returned, vars, Refuse, Gather, GatherFails, Start,
         Finish, JoinFails, BuildFails, AttachFails, Attach, Fail, FailWith

LEMMA InitKeepsPromise == Init => Promise!Init
<1> SUFFICES ASSUME Init PROVE Promise!Init
  OBVIOUS
<1>1. snapshot \subseteq Nodes
  BY IcechunkWalkAssumption DEF Init
<1>2. answer = Promise!NoAnswer
  BY DEF Init, NoAnswer, Promise!NoAnswer
<1> QED
  BY <1>1, <1>2, SameTree DEF Promise!Init

(* Every step answers as promised or leaves answer and snapshot alone. *)
LEMMA StepKeepsPromise ==
  TypeOK /\ IInv /\ Unanswered /\ [Next]_vars => [Promise!Next]_(Promise!vars)
<1> SUFFICES ASSUME TypeOK, IInv, Unanswered, [Next]_vars
             PROVE  [Promise!Next]_(Promise!vars)
  OBVIOUS
<1>1. snapshot' = snapshot
  BY DEF Next, Walk, Returned, vars, Refuse, Gather, GatherFails, Start, Finish,
         JoinFails, BuildFails, AttachFails, Attach, Fail, FailWith
<1>2. CASE answer' = answer
  BY <1>1, <1>2 DEF Promise!vars
<1>3. CASE GatherFails \/ JoinFails \/ BuildFails \/ AttachFails
  BY <1>3, ErrorJustified DEF Promise!Next
<1>4. CASE Attach
  BY <1>4, AnswerJustified DEF Promise!Next
<1>5. CASE Refuse
  BY <1>5, RefusalJustified DEF Promise!Next
<1> QED
  BY <1>2, <1>3, <1>4, <1>5
     DEF Next, Walk, Returned, vars, Gather, Start, Finish

(* The walk of a snapshot implements GroupWalk, whatever the snapshot      *)
(* holds: it lists the groups asked for that are there, none perhaps,      *)
(* parents first, each with its arrays, or has a reason not to             *)
(* (walk.rs:157-170, 228-364).                                             *)
THEOREM SnapshotKeepsPromise == Spec => KeepsPromise
BY InitKeepsPromise, StepKeepsPromise, InitTypeOK, StepTypeOK, InitIInv, NextStep,
   InitUnanswered, StepUnanswered, PTL DEF Spec, KeepsPromise, Promise!Spec

=============================================================================
