-------------------------- MODULE OpenDatatreeProofs --------------------------
(***************************************************************************)
(* A call on a session answers from one snapshot, and a call on either     *)
(* kind of source calls a group missing only if it was, for any number of  *)
(* groups, names and commits.                                              *)
(***************************************************************************)
EXTENDS OpenDatatree, WellFoundedInduction, TLAPS

Datasets == UNION {[S -> Variables] : S \in SUBSET Names}

Trees == UNION {[0 .. d -> Datasets] : d \in Depths}

LEMMA DatasetSet ==
  ASSUME NEW ds
  PROVE  IsDataset(ds) <=> ds \in Datasets
BY DEF IsDataset, Datasets

LEMMA TreeSet ==
  ASSUME NEW t
  PROVE  IsTree(t) <=> t \in Trees
<1>1. ASSUME NEW d \in Depths, t = [e \in 0 .. d |-> t[e]], \A e \in 0 .. d : IsDataset(t[e])
      PROVE  t \in Trees
  <2>1. \A e \in 0 .. d : t[e] \in Datasets
    BY <1>1, DatasetSet
  <2>2. t \in [0 .. d -> Datasets]
    BY <1>1, <2>1
  <2> QED
    BY <2>2 DEF Trees
<1>2. ASSUME NEW d \in Depths, t \in [0 .. d -> Datasets] PROVE IsTree(t)
  <2>1. \A e \in 0 .. d : t[e] \in Datasets
    BY <1>2
  <2>2. \A e \in 0 .. d : IsDataset(t[e])
    BY <2>1, DatasetSet
  <2>3. t = [e \in 0 .. d |-> t[e]]
    BY <1>2
  <2> QED
    BY <2>2, <2>3 DEF IsTree
<1> QED
  BY <1>1, <1>2 DEF IsTree, Trees

(* What writers put into a group is a dataset, and stays one. *)
LEMMA ContentIsDataset ==
  ASSUME NEW content \in Contents
  PROVE  /\ content \in Datasets
         /\ Len(history) \in Stamps => Written(content) \in Datasets
<1>1. content \in Datasets
  BY OpenDatatreeAssumption, DatasetSet DEF WellFormed
<1>2. PICK S \in SUBSET Names : content \in [S -> Variables]
  BY <1>1 DEF Datasets
<1>3. ASSUME Len(history) \in Stamps PROVE Written(content) \in Datasets
  <2>1. ASSUME NEW n \in S PROVE [content[n] EXCEPT !.stamp = Len(history)] \in Variables
    <3>1. content[n] \in Variables
      BY <1>2
    <3> QED
      BY <1>3, <3>1 DEF Variables
  <2>2. Written(content) \in [S -> Variables]
    BY <1>2, <2>1 DEF Written
  <2> QED
    BY <2>2 DEF Datasets
<1> QED
  BY <1>1, <1>3

(* How far the call is: its ancestors so far are those of the pinned       *)
(* snapshot.                                                               *)
Progress ==
  LET view == history[start]
      g == call.group
  IN  pc = "merging" /\ call.source = "bytes" =>
        /\ call.include /\ g # 0
        /\ g \in DOMAIN view
        /\ groups = Reroot(view, g)
        /\ Len(ancestors) < g
        /\ ancestors = Above(view, g, Len(ancestors))

Typed ==
  /\ history \in Seq(Trees)
  /\ Len(history) \in Nat \ {0}
  /\ start \in 1 .. Len(history)
  /\ call \in Calls
  /\ ancestors \in Seq(Datasets)

IInv == Typed /\ Progress /\ SnapshotPinned

(* A tree is a chain from the root. *)
LEMMA Chain ==
  ASSUME NEW t \in Trees, NEW d \in DOMAIN t, NEW e \in Nat, e <= d
  PROVE  e \in DOMAIN t /\ t[d] \in Datasets
<1>1. PICK k \in Depths : t \in [0 .. k -> Datasets]
  BY DEF Trees
<1>2. DOMAIN t = 0 .. k /\ k \in Int
  BY <1>1, OpenDatatreeAssumption DEF Depths
<1> QED
  BY <1>1, <1>2

(* A commit changes no snapshot there is. *)
LEMMA HistoryGrows ==
  ASSUME Typed, NEW t \in Trees, history' = Append(history, t)
  PROVE  /\ history' \in Seq(Trees)
         /\ Len(history') \in Nat \ {0}
         /\ start \in 1 .. Len(history')
         /\ history'[start] = history[start]
  BY DEF Typed

LEMMA InitHolds == Init => IInv
<1> SUFFICES ASSUME Init PROVE IInv
  OBVIOUS
<1>0. PICK d \in Depths : \E t \in [0 .. d -> Contents] : history = <<t>>
  BY DEF Init
<1>1. PICK t \in [0 .. d -> Contents] : history = <<t>>
  BY <1>0
<1>3. Contents \subseteq Datasets
  BY ContentIsDataset
<1>4. t \in [0 .. d -> Datasets]
  BY <1>3
<1>5. t \in Trees
  BY <1>4 DEF Trees
<1>2. Typed
  BY <1>1, <1>5, OpenDatatreeAssumption DEF Init, Typed, NoCall, Calls, Depths
<1> QED
  BY <1>2 DEF Init, IInv, Progress, SnapshotPinned

(* What a commit makes is a tree. *)
LEMMA CommitIsTree ==
  ASSUME Typed, Commit
  PROVE  \E t \in Trees : Snapshot(t)
<1>1. Tip \in Trees
  BY DEF Tip, Typed
<1>2. CASE CommitDelete
  <2>1. PICK d \in DOMAIN Tip \ {0} : Snapshot([e \in 0 .. d - 1 |-> Tip[e]])
    BY <1>2 DEF CommitDelete
  <2>2. PICK k \in Depths : Tip \in [0 .. k -> Datasets]
    BY <1>1 DEF Trees
  <2>3. d - 1 \in Depths /\ [e \in 0 .. d - 1 |-> Tip[e]] \in [0 .. d - 1 -> Datasets]
    BY <2>2, OpenDatatreeAssumption DEF Depths
  <2>4. [e \in 0 .. d - 1 |-> Tip[e]] \in Trees
    BY <2>3 DEF Trees
  <2> QED
    BY <2>1, <2>4
<1>3. CASE CommitGroups
  <2>1. PICK ds \in SUBSET DOMAIN Tip, content \in Contents :
          Snapshot([d \in DOMAIN Tip |-> IF d \in ds THEN Written(content) ELSE Tip[d]])
    BY <1>3 DEF CommitGroups
  <2>2. Len(history) \in Stamps
    BY <1>3, OpenDatatreeAssumption DEF CommitGroups, Stamps, Typed
  <2>3. PICK k \in Depths : Tip \in [0 .. k -> Datasets]
    BY <1>1 DEF Trees
  <2>4. Written(content) \in Datasets
    BY <2>2, ContentIsDataset
  <2>5. [d \in DOMAIN Tip |-> IF d \in ds THEN Written(content) ELSE Tip[d]] \in [0 .. k -> Datasets]
    BY <2>3, <2>4
  <2>6. [d \in DOMAIN Tip |-> IF d \in ds THEN Written(content) ELSE Tip[d]] \in Trees
    BY <2>5 DEF Trees
  <2> QED
    BY <2>1, <2>6
<1> QED
  BY <1>2, <1>3 DEF Commit

LEMMA CommitHolds == IInv /\ Commit => IInv'
<1> SUFFICES ASSUME IInv, Commit PROVE IInv'
  OBVIOUS
<1>1. PICK t \in Trees : Snapshot(t)
  BY CommitIsTree DEF IInv
<1>2. /\ history' = Append(history, t)
      /\ UNCHANGED <<pc, call, start, groups, ancestors, answer>>
  BY <1>1 DEF Snapshot
<1>3. /\ history' \in Seq(Trees)
      /\ Len(history') \in Nat \ {0}
      /\ start \in 1 .. Len(history')
      /\ history'[start] = history[start]
  BY <1>2, HistoryGrows DEF IInv
<1>4. Typed'
  BY <1>2, <1>3 DEF IInv, Typed
<1>5. Progress'
  BY <1>2, <1>3 DEF IInv, Progress
<1>6. SnapshotPinned'
  BY <1>2, <1>3 DEF IInv, SnapshotPinned, Doubled
<1> QED
  BY <1>4, <1>5, <1>6 DEF IInv

LEMMA OpenTreeHolds == IInv /\ OpenTree => IInv'
<1> SUFFICES ASSUME IInv, OpenTree PROVE IInv'
  OBVIOUS
<1> DEFINE g == call.group
           view == history[start]
<1>0. UNCHANGED <<history, call, start>> /\ pc = "called"
  BY DEF OpenTree, Answer
<1>1. g \in Nat /\ view \in Trees
  BY OpenDatatreeAssumption DEF IInv, Typed, Calls, Depths
<1>2. pc' \in {"merging", "returned"} /\ (ancestors' = <<>> \/ ancestors' = ancestors)
  BY DEF OpenTree, Answer
<1>3. Typed'
  <2>1. <<>> \in Seq(Datasets) /\ ancestors \in Seq(Datasets)
    BY DEF IInv, Typed
  <2>2. ancestors' \in Seq(Datasets)
    BY <1>2, <2>1
  <2> QED
    BY <1>0, <2>2 DEF IInv, Typed
<1>4. call.source = "bytes" => View(history, start, call.source) = view
  BY DEF View
<1>5. Progress'
  <2> SUFFICES ASSUME pc' = "merging", call.source = "bytes"
               PROVE  /\ call.include /\ g # 0
                      /\ g \in DOMAIN view
                      /\ groups' = Reroot(view, g)
                      /\ Len(ancestors') < g
                      /\ ancestors' = Above(view, g, Len(ancestors'))
    BY <1>0 DEF Progress
  <2>1. /\ call.include /\ g # 0
        /\ g \in DOMAIN view
        /\ groups' = Reroot(view, g)
        /\ ancestors' = <<>>
    BY <1>4 DEF OpenTree, Answer
  <2> QED
    BY <1>1, <2>1 DEF Above
<1>6. SnapshotPinned'
  <2> SUFFICES ASSUME pc' = "returned", call.source = "bytes"
               PROVE  answer' = Promised(view, g, call.include)
    BY <1>0 DEF SnapshotPinned
  <2>1. CASE g \notin DOMAIN view
    BY <1>4, <2>1 DEF OpenTree, Answer, Promised
  <2>2. CASE g \in DOMAIN view
    <3>1. ~(call.include /\ g # 0) /\ answer' = Assembled(Reroot(view, g))
      BY <1>4, <2>2 DEF OpenTree, Answer
    <3> QED
      BY <3>1, <2>2 DEF Promised
  <2> QED
    BY <2>1, <2>2
<1> QED
  BY <1>3, <1>5, <1>6 DEF IInv

LEMMA OpenAncestorHolds == IInv /\ OpenAncestor => IInv'
<1> SUFFICES ASSUME IInv, OpenAncestor PROVE IInv'
  OBVIOUS
<1> DEFINE g == call.group
           n == Len(ancestors)
           d == g - 1 - n
           view == history[start]
<1>0. UNCHANGED <<history, call, start>> /\ pc = "merging"
  BY DEF OpenAncestor, Answer
<1>1. g \in Nat /\ n \in Nat /\ view \in Trees
  BY OpenDatatreeAssumption DEF IInv, Typed, Calls, Depths
<1>2. Typed'
  <2>1. CASE d \notin DOMAIN View(history, start, call.source)
    BY <2>1, <1>0 DEF OpenAncestor, Answer, IInv, Typed
  <2>2. CASE d \in DOMAIN View(history, start, call.source)
    <3>1. View(history, start, call.source) \in Trees
      BY DEF View, IInv, Typed
    <3>2. PICK k \in Depths : View(history, start, call.source) \in [0 .. k -> Datasets]
      BY <3>1 DEF Trees
    <3>3. View(history, start, call.source)[d] \in Datasets
      BY <2>2, <3>2
    <3>4. ancestors' = Append(ancestors, View(history, start, call.source)[d])
      BY <2>2 DEF OpenAncestor
    <3>5. pc' \in {"merging", "returned"}
      BY <2>2, <1>0 DEF OpenAncestor, Answer
    <3> QED
      BY <1>0, <3>3, <3>4, <3>5 DEF IInv, Typed
  <2> QED
    BY <2>1, <2>2
<1>3. CASE call.source # "bytes"
  BY <1>0, <1>2, <1>3 DEF IInv, Progress, SnapshotPinned
<1>4. CASE call.source = "bytes"
  <2>1. /\ call.include /\ g # 0
        /\ g \in DOMAIN view
        /\ groups = Reroot(view, g)
        /\ n < g
        /\ ancestors = Above(view, g, n)
    BY <1>0, <1>4 DEF IInv, Progress
  <2>2. d \in Nat /\ d <= g
    BY <1>1, <2>1
  <2>3. d \in DOMAIN view
    BY <1>1, <2>1, <2>2, Chain
  <2>4. View(history, start, call.source) = view
    BY <1>4 DEF View
  <2>5. ancestors' = Append(ancestors, view[d]) /\ groups' = groups
    BY <2>3, <2>4 DEF OpenAncestor
  <2>6. Len(ancestors') = n + 1
    BY <2>5, <1>1 DEF IInv, Typed
  <2>7. ancestors' = Above(view, g, n + 1)
    <3>1. ancestors' = [i \in 1 .. n + 1 |-> IF i = n + 1 THEN view[d] ELSE ancestors[i]]
      BY <2>5, <1>1 DEF IInv, Typed
    <3>2. ASSUME NEW i \in 1 .. n PROVE ancestors[i] = view[g - i]
      BY <2>1, <3>2 DEF Above
    <3>3. d = g - (n + 1)
      BY <1>1
    <3> QED
      BY <3>1, <3>2, <3>3, <1>1 DEF Above
  <2>8. CASE d = 0
    <3>1. pc' = "returned" /\ answer' = Promoted(groups, ancestors')
      BY <2>3, <2>4, <2>8 DEF OpenAncestor, Answer
    <3>2. n + 1 = g
      BY <2>8, <1>1
    <3>3. answer' = Promised(view, g, call.include)
      BY <3>1, <3>2, <2>1, <2>7 DEF Promised
    <3> QED
      BY <1>0, <1>2, <3>1, <3>3 DEF IInv, Progress, SnapshotPinned
  <2>9. CASE d # 0
    <3>1. pc' = pc
      BY <2>3, <2>4, <2>9 DEF OpenAncestor
    <3>2. n + 1 < g
      BY <2>9, <2>2, <1>1
    <3> QED
      BY <1>0, <1>2, <2>1, <2>5, <2>6, <2>7, <3>1, <3>2 DEF IInv, Progress, SnapshotPinned
  <2> QED
    BY <2>8, <2>9
<1> QED
  BY <1>3, <1>4

LEMMA OthersHold ==
  IInv /\ (Call \/ OpenTreeMisspelt \/ UNCHANGED vars) => IInv'
<1> SUFFICES ASSUME IInv, Call \/ OpenTreeMisspelt \/ UNCHANGED vars PROVE IInv'
  OBVIOUS
<1>1. CASE Call
  <2>1. /\ pc' = "called" /\ start' = Len(history)
        /\ UNCHANGED <<history, groups, ancestors, answer>>
        /\ \E source \in Sources, g \in Depths, s \in Spellings, inc \in BOOLEAN :
             call' = [source |-> source, group |-> g, spelling |-> s, include |-> inc]
    BY <1>1 DEF Call
  <2>2. call' \in Calls
    BY <2>1 DEF Calls
  <2> QED
    BY <2>1, <2>2 DEF IInv, Typed, Progress, SnapshotPinned
<1>2. CASE OpenTreeMisspelt
  <2>1. /\ UNCHANGED <<history, call, start, groups, ancestors>>
        /\ pc' = "returned" /\ Doubled
    BY <1>2 DEF OpenTreeMisspelt, Answer, Doubled, Normalized
  <2> QED
    BY <2>1 DEF IInv, Typed, Progress, SnapshotPinned, Doubled
<1>3. CASE UNCHANGED vars
  BY <1>3 DEF vars, IInv, Typed, Progress, SnapshotPinned, Doubled
<1> QED
  BY <1>1, <1>2, <1>3

LEMMA Invariance == Spec => []IInv
<1>1. IInv /\ [Next]_vars => IInv'
  BY CommitHolds, OpenTreeHolds, OpenAncestorHolds, OthersHold
     DEF Next, Open, Done
<1> QED
  BY InitHolds, <1>1, PTL DEF Spec

(* Whatever other writers commit while an open_datatree call on a session  *)
(* is under way, its answer is the one the snapshot it was serialised at   *)
(* gives: subtree and ancestors never mix two commits.                     *)
THEOREM PinnedAnswer == Spec => []SnapshotPinned
<1>1. IInv => SnapshotPinned
  BY DEF IInv
<1> QED
  BY <1>1, Invariance, PTL

-----------------------------------------------------------------------------
(***************************************************************************)
(* A group is called missing only if it was.  A snapshot is a chain, so    *)
(* one without an ancestor of the group is one without the group.          *)
(***************************************************************************)
Halfway ==
  /\ pc # "returned" => answer = Raised("none")
  /\ pc = "merging" => Len(ancestors) < call.group

(* The snapshot an open reads is one of the time of the call. *)
LEMMA ViewOfTheTime ==
  ASSUME Typed
  PROVE  \E s \in start .. Len(history) :
           View(history, start, call.source) = history[s] /\ history[s] \in Trees
BY DEF View, Typed

(* What was missing from one stays so in the history. *)
LEMMA CommitKeeps == IInv /\ Halfway /\ MissingMeansMissing /\ Commit =>
                       Halfway' /\ MissingMeansMissing'
<1> SUFFICES ASSUME IInv, Halfway, MissingMeansMissing, Commit
             PROVE  Halfway' /\ MissingMeansMissing'
  OBVIOUS
<1>1. PICK t \in Trees : Snapshot(t)
  BY CommitIsTree DEF IInv
<1>2. /\ history' = Append(history, t)
      /\ UNCHANGED <<pc, call, start, groups, ancestors, answer>>
  BY <1>1 DEF Snapshot
<1>3. /\ Len(history') = Len(history) + 1
      /\ \A s \in start .. Len(history) :
           s \in start .. Len(history') /\ history'[s] = history[s]
  BY <1>2 DEF IInv, Typed
<1> QED
  BY <1>2, <1>3 DEF Halfway, MissingMeansMissing, Doubled

LEMMA OpenTreeKeeps == IInv /\ Halfway /\ OpenTree =>
                         Halfway' /\ MissingMeansMissing'
<1> SUFFICES ASSUME IInv, Halfway, OpenTree
             PROVE  Halfway' /\ MissingMeansMissing'
  OBVIOUS
<1> DEFINE g == call.group
           view == View(history, start, call.source)
<1>1. UNCHANGED <<history, call, start>> /\ pc = "called" /\ answer = Raised("none")
  BY DEF OpenTree, Answer, Halfway
<1>2. PICK s \in start .. Len(history) : view = history[s]
  BY ViewOfTheTime DEF IInv
<1>3. g \in Nat
  BY OpenDatatreeAssumption DEF IInv, Typed, Calls, Depths
<1>4. CASE g \notin DOMAIN view
  <2>1. pc' = "returned"
    BY <1>4 DEF OpenTree, Answer
  <2> QED
    BY <1>1, <1>2, <1>4, <2>1 DEF Halfway, MissingMeansMissing
<1>5. CASE g \in DOMAIN view
  <2>1. \/ pc' = "returned" /\ answer' = Assembled(Reroot(view, g))
        \/ pc' = "merging" /\ answer' = answer /\ ancestors' = <<>> /\ g # 0
    BY <1>5 DEF OpenTree, Answer
  <2>2. answer'.kind \in {"tree", "AlignmentError", "none"}
    BY <1>1, <2>1 DEF Assembled, Tree, Raised
  <2>3. MissingMeansMissing'
    BY <2>2 DEF MissingMeansMissing
  <2> QED
    BY <1>1, <1>3, <2>1, <2>3 DEF Halfway
<1> QED
  BY <1>4, <1>5

LEMMA OpenAncestorKeeps == IInv /\ Halfway /\ OpenAncestor =>
                             Halfway' /\ MissingMeansMissing'
<1> SUFFICES ASSUME IInv, Halfway, OpenAncestor
             PROVE  Halfway' /\ MissingMeansMissing'
  OBVIOUS
<1> DEFINE g == call.group
           d == g - 1 - Len(ancestors)
           view == View(history, start, call.source)
<1>1. /\ UNCHANGED <<history, call, start>>
      /\ pc = "merging" /\ answer = Raised("none") /\ Len(ancestors) < g
  BY DEF OpenAncestor, Answer, Halfway
<1>2. PICK s \in start .. Len(history) : view = history[s] /\ view \in Trees
  BY ViewOfTheTime DEF IInv
<1>3. g \in Nat /\ Len(ancestors) \in Nat /\ d \in Nat /\ d <= g
  BY <1>1, OpenDatatreeAssumption DEF IInv, Typed, Calls, Depths
<1>4. CASE d \notin DOMAIN view
  <2>1. g \notin DOMAIN view
    BY <1>2, <1>3, <1>4, Chain
  <2>2. pc' = "returned"
    BY <1>4 DEF OpenAncestor, Answer
  <2> QED
    BY <1>1, <1>2, <2>1, <2>2 DEF Halfway, MissingMeansMissing
<1>5. CASE d \in DOMAIN view
  <2>1. \/ d = 0 /\ pc' = "returned" /\ answer' = Promoted(groups, ancestors')
        \/ d # 0 /\ pc' = pc /\ answer' = answer
    BY <1>5 DEF OpenAncestor, Answer
  <2>2. answer'.kind \in {"tree", "MergeError", "AlignmentError", "none"}
    BY <1>1, <2>1 DEF Promoted, Assembled, Tree, Raised
  <2>3. MissingMeansMissing'
    BY <2>2 DEF MissingMeansMissing
  <2>4. Len(ancestors') = Len(ancestors) + 1
    BY <1>5 DEF OpenAncestor, IInv, Typed
  <2> QED
    BY <1>1, <1>3, <2>1, <2>3, <2>4 DEF Halfway
<1> QED
  BY <1>4, <1>5

LEMMA OthersKeep ==
  IInv /\ Halfway /\ MissingMeansMissing /\ (Call \/ OpenTreeMisspelt \/ UNCHANGED vars) =>
    Halfway' /\ MissingMeansMissing'
<1> SUFFICES ASSUME IInv, Halfway, MissingMeansMissing,
                    Call \/ OpenTreeMisspelt \/ UNCHANGED vars
             PROVE  Halfway' /\ MissingMeansMissing'
  OBVIOUS
<1>1. CASE Call
  BY <1>1 DEF Call, Halfway, MissingMeansMissing, Raised
<1>2. CASE OpenTreeMisspelt
  <2>1. Doubled' /\ pc' = "returned"
    BY <1>2 DEF OpenTreeMisspelt, Answer, Doubled, Normalized
  <2> QED
    BY <2>1 DEF Halfway, MissingMeansMissing
<1>3. CASE UNCHANGED vars
  BY <1>3 DEF vars, Halfway, MissingMeansMissing, Doubled
<1> QED
  BY <1>1, <1>2, <1>3

LEMMA HalfwayAlways == Spec => [](Halfway /\ MissingMeansMissing)
<1>1. Init => Halfway /\ MissingMeansMissing
  BY DEF Init, Halfway, MissingMeansMissing, Raised
<1>2. IInv /\ Halfway /\ MissingMeansMissing /\ [Next]_vars =>
        Halfway' /\ MissingMeansMissing'
  BY CommitKeeps, OpenTreeKeeps, OpenAncestorKeeps, OthersKeep
     DEF Next, Open, Done
<1> QED
  BY <1>1, <1>2, Invariance, PTL DEF Spec

(* Whatever is committed between the opens of a call, from a session or a  *)
(* path, and however its group is spelled, it says the group is missing    *)
(* only if it was: backend.py:199-221, 516-521, 635-637.                   *)
THEOREM MissingIsTrue == Spec => []MissingMeansMissing
BY HalfwayAlways, PTL

-----------------------------------------------------------------------------
(***************************************************************************)
(* The merge: what it makes of datasets is a dataset, and over the         *)
(* ancestors of a group it is xarray's inheritance.                        *)
(***************************************************************************)

(* A set of naturals with a member has a least one. *)
LEMMA Least ==
  ASSUME NEW S \in SUBSET Nat, S # {}
  PROVE  \E i \in S : \A j \in S : i <= j
<1>1. IsWellFoundedOn(OpToRel(<, Nat), Nat)
  BY NatLessThanWellFounded
<1>2. PICK i \in S : \A j \in S : <<j, i>> \notin OpToRel(<, Nat)
  BY <1>1, WFMin
<1>3. ASSUME NEW j \in S PROVE i <= j
  <2>1. ~(j < i)
    BY <1>2 DEF OpToRel
  <2> QED
    BY <2>1
<1> QED
  BY <1>3

(* The closest of some datasets is one of them, and none is closer. *)
LEMMA Closest ==
  ASSUME NEW dses \in Seq(Datasets), NEW S \in SUBSET DOMAIN dses, S # {}
  PROVE  ClosestFirst(S) \in S /\ \A j \in S : ClosestFirst(S) <= j
<1>1. S \in SUBSET Nat
  OBVIOUS
<1>2. \E i \in S : \A j \in S : i <= j
  BY <1>1, Least
<1> QED
  BY <1>2 DEF ClosestFirst

(* What a dataset of the merge holds is a variable. *)
LEMMA HeldIsVariable ==
  ASSUME NEW dses \in Seq(Datasets), NEW i \in DOMAIN dses, NEW n \in DOMAIN dses[i]
  PROVE  n \in Names /\ dses[i][n] \in Variables
<1>1. PICK T \in SUBSET Names : dses[i] \in [T -> Variables]
  BY DEF Datasets
<1> QED
  BY <1>1

LEMMA OverrideIsDataset ==
  ASSUME NEW dses \in Seq(Datasets)
  PROVE  Override(dses) \in Datasets
<1> DEFINE S == {m \in Names : Holders(dses, m) # {}}
<1>1. ASSUME NEW n \in S PROVE Override(dses)[n] \in Variables
  <2>1. CASE Indexes(dses, n) = {}
    <3>1. Holders(dses, n) \in SUBSET DOMAIN dses /\ Holders(dses, n) # {}
      BY <1>1 DEF Holders
    <3>2. ClosestFirst(Holders(dses, n)) \in Holders(dses, n)
      BY <3>1, Closest
    <3>3. dses[ClosestFirst(Holders(dses, n))][n] \in Variables
      BY <3>2, HeldIsVariable DEF Holders
    <3> QED
      BY <2>1, <3>3 DEF Override
  <2>2. CASE Indexes(dses, n) # {}
    <3> DEFINE c == ClosestFirst(Indexes(dses, n))
    <3>1. Indexes(dses, n) \in SUBSET DOMAIN dses
      BY DEF Indexes
    <3>2. c \in Indexes(dses, n)
      BY <2>2, <3>1, Closest
    <3>3. \A i \in Indexes(dses, n) : dses[i][n] \in Variables
      BY HeldIsVariable DEF Indexes, IsIndex
    <3>4. Joint(dses, n) \in SUBSET Labels
      BY <3>3 DEF Joint, Variables
    <3> HIDE DEF c
    <3>5. [dses[c][n] EXCEPT !.on = Joint(dses, n)] \in Variables
      BY <3>2, <3>3, <3>4 DEF Variables
    <3> QED
      BY <2>2, <3>5 DEF Override, c
  <2> QED
    BY <2>1, <2>2
<1>2. Override(dses) \in [S -> Variables]
  BY <1>1 DEF Override
<1>3. S \in SUBSET Names
  OBVIOUS
<1> HIDE DEF S
<1> QED
  BY <1>2, <1>3 DEF Datasets

(* Where the datasets align exactly and no index is shadowed, the          *)
(* alignment leaves every variable as it is.                               *)
LEMMA NothingPadded ==
  ASSUME NEW dses \in Seq(Datasets),
         \A i, j \in DOMAIN dses : Exact(dses[i], dses[j]),
         \A i, j \in DOMAIN dses : \A n \in DOMAIN dses[i] \cap DOMAIN dses[j] :
           IsIndex(dses[i], n) => IsIndex(dses[j], n),
         NEW n \in Names, Holders(dses, n) # {}
  PROVE  Override(dses)[n] = dses[ClosestFirst(Holders(dses, n))][n]
<1>1. CASE Indexes(dses, n) = {}
  BY <1>1 DEF Override
<1>2. CASE Indexes(dses, n) # {}
  <2> DEFINE c == ClosestFirst(Indexes(dses, n))
  <2>1. Indexes(dses, n) = Holders(dses, n)
    BY <1>2 DEF Indexes, Holders, IsIndex
  <2>2. c \in Indexes(dses, n)
    <3>1. Indexes(dses, n) \in SUBSET DOMAIN dses
      BY DEF Indexes
    <3> QED
      BY <1>2, <3>1, Closest
  <2> HIDE DEF c
  <2>3. ASSUME NEW i \in Indexes(dses, n) PROVE dses[i][n].on = dses[c][n].on
    <3>1. Exact(dses[i], dses[c]) /\ IsIndex(dses[i], n) /\ IsIndex(dses[c], n)
      BY <2>2, <2>3 DEF Indexes
    <3>2. n \in Dims(dses[i]) \cap Dims(dses[c])
      BY <3>1, OpenDatatreeAssumption DEF Dims, IsIndex
    <3> QED
      BY <3>1, <3>2 DEF Exact
  <2>4. Joint(dses, n) = dses[c][n].on
    BY <2>2, <2>3 DEF Joint
  <2>5. dses[c][n] \in Variables
    BY <2>2, HeldIsVariable DEF Indexes, IsIndex
  <2>6. [dses[c][n] EXCEPT !.on = Joint(dses, n)] = dses[c][n]
    BY <2>4, <2>5 DEF Variables
  <2>7. Override(dses)[n] = [dses[c][n] EXCEPT !.on = Joint(dses, n)]
    BY <1>2 DEF Override, c
  <2> QED
    BY <2>1, <2>6, <2>7 DEF c
<1> QED
  BY <1>1, <1>2

(* A tree rerooted at a group of it is a tree. *)
LEMMA Rerooted ==
  ASSUME NEW t \in Trees, NEW g \in DOMAIN t
  PROVE  /\ Reroot(t, g) \in Trees
         /\ DOMAIN Reroot(t, g) = {d - g : d \in {e \in DOMAIN t : e >= g}}
         /\ 0 \in DOMAIN Reroot(t, g)
         /\ \A d \in DOMAIN Reroot(t, g) : Reroot(t, g)[d] = t[d + g]
<1>1. PICK k \in Depths : t \in [0 .. k -> Datasets]
  BY DEF Trees
<1>2. /\ k \in Nat /\ g \in 0 .. k /\ DOMAIN t = 0 .. k
      /\ k - g \in Depths
  BY <1>1, OpenDatatreeAssumption DEF Depths
<1> DEFINE D == {d - g : d \in {e \in DOMAIN t : e >= g}}
<1>3. D = 0 .. k - g
  <2>1. ASSUME NEW x \in 0 .. k - g PROVE x \in D
    <3>1. x + g \in DOMAIN t /\ x + g >= g /\ (x + g) - g = x
      BY <1>2
    <3> QED
      BY <3>1
  <2>2. ASSUME NEW x \in D PROVE x \in 0 .. k - g
    BY <1>2
  <2> HIDE DEF D
  <2> QED
    BY <2>1, <2>2
<1>4. Reroot(t, g) = [d \in D |-> t[d + g]]
  BY DEF Reroot
<1> HIDE DEF D
<1>5. \A d \in D : t[d + g] \in Datasets
  BY <1>1, <1>2, <1>3
<1>6. Reroot(t, g) \in [0 .. k - g -> Datasets]
  BY <1>3, <1>4, <1>5
<1>7. Reroot(t, g) \in Trees
  BY <1>2, <1>6 DEF Trees
<1>8. 0 \in D
  BY <1>2, <1>3
<1> QED
  BY <1>4, <1>7, <1>8 DEF D

(* What is aligned is a tree. *)
LEMMA AssembledIsTree ==
  ASSUME NEW nodes \in Trees
  PROVE  /\ Assembled(nodes).kind \in {"tree", "AlignmentError"}
         /\ Assembled(nodes).nodes \in Trees \cup {<<>>}
  BY DEF Assembled, Raised, Tree

LEMMA MergeIsTree ==
  ASSUME NEW nodes \in Trees, NEW above \in Seq(Datasets)
  PROVE  /\ Promoted(nodes, above).kind \in {"tree", "MergeError", "AlignmentError"}
         /\ Promoted(nodes, above).nodes \in Trees \cup {<<>>}
<1> DEFINE dses == <<nodes[0]>> \o above
           merged == [nodes EXCEPT ![0] = Override(dses)]
<1>1. PICK k \in Depths : nodes \in [0 .. k -> Datasets]
  BY DEF Trees
<1>2. 0 \in 0 .. k
  BY OpenDatatreeAssumption DEF Depths
<1>3. dses \in Seq(Datasets)
  BY <1>1, <1>2
<1>4. Override(dses) \in Datasets
  BY <1>3, OverrideIsDataset
<1>5. merged \in [0 .. k -> Datasets]
  BY <1>1, <1>4
<1>6. merged \in Trees
  BY <1>5 DEF Trees
<1>7. \/ Promoted(nodes, above) = Raised("AlignmentError")
      \/ Promoted(nodes, above) = Raised("MergeError")
      \/ Promoted(nodes, above) = Assembled(merged)
  BY DEF Promoted
<1> HIDE DEF merged, dses
<1> QED
  BY <1>6, <1>7, AssembledIsTree DEF Raised

(* The merge over all the ancestors of a group gives a name the value of   *)
(* the nearest group that has it.                                          *)
LEMMA MergeIsInheritance ==
  ASSUME NEW view \in Trees, NEW g \in DOMAIN view,
         \A d, e \in DOMAIN view : Exact(view[d], view[e]), ~Shadowed(view, g)
  PROVE  LET dses == <<Reroot(view, g)[0]>> \o Above(view, g, g)
         IN  /\ \A n \in Names :
                  Holders(dses, n) # {} <=> \E d \in 0 .. g : n \in DOMAIN view[d]
             /\ \A n \in DOMAIN Override(dses) :
                  /\ Nearest(view, g, n) \in 0 .. g
                  /\ n \in DOMAIN view[Nearest(view, g, n)]
                  /\ Override(dses)[n] = view[Nearest(view, g, n)][n]
<1> DEFINE dses == <<Reroot(view, g)[0]>> \o Above(view, g, g)
<1>1. PICK k \in Depths : view \in [0 .. k -> Datasets]
  BY DEF Trees
<1>2. k \in Nat /\ g \in Nat /\ g <= k /\ DOMAIN view = 0 .. k
  BY <1>1, OpenDatatreeAssumption DEF Depths
<1>3. Reroot(view, g)[0] = view[g] /\ view[g] \in Datasets
  <2>1. Reroot(view, g)[0] = view[0 + g]
    BY Rerooted
  <2> QED
    BY <1>1, <1>2, <2>1
<1>4. /\ Above(view, g, g) \in Seq(Datasets) /\ Len(Above(view, g, g)) = g
      /\ \A i \in 1 .. g : Above(view, g, g)[i] = view[g - i]
  <2>1. \A i \in 1 .. g : view[g - i] \in Datasets
    BY <1>1, <1>2
  <2> QED
    BY <2>1, <1>2 DEF Above
<1>5. /\ dses \in Seq(Datasets) /\ DOMAIN dses = 1 .. g + 1
      /\ \A i \in 1 .. g + 1 : dses[i] = view[g + 1 - i]
  <2>1. dses \in Seq(Datasets) /\ Len(dses) = g + 1
    BY <1>2, <1>3, <1>4
  <2>2. ASSUME NEW i \in 1 .. g + 1 PROVE dses[i] = view[g + 1 - i]
    <3>1. CASE i = 1
      <4>1. dses[1] = view[g] /\ g + 1 - i = g
        BY <1>2, <1>3, <1>4, <3>1
      <4> QED
        BY <3>1, <4>1
    <3>2. CASE i # 1
      <4>1. i - 1 \in 1 .. g /\ g - (i - 1) = g + 1 - i
        BY <1>2, <3>2
      <4>2. dses[i] = Above(view, g, g)[i - 1]
        BY <1>2, <1>3, <1>4, <4>1, <3>2
      <4> QED
        BY <1>4, <4>1, <4>2
    <3> QED
      BY <3>1, <3>2
  <2> QED
    BY <2>1, <2>2
<1> HIDE DEF dses
<1>6. ASSUME NEW n \in Names
      PROVE  Holders(dses, n) # {} <=> \E d \in 0 .. g : n \in DOMAIN view[d]
  <2>1. ASSUME NEW d \in 0 .. g, n \in DOMAIN view[d] PROVE Holders(dses, n) # {}
    <3>1. g + 1 - d \in 1 .. g + 1 /\ g + 1 - (g + 1 - d) = d
      BY <1>2
    <3> QED
      BY <1>5, <2>1, <3>1 DEF Holders
  <2>2. ASSUME NEW i \in Holders(dses, n) PROVE \E d \in 0 .. g : n \in DOMAIN view[d]
    <3>1. i \in 1 .. g + 1 /\ n \in DOMAIN view[g + 1 - i]
      BY <1>5 DEF Holders
    <3>2. g + 1 - i \in 0 .. g
      BY <1>2, <3>1
    <3> QED
      BY <3>1, <3>2
  <2> QED
    BY <2>1, <2>2
<1>8. ASSUME NEW i \in DOMAIN dses, NEW j \in DOMAIN dses
      PROVE  /\ Exact(dses[i], dses[j])
             /\ \A m \in DOMAIN dses[i] \cap DOMAIN dses[j] :
                  IsIndex(dses[i], m) => IsIndex(dses[j], m)
  <2>1. g + 1 - i \in 0 .. g /\ g + 1 - j \in 0 .. g
    BY <1>2, <1>5
  <2>2. dses[i] = view[g + 1 - i] /\ dses[j] = view[g + 1 - j]
    BY <1>5
  <2>3. g + 1 - i \in DOMAIN view /\ g + 1 - j \in DOMAIN view
    BY <1>2, <2>1
  <2> QED
    BY <2>1, <2>2, <2>3 DEF Shadowed
<1>7. ASSUME NEW n \in DOMAIN Override(dses)
      PROVE  /\ Nearest(view, g, n) \in 0 .. g
             /\ n \in DOMAIN view[Nearest(view, g, n)]
             /\ Override(dses)[n] = view[Nearest(view, g, n)][n]
  <2> DEFINE c == ClosestFirst(Holders(dses, n))
             e == g + 1 - c
  <2>1. n \in Names /\ Holders(dses, n) # {} /\ Override(dses)[n] = dses[c][n]
    <3>1. n \in Names /\ Holders(dses, n) # {}
      BY DEF Override
    <3>2. \A i, j \in DOMAIN dses : Exact(dses[i], dses[j])
      BY <1>8
    <3>3. \A i, j \in DOMAIN dses : \A m \in DOMAIN dses[i] \cap DOMAIN dses[j] :
            IsIndex(dses[i], m) => IsIndex(dses[j], m)
      BY <1>8
    <3> QED
      BY <1>5, <3>1, <3>2, <3>3, NothingPadded
  <2>2. /\ c \in 1 .. g + 1 /\ n \in DOMAIN dses[c]
        /\ \A j \in 1 .. g + 1 : n \in DOMAIN dses[j] => c <= j
    <3>1. Holders(dses, n) \in SUBSET DOMAIN dses
      BY DEF Holders
    <3>2. c \in Holders(dses, n) /\ \A j \in Holders(dses, n) : c <= j
      BY <1>5, <2>1, <3>1, Closest
    <3> HIDE DEF c
    <3> QED
      BY <1>5, <3>2 DEF Holders
  <2> HIDE DEF c
  <2>3. e \in 0 .. g /\ n \in DOMAIN view[e] /\ dses[c] = view[e]
    BY <1>2, <1>5, <2>2
  <2>4. ASSUME NEW d \in 0 .. g, n \in DOMAIN view[d] PROVE d <= e
    <3>1. g + 1 - d \in 1 .. g + 1 /\ g + 1 - (g + 1 - d) = d
      BY <1>2
    <3>2. c <= g + 1 - d
      BY <1>5, <2>2, <2>4, <3>1
    <3> QED
      BY <1>2, <2>2, <3>2
  <2> HIDE DEF e
  <2>5. \A f \in e + 1 .. g : n \notin DOMAIN view[f]
    BY <1>2, <2>3, <2>4
  <2>6. ASSUME NEW d \in 0 .. g, n \in DOMAIN view[d],
               \A f \in d + 1 .. g : n \notin DOMAIN view[f]
        PROVE  d = e
    BY <1>2, <2>3, <2>4, <2>6
  <2>7. Nearest(view, g, n) = e
    BY <2>3, <2>5, <2>6 DEF Nearest
  <2> QED
    BY <2>1, <2>3, <2>7
<1> QED
  BY <1>6, <1>7 DEF dses

(* So that its coordinates are the inherited ones. *)
LEMMA InheritedCoords ==
  ASSUME NEW view \in Trees, NEW g \in DOMAIN view,
         \A d, e \in DOMAIN view : Exact(view[d], view[e]), ~Shadowed(view, g)
  PROVE  CoordsOf(Override(<<Reroot(view, g)[0]>> \o Above(view, g, g))) =
           CoordsOf(Inherited(view, g))
<1> DEFINE dses == <<Reroot(view, g)[0]>> \o Above(view, g, g)
           O == Override(dses)
           I == Inherited(view, g)
<1>1. /\ \A n \in Names : Holders(dses, n) # {} <=> \E d \in 0 .. g : n \in DOMAIN view[d]
      /\ \A n \in DOMAIN O :
           /\ Nearest(view, g, n) \in 0 .. g
           /\ n \in DOMAIN view[Nearest(view, g, n)]
           /\ O[n] = view[Nearest(view, g, n)][n]
  BY MergeIsInheritance
<1>2. DOMAIN O = {n \in Names : Holders(dses, n) # {}}
  BY DEF Override
<1>3. /\ DOMAIN I = {m \in Names : \E d \in 0 .. g :
                       m \in DOMAIN view[d] /\ (d = g \/ view[d][m].role = "coord")}
      /\ \A n \in DOMAIN I : I[n] = view[Nearest(view, g, n)][n]
  BY DEF Inherited
<1> HIDE DEF dses, O, I
<1>4. DOMAIN I \subseteq DOMAIN O /\ \A n \in DOMAIN I : I[n] = O[n]
  BY <1>1, <1>2, <1>3
<1>5. ASSUME NEW n \in DOMAIN O, O[n].role = "coord" PROVE n \in DOMAIN I
  BY <1>1, <1>2, <1>3, <1>5
<1>6. CoordsOf(O) = CoordsOf(I)
  BY <1>4, <1>5 DEF CoordsOf
<1> QED
  BY <1>6 DEF O, I, dses

-----------------------------------------------------------------------------
(***************************************************************************)
(* The state is well formed, and what was merged is what a slice of the    *)
(* full tree inherits.                                                     *)
(***************************************************************************)
WellTyped ==
  /\ Len(history) <= MaxCommits + 1
  /\ pc \in {"idle", "called", "merging", "returned"}
  /\ pc \in {"idle", "called"} => ancestors = <<>>
  /\ Len(ancestors) <= call.group
  /\ groups \in Trees \cup {<<>>}
  /\ pc = "merging" => groups \in Trees
  /\ answer.kind \in {"none", "tree", "KeyError", "ValueError", "MergeError",
                     "AlignmentError"}
  /\ answer.nodes \in Trees \cup {<<>>}

(* A path with two leading slashes never gets as far as a tree. *)
MisspeltFails == Doubled => pc # "merging" /\ answer.kind # "tree"

Whole == WellTyped /\ MisspeltFails

LEMMA InitWhole == Init => Whole
<1> SUFFICES ASSUME Init PROVE Whole
  OBVIOUS
<1>1. /\ pc = "idle" /\ call = NoCall /\ groups = <<>> /\ ancestors = <<>>
      /\ answer = Raised("none") /\ Len(history) = 1
  BY DEF Init
<1> QED
  BY <1>1, OpenDatatreeAssumption DEF Whole, WellTyped, MisspeltFails, NoCall, Raised

LEMMA CommitWhole == IInv /\ Whole /\ Commit => Whole'
<1> SUFFICES ASSUME IInv, Whole, Commit PROVE Whole'
  OBVIOUS
<1>1. PICK t \in Trees : Snapshot(t)
  BY CommitIsTree DEF IInv
<1>2. /\ history' = Append(history, t)
      /\ UNCHANGED <<pc, call, start, groups, ancestors, answer>>
  BY <1>1 DEF Snapshot
<1>3. Len(history) <= MaxCommits
  BY DEF Commit, CommitGroups, CommitDelete
<1>4. Len(history') <= MaxCommits + 1
  BY <1>2, <1>3, OpenDatatreeAssumption DEF IInv, Typed
<1> QED
  BY <1>2, <1>4 DEF Whole, WellTyped, MisspeltFails, Doubled

LEMMA CallWhole == IInv /\ Halfway /\ Whole /\ Call => Whole'
<1> SUFFICES ASSUME IInv, Halfway, Whole, Call PROVE Whole'
  OBVIOUS
<1>1. PICK source \in Sources, g \in Depths, s \in Spellings, inc \in BOOLEAN :
        call' = [source |-> source, group |-> g, spelling |-> s, include |-> inc]
  BY DEF Call
<1>2. /\ call'.group \in Nat /\ pc' = "called" /\ pc = "idle"
      /\ UNCHANGED <<history, groups, ancestors, answer>>
  BY <1>1 DEF Call, Depths
<1>3. ancestors = <<>> /\ answer.kind = "none"
  BY <1>2 DEF Whole, WellTyped, Halfway, Raised
<1> QED
  BY <1>2, <1>3 DEF Whole, WellTyped, MisspeltFails

LEMMA OpenTreeWhole == IInv /\ Halfway /\ Whole /\ OpenTree => Whole'
<1> SUFFICES ASSUME IInv, Halfway, Whole, OpenTree PROVE Whole'
  OBVIOUS
<1> DEFINE g == call.group
           view == View(history, start, call.source)
<1>1. UNCHANGED <<history, call, start>> /\ pc = "called" /\ answer = Raised("none")
  BY DEF OpenTree, Answer, Halfway
<1>2. view \in Trees /\ g \in Nat
  BY ViewOfTheTime, OpenDatatreeAssumption DEF IInv, Typed, Calls, Depths
<1>3. ~Doubled'
  BY <1>1 DEF OpenTree, Normalized, Doubled
<1>4. CASE g \notin DOMAIN view
  <2>1. answer' = Raised("KeyError") /\ pc' = "returned" /\ UNCHANGED <<groups, ancestors>>
    BY <1>4 DEF OpenTree, Answer
  <2> QED
    BY <1>1, <1>3, <2>1 DEF Whole, WellTyped, MisspeltFails, Raised
<1>5. CASE g \in DOMAIN view
  <2>1. /\ groups' = Reroot(view, g) /\ ancestors' = <<>>
        /\ \/ pc' = "merging" /\ answer' = answer
           \/ pc' = "returned" /\ answer' = Assembled(Reroot(view, g))
    BY <1>5 DEF OpenTree, Answer
  <2>2. Reroot(view, g) \in Trees
    BY <1>2, <1>5, Rerooted
  <2>3. Len(ancestors') <= g
    BY <1>2, <2>1
  <2>4. /\ answer'.kind \in {"none", "tree", "AlignmentError"}
        /\ answer'.nodes \in Trees \cup {<<>>}
    BY <1>1, <2>1, <2>2, AssembledIsTree DEF Raised
  <2> QED
    BY <1>1, <1>3, <2>1, <2>2, <2>3, <2>4 DEF Whole, WellTyped, MisspeltFails
<1> QED
  BY <1>4, <1>5

LEMMA OpenTreeMisspeltWhole == Whole /\ OpenTreeMisspelt => Whole'
<1> SUFFICES ASSUME Whole, OpenTreeMisspelt PROVE Whole'
  OBVIOUS
<1>1. PICK exception \in {"KeyError", "ValueError"} : Answer(Raised(exception))
  BY DEF OpenTreeMisspelt
<1>2. /\ UNCHANGED <<history, call, groups, ancestors>> /\ pc' = "returned"
      /\ answer' = Raised(exception)
  BY <1>1 DEF OpenTreeMisspelt, Answer
<1> QED
  BY <1>2 DEF Whole, WellTyped, MisspeltFails, Raised

LEMMA OpenAncestorWhole == IInv /\ Halfway /\ Whole /\ OpenAncestor => Whole'
<1> SUFFICES ASSUME IInv, Halfway, Whole, OpenAncestor PROVE Whole'
  OBVIOUS
<1> DEFINE d == call.group - 1 - Len(ancestors)
           view == View(history, start, call.source)
<1>1. /\ UNCHANGED <<history, call, start, groups>>
      /\ pc = "merging" /\ groups \in Trees /\ ~Doubled
      /\ Len(ancestors) < call.group
  BY DEF OpenAncestor, Answer, Halfway, Whole, WellTyped, MisspeltFails
<1>2. call.group \in Nat /\ ancestors \in Seq(Datasets) /\ ancestors' \in Seq(Datasets)
  BY OpenAncestorHolds, <1>1, OpenDatatreeAssumption DEF IInv, Typed, Calls, Depths
<1>3. ~Doubled'
  BY <1>1 DEF Doubled
<1>4. CASE d \notin DOMAIN view
  <2>1. answer' = Raised("KeyError") /\ pc' = "returned" /\ UNCHANGED ancestors
    BY <1>4 DEF OpenAncestor, Answer
  <2> QED
    BY <1>1, <1>3, <2>1 DEF Whole, WellTyped, MisspeltFails, Raised
<1>5. CASE d \in DOMAIN view
  <2>1. /\ ancestors' = Append(ancestors, view[d])
        /\ \/ pc' = "returned" /\ answer' = Promoted(groups, ancestors')
           \/ pc' = pc /\ answer' = answer
    BY <1>5 DEF OpenAncestor, Answer
  <2>2. Len(ancestors') <= call.group
    BY <1>1, <1>2, <2>1
  <2>3. /\ answer'.kind \in {"none", "tree", "KeyError", "ValueError", "MergeError",
                            "AlignmentError"}
        /\ answer'.nodes \in Trees \cup {<<>>}
    BY <1>1, <1>2, <2>1, MergeIsTree DEF Whole, WellTyped
  <2> QED
    BY <1>1, <1>3, <2>1, <2>2, <2>3 DEF Whole, WellTyped, MisspeltFails
<1> QED
  BY <1>4, <1>5

LEMMA StepWhole == IInv /\ Halfway /\ Whole /\ [Next]_vars => Whole'
<1>1. Whole /\ UNCHANGED vars => Whole'
  BY DEF vars, Whole, WellTyped, MisspeltFails, Doubled
<1> QED
  BY <1>1, CommitWhole, CallWhole, OpenTreeWhole, OpenTreeMisspeltWhole,
     OpenAncestorWhole DEF Next, Open, Done

LEMMA WholeAlways == Spec => [](IInv /\ Halfway /\ Whole)
BY InitWhole, StepWhole, HalfwayAlways, Invariance, PTL DEF Spec

(* The state is well formed, every dataset that is merged and every tree   *)
(* that is answered among it: backend.py:540-571.                          *)
THEOREM TypeCorrect == Spec => []TypeOK
<1>1. IInv /\ Whole => TypeOK
  <2> SUFFICES ASSUME IInv, Whole PROVE TypeOK
    OBVIOUS
  <2>1. /\ \A s \in 1 .. Len(history) : IsTree(history[s])
        /\ groups = <<>> \/ IsTree(groups)
        /\ answer.nodes = <<>> \/ IsTree(answer.nodes)
    BY TreeSet DEF IInv, Typed, Whole, WellTyped
  <2>2. \A i \in 1 .. Len(ancestors) : IsDataset(ancestors[i])
    BY DatasetSet DEF IInv, Typed
  <2> QED
    BY <2>1, <2>2, OpenDatatreeAssumption DEF IInv, Typed, Whole, WellTyped, TypeOK
<1> QED
  BY <1>1, WholeAlways, PTL

(* Where the full tree can be opened, the new root of a subtree opened     *)
(* from a session has the coordinates a slice of it inherits, whatever the *)
(* groups hold and is committed meanwhile: backend.py:333-344, 536-571.    *)
THEOREM SliceInherits == Spec => []CoordsOfSlice
<1>1. IInv /\ Halfway /\ Whole => CoordsOfSlice
  <2> SUFFICES ASSUME IInv, Halfway, Whole, Merged, call.source = "bytes",
                      Assembled(history[start]).kind = "tree",
                      ~Shadowed(history[start], call.group)
               PROVE  LET view == history[start]
                          g == call.group
                      IN  /\ g \in DOMAIN view
                          /\ CoordsOf(answer.nodes[0]) = CoordsOf(Inherited(view, g))
                          /\ DOMAIN answer.nodes = {d - g : d \in {e \in DOMAIN view : e >= g}}
                          /\ \A d \in DOMAIN answer.nodes \ {0} : answer.nodes[d] = view[d + g]
    BY DEF CoordsOfSlice
  <2> DEFINE view == history[start]
             g == call.group
             nodes == Reroot(view, g)
             dses == <<nodes[0]>> \o Above(view, g, g)
  <2>1. pc = "returned" /\ ~Doubled /\ call.include /\ g # 0 /\ answer.kind = "tree"
    BY DEF Merged, Halfway, Raised, Whole, WellTyped, MisspeltFails
  <2>2. answer = Promised(view, g, call.include)
    BY <2>1 DEF IInv, SnapshotPinned
  <2>3. g \in DOMAIN view
    BY <2>1, <2>2 DEF Promised, Raised
  <2>4. answer = Promoted(nodes, Above(view, g, g))
    BY <2>1, <2>2, <2>3 DEF Promised
  <2>5. answer = Tree([nodes EXCEPT ![0] = Override(dses)])
    BY <2>1, <2>4 DEF Promoted, Assembled, Raised
  <2>6. answer.nodes = [nodes EXCEPT ![0] = Override(dses)]
    BY <2>5 DEF Tree
  <2>7. view \in Trees
    BY DEF IInv, Typed
  <2>8. /\ DOMAIN nodes = {d - g : d \in {e \in DOMAIN view : e >= g}}
        /\ 0 \in DOMAIN nodes
        /\ \A d \in DOMAIN nodes : nodes[d] = view[d + g]
    BY <2>3, <2>7, Rerooted
  <2>9. CoordsOf(Override(dses)) = CoordsOf(Inherited(view, g))
    <3>1. \A d, e \in DOMAIN view : Exact(view[d], view[e])
      BY DEF Assembled, Raised
    <3> QED
      BY <2>3, <2>7, <3>1, InheritedCoords
  <2> HIDE DEF nodes, dses
  <2>10. /\ DOMAIN answer.nodes = DOMAIN nodes
         /\ answer.nodes[0] = Override(dses)
         /\ \A d \in DOMAIN nodes \ {0} : answer.nodes[d] = nodes[d]
    BY <2>6, <2>8
  <2> QED
    BY <2>3, <2>8, <2>9, <2>10
<1> QED
  BY <1>1, WholeAlways, PTL

=============================================================================
