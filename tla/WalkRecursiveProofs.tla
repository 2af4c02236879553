-------------------------- MODULE WalkRecursiveProofs --------------------------
(***************************************************************************)
(* Theorems about VanillaWalk and WalkRecursive, for every store, source,  *)
(* glob, cap, metadata and schedule of requests and writes:                *)
(*   - no permit leaks, and discovery is never stuck;                      *)
(*   - what discovery finds is in pre-order and, with what opening makes   *)
(*     of it, the answer GroupWalk promises: the call implements GroupWalk; *)
(*   - walk and eager phase share one semaphore, values land on their own  *)
(*     variables, and none over its cap is ever resident.                  *)
(***************************************************************************)
EXTENDS WalkRecursive, SequenceTheorems, FiniteSetTheorems,
        WellFoundedInduction, TLAPS

(***************************************************************************)
(* Paths and sequences: how ancestors relate, what a concatenation of      *)
(* blocks and an enumeration of a set contain, and induction on the        *)
(* naturals, stated for sets because the provers cannot instantiate a      *)
(* predicate.                                                              *)
(***************************************************************************)
(* A set that has 0 and, with each number, the next one has them all. *)
LEMMA SetInduction ==
  ASSUME NEW S, 0 \in S, \A n \in Nat : n \in S => n + 1 \in S
  PROVE  Nat \subseteq S
<1> DEFINE T == Nat \ S
<1> SUFFICES ASSUME T # {} PROVE FALSE
  OBVIOUS
<1>1. PICK n \in T : \A m \in T : <<m, n>> \notin OpToRel(<, Nat)
  <2>1. IsWellFoundedOn(OpToRel(<, Nat), Nat) /\ T \subseteq Nat
    BY NatLessThanWellFounded
  <2> HIDE DEF T
  <2> QED
    BY <2>1, WFMin
<1>2. n \in Nat /\ n # 0
  OBVIOUS
<1>3. n - 1 \in Nat /\ (n - 1) + 1 = n
  BY <1>2
<1>4. n - 1 \in T
  BY <1>3
<1>5. <<n - 1, n>> \in OpToRel(<, Nat)
  BY <1>2, <1>3 DEF OpToRel
<1> QED
  BY <1>1, <1>4, <1>5

-----------------------------------------------------------------------------
(* The recursive function inside FlattenSeq exists. *)
Flattening(s, f) ==
  f = [i \in 1 .. Len(s) |-> IF i = 1 THEN s[i] ELSE f[i - 1] \o s[i]]

LEMMA FlatteningExists ==
  ASSUME NEW s, Len(s) \in Nat
  PROVE  \E f : Flattening(s, f)
<1> DEFINE Upto(n, f) ==
             f = [i \in 1 .. n |-> IF i = 1 THEN s[i] ELSE f[i - 1] \o s[i]]
           S == {n \in Nat : \E f : Upto(n, f)}
<1>1. 0 \in S
  <2>1. Upto(0, [i \in 1 .. 0 |-> IF i = 1 THEN s[i] ELSE s[i - 1] \o s[i]])
    OBVIOUS
  <2> QED
    BY <2>1
<1>2. ASSUME NEW n \in Nat, n \in S
      PROVE  n + 1 \in S
  <2>1. PICK f : Upto(n, f)
    BY <1>2
  <2> DEFINE g == [i \in 1 .. n + 1 |->
                     IF i = n + 1 THEN IF i = 1 THEN s[i] ELSE f[i - 1] \o s[i]
                     ELSE f[i]]
  <2>2. ASSUME NEW i \in 1 .. n + 1
        PROVE  g[i] = IF i = 1 THEN s[i] ELSE g[i - 1] \o s[i]
    <3>1. CASE i = n + 1
      <4>1. i # 1 => g[i - 1] = f[i - 1]
        BY <3>1
      <4> QED
        BY <3>1, <4>1
    <3>2. CASE i \in 1 .. n
      <4>1. g[i] = f[i] /\ (i # 1 => g[i - 1] = f[i - 1])
        BY <3>2
      <4> HIDE DEF g
      <4>2. f[i] = IF i = 1 THEN s[i] ELSE f[i - 1] \o s[i]
        BY <2>1, <3>2
      <4> QED
        BY <4>1, <4>2
    <3> QED
      BY <3>1, <3>2
  <2>3. Upto(n + 1, g)
    <3>1. g = [i \in 1 .. n + 1 |-> g[i]]
      OBVIOUS
    <3> HIDE DEF g
    <3> QED
      BY <2>2, <3>1
  <2> QED
    <3> HIDE DEF Upto, g
    <3> QED BY <2>3
<1>3. Nat \subseteq S
  <2> HIDE DEF S
  <2> QED
    BY <1>1, <1>2, SetInduction
<1>4. PICK f : Upto(Len(s), f)
  BY <1>3
<1> QED
  BY <1>4 DEF Flattening

(***************************************************************************)
(* r is made of the first n blocks of s, one after the other: blk and pos  *)
(* tell where each of its elements comes from.                             *)
(***************************************************************************)
Placement(s, n, r, blk, pos) ==
  /\ blk \in [DOMAIN r -> 1 .. n] /\ pos \in [DOMAIN r -> Nat]
  /\ \A p \in DOMAIN r :
       pos[p] \in DOMAIN s[blk[p]] /\ r[p] = s[blk[p]][pos[p]]
  /\ \A p, q \in DOMAIN r :
       p < q => blk[p] < blk[q] \/ (blk[p] = blk[q] /\ pos[p] < pos[q])
  /\ \A i \in 1 .. n : \A k \in DOMAIN s[i] :
       \E p \in DOMAIN r : blk[p] = i /\ pos[p] = k

MadeOf(s, n, r) == \E blk, pos : Placement(s, n, r, blk, pos)

LEMMA OneBlock ==
  ASSUME NEW T, NEW s \in Seq(Seq(T)), Len(s) >= 1
  PROVE  MadeOf(s, 1, s[1])
<1> DEFINE blk == [p \in DOMAIN s[1] |-> 1]
           pos == [p \in DOMAIN s[1] |-> p]
<1>1. s[1] \in Seq(T)
  OBVIOUS
<1>2. DOMAIN s[1] = 1 .. Len(s[1]) /\ Len(s[1]) \in Nat
  BY <1>1
<1>3. blk \in [DOMAIN s[1] -> 1 .. 1] /\ pos \in [DOMAIN s[1] -> Nat]
  BY <1>2
<1>4. \A i \in 1 .. 1 : i = 1
  OBVIOUS
<1>5. Placement(s, 1, s[1], blk, pos)
  BY <1>2, <1>3, <1>4 DEF Placement
<1> QED
  BY <1>5 DEF MadeOf

LEMMA NextBlock ==
  ASSUME NEW T, NEW s \in Seq(Seq(T)), NEW n \in Nat, n >= 1, n + 1 <= Len(s),
         NEW r \in Seq(T), MadeOf(s, n, r)
  PROVE  MadeOf(s, n + 1, r \o s[n + 1])
<1> DEFINE b == s[n + 1]
           t == r \o b
<1>1. PICK blk, pos : Placement(s, n, r, blk, pos)
  BY DEF MadeOf
<1>2. b \in Seq(T)
  OBVIOUS
<1> DEFINE L == Len(r)
           M == Len(b)
<1>3. /\ L \in Nat /\ M \in Nat /\ DOMAIN r = 1 .. L /\ DOMAIN b = 1 .. M
      /\ DOMAIN t = 1 .. L + M
      /\ \A p \in 1 .. L : t[p] = r[p]
      /\ \A p \in L + 1 .. L + M : p - L \in 1 .. M /\ t[p] = b[p - L]
  BY <1>2
<1> DEFINE blk2 == [p \in 1 .. L + M |-> IF p <= L THEN blk[p] ELSE n + 1]
           pos2 == [p \in 1 .. L + M |-> IF p <= L THEN pos[p] ELSE p - L]
<1> HIDE DEF t, L, M, b
<1>4. DOMAIN r = 1 .. L
  BY <1>3
<1>11. \A p \in 1 .. L : blk[p] \in 1 .. n /\ pos[p] \in Nat
  BY <1>1, <1>4 DEF Placement
<1>12. \A p \in 1 .. L : pos[p] \in DOMAIN s[blk[p]] /\ r[p] = s[blk[p]][pos[p]]
  BY <1>1, <1>4 DEF Placement
<1>13. \A p, q \in 1 .. L :
        p < q => blk[p] < blk[q] \/ (blk[p] = blk[q] /\ pos[p] < pos[q])
  BY <1>1, <1>4 DEF Placement
<1>14. \A i \in 1 .. n : \A k \in DOMAIN s[i] :
        \E p \in 1 .. L : blk[p] = i /\ pos[p] = k
  BY <1>1, <1>4 DEF Placement
<1>5. /\ \A p \in 1 .. L : p \in 1 .. L + M /\ blk2[p] = blk[p] /\ pos2[p] = pos[p]
      /\ \A p \in L + 1 .. L + M :
           p \in 1 .. L + M /\ blk2[p] = n + 1 /\ pos2[p] = p - L
      /\ \A p \in 1 .. L + M : p \in 1 .. L \/ p \in L + 1 .. L + M
  BY <1>3
<1>6. blk2 \in [DOMAIN t -> 1 .. n + 1] /\ pos2 \in [DOMAIN t -> Nat]
  <2>1. \A p \in 1 .. L : blk[p] \in 1 .. n + 1
    BY <1>11
  <2> QED
    BY <1>3, <1>11, <2>1
<1> HIDE DEF blk2, pos2
<1>7. ASSUME NEW p \in DOMAIN t
      PROVE  pos2[p] \in DOMAIN s[blk2[p]] /\ t[p] = s[blk2[p]][pos2[p]]
  <2>1. CASE p \in 1 .. L
    BY <1>3, <1>12, <1>5, <2>1
  <2>2. CASE p \in L + 1 .. L + M
    <3>1. blk2[p] = n + 1 /\ pos2[p] = p - L /\ p - L \in DOMAIN b /\ t[p] = b[p - L]
      BY <1>3, <1>5, <2>2
    <3> QED
      BY <3>1 DEF b
  <2> QED
    BY <1>3, <1>5, <2>1, <2>2
<1>8. ASSUME NEW p \in DOMAIN t, NEW q \in DOMAIN t, p < q
      PROVE  blk2[p] < blk2[q] \/ (blk2[p] = blk2[q] /\ pos2[p] < pos2[q])
  <2>1. CASE q \in 1 .. L
    <3>1. p \in 1 .. L
      BY <1>3, <1>5, <1>8, <2>1
    <3> QED
      BY <1>13, <1>5, <1>8, <2>1, <3>1
  <2>2. CASE q \in L + 1 .. L + M /\ p \in 1 .. L
    <3>1. blk2[p] \in 1 .. n /\ blk2[q] = n + 1
      BY <1>11, <1>5, <2>2
    <3> QED
      BY <3>1
  <2>3. CASE q \in L + 1 .. L + M /\ p \in L + 1 .. L + M
    BY <1>3, <1>5, <1>8, <2>3
  <2> QED
    BY <1>3, <1>5, <2>1, <2>2, <2>3
<1>9. ASSUME NEW i \in 1 .. n + 1, NEW k \in DOMAIN s[i]
      PROVE  \E p \in DOMAIN t : blk2[p] = i /\ pos2[p] = k
  <2>1. CASE i \in 1 .. n
    <3>1. PICK p \in 1 .. L : blk[p] = i /\ pos[p] = k
      BY <1>14, <2>1
    <3>2. p \in DOMAIN t /\ blk2[p] = i /\ pos2[p] = k
      BY <1>3, <1>5, <3>1
    <3> QED
      BY <3>2
  <2>2. CASE i = n + 1
    <3>1. k \in 1 .. M /\ L + k \in L + 1 .. L + M /\ (L + k) - L = k
      BY <1>3, <2>2 DEF b
    <3> QED
      BY <1>3, <1>5, <2>2, <3>1
  <2> QED
    BY <2>1, <2>2
<1>10. Placement(s, n + 1, t, blk2, pos2)
  BY <1>6, <1>7, <1>8, <1>9 DEF Placement
<1> QED
  BY <1>10 DEF MadeOf, t, b

(* FlattenSeq lays the blocks out one after the other. *)
LEMMA Flattened ==
  ASSUME NEW T, NEW s \in Seq(Seq(T))
  PROVE  FlattenSeq(s) \in Seq(T) /\ MadeOf(s, Len(s), FlattenSeq(s))
<1>1. CASE Len(s) = 0
  <2>1. FlattenSeq(s) = s /\ s = <<>>
    BY <1>1 DEF FlattenSeq
  <2>2. Placement(s, 0, <<>>, <<>>, <<>>)
    BY DEF Placement
  <2> QED
    BY <1>1, <2>1, <2>2 DEF MadeOf
<1>2. CASE Len(s) # 0
  <2> DEFINE f == CHOOSE h : Flattening(s, h)
             S == {n \in Nat : 1 <= n /\ n <= Len(s) =>
                                 f[n] \in Seq(T) /\ MadeOf(s, n, f[n])}
  <2>1. Len(s) \in Nat \ {0}
    BY <1>2
  <2>2. f = [i \in 1 .. Len(s) |-> IF i = 1 THEN s[i] ELSE f[i - 1] \o s[i]]
    <3>1. Flattening(s, f)
      BY <2>1, FlatteningExists
    <3> QED
      BY <3>1 DEF Flattening
  <2>3. FlattenSeq(s) = f[Len(s)]
    BY <1>2 DEF FlattenSeq, Flattening
  <2> HIDE DEF f
  <2>4. \A i \in 1 .. Len(s) : f[i] = IF i = 1 THEN s[i] ELSE f[i - 1] \o s[i]
    BY <2>2
  <2>5. \A i \in 1 .. Len(s) : s[i] \in Seq(T)
    OBVIOUS
  <2>6. ASSUME NEW n \in Nat, n \in S
        PROVE  n + 1 \in S
    <3> SUFFICES ASSUME n + 1 <= Len(s)
                 PROVE  f[n + 1] \in Seq(T) /\ MadeOf(s, n + 1, f[n + 1])
      OBVIOUS
    <3>1. CASE n = 0
      BY <2>1, <2>4, <2>5, <3>1, OneBlock
    <3>2. CASE n # 0
      <4>1. f[n + 1] = f[n] \o s[n + 1]
        <5>1. n + 1 \in 1 .. Len(s) /\ n + 1 # 1 /\ (n + 1) - 1 = n
          BY <2>1, <3>2
        <5> QED
          BY <2>4, <5>1
      <4>2. f[n] \in Seq(T) /\ MadeOf(s, n, f[n])
        BY <2>1, <2>6, <3>2
      <4>3. MadeOf(s, n + 1, f[n] \o s[n + 1])
        BY <2>1, <3>2, <4>2, NextBlock
      <4>4. f[n] \o s[n + 1] \in Seq(T)
        BY <2>1, <2>5, <4>2
      <4> QED
        BY <4>1, <4>3, <4>4
    <3> QED
      BY <3>1, <3>2
  <2>7. 0 \in S
    OBVIOUS
  <2>8. Nat \subseteq S
    <3> HIDE DEF S
    <3> QED
      BY <2>6, <2>7, SetInduction
  <2>9. Len(s) \in S
    BY <2>1, <2>8
  <2> QED
    BY <2>1, <2>3, <2>9
<1> QED
  BY <1>1, <1>2

(* What is made of blocks has their members and no others. *)
LEMMA MembersOfBlocks ==
  ASSUME NEW s, NEW n \in Nat, NEW r, MadeOf(s, n, r), NEW x
  PROVE  x \in ToSet(r) <=> \E i \in 1 .. n : x \in ToSet(s[i])
<1>1. PICK blk, pos : Placement(s, n, r, blk, pos)
  BY DEF MadeOf
<1>2. ASSUME x \in ToSet(r)
      PROVE  \E i \in 1 .. n : x \in ToSet(s[i])
  <2>1. PICK p \in DOMAIN r : r[p] = x
    BY <1>2 DEF ToSet
  <2>2. blk[p] \in 1 .. n /\ pos[p] \in DOMAIN s[blk[p]] /\ x = s[blk[p]][pos[p]]
    BY <1>1, <2>1 DEF Placement
  <2> QED
    BY <2>2 DEF ToSet
<1>3. ASSUME NEW i \in 1 .. n, x \in ToSet(s[i])
      PROVE  x \in ToSet(r)
  <2>1. PICK k \in DOMAIN s[i] : s[i][k] = x
    BY <1>3 DEF ToSet
  <2>2. PICK p \in DOMAIN r : blk[p] = i /\ pos[p] = k
    BY <1>1 DEF Placement
  <2>3. r[p] = x
    BY <1>1, <2>1, <2>2 DEF Placement
  <2> QED
    BY <2>3 DEF ToSet
<1> QED
  BY <1>2, <1>3

-----------------------------------------------------------------------------
(* An order of a finite set has each of its members once. *)
LEMMA OrderOfSet ==
  ASSUME NEW S, IsFiniteSet(S), NEW order \in SetToSeqs(S)
  PROVE  /\ order \in Seq(S)
         /\ DOMAIN order = 1 .. Cardinality(S)
         /\ \A i, j \in DOMAIN order : order[i] = order[j] => i = j
         /\ ToSet(order) = S
<1> DEFINE D == 1 .. Cardinality(S)
<1>1. Cardinality(S) \in Nat
  BY FS_CardinalityType
<1>2. order \in [D -> S] /\ \A i, j \in D : i # j => order[i] # order[j]
  BY DEF SetToSeqs
<1>3. order \in Injection(D, S)
  BY <1>2 DEF Injection, IsInjective
<1>4. IsFiniteSet(D) /\ Cardinality(D) = Cardinality(S)
  BY <1>1, FS_Interval
<1>5. order \in Surjection(D, S)
  BY <1>3, <1>4, FS_Injection
<1>6. \A x \in S : \E i \in D : order[i] = x
  BY <1>5 DEF Surjection
<1> QED
  BY <1>1, <1>2, <1>6 DEF ToSet

(* SetToSeq makes such an order. *)
LEMMA SetToSeqOrders ==
  ASSUME NEW S, IsFiniteSet(S)
  PROVE  SetToSeq(S) \in SetToSeqs(S)
<1> DEFINE D == 1 .. Cardinality(S)
<1>1. PICK f \in Bijection(D, S) : TRUE
  BY FS_CardinalityType DEF ExistsBijection
<1>2. f \in [D -> S] /\ IsInjective(f)
  BY <1>1 DEF Bijection, Injection
<1>3. SetToSeq(S) \in [D -> S] /\ IsInjective(SetToSeq(S))
  BY <1>2 DEF SetToSeq
<1> QED
  BY <1>3 DEF SetToSeqs, IsInjective

-----------------------------------------------------------------------------
(* An ancestor agrees with its descendant wherever it is long enough. *)
LEMMA AboveMeans ==
  ASSUME NEW m \in Seq(Names), NEW n \in Seq(Names)
  PROVE  Above(m, n) <=> /\ Len(m) <= Len(n)
                         /\ \A k \in 1 .. Len(m) : n[k] = m[k]
<1>1. CASE Len(m) <= Len(n)
  <2> DEFINE p == SubSeq(n, 1, Len(m))
  <2>1. /\ p \in Seq(Names) /\ Len(p) = Len(m)
        /\ \A k \in 1 .. Len(m) : p[k] = n[k]
    BY <1>1
  <2>2. p = m <=> \A k \in 1 .. Len(m) : n[k] = m[k]
    <3> HIDE DEF p
    <3> QED
      BY <2>1, SeqEqual
  <2> QED
    BY <1>1, <2>2 DEF Above
<1>2. CASE ~(Len(m) <= Len(n))
  BY <1>2 DEF Above
<1> QED
  BY <1>1, <1>2

LEMMA AboveItself ==
  ASSUME NEW n \in Seq(Names)
  PROVE  Above(n, n)
BY AboveMeans

LEMMA AboveTransitive ==
  ASSUME NEW l \in Seq(Names), NEW m \in Seq(Names), NEW n \in Seq(Names),
         Above(l, m), Above(m, n)
  PROVE  Above(l, n)
BY AboveMeans

(* Of the ancestors of a node one is above the other, ... *)
LEMMA AncestorsAgree ==
  ASSUME NEW l \in Seq(Names), NEW m \in Seq(Names), NEW n \in Seq(Names),
         Above(l, n), Above(m, n), Len(l) <= Len(m)
  PROVE  Above(l, m)
BY AboveMeans

(* ... and no two have the same length. *)
LEMMA SameLength ==
  ASSUME NEW m \in Seq(Names), NEW n \in Seq(Names), Above(m, n), Len(m) = Len(n)
  PROVE  m = n
BY AboveMeans, SeqEqual

(* The ancestors of a node are its prefixes. *)
LEMMA PrefixAbove ==
  ASSUME NEW n \in Seq(Names), NEW k \in 0 .. Len(n)
  PROVE  LET p == SubSeq(n, 1, k)
         IN  p \in Seq(Names) /\ Len(p) = k /\ Above(p, n)
BY DEF Above

-----------------------------------------------------------------------------
(* What can be reached in a store can be reached in a larger one. *)
LEMMA ReachableGrows ==
  ASSUME NEW S, NEW T, S \subseteq T
  PROVE  Reachable(S) \subseteq Reachable(T)
BY DEF Reachable

LEMMA ReachableRoot ==
  ASSUME NEW S, Root \in S
  PROVE  Root \in Reachable(S)
<1>1. Root \in Groups /\ Root \in Seq(Names)
  BY HierarchyAssumption DEF HierarchyAssumption
<1>2. Above(Root, Root)
  BY <1>1, AboveItself
<1>3. \A k \in Len(Root) .. Len(Root) : SubSeq(Root, 1, k) = Root
  <2>1. Len(Root) \in Nat /\ SubSeq(Root, 1, Len(Root)) = Root
    BY <1>1, <1>2 DEF Above
  <2>2. \A n \in Nat : \A k \in n .. n : k = n
    OBVIOUS
  <2> QED
    BY <2>1, <2>2
<1> QED
  BY <1>1, <1>2, <1>3 DEF Reachable

(* A child the glob keeps can be reached from a group that can. *)
LEMMA ReachableChild ==
  ASSUME NEW S, Recursive, NEW g \in Reachable(S),
         NEW c \in S \cap Groups, c \in Keep, IsChild(g, c)
  PROVE  c \in Reachable(S)
<1>1. /\ g \in Seq(Names) /\ c \in Seq(Names) /\ Root \in Seq(Names)
      /\ Len(g) \in Nat /\ Len(Root) \in Nat
      /\ Len(c) = Len(g) + 1 /\ Above(g, c)
  BY HierarchyAssumption DEF HierarchyAssumption, Reachable, IsChild
<1>2. /\ Above(Root, g) /\ Len(Root) <= Len(g)
      /\ \A k \in Len(Root) .. Len(g) :
           LET m == SubSeq(g, 1, k) IN m \in S /\ (m # Root => m \in Keep)
  BY DEF Reachable, Above
<1>3. Above(Root, c)
  BY <1>1, <1>2, AboveTransitive
<1>4. ASSUME NEW k \in Len(Root) .. Len(c)
      PROVE  LET m == SubSeq(c, 1, k) IN m \in S /\ (m # Root => m \in Keep)
  <2>1. CASE k = Len(c)
    <3>1. SubSeq(c, 1, k) = c
      BY <1>1, <2>1, SubSeqFull
    <3> QED
      BY <3>1
  <2>2. CASE k \in Len(Root) .. Len(g)
    <3> DEFINE m == SubSeq(c, 1, k)
               p == SubSeq(g, 1, k)
    <3>1. k \in 0 .. Len(c) /\ k \in 0 .. Len(g)
      BY <1>1, <2>2
    <3>2. m \in Seq(Names) /\ Len(m) = k /\ Above(m, c)
      BY <1>1, <3>1, PrefixAbove
    <3>3. p \in Seq(Names) /\ Len(p) = k /\ Above(p, g)
      BY <1>1, <3>1, PrefixAbove
    <3> HIDE DEF m, p
    <3>4. Above(p, c)
      BY <1>1, <3>3, AboveTransitive
    <3>5. m = p
      BY <1>1, <3>2, <3>3, <3>4, AncestorsAgree, SameLength
    <3> QED
      BY <1>2, <2>2, <3>5 DEF m, p
  <2> QED
    BY <1>1, <2>1, <2>2
<1> QED
  BY <1>3, <1>4 DEF Reachable

(* From a group above one that can be reached, a child leads there. *)
LEMMA OnTheWay ==
  ASSUME NEW S, NEW g \in Groups, NEW d \in Reachable(S),
         Above(Root, g), Above(g, d), g # d
  PROVE  \E c \in Keep : c \in ChildGroups(S, g) /\ Above(c, d)
<1>1. /\ g \in Seq(Names) /\ d \in Seq(Names) /\ Root \in Seq(Names)
      /\ Len(g) \in Nat /\ Len(Root) \in Nat /\ Len(d) \in Nat
      /\ Len(Root) <= Len(g) /\ Len(g) <= Len(d)
  <2>1. d \in Groups
    BY DEF Reachable
  <2>2. g \in Seq(Names) /\ d \in Seq(Names) /\ Root \in Seq(Names)
    BY <2>1, HierarchyAssumption DEF HierarchyAssumption
  <2> QED
    BY <2>2 DEF Above
<1>2. Len(g) # Len(d)
  BY <1>1, SameLength
<1> DEFINE k == Len(g) + 1
           c == SubSeq(d, 1, k)
<1>3. k \in 0 .. Len(d) /\ k \in Len(Root) .. Len(d)
  BY <1>1, <1>2
<1>4. c \in Seq(Names) /\ Len(c) = k /\ Above(c, d)
  BY <1>1, <1>3, PrefixAbove
<1>5. c \in S /\ (c # Root => c \in Keep)
  BY <1>3 DEF Reachable
<1> HIDE DEF c
<1>6. c # Root
  BY <1>1, <1>4
<1>7. Above(g, c)
  BY <1>1, <1>4, AncestorsAgree
<1>8. c \in Keep /\ c \in Groups
  BY <1>5, <1>6, HierarchyAssumption DEF HierarchyAssumption
<1> QED
  BY <1>4, <1>5, <1>7, <1>8 DEF ChildGroups, IsChild

-----------------------------------------------------------------------------
(***************************************************************************)
(* The vanilla walk: permits, and the tree of futures.                     *)
(***************************************************************************)

(* PermitsConserved, also of a walk that has answered. *)
Balanced == permits + Cardinality(Holders) = Capacity

(* The inductive invariant. *)
IInv == TypeOK /\ Balanced /\ Structured

(* The cap is a positive number whatever the caller asks for. *)
LEMMA CapacityPositive == Capacity \in Nat /\ Capacity >= 1
BY VanillaWalkAssumption DEF VanillaWalkAssumption, Capacity

(* The holders are finitely many: there are finitely many groups. *)
LEMMA HoldersFinite ==
  ASSUME NEW S \in SUBSET Groups
  PROVE  IsFiniteSet(S) /\ Cardinality(S) \in Nat
BY HierarchyAssumption, FS_Subset, FS_CardinalityType
   DEF HierarchyAssumption

(* An order of a set of groups is a sequence of exactly its members. *)
LEMMA OrderOfGroups ==
  ASSUME NEW S \in SUBSET Groups, NEW order \in SetToSeqs(S)
  PROVE  /\ order \in Seq(Groups)
         /\ ToSet(order) \subseteq S
         /\ DOMAIN order = 1 .. Cardinality(S)
<1>1. Cardinality(S) \in Nat
  BY HoldersFinite
<1>2. order \in [1 .. Cardinality(S) -> S]
  BY DEF SetToSeqs
<1> QED
  BY <1>1, <1>2 DEF ToSet

(* A group is directly below at most one other. *)
LEMMA OneParent ==
  ASSUME NEW g \in Groups, NEW p \in Groups, NEW c \in Groups,
         IsChild(g, c), IsChild(p, c)
  PROVE  g = p
<1>1. Len(g) \in Nat /\ Len(p) \in Nat /\ Len(c) \in Nat
  BY HierarchyAssumption DEF HierarchyAssumption
<1>2. Len(g) = Len(p)
  BY <1>1 DEF IsChild
<1> QED
  BY <1>2 DEF IsChild, Above

(* Taking a group into the window, or out of it, changes the count of the  *)
(* holders by one.                                                         *)
LEMMA HoldersIn ==
  ASSUME NEW S \in SUBSET Groups, NEW g \in Groups, g \notin S
  PROVE  Cardinality(S \cup {g}) = Cardinality(S) + 1
BY HoldersFinite, FS_AddElement

LEMMA HoldersOut ==
  ASSUME NEW S \in SUBSET Groups, NEW g \in S
  PROVE  Cardinality(S \ {g}) = Cardinality(S) - 1
BY HoldersFinite, FS_RemoveElement

LEMMA NoHolders == Cardinality({}) = 0
BY FS_EmptySet

-----------------------------------------------------------------------------
(* The initial states satisfy the inductive invariant. *)
LEMMA InitInv == Init => IInv
<1> SUFFICES ASSUME Init PROVE IInv
  OBVIOUS
<1>1. TypeOK
  BY CapacityPositive, HierarchyAssumption, VanillaWalkAssumption
     DEF Init, TypeOK, TaskStates, OpenerStates, OpenersFor, NoAnswer, AnswerKinds,
         HierarchyAssumption, VanillaWalkAssumption
<1>2. Holders = {}
  BY DEF Init, Holders
<1>3. Balanced
  BY <1>2, NoHolders, CapacityPositive DEF Init, Balanced
<1>4. Structured
  BY HierarchyAssumption DEF Init, Structured, HierarchyAssumption, ToSet
<1> QED
  BY <1>1, <1>3, <1>4 DEF IInv

(* A first error leaves the reset state, which satisfies it too. *)
LEMMA FailInv ==
  ASSUME TypeOK, NEW kind \in {"NotFound", "Other"}, Fail(kind)
  PROVE  IInv'
<1>1. TypeOK'
  BY CapacityPositive DEF Fail, store, TypeOK, TaskStates, OpenerStates, Capacity, AnswerKinds
<1>2. Holders' = {}
  BY DEF Fail, Holders
<1>3. Balanced'
  BY <1>2, NoHolders, CapacityPositive DEF Fail, Balanced, Capacity
<1>4. Structured'
  BY DEF Fail, Structured
<1> QED
  BY <1>1, <1>3, <1>4 DEF IInv

(* A write of another user does not touch the walk. *)
LEMMA WriteInv ==
  ASSUME IInv, NEW n \in Nodes, Write(n)
  PROVE  IInv'
<1>1. TypeOK'
  BY VanillaWalkAssumption
     DEF IInv, TypeOK, Write, discovery, opening, VanillaWalkAssumption
<1>2. Balanced' /\ Structured'
  BY DEF IInv, Write, discovery, Balanced, Structured, Holders
<1> QED
  BY <1>1, <1>2 DEF IInv

(* Taking a permit. *)
LEMMA AcquireInv ==
  ASSUME IInv, NEW g \in Groups, Acquire(g)
  PROVE  IInv'
<1> USE DEF IInv
<1>1. TypeOK'
  BY CapacityPositive DEF TypeOK, Acquire, store, opening, TaskStates
<1>2. Holders' = Holders \cup {g} /\ g \notin Holders
  BY DEF Holders, Acquire, TypeOK
<1>3. Holders \in SUBSET Groups
  BY DEF Holders
<1>4. Cardinality(Holders') = Cardinality(Holders) + 1
  BY <1>2, <1>3, HoldersIn
<1>5. Balanced'
  <2>1. Cardinality(Holders) \in Nat /\ permits \in Int /\ permits' = permits - 1
    BY <1>3, HoldersFinite, CapacityPositive DEF TypeOK, Acquire
  <2> QED
    BY <2>1, <1>4, CapacityPositive DEF Balanced, Capacity
<1>6. Structured'
  BY DEF Structured, Acquire, TypeOK, IsChild
<1> QED
  BY <1>1, <1>5, <1>6

(* The open request of a group is answered. *)
LEMMA OpenGroupInv ==
  ASSUME IInv, NEW g \in Groups, OpenGroup(g)
  PROVE  IInv'
<1> USE DEF IInv
<1>1. TypeOK'
  BY DEF TypeOK, OpenGroup, store, opening, TaskStates
<1>2. Holders' = Holders
  BY DEF Holders, OpenGroup, TypeOK
<1>3. Balanced'
  BY <1>2 DEF Balanced, OpenGroup
<1>4. Structured'
  BY DEF Structured, OpenGroup, TypeOK
<1> QED
  BY <1>1, <1>3, <1>4

(* The children are listed: the permit goes back, and each child future    *)
(* starts from nothing, for no other group can be its parent.              *)
LEMMA ListKidsInv ==
  ASSUME IInv, NEW g \in Groups, ListKids(g)
  PROVE  IInv'
<1> USE DEF IInv
<1> DEFINE S == Kept(ChildGroups(present, g))
<1>1. S \in SUBSET Groups /\ \A c \in S : IsChild(g, c)
  BY DEF Kept, ChildGroups
<1>2. PICK order \in SetToSeqs(S) :
        /\ kids' = [kids EXCEPT ![g] = order]
        /\ task' = [h \in Groups |->
                      IF h = g THEN "joining"
                      ELSE IF h \in ToSet(order) THEN "queued" ELSE task[h]]
  BY DEF ListKids
<1> HIDE DEF S
<1>3. order \in Seq(Groups) /\ ToSet(order) \subseteq S
  BY <1>1, OrderOfGroups
<1>4. \A i \in DOMAIN order : order[i] \in S /\ order[i] \in ToSet(order)
  BY <1>3 DEF ToSet
<1>5. /\ phase = "discover" /\ phase' = phase
      /\ task[g] = "listing" /\ permits' = permits + 1
      /\ UNCHANGED <<store, opening, out, paths, answer>>
  BY DEF ListKids, Released
<1>6. \A h \in ToSet(order) : h \in Groups /\ Len(h) = Len(g) + 1 /\ h # g
  <2>1. \A h \in Groups : Len(h) \in Nat
    BY HierarchyAssumption DEF HierarchyAssumption
  <2> QED
    BY <1>1, <1>3, <2>1 DEF IsChild

(* The children are below Root and had not been started. *)
<1>7. \A h \in ToSet(order) : h # Root /\ task[h] = "idle"
  <2> TAKE h \in ToSet(order)
  <2>1. h \in Groups /\ IsChild(g, h) /\ Len(h) = Len(g) + 1
    BY <1>1, <1>3, <1>6
  <2>2. Len(g) \in Nat /\ Len(Root) \in Nat /\ Len(Root) <= Len(g)
    BY <1>5, HierarchyAssumption DEF Structured, HierarchyAssumption
  <2>3. h # Root
    BY <2>1, <2>2
  <2>4. SUFFICES ASSUME task[h] # "idle" PROVE FALSE
    BY <2>3
  <2>5. PICK p \in Groups : h \in ToSet(kids[p])
    BY <1>5, <2>1, <2>3, <2>4 DEF Structured
  <2>6. IsChild(p, h)
    BY <1>5, <2>5 DEF Structured, ToSet
  <2>7. p = g
    BY <2>1, <2>6, OneParent
  <2>8. kids[g] = <<>>
    BY <1>5 DEF Structured
  <2> QED
    BY <2>5, <2>7, <2>8 DEF ToSet
<1>8. TypeOK'
  <2>1. task' \in [Groups -> TaskStates]
    BY <1>2 DEF TypeOK, TaskStates
  <2>2. kids' \in [Groups -> Seq(Groups)]
    BY <1>2, <1>3 DEF TypeOK
  <2>3. permits' \in 0 .. Capacity
    <3>1. g \in Holders /\ Holders \in SUBSET Groups
      BY <1>5 DEF Holders
    <3>2. Cardinality(Holders) \in Nat /\ Cardinality(Holders) # 0
      BY <3>1, HoldersFinite, FS_EmptySet
    <3> QED
      BY <1>5, <3>2, CapacityPositive DEF TypeOK, Balanced
  <2> QED
    BY <1>5, <2>1, <2>2, <2>3 DEF TypeOK, store, opening, Capacity
<1>9. Balanced'
  <2>1. Holders' = Holders \ {g} /\ g \in Holders /\ Holders \in SUBSET Groups
    BY <1>2, <1>5, <1>7 DEF Holders
  <2>2. Cardinality(Holders') = Cardinality(Holders) - 1
    BY <2>1, HoldersOut
  <2>3. Cardinality(Holders) \in Nat /\ permits \in Int
    BY <2>1, HoldersFinite, CapacityPositive DEF TypeOK
  <2> QED
    BY <1>5, <2>2, <2>3, CapacityPositive DEF Balanced, Capacity
<1>10. Structured'
  <2>1. task'[Root] \notin {"idle", "done"}
    BY <1>2, <1>5, HierarchyAssumption DEF Structured, HierarchyAssumption
  <2>2. ASSUME NEW h \in Groups,
               task'[h] \in {"idle", "queued", "opening", "listing"}
        PROVE  kids'[h] = <<>>
    BY <1>2, <1>5, <1>7, <2>2 DEF Structured, TypeOK
  <2>3. ASSUME NEW h \in Groups, task'[h] # "idle"
        PROVE  Len(Root) <= Len(h)
    <3>1. Len(g) \in Nat /\ Len(Root) \in Nat /\ Len(Root) <= Len(g)
      BY <1>5, HierarchyAssumption DEF Structured, HierarchyAssumption
    <3>2. CASE h \in ToSet(order)
      BY <1>6, <3>1, <3>2
    <3>3. CASE h \notin ToSet(order)
      BY <1>2, <1>5, <2>3, <3>1, <3>3 DEF Structured
    <3> QED
      BY <3>2, <3>3
  <2>4. ASSUME NEW h \in Groups, task'[h] # "idle", h # Root
        PROVE  \E p \in Groups : h \in ToSet(kids'[p])
    <3>1. CASE h \in ToSet(order)
      BY <1>2, <3>1 DEF TypeOK
    <3>2. CASE h \notin ToSet(order)
      <4>1. task[h] # "idle"
        BY <1>2, <1>5, <2>4, <3>2
      <4>2. PICK p \in Groups : h \in ToSet(kids[p])
        BY <1>5, <2>4, <4>1 DEF Structured
      <4>3. p # g
        BY <1>5, <4>2 DEF Structured, ToSet
      <4> QED
        BY <1>2, <4>2, <4>3 DEF TypeOK
    <3> QED
      BY <3>1, <3>2
  <2>5. ASSUME NEW h \in Groups, NEW i \in DOMAIN kids'[h]
        PROVE  /\ IsChild(h, kids'[h][i])
               /\ task'[kids'[h][i]] # "idle"
               /\ task'[h] = "done" => task'[kids'[h][i]] = "done"
    <3>1. CASE h = g
      <4>1. kids'[h] = order /\ i \in DOMAIN order
        BY <1>2, <2>5, <3>1 DEF TypeOK
      <4>2. order[i] \in S /\ order[i] \in ToSet(order) /\ order[i] \in Groups
        BY <1>1, <1>4, <4>1
      <4>3. task'[order[i]] = "queued" /\ task'[h] = "joining"
        BY <1>2, <1>6, <3>1, <4>2
      <4> QED
        BY <1>1, <3>1, <4>1, <4>2, <4>3
    <3>2. CASE h # g
      <4>1. kids'[h] = kids[h] /\ i \in DOMAIN kids[h] /\ kids[h][i] \in Groups
        BY <1>2, <2>5, <3>2 DEF TypeOK
      <4> DEFINE c == kids[h][i]
      <4>2. /\ IsChild(h, c) /\ task[c] # "idle"
            /\ task[h] = "done" => task[c] = "done"
        BY <1>5, <4>1 DEF Structured
      <4>3. task[c] = "done" => task'[c] = "done"
        BY <1>2, <1>5, <1>7, <4>1
      <4>4. task'[h] = "done" => task[h] = "done"
        BY <1>2, <3>2
      <4>5. task'[c] # "idle"
        BY <1>2, <4>1, <4>2
      <4> QED
        BY <4>1, <4>2, <4>3, <4>4, <4>5
    <3> QED
      BY <3>1, <3>2
  <2> QED
    BY <2>1, <2>2, <2>3, <2>4, <2>5 DEF Structured
<1> QED
  BY <1>8, <1>9, <1>10

(* A future below Root joins its children. *)
LEMMA JoinInv ==
  ASSUME IInv, NEW g \in Groups, Join(g)
  PROVE  IInv'
<1> USE DEF IInv
<1>1. /\ phase = "discover" /\ phase' = phase /\ task[g] = "joining" /\ g # Root
      /\ task' = [task EXCEPT ![g] = "done"] /\ kids' = kids
      /\ \A i \in DOMAIN kids[g] : task[kids[g][i]] = "done"
      /\ UNCHANGED <<store, permits, opening, answer>>
  BY DEF Join, Joinable
<1>2. TypeOK'
  BY <1>1 DEF TypeOK, store, opening, TaskStates, Capacity
<1>3. Holders' = Holders
  BY <1>1 DEF Holders, TypeOK
<1>4. Balanced'
  BY <1>1, <1>3 DEF Balanced, Capacity
<1>5. Structured'
  <2>1. task'[Root] \notin {"idle", "done"}
    BY <1>1, HierarchyAssumption DEF Structured, HierarchyAssumption, TypeOK
  <2>2. ASSUME NEW h \in Groups
        PROVE  /\ task'[h] \in {"idle", "queued", "opening", "listing"} =>
                    kids'[h] = <<>>
               /\ task'[h] # "idle" =>
                    /\ Len(Root) <= Len(h)
                    /\ h # Root => \E p \in Groups : h \in ToSet(kids'[p])
    BY <1>1 DEF Structured, TypeOK
  <2>3. ASSUME NEW h \in Groups, NEW i \in DOMAIN kids'[h]
        PROVE  /\ IsChild(h, kids'[h][i])
               /\ task'[kids'[h][i]] # "idle"
               /\ task'[h] = "done" => task'[kids'[h][i]] = "done"
    <3>1. kids'[h][i] \in Groups
      BY <1>1 DEF TypeOK
    <3> QED
      BY <1>1, <3>1 DEF Structured, TypeOK
  <2> QED
    BY <2>1, <2>2, <2>3 DEF Structured
<1> QED
  BY <1>2, <1>4, <1>5

(* The root's future joins and opening begins. *)
LEMMA JoinRootInv ==
  ASSUME IInv, JoinRoot
  PROVE  IInv'
<1> USE DEF IInv
<1>1. opener' \in [Groups -> OpenerStates]
  BY DEF JoinRoot, OpenersFor, OpenerStates
<1>2. /\ phase' = "open" /\ task[Root] = "joining"
      /\ task' = [task EXCEPT ![Root] = "done"]
      /\ UNCHANGED <<store, permits, kids, vars, opened, answer>>
  BY DEF JoinRoot, Joinable
<1>3. TypeOK'
  BY <1>1, <1>2 DEF TypeOK, store, TaskStates, Capacity
<1>4. Holders' = Holders
  BY <1>2 DEF Holders, TypeOK
<1>5. Balanced'
  BY <1>2, <1>4 DEF Balanced, Capacity
<1>6. Structured'
  BY <1>2 DEF Structured
<1> QED
  BY <1>3, <1>5, <1>6

(* The steps of the opening phase leave the permits and the futures of     *)
(* discovery alone.                                                        *)
LEMMA OpeningInv ==
  ASSUME IInv, phase' # "discover", TypeOK', UNCHANGED discovery
  PROVE  IInv'
<1>1. Balanced'
  BY DEF IInv, discovery, Balanced, Holders, Capacity
<1>2. Structured'
  BY DEF Structured
<1> QED
  BY <1>1, <1>2 DEF IInv

LEMMA OpenInv ==
  ASSUME IInv, Open
  PROVE  IInv'
<1>1. TypeOK
  BY DEF IInv
<1>2. ASSUME NEW g \in Groups, OpenNode(g)
      PROVE  IInv'
  <2>1. TypeOK'
    BY <1>1, <1>2 DEF TypeOK, OpenNode, store, discovery, OpenerStates, Capacity
  <2> QED
    BY <1>2, <2>1, OpeningInv DEF OpenNode
<1>3. ASSUME NEW g \in Groups, ListArrays(g)
      PROVE  IInv'
  <2>1. ChildArrays(present, g) \subseteq Arrays
    BY DEF ChildArrays
  <2>2. TypeOK'
    BY <1>1, <1>3, <2>1
       DEF TypeOK, ListArrays, store, discovery, OpenerStates, Capacity
  <2> QED
    BY <1>3, <2>2, OpeningInv DEF ListArrays
<1>4. ASSUME NEW a \in Arrays, OpenArray(a)
      PROVE  IInv'
  <2>1. TypeOK'
    BY <1>1, <1>4 DEF TypeOK, OpenArray, store, discovery, Capacity
  <2> QED
    BY <1>4, <2>1, OpeningInv DEF OpenArray
<1>5. ASSUME Return
      PROVE  IInv'
  <2>1. TypeOK'
    BY <1>1, <1>5 DEF TypeOK, Return, AnswerKinds, store, discovery, opening, Capacity
  <2> QED
    BY <1>5, <2>1, OpeningInv DEF Return
<1>6. ASSUME NEW kind \in {"NotFound", "Other"}, Fail(kind)
      PROVE  IInv'
  BY <1>1, <1>6, FailInv
<1> QED
  BY <1>2, <1>3, <1>4, <1>5, <1>6 DEF Open, NodeMissing, ArrayMissing, OpenFault

-----------------------------------------------------------------------------
(* Every step keeps the inductive invariant. *)
LEMMA StepInv == IInv /\ [Next]_allVars => IInv'
<1> SUFFICES ASSUME IInv, [Next]_allVars PROVE IInv'
  OBVIOUS
<1>1. CASE \E n \in Nodes : Write(n)
  BY <1>1, WriteInv
<1>2. CASE Discover
  <2>1. ASSUME NEW g \in Groups, GroupMissing(g) \/ DiscoveryFault(g)
        PROVE  IInv'
    BY <2>1, FailInv DEF GroupMissing, DiscoveryFault, IInv
  <2> QED
    BY <1>2, <2>1, AcquireInv, OpenGroupInv, ListKidsInv, JoinInv, JoinRootInv
       DEF Discover
<1>3. CASE Open
  BY <1>3, OpenInv
<1>4. CASE UNCHANGED allVars
  BY <1>4
     DEF IInv, TypeOK, Balanced, Structured, Holders, allVars, store,
         discovery, opening, Capacity
<1> QED
  BY <1>1, <1>2, <1>3, <1>4 DEF Next, Returned

(* The inductive invariant holds of every behaviour. *)
THEOREM Invariance == Spec => []IInv
BY InitInv, StepInv, PTL DEF Spec

(* The control state of the walk is well formed: walk.rs:88-117, 489-540.  *)
THEOREM TypeCorrect == Spec => []TypeOK
<1>1. IInv => TypeOK
  BY DEF IInv
<1> QED
  BY <1>1, Invariance, PTL

(* No permit leaks, none is held across a join: walk.rs:496-511.           *)
THEOREM NoPermitLeaks == Spec => []PermitsConserved
<1>1. IInv => PermitsConserved
  BY DEF IInv, Balanced, PermitsConserved
<1> QED
  BY <1>1, Invariance, PTL

(* The futures are a tree that grows and finishes in order: walk.rs:525-534. *)
THEOREM FuturesStructured == Spec => []Structured
<1>1. IInv => Structured
  BY DEF IInv
<1> QED
  BY <1>1, Invariance, PTL

-----------------------------------------------------------------------------
(***************************************************************************)
(* Of a nonempty set of groups some are deepest.  The proof takes, among   *)
(* the sets of strictly deeper members, one that is minimal by inclusion.  *)
(***************************************************************************)
LEMMA DeepestGroup ==
  ASSUME NEW J \in SUBSET Groups, J # {}
  PROVE  \E g \in J : \A h \in J : Len(h) <= Len(g)
<1> DEFINE Deeper(g) == {h \in J : Len(h) > Len(g)}
           D == {Deeper(g) : g \in J}
<1>1. \A g \in J : Len(g) \in Nat
  BY HierarchyAssumption DEF HierarchyAssumption
<1>2. IsWellFoundedOn(StrictSubsetOrdering(J), FiniteSubsetsOf(J))
  BY FS_StrictSubsetOrderingWellFounded
<1>3. FiniteSubsetsOf(J) = SUBSET J
  BY HoldersFinite, FS_FiniteSubsetsOfFinite
<1>4. D \subseteq FiniteSubsetsOf(J) /\ D # {}
  <2>1. \A g \in J : Deeper(g) \in SUBSET J
    OBVIOUS
  <2>2. D \subseteq SUBSET J
    BY <2>1
  <2>3. PICK g \in J : TRUE
    OBVIOUS
  <2>4. Deeper(g) \in D
    BY <2>3
  <2> QED
    BY <1>3, <2>2, <2>4
<1>5. PICK x \in D : \A y \in D : <<y, x>> \notin StrictSubsetOrdering(J)
  <2> HIDE DEF D
  <2> QED
    BY <1>2, <1>4, WFMin
<1>6. PICK g \in J : x = Deeper(g)
  BY <1>5
<1>7. ASSUME NEW h \in J, ~ (Len(h) <= Len(g))
      PROVE  FALSE
  <2>1. Len(h) > Len(g)
    BY <1>1, <1>7
  <2>2. Deeper(h) \subseteq Deeper(g) /\ h \in Deeper(g) /\ h \notin Deeper(h)
    BY <1>1, <2>1
  <2>3. Deeper(h) \in SUBSET J /\ Deeper(g) \in SUBSET J /\ Deeper(h) \in D
    OBVIOUS
  <2>4. <<Deeper(h), Deeper(g)>> \in StrictSubsetOrdering(J)
    BY <2>2, <2>3 DEF StrictSubsetOrdering
  <2> QED
    BY <1>5, <1>6, <2>3, <2>4
<1> QED
  BY <1>7

(***************************************************************************)
(* Discovery is never stuck.  With no request in flight every permit is    *)
(* free, so a queued future could run; if none is queued, every future is  *)
(* joining or done, the root's among the joining ones, and the deepest of  *)
(* those has no child left to wait for.                                    *)
(***************************************************************************)
LEMMA NeverStuckInv == IInv => NeverStuck
<1> SUFFICES ASSUME IInv, phase = "discover", Holders = {},
                    ~ (permits > 0 /\ \E g \in Groups : task[g] = "queued")
             PROVE  \E g \in Groups : Joinable(g)
  BY DEF NeverStuck
<1> USE DEF IInv
<1>1. permits > 0
  BY NoHolders, CapacityPositive DEF Balanced, TypeOK
<1>2. \A g \in Groups : task[g] \in {"idle", "joining", "done"}
  BY <1>1 DEF TypeOK, TaskStates, Holders
<1> DEFINE J == {g \in Groups : task[g] = "joining"}
<1>3. Root \in J
  BY <1>2, HierarchyAssumption DEF Structured, HierarchyAssumption
<1>4. PICK g \in J : \A h \in J : Len(h) <= Len(g)
  BY <1>3, DeepestGroup
<1>5. ASSUME NEW i \in DOMAIN kids[g]
      PROVE  task[kids[g][i]] = "done"
  <2>1. kids[g][i] \in Groups
    BY DEF TypeOK
  <2>2. IsChild(g, kids[g][i]) /\ task[kids[g][i]] # "idle"
    BY DEF Structured
  <2>3. Len(kids[g][i]) = Len(g) + 1 /\ Len(g) \in Nat
    BY <2>2, HierarchyAssumption DEF IsChild, HierarchyAssumption
  <2>4. kids[g][i] \notin J
    BY <1>4, <2>3
  <2> QED
    BY <1>2, <2>1, <2>2, <2>4
<1> QED
  BY <1>4, <1>5 DEF Joinable

(* At any cap, depth and interleaving discovery can go on until it has     *)
(* answered: walk.rs:155, 483-488.                                         *)
THEOREM DiscoveryNeverStuck == Spec => []NeverStuck
BY Invariance, NeverStuckInv, PTL

-----------------------------------------------------------------------------
(* Of a nonempty set of groups some are shallowest. *)
LEMMA ShallowestGroup ==
  ASSUME NEW J \in SUBSET Groups, J # {}
  PROVE  \E g \in J : \A h \in J : Len(g) <= Len(h)
<1> DEFINE D == {Len(g) : g \in J}
<1>1. \A g \in J : Len(g) \in Nat
  BY HierarchyAssumption DEF HierarchyAssumption
<1>2. D \subseteq Nat /\ D # {}
  BY <1>1
<1>3. IsWellFoundedOn(OpToRel(<, Nat), Nat)
  BY NatLessThanWellFounded
<1>4. PICK x \in D : \A y \in D : <<y, x>> \notin OpToRel(<, Nat)
  <2> HIDE DEF D
  <2> QED
    BY <1>2, <1>3, WFMin
<1>5. PICK g \in J : x = Len(g)
  BY <1>4
<1>6. ASSUME NEW h \in J
      PROVE  Len(g) <= Len(h)
  <2>1. <<Len(h), Len(g)>> \notin OpToRel(<, Nat)
    BY <1>4, <1>5
  <2>2. ~(Len(h) < Len(g))
    BY <1>1, <2>1 DEF OpToRel
  <2> QED
    BY <1>1, <2>2
<1> QED
  BY <1>6

(***************************************************************************)
(* When the root's future can join, no future is inside the window.  If    *)
(* one that runs below the root were left, take a shallowest: its parent   *)
(* is neither done, for its child is not, nor the root, whose children     *)
(* are, so it runs below the root too, and is shallower.                   *)
(***************************************************************************)
LEMMA RootJoinsLast ==
  ASSUME IInv, phase = "discover", Joinable(Root)
  PROVE  Holders = {}
<1> USE DEF IInv
<1> DEFINE B == {g \in Groups : task[g] \notin {"idle", "done"} /\ g # Root}
<1>1. task[Root] = "joining" /\ \A i \in DOMAIN kids[Root] : task[kids[Root][i]] = "done"
  BY DEF Joinable
<1>2. ASSUME B # {} PROVE FALSE
  <2>1. PICK h \in B : \A k \in B : Len(h) <= Len(k)
    BY <1>2, ShallowestGroup
  <2>2. PICK p \in Groups : h \in ToSet(kids[p])
    BY <2>1 DEF Structured
  <2>3. PICK i \in DOMAIN kids[p] : h = kids[p][i]
    BY <2>2 DEF ToSet
  <2>4. IsChild(p, h) /\ (task[p] = "done" => task[h] = "done")
    BY <2>3 DEF Structured
  <2>5. Len(p) \in Nat /\ Len(h) = Len(p) + 1
    BY <2>4, HierarchyAssumption DEF IsChild, HierarchyAssumption
  <2>6. task[p] \notin {"idle", "done"}
    <3>1. kids[p] # <<>>
      BY <2>3
    <3> QED
      BY <2>1, <2>4, <3>1 DEF Structured
  <2>7. p # Root
    BY <1>1, <2>1, <2>3
  <2>8. p \in B
    BY <2>6, <2>7
  <2> QED
    BY <2>1, <2>5, <2>8
<1> QED
  BY <1>1, <1>2 DEF Holders

(* Nobody is inside the window once discovery is over. *)
Quiet == phase = "open" => Holders = {}

LEMMA InitQuiet == Init => Quiet
BY DEF Init, Quiet, Holders

LEMMA StepQuiet == IInv /\ Quiet /\ [Next]_allVars => Quiet'
<1> SUFFICES ASSUME IInv, Quiet, [Next]_allVars PROVE Quiet'
  OBVIOUS
<1>1. CASE \E n \in Nodes : Write(n)
  BY <1>1 DEF Write, discovery, Quiet, Holders
<1>2. CASE Discover
  <2>1. CASE JoinRoot
    <3>1. Holders = {}
      BY <2>1, RootJoinsLast DEF JoinRoot
    <3>2. task' = [task EXCEPT ![Root] = "done"]
      BY <2>1 DEF JoinRoot
    <3> QED
      BY <3>1, <3>2 DEF Quiet, Holders, IInv, TypeOK
  <2>2. CASE phase' # "open"
    BY <2>2 DEF Quiet
  <2> QED
    BY <1>2, <2>1, <2>2
       DEF Discover, Acquire, OpenGroup, GroupMissing, ListKids, Join,
           DiscoveryFault, Fail
<1>3. CASE Open
  <2>1. phase = "open" /\ (phase' = "returned" \/ UNCHANGED discovery)
    BY <1>3
       DEF Open, OpenNode, NodeMissing, ListArrays, OpenArray, ArrayMissing,
           OpenFault, Return, Fail
  <2> QED
    BY <2>1 DEF Quiet, discovery, Holders
<1>4. CASE UNCHANGED allVars
  BY <1>4 DEF allVars, discovery, Quiet, Holders
<1> QED
  BY <1>1, <1>2, <1>3, <1>4 DEF Next, Returned

(* The semaphore is whole when the first phase is over: walk.rs:155, 513-538. *)
THEOREM SemaphoreWhole == Spec => []WholeSemaphore
<1>1. ASSUME IInv, Quiet, phase = "open"
      PROVE  permits = Capacity
  <2>1. permits + 0 = Capacity
    BY <1>1, NoHolders DEF IInv, Balanced, Quiet
  <2>2. permits \in Int
    BY <1>1, CapacityPositive DEF IInv, TypeOK
  <2> QED
    BY <2>1, <2>2
<1>2. IInv /\ Quiet => WholeSemaphore
  BY <1>1 DEF WholeSemaphore
<1>3. Spec => []Quiet
  BY Invariance, InitQuiet, StepQuiet, PTL DEF Spec
<1> QED
  BY <1>2, <1>3, Invariance, PTL

-----------------------------------------------------------------------------
(***************************************************************************)
(* What the vanilla walk finds: a subtree in pre-order for each future of  *)
(* discovery, which misses nothing that was there all along and makes      *)
(* nothing up.                                                             *)
(***************************************************************************)

(* InPreOrder, of a sequence that need not have a first path above all. *)
Contiguous(seq) ==
  /\ \A i, j \in DOMAIN seq : seq[i] = seq[j] => i = j
  /\ \A i, j \in DOMAIN seq : Above(seq[i], seq[j]) => i <= j
  /\ \A i, j, k \in DOMAIN seq :
       i < j /\ j < k /\ Above(seq[i], seq[k]) => Above(seq[i], seq[j])

(* The subtrees of a group's children, one after the other, are below the  *)
(* group and contiguous: a path has one ancestor among the children.       *)
LEMMA SubtreesContiguous ==
  ASSUME NEW g \in Groups, NEW ks \in Seq(Groups), NEW s \in Seq(Seq(Groups)),
         Len(s) = Len(ks),
         \A i, j \in DOMAIN ks : ks[i] = ks[j] => i = j,
         \A i \in DOMAIN ks : IsChild(g, ks[i]) /\ Contiguous(s[i]),
         \A i \in DOMAIN ks : \A k \in DOMAIN s[i] : Above(ks[i], s[i][k]),
         NEW f \in Seq(Groups), MadeOf(s, Len(s), f)
  PROVE  /\ \A p \in DOMAIN f : Above(g, f[p]) /\ ~Above(f[p], g)
         /\ Contiguous(f)
<1>1. PICK blk, pos : Placement(s, Len(s), f, blk, pos)
  BY DEF MadeOf
<1>2. DOMAIN ks = 1 .. Len(s) /\ Len(s) \in Nat /\ DOMAIN f = 1 .. Len(f) /\ Len(f) \in Nat
  OBVIOUS
<1>3. \A p \in DOMAIN f : blk[p] \in DOMAIN ks /\ pos[p] \in Nat
  BY <1>1, <1>2 DEF Placement
<1>4. \A p \in DOMAIN f : pos[p] \in DOMAIN s[blk[p]] /\ f[p] = s[blk[p]][pos[p]]
  BY <1>1 DEF Placement
<1>5. \A p, q \in DOMAIN f :
        p < q => blk[p] < blk[q] \/ (blk[p] = blk[q] /\ pos[p] < pos[q])
  BY <1>1 DEF Placement
<1>6. \A i \in DOMAIN ks : ks[i] \in Groups /\ ks[i] \in Seq(Names)
  BY HierarchyAssumption DEF HierarchyAssumption
<1>7. \A p \in DOMAIN f : f[p] \in Groups /\ f[p] \in Seq(Names)
  BY HierarchyAssumption DEF HierarchyAssumption
<1>8. g \in Seq(Names) /\ Len(g) \in Nat
  BY HierarchyAssumption DEF HierarchyAssumption
<1> DEFINE top(p) == ks[blk[p]]
<1>9. ASSUME NEW p \in DOMAIN f
      PROVE  /\ top(p) \in Seq(Names) /\ Above(top(p), f[p])
             /\ Len(top(p)) = Len(g) + 1 /\ Above(g, top(p))
  <2>1. blk[p] \in DOMAIN ks /\ pos[p] \in DOMAIN s[blk[p]] /\ f[p] = s[blk[p]][pos[p]]
    BY <1>3, <1>4
  <2>2. Above(top(p), f[p]) /\ IsChild(g, top(p)) /\ top(p) \in Seq(Names)
    BY <1>6, <2>1
  <2> QED
    BY <2>2 DEF IsChild
<1> HIDE DEF top
<1>10. ASSUME NEW p \in DOMAIN f
       PROVE  Above(g, f[p]) /\ ~Above(f[p], g)
  <2>1. Above(g, f[p])
    BY <1>7, <1>8, <1>9, AboveTransitive
  <2>2. Len(f[p]) \in Nat /\ Len(top(p)) <= Len(f[p])
    BY <1>7, <1>9 DEF Above
  <2>3. ~(Len(f[p]) <= Len(g))
    BY <1>8, <1>9, <2>2
  <2> QED
    BY <2>1, <2>3 DEF Above

(* A path and its ancestors come from one child. *)
<1>11. ASSUME NEW p \in DOMAIN f, NEW q \in DOMAIN f, Above(f[p], f[q])
       PROVE  blk[p] = blk[q]
  <2>1. Above(top(p), f[q])
    BY <1>7, <1>9, <1>11, AboveTransitive
  <2>2. Len(top(p)) = Len(top(q)) /\ Len(top(p)) <= Len(top(q))
    BY <1>8, <1>9
  <2>3. Above(top(p), top(q))
    BY <1>7, <1>9, <2>1, <2>2, AncestorsAgree
  <2>4. top(p) = top(q)
    BY <1>9, <2>2, <2>3, SameLength
  <2> QED
    BY <1>3, <2>4 DEF top
<1>12. \A p \in DOMAIN f : Contiguous(s[blk[p]])
  BY <1>3
<1>13. ASSUME NEW p \in DOMAIN f, NEW q \in DOMAIN f, f[p] = f[q]
       PROVE  p = q
  <2>1. blk[p] = blk[q]
    BY <1>7, <1>11, <1>13, AboveItself
  <2>2. pos[p] = pos[q]
    <3> DEFINE b == s[blk[p]]
    <3>1. /\ Contiguous(b) /\ pos[p] \in DOMAIN b /\ pos[q] \in DOMAIN b
          /\ b[pos[p]] = b[pos[q]]
      BY <1>4, <1>12, <1>13, <2>1
    <3> QED
      BY <3>1 DEF Contiguous
  <2>3. p \in Nat /\ q \in Nat /\ pos[p] \in Nat /\ blk[p] \in Nat
    BY <1>2, <1>3
  <2>4. /\ p < q => blk[p] < blk[q] \/ pos[p] < pos[q]
        /\ q < p => blk[q] < blk[p] \/ pos[q] < pos[p]
    BY <1>5
  <2>5. ~(p < q) /\ ~(q < p)
    BY <2>1, <2>2, <2>3, <2>4
  <2> QED
    BY <2>3, <2>5
<1>14. ASSUME NEW p \in DOMAIN f, NEW q \in DOMAIN f, Above(f[p], f[q])
       PROVE  p <= q
  <2>1. blk[p] = blk[q]
    BY <1>11, <1>14
  <2>2. pos[p] <= pos[q]
    <3> DEFINE b == s[blk[p]]
    <3>1. /\ Contiguous(b) /\ pos[p] \in DOMAIN b /\ pos[q] \in DOMAIN b
          /\ Above(b[pos[p]], b[pos[q]])
      BY <1>4, <1>12, <1>14, <2>1
    <3> QED
      BY <3>1 DEF Contiguous
  <2>3. /\ p \in Nat /\ q \in Nat
        /\ pos[p] \in Nat /\ pos[q] \in Nat /\ blk[p] \in Nat
    BY <1>2, <1>3
  <2>4. ~(q < p)
    BY <1>5, <2>1, <2>2, <2>3
  <2> QED
    BY <2>3, <2>4
<1>15. ASSUME NEW p \in DOMAIN f, NEW q \in DOMAIN f, NEW r \in DOMAIN f,
              p < q, q < r, Above(f[p], f[r])
       PROVE  Above(f[p], f[q])
  <2>1. blk[p] = blk[r] /\ blk[p] \in Nat /\ blk[q] \in Nat
    BY <1>2, <1>3, <1>11, <1>15
  <2>2. blk[q] = blk[p]
    BY <1>5, <1>15, <2>1
  <2>3. pos[p] < pos[q] /\ pos[q] < pos[r]
    BY <1>5, <1>15, <2>1, <2>2
  <2> DEFINE b == s[blk[p]]
  <2>4. /\ Contiguous(b) /\ pos[p] \in DOMAIN b /\ b[pos[p]] = f[p]
        /\ pos[q] \in DOMAIN b /\ b[pos[q]] = f[q]
        /\ pos[r] \in DOMAIN b /\ b[pos[r]] = f[r]
    BY <1>4, <1>12, <2>1, <2>2
  <2> HIDE DEF b
  <2>5. Above(b[pos[p]], b[pos[r]])
    BY <1>15, <2>4
  <2>6. Above(b[pos[p]], b[pos[q]])
    BY <2>3, <2>4, <2>5 DEF Contiguous
  <2> QED
    BY <2>4, <2>6
<1> QED
  BY <1>10, <1>13, <1>14, <1>15 DEF Contiguous

(* With the group before them they are its subtree in pre-order. *)
LEMMA GroupFirst ==
  ASSUME NEW g \in Groups, NEW f \in Seq(Groups), Contiguous(f),
         \A p \in DOMAIN f : Above(g, f[p]) /\ ~Above(f[p], g)
  PROVE  LET r == <<g>> \o f
         IN  /\ r \in Seq(Groups) /\ InPreOrder(r, g)
             /\ ToSet(r) = {g} \cup ToSet(f)
<1> DEFINE r == <<g>> \o f
           L == Len(f)
<1>1. /\ L \in Nat /\ DOMAIN f = 1 .. L
      /\ r \in Seq(Groups) /\ Len(r) = L + 1 /\ DOMAIN r = 1 .. L + 1
      /\ r[1] = g
      /\ \A p \in 2 .. L + 1 : p - 1 \in 1 .. L /\ r[p] = f[p - 1]
      /\ \A p \in 1 .. L : p + 1 \in 2 .. L + 1 /\ r[p + 1] = f[p]
  OBVIOUS
<1> HIDE DEF r, L
<1>2. g \in Seq(Names) /\ \A p \in 1 .. L : f[p] \in Seq(Names)
  BY <1>1, HierarchyAssumption DEF HierarchyAssumption
<1>3. Above(g, g)
  BY <1>2, AboveItself
<1>4. \A p \in 1 .. L + 1 : p = 1 \/ p \in 2 .. L + 1
  BY <1>1
<1>5. ASSUME NEW p \in 2 .. L + 1
      PROVE  Above(g, r[p]) /\ ~Above(r[p], g) /\ r[p] # g
  <2>1. p - 1 \in DOMAIN f /\ r[p] = f[p - 1]
    BY <1>1
  <2> QED
    BY <1>3, <2>1
<1>6. ASSUME NEW i \in 1 .. L + 1, NEW j \in 1 .. L + 1, r[i] = r[j]
      PROVE  i = j
  <2>1. CASE i = 1 \/ j = 1
    BY <1>1, <1>4, <1>5, <1>6, <2>1
  <2>2. CASE i \in 2 .. L + 1 /\ j \in 2 .. L + 1
    <3>1. /\ i - 1 \in DOMAIN f /\ j - 1 \in DOMAIN f
          /\ f[i - 1] = f[j - 1]
      BY <1>1, <1>6, <2>2
    <3>2. i - 1 = j - 1
      BY <3>1 DEF Contiguous
    <3> QED
      BY <2>2, <3>2
  <2> QED
    BY <1>4, <2>1, <2>2
<1>7. ASSUME NEW i \in 1 .. L + 1, NEW j \in 1 .. L + 1, Above(r[i], r[j])
      PROVE  i <= j
  <2>1. CASE i = 1
    BY <2>1
  <2>2. CASE i \in 2 .. L + 1 /\ j = 1
    BY <1>1, <1>5, <1>7, <2>2
  <2>3. CASE i \in 2 .. L + 1 /\ j \in 2 .. L + 1
    <3>1. /\ i - 1 \in DOMAIN f /\ j - 1 \in DOMAIN f
          /\ Above(f[i - 1], f[j - 1])
      BY <1>1, <1>7, <2>3
    <3>2. i - 1 <= j - 1
      BY <3>1 DEF Contiguous
    <3> QED
      BY <2>3, <3>2
  <2> QED
    BY <1>4, <2>1, <2>2, <2>3
<1>8. ASSUME NEW i \in 1 .. L + 1, NEW j \in 1 .. L + 1, NEW k \in 1 .. L + 1,
             i < j, j < k, Above(r[i], r[k])
      PROVE  Above(r[i], r[j])
  <2>1. CASE i = 1
    BY <1>1, <1>3, <1>4, <1>5, <2>1
  <2>2. CASE i \in 2 .. L + 1
    <3>1. j \in 2 .. L + 1 /\ k \in 2 .. L + 1
      BY <1>1, <1>8, <2>2
    <3>2. i - 1 < j - 1 /\ j - 1 < k - 1
      BY <1>8, <2>2
    <3>3. /\ i - 1 \in DOMAIN f /\ j - 1 \in DOMAIN f /\ k - 1 \in DOMAIN f
          /\ f[i - 1] = r[i] /\ f[j - 1] = r[j] /\ f[k - 1] = r[k]
      BY <1>1, <2>2, <3>1
    <3>4. Above(f[i - 1], f[k - 1])
      BY <1>8, <3>3
    <3>5. Above(f[i - 1], f[j - 1])
      BY <3>2, <3>3, <3>4 DEF Contiguous
    <3> QED
      BY <3>3, <3>5
  <2> QED
    BY <1>4, <2>1, <2>2
<1>9. InPreOrder(r, g)
  BY <1>1, <1>6, <1>7, <1>8 DEF InPreOrder
<1>10. ToSet(r) = {g} \cup ToSet(f)
  <2>1. \A p \in 1 .. L + 1 : r[p] \in {g} \cup ToSet(f)
    BY <1>1, <1>4 DEF ToSet
  <2>2. g \in ToSet(r)
    BY <1>1 DEF ToSet
  <2>3. ASSUME NEW p \in 1 .. L
        PROVE  f[p] \in ToSet(r)
    <3>1. p + 1 \in DOMAIN r /\ r[p + 1] = f[p]
      BY <1>1
    <3> QED
      BY <3>1 DEF ToSet
  <2> QED
    BY <1>1, <2>1, <2>2, <2>3 DEF ToSet
<1> QED
  BY <1>1, <1>9, <1>10 DEF r

-----------------------------------------------------------------------------
(***************************************************************************)
(* What a walk may know.  S is what the store has held all along, E what   *)
(* it has held at some moment: the smaller S and the larger E, the weaker  *)
(* what follows says, so that no write of another user can falsify it.     *)
(***************************************************************************)

(* The groups below g a walk of a store S finds. *)
Subtree(S, g) == {d \in Reachable(S) : Above(g, d)}

(* A future has every child that was there all along, once. *)
KidsListed(ks, g, S) ==
  /\ \A i, j \in DOMAIN ks : ks[i] = ks[j] => i = j
  /\ Kept(ChildGroups(S, g)) \subseteq ToSet(ks)

(* What is found below g: all that was there all along, nothing made up,   *)
(* parents first.                                                          *)
Found(seq, g, S, E) ==
  /\ seq \in Seq(Groups)
  /\ InPreOrder(seq, g)
  /\ Subtree(S, g) \subseteq ToSet(seq)
  /\ ToSet(seq) \subseteq Subtree(E, g)

(* What a future collects from its children, with its own path. *)
LEMMA CollectedFound ==
  ASSUME TypeOK, NEW g \in Groups, g \in Reachable(ever), KidsListed(kids[g], g, stable),
         \A i \in DOMAIN kids[g] :
           IsChild(g, kids[g][i]) /\ Found(out[kids[g][i]], kids[g][i], stable, ever)
  PROVE  Found(Collected(g), g, stable, ever)
<1> DEFINE ks == kids[g]
           s == [i \in DOMAIN ks |-> out[ks[i]]]
           f == FlattenSeq(s)
           r == <<g>> \o f
<1>1. ks \in Seq(Groups)
  BY DEF TypeOK
<1>2. \A i \in DOMAIN ks : IsChild(g, ks[i]) /\ Found(out[ks[i]], ks[i], stable, ever)
  OBVIOUS
<1>3. \A i, j \in DOMAIN ks : ks[i] = ks[j] => i = j
  BY DEF KidsListed
<1>4. Collected(g) = r
  BY DEF Collected
<1> HIDE DEF ks
<1>5. s \in Seq(Seq(Groups)) /\ Len(s) = Len(ks) /\ DOMAIN ks = 1 .. Len(s)
      /\ Len(s) \in Nat /\ \A i \in DOMAIN ks : s[i] = out[ks[i]]
  <2>1. DOMAIN ks = 1 .. Len(ks) /\ Len(ks) \in Nat
    BY <1>1
  <2>2. \A i \in DOMAIN ks : out[ks[i]] \in Seq(Groups)
    BY <1>2 DEF Found
  <2> QED
    BY <2>1, <2>2
<1> HIDE DEF s
<1>6. f \in Seq(Groups) /\ MadeOf(s, Len(s), f)
  BY <1>5, Flattened
<1> HIDE DEF f
<1>7. \A i \in DOMAIN ks : Contiguous(s[i])
  <2>1. \A i \in DOMAIN ks : InPreOrder(s[i], ks[i])
    BY <1>2, <1>5 DEF Found
  <2>2. ASSUME NEW q, NEW t, InPreOrder(q, t)
        PROVE  Contiguous(q)
    BY <2>2 DEF InPreOrder, Contiguous
  <2> QED
    BY <2>1, <2>2
<1>8. ASSUME NEW i \in DOMAIN ks, NEW k \in DOMAIN s[i]
      PROVE  Above(ks[i], s[i][k])
  <2>1. s[i][k] \in ToSet(out[ks[i]])
    BY <1>5 DEF ToSet
  <2> QED
    BY <1>2, <2>1 DEF Found, Subtree
<1>9. /\ \A p \in DOMAIN f : Above(g, f[p]) /\ ~Above(f[p], g)
      /\ Contiguous(f)
  BY <1>1, <1>2, <1>3, <1>5, <1>6, <1>7, <1>8, SubtreesContiguous
<1>10. r \in Seq(Groups) /\ InPreOrder(r, g) /\ ToSet(r) = {g} \cup ToSet(f)
  BY <1>6, <1>9, GroupFirst
<1>11. g \in Seq(Names) /\ Root \in Seq(Names) /\ Above(Root, g) /\ Above(g, g)
  BY HierarchyAssumption, AboveItself DEF HierarchyAssumption, Reachable
<1>12. ASSUME NEW d \in Subtree(stable, g)
       PROVE  d \in ToSet(r)
  <2>1. CASE d = g
    BY <1>10, <2>1
  <2>2. CASE d # g
    <3>1. PICK c \in Keep : c \in ChildGroups(stable, g) /\ Above(c, d)
      BY <1>11, <2>2, OnTheWay DEF Subtree
    <3>2. c \in ToSet(ks)
      BY <3>1 DEF KidsListed, Kept, ks
    <3>3. PICK i \in DOMAIN ks : ks[i] = c
      BY <3>2 DEF ToSet
    <3>4. d \in Subtree(stable, c)
      BY <3>1 DEF Subtree
    <3>5. d \in ToSet(s[i])
      BY <1>2, <1>5, <3>3, <3>4 DEF Found
    <3>6. d \in ToSet(f)
      BY <1>5, <1>6, <3>5, MembersOfBlocks
    <3> QED
      BY <1>10, <3>6
  <2> QED
    BY <2>1, <2>2
<1>13. ASSUME NEW d \in ToSet(r)
       PROVE  d \in Subtree(ever, g)
  <2>1. CASE d = g
    BY <1>11, <2>1 DEF Subtree
  <2>2. CASE d \in ToSet(f)
    <3>1. PICK i \in 1 .. Len(s) : d \in ToSet(s[i])
      BY <1>5, <1>6, <2>2, MembersOfBlocks
    <3>2. d \in Subtree(ever, ks[i])
      BY <1>2, <1>5, <3>1 DEF Found
    <3>3. Above(g, d)
      BY <1>9, <2>2 DEF ToSet
    <3> QED
      BY <3>2, <3>3 DEF Subtree
  <2> QED
    BY <1>10, <2>1, <2>2
<1> QED
  BY <1>4, <1>10, <1>12, <1>13 DEF Found

(* What GroupWalk asks of each kind of answer. *)
ListJustified(ns, S, E) ==
  /\ Len(ns) \in Nat \ {0} /\ DOMAIN ns = 1 .. Len(ns) /\ ns[1].path = Root
  /\ \A g \in Reachable(S) : \E i \in DOMAIN ns : ns[i].path = g
  /\ \A i \in DOMAIN ns :
       /\ ns[i].path \in Reachable(E)
       /\ ChildArrays(S, ns[i].path) \subseteq ns[i].vars
       /\ ns[i].vars \subseteq ChildArrays(E, ns[i].path)
  /\ \A i, j \in DOMAIN ns : Above(ns[i].path, ns[j].path) => i <= j

NotFoundJustified(S, E) == \E g \in Reachable(E \cup {Root}) : g \notin S

OtherJustified(S, E) ==
  \E g \in Reachable(E \cup {Root}) :
    \/ g \in Faulty
    \/ \E a \in ChildArrays(E, g) : a \in Faulty \/ a \notin S

Justified(a, S, E) ==
  \/ a = [kind |-> "ok", nodes |-> a.nodes] /\ ListJustified(a.nodes, S, E)
  \/ a = [kind |-> "NotFound", nodes |-> <<>>] /\ NotFoundJustified(S, E)
  \/ a = [kind |-> "Other", nodes |-> <<>>] /\ OtherJustified(S, E)

(* The futures of discovery: what each has found, and why it runs. *)
Discovered ==
  /\ phase = "discover" => Recursive /\ \A g \in Groups : vars[g] = {}
  /\ DOMAIN out = Groups /\ out = [g \in Groups |-> out[g]]
  /\ \A g \in Groups :
       /\ task[g] # "idle" => g = Root \/ g \in Reachable(ever)
       /\ task[g] \in {"listing", "joining", "done"} => g \in Reachable(ever)
       /\ task[g] \in {"joining", "done"} => KidsListed(kids[g], g, stable)
       /\ task[g] = "done" => Found(out[g], g, stable, ever)

(* The futures of opening: one for each path, with the arrays it has seen. *)
Gathered ==
  phase = "open" =>
    /\ paths \in Seq(Groups) /\ InPreOrder(paths, Root)
    /\ Reachable(stable) \subseteq ToSet(paths)
    /\ \A g \in ToSet(paths) : g = Root \/ g \in Reachable(ever)
    /\ \A g \in Groups :
         /\ opener[g] # "idle" <=> g \in ToSet(paths)
         /\ opener[g] \in {"listing", "arrays"} => g \in Reachable(ever)
         /\ opener[g] = "arrays" => ChildArrays(stable, g) \subseteq vars[g]
         /\ opener[g] # "arrays" => vars[g] = {}
         /\ vars[g] \subseteq ChildArrays(ever, g)

Answered ==
  /\ phase # "returned" => answer = NoAnswer
  /\ phase = "returned" => Justified(answer, stable, ever)

WalkInv == Discovered /\ Gathered /\ Answered

-----------------------------------------------------------------------------
(* Others' writes falsify none of it. *)
LEMMA ChildrenGrow ==
  ASSUME NEW S, NEW T, S \subseteq T
  PROVE  \A g : /\ ChildGroups(S, g) \subseteq ChildGroups(T, g)
                /\ ChildArrays(S, g) \subseteq ChildArrays(T, g)
                /\ Subtree(S, g) \subseteq Subtree(T, g)
BY ReachableGrows DEF ChildGroups, ChildArrays, Subtree

LEMMA KidsListedLater ==
  ASSUME NEW ks, NEW g, NEW S, NEW T, T \subseteq S, KidsListed(ks, g, S)
  PROVE  KidsListed(ks, g, T)
BY ChildrenGrow DEF KidsListed, Kept

LEMMA FoundLater ==
  ASSUME NEW seq, NEW g, NEW S, NEW E, NEW T, NEW F,
         T \subseteq S, E \subseteq F, Found(seq, g, S, E)
  PROVE  Found(seq, g, T, F)
<1>1. Subtree(T, g) \subseteq Subtree(S, g) /\ Subtree(E, g) \subseteq Subtree(F, g)
  BY ChildrenGrow
<1> QED
  BY <1>1 DEF Found

LEMMA JustifiedLater ==
  ASSUME NEW a, NEW S, NEW E, NEW T, NEW F,
         T \subseteq S, E \subseteq F, Justified(a, S, E)
  PROVE  Justified(a, T, F)
<1>1. /\ Reachable(T) \subseteq Reachable(S)
      /\ Reachable(E) \subseteq Reachable(F)
      /\ Reachable(E \cup {Root}) \subseteq Reachable(F \cup {Root})
  <2>1. E \cup {Root} \subseteq F \cup {Root}
    OBVIOUS
  <2> QED
    BY <2>1, ReachableGrows
<1>2. \A g : /\ ChildArrays(T, g) \subseteq ChildArrays(S, g)
             /\ ChildArrays(E, g) \subseteq ChildArrays(F, g)
  BY ChildrenGrow
<1>3. ASSUME NEW ns, ListJustified(ns, S, E)
      PROVE  ListJustified(ns, T, F)
  <2>1. \A i \in DOMAIN ns :
          /\ ns[i].path \in Reachable(F)
          /\ ChildArrays(T, ns[i].path) \subseteq ns[i].vars
          /\ ns[i].vars \subseteq ChildArrays(F, ns[i].path)
    <3> TAKE i \in DOMAIN ns
    <3>1. /\ ns[i].path \in Reachable(E)
          /\ ChildArrays(S, ns[i].path) \subseteq ns[i].vars
          /\ ns[i].vars \subseteq ChildArrays(E, ns[i].path)
      BY <1>3 DEF ListJustified
    <3> QED
      BY <1>1, <1>2, <3>1
  <2>2. \A g \in Reachable(T) : \E i \in DOMAIN ns : ns[i].path = g
    BY <1>1, <1>3 DEF ListJustified
  <2> QED
    BY <1>3, <2>1, <2>2 DEF ListJustified
<1>4. NotFoundJustified(S, E) => NotFoundJustified(T, F)
  BY <1>1 DEF NotFoundJustified
<1>5. OtherJustified(S, E) => OtherJustified(T, F)
  <2> SUFFICES ASSUME OtherJustified(S, E) PROVE OtherJustified(T, F)
    OBVIOUS
  <2>1. PICK g \in Reachable(E \cup {Root}) :
          \/ g \in Faulty
          \/ \E b \in ChildArrays(E, g) : b \in Faulty \/ b \notin S
    BY DEF OtherJustified
  <2>2. g \in Reachable(F \cup {Root}) /\ ChildArrays(E, g) \subseteq ChildArrays(F, g)
    BY <1>1, <1>2
  <2>3. \/ g \in Faulty
        \/ \E b \in ChildArrays(F, g) : b \in Faulty \/ b \notin T
    BY <2>1, <2>2
  <2> QED
    BY <2>2, <2>3 DEF OtherJustified
<1> QED
  BY <1>3, <1>4, <1>5 DEF Justified

(* A step that takes the walk no further keeps its invariant. *)
LEMMA WalkInvLater ==
  ASSUME WalkInv, stable' \subseteq stable, ever \subseteq ever',
         UNCHANGED <<phase, task, kids, out, paths, opener, vars, answer>>
  PROVE  WalkInv'
<1>1. /\ Reachable(ever) \subseteq Reachable(ever')
      /\ Reachable(stable') \subseteq Reachable(stable)
  BY ReachableGrows
<1>2. \A g : /\ ChildArrays(stable', g) \subseteq ChildArrays(stable, g)
             /\ ChildArrays(ever, g) \subseteq ChildArrays(ever', g)
  BY ChildrenGrow
<1>3. Discovered'
  <2>1. ASSUME NEW g \in Groups
        PROVE  /\ task[g] # "idle" => g = Root \/ g \in Reachable(ever')
               /\ task[g] \in {"listing", "joining", "done"} => g \in Reachable(ever')
               /\ task[g] \in {"joining", "done"} => KidsListed(kids[g], g, stable')
               /\ task[g] = "done" => Found(out[g], g, stable', ever')
    BY <1>1, KidsListedLater, FoundLater DEF WalkInv, Discovered
  <2> QED
    BY <2>1 DEF WalkInv, Discovered
<1>4. Gathered'
  <2>1. ASSUME phase = "open"
        PROVE  /\ paths \in Seq(Groups) /\ InPreOrder(paths, Root)
               /\ Reachable(stable') \subseteq ToSet(paths)
               /\ \A g \in ToSet(paths) : g = Root \/ g \in Reachable(ever')
    BY <1>1, <2>1 DEF WalkInv, Gathered
  <2>2. ASSUME phase = "open", NEW g \in Groups
        PROVE  /\ opener[g] # "idle" <=> g \in ToSet(paths)
               /\ opener[g] \in {"listing", "arrays"} => g \in Reachable(ever')
               /\ opener[g] = "arrays" => ChildArrays(stable', g) \subseteq vars[g]
               /\ opener[g] # "arrays" => vars[g] = {}
               /\ vars[g] \subseteq ChildArrays(ever', g)
    BY <1>1, <1>2, <2>2 DEF WalkInv, Gathered
  <2> QED
    BY <2>1, <2>2 DEF Gathered
<1>5. Answered'
  BY JustifiedLater DEF WalkInv, Answered
<1> QED
  BY <1>3, <1>4, <1>5 DEF WalkInv

(* The sequence of one path is in pre-order. *)
LEMMA OnePath ==
  ASSUME NEW g
  PROVE  InPreOrder(<<g>>, g) /\ ToSet(<<g>>) = {g}
<1>1. /\ DOMAIN <<g>> = 1 .. 1 /\ Len(<<g>>) = 1 /\ <<g>>[1] = g
      /\ \A k \in 1 .. 1 : k = 1
  OBVIOUS
<1> QED
  BY <1>1 DEF InPreOrder, ToSet

LEMMA InitWalkInv == Init => WalkInv
<1> SUFFICES ASSUME Init PROVE WalkInv
  OBVIOUS
<1>1. Root \in Groups
  BY HierarchyAssumption DEF HierarchyAssumption
<1>2. Discovered
  BY DEF Init, Discovered
<1>3. Gathered
  <2> SUFFICES ASSUME phase = "open" PROVE Gathered
    BY DEF Gathered
  <2>1. /\ ~Recursive /\ paths = <<Root>> /\ opener = OpenersFor(<<Root>>)
        /\ vars = [g \in Groups |-> {}]
    BY DEF Init
  <2>2. paths \in Seq(Groups) /\ InPreOrder(paths, Root) /\ ToSet(paths) = {Root}
    BY <1>1, <2>1, OnePath
  <2>3. Reachable(stable) \subseteq ToSet(paths)
    BY <2>1, <2>2 DEF Reachable
  <2>4. \A g \in Groups : /\ opener[g] = IF g \in ToSet(paths) THEN "opening" ELSE "idle"
                          /\ vars[g] = {}
    BY <2>1 DEF OpenersFor
  <2> QED
    BY <2>2, <2>3, <2>4 DEF Gathered
<1>4. Answered
  BY DEF Init, Answered
<1> QED
  BY <1>2, <1>3, <1>4 DEF WalkInv

-----------------------------------------------------------------------------
(* The first error is the answer when it has a reason. *)
LEMMA FailWalkInv ==
  ASSUME NEW kind, Fail(kind),
         Justified([kind |-> kind, nodes |-> <<>>], stable, ever)
  PROVE  WalkInv'
<1>1. Discovered'
  BY DEF Fail, Discovered
<1>2. Gathered'
  BY DEF Fail, Gathered
<1>3. Answered'
  BY DEF Fail, store, Answered
<1> QED
  BY <1>1, <1>2, <1>3 DEF WalkInv

(* A group was asked for because its way down from Root was there, or it   *)
(* is Root, so that an error about it has a reason.                        *)
LEMMA GroupReasons ==
  ASSUME TypeOK, NEW g \in Groups, g = Root \/ g \in Reachable(ever)
  PROVE  /\ g \notin present =>
              Justified([kind |-> "NotFound", nodes |-> <<>>], stable, ever)
         /\ g \in Faulty =>
              Justified([kind |-> "Other", nodes |-> <<>>], stable, ever)
<1>1. g \in Reachable(ever \cup {Root})
  <2>1. Root \in Reachable(ever \cup {Root})
    BY ReachableRoot
  <2>2. Reachable(ever) \subseteq Reachable(ever \cup {Root})
    BY ReachableGrows
  <2> QED
    BY <2>1, <2>2
<1>2. g \notin present => g \notin stable
  BY DEF TypeOK
<1>3. g \notin present => NotFoundJustified(stable, ever)
  BY <1>1, <1>2 DEF NotFoundJustified
<1>4. g \in Faulty => OtherJustified(stable, ever)
  BY <1>1 DEF OtherJustified
<1> QED
  BY <1>3, <1>4 DEF Justified

(* An awaited array was listed below a group that was found. *)
LEMMA ArrayReasons ==
  ASSUME TypeOK, WalkInv, phase = "open", NEW a \in AwaitedArrays,
         a \in Faulty \/ a \notin present
  PROVE  Justified([kind |-> "Other", nodes |-> <<>>], stable, ever)
<1>1. PICK g \in Groups : a \in vars[g]
  BY DEF AwaitedArrays
<1>2. g \in Reachable(ever) /\ a \in ChildArrays(ever, g)
  BY <1>1 DEF WalkInv, Gathered
<1>3. g \in Reachable(ever \cup {Root})
  BY <1>2, ReachableGrows
<1>4. a \in Faulty \/ a \notin stable
  BY DEF TypeOK
<1>5. OtherJustified(stable, ever)
  BY <1>2, <1>3, <1>4 DEF OtherJustified
<1> QED
  BY <1>5 DEF Justified

-----------------------------------------------------------------------------
(* What a step of discovery that does not end it has to show. *)
LEMMA DiscoverWalkInv ==
  ASSUME WalkInv, phase = "discover",
         UNCHANGED <<store, phase, paths, opener, vars, answer>>,
         DOMAIN out' = Groups, out' = [g \in Groups |-> out'[g]],
         \A g \in Groups :
           /\ task'[g] # "idle" => g = Root \/ g \in Reachable(ever)
           /\ task'[g] \in {"listing", "joining", "done"} => g \in Reachable(ever)
           /\ task'[g] \in {"joining", "done"} => KidsListed(kids'[g], g, stable)
           /\ task'[g] = "done" => Found(out'[g], g, stable, ever)
  PROVE  WalkInv'
<1>1. Discovered'
  BY DEF WalkInv, Discovered, store
<1>2. Gathered' /\ Answered'
  BY DEF WalkInv, Gathered, Answered
<1> QED
  BY <1>1, <1>2 DEF WalkInv

LEMMA AcquireWalkInv ==
  ASSUME TypeOK, WalkInv, NEW g \in Groups, Acquire(g)
  PROVE  WalkInv'
<1>1. \A h \in Groups : task'[h] = IF h = g THEN "opening" ELSE task[h]
  BY DEF Acquire, TypeOK
<1>2. phase = "discover" /\ task[g] = "queued"
      /\ UNCHANGED <<store, phase, kids, out, paths, opener, vars, answer>>
  BY DEF Acquire, opening
<1>3. /\ DOMAIN out = Groups /\ out = [h \in Groups |-> out[h]]
      /\ \A h \in Groups :
        /\ task[h] # "idle" => h = Root \/ h \in Reachable(ever)
        /\ task[h] \in {"listing", "joining", "done"} => h \in Reachable(ever)
        /\ task[h] \in {"joining", "done"} => KidsListed(kids[h], h, stable)
        /\ task[h] = "done" => Found(out[h], h, stable, ever)
  BY DEF WalkInv, Discovered
<1> QED
  BY <1>1, <1>2, <1>3, DiscoverWalkInv

LEMMA OpenGroupWalkInv ==
  ASSUME TypeOK, WalkInv, NEW g \in Groups, OpenGroup(g)
  PROVE  WalkInv'
<1>1. \A h \in Groups : task'[h] = IF h = g THEN "listing" ELSE task[h]
  BY DEF OpenGroup, TypeOK
<1>2. phase = "discover" /\ task[g] = "opening"
      /\ UNCHANGED <<store, phase, kids, out, paths, opener, vars, answer>>
  BY DEF OpenGroup, opening
<1>3. /\ DOMAIN out = Groups /\ out = [h \in Groups |-> out[h]]
      /\ \A h \in Groups :
        /\ task[h] # "idle" => h = Root \/ h \in Reachable(ever)
        /\ task[h] \in {"listing", "joining", "done"} => h \in Reachable(ever)
        /\ task[h] \in {"joining", "done"} => KidsListed(kids[h], h, stable)
        /\ task[h] = "done" => Found(out[h], h, stable, ever)
  BY DEF WalkInv, Discovered
<1>4. g \in Reachable(ever)
  <2>1. g \in ever
    BY DEF OpenGroup, TypeOK
  <2> QED
    BY <1>2, <1>3, <2>1, ReachableRoot
<1> QED
  BY <1>1, <1>2, <1>3, <1>4, DiscoverWalkInv

LEMMA ListKidsWalkInv ==
  ASSUME TypeOK, WalkInv, NEW g \in Groups, ListKids(g)
  PROVE  WalkInv'
<1> DEFINE S == Kept(ChildGroups(present, g))
<1>1. PICK order \in SetToSeqs(S) :
        /\ kids' = [kids EXCEPT ![g] = order]
        /\ task' = [h \in Groups |->
                      IF h = g THEN "joining"
                      ELSE IF h \in ToSet(order) THEN "queued" ELSE task[h]]
  BY DEF ListKids
<1>2. /\ S \subseteq Groups /\ IsFiniteSet(S)
      /\ \A c \in S : c \in present \cap Groups /\ c \in Keep /\ IsChild(g, c)
      /\ Kept(ChildGroups(stable, g)) \subseteq S
  <2>1. S \subseteq Groups
    BY DEF Kept, ChildGroups
  <2> QED
    BY <2>1, HoldersFinite DEF Kept, ChildGroups, TypeOK
<1> HIDE DEF S
<1>3. /\ \A i, j \in DOMAIN order : order[i] = order[j] => i = j
      /\ ToSet(order) = S
  BY <1>2, OrderOfSet
<1>4. phase = "discover" /\ task[g] = "listing"
      /\ UNCHANGED <<store, phase, out, paths, opener, vars, answer>>
  BY DEF ListKids, opening
<1>5. /\ DOMAIN out = Groups /\ out = [h \in Groups |-> out[h]]
      /\ \A h \in Groups :
        /\ task[h] # "idle" => h = Root \/ h \in Reachable(ever)
        /\ task[h] \in {"listing", "joining", "done"} => h \in Reachable(ever)
        /\ task[h] \in {"joining", "done"} => KidsListed(kids[h], h, stable)
        /\ task[h] = "done" => Found(out[h], h, stable, ever)
  BY DEF WalkInv, Discovered
<1>6. Recursive /\ g \in Reachable(ever)
  BY <1>4, <1>5 DEF WalkInv, Discovered
<1>7. \A c \in S : c \in Reachable(ever)
  BY <1>2, <1>6, ReachableChild DEF TypeOK
<1>8. KidsListed(order, g, stable)
  BY <1>2, <1>3 DEF KidsListed
<1>9. \A h \in Groups :
        /\ task'[h] = IF h = g THEN "joining"
                      ELSE IF h \in S THEN "queued" ELSE task[h]
        /\ kids'[h] = IF h = g THEN order ELSE kids[h]
  BY <1>1, <1>3 DEF TypeOK
<1> QED
  BY <1>4, <1>5, <1>6, <1>7, <1>8, <1>9, DiscoverWalkInv

(* A future that can join has found its subtree. *)
LEMMA JoinableFound ==
  ASSUME IInv, WalkInv, phase = "discover", NEW g \in Groups, Joinable(g)
  PROVE  Found(Collected(g), g, stable, ever)
<1>1. TypeOK /\ g \in Reachable(ever) /\ KidsListed(kids[g], g, stable)
  BY DEF IInv, Joinable, WalkInv, Discovered
<1>2. ASSUME NEW i \in DOMAIN kids[g]
      PROVE  IsChild(g, kids[g][i]) /\ Found(out[kids[g][i]], kids[g][i], stable, ever)
  <2>1. kids[g][i] \in Groups /\ task[kids[g][i]] = "done"
    BY <1>1 DEF Joinable, TypeOK
  <2>2. IsChild(g, kids[g][i])
    BY DEF IInv, Structured
  <2> QED
    BY <2>1, <2>2 DEF WalkInv, Discovered
<1> QED
  BY <1>1, <1>2, CollectedFound

LEMMA JoinWalkInv ==
  ASSUME IInv, WalkInv, NEW g \in Groups, Join(g)
  PROVE  WalkInv'
<1>1. Found(Collected(g), g, stable, ever)
  BY JoinableFound DEF Join
<1>2. /\ phase = "discover" /\ task[g] = "joining"
      /\ out' = [out EXCEPT ![g] = Collected(g)]
      /\ UNCHANGED <<store, phase, kids, paths, opener, vars, answer>>
  BY DEF Join, Joinable, opening
<1>3. \A h \in Groups : task'[h] = IF h = g THEN "done" ELSE task[h]
  BY DEF Join, IInv, TypeOK
<1>4. /\ DOMAIN out = Groups /\ out = [h \in Groups |-> out[h]]
      /\ \A h \in Groups :
        /\ task[h] # "idle" => h = Root \/ h \in Reachable(ever)
        /\ task[h] \in {"listing", "joining", "done"} => h \in Reachable(ever)
        /\ task[h] \in {"joining", "done"} => KidsListed(kids[h], h, stable)
        /\ task[h] = "done" => Found(out[h], h, stable, ever)
  BY DEF WalkInv, Discovered
<1>5. DOMAIN out' = Groups /\ out' = [h \in Groups |-> out'[h]]
  BY <1>2, <1>4
<1>6. ASSUME NEW h \in Groups, task'[h] = "done"
      PROVE  Found(out'[h], h, stable, ever)
  <2>1. CASE h = g
    <3>1. out'[h] = Collected(g)
      BY <1>2, <1>4, <2>1
    <3> QED
      BY <1>1, <2>1, <3>1
  <2>2. CASE h # g
    <3>1. out'[h] = out[h] /\ task[h] = "done"
      BY <1>2, <1>3, <1>4, <1>6, <2>2
    <3> QED
      BY <1>4, <3>1
  <2> QED
    BY <2>1, <2>2
<1> QED
  BY <1>2, <1>3, <1>4, <1>5, <1>6, DiscoverWalkInv

(* Discovery is over: what it has found is the root's subtree, all of it.  *)
LEMMA JoinRootWalkInv ==
  ASSUME IInv, WalkInv, JoinRoot
  PROVE  WalkInv'
<1> DEFINE c == Collected(Root)
<1>1. /\ phase = "discover" /\ Joinable(Root) /\ phase' = "open"
      /\ out' = [out EXCEPT ![Root] = c] /\ paths' = c /\ opener' = OpenersFor(c)
      /\ UNCHANGED <<store, kids, vars, answer>>
      /\ task' = [task EXCEPT ![Root] = "done"]
  BY DEF JoinRoot
<1>2. Root \in Groups
  BY HierarchyAssumption DEF HierarchyAssumption
<1>3. Found(c, Root, stable, ever)
  BY <1>1, <1>2, JoinableFound
<1> HIDE DEF c
<1>4. \A h \in Groups : task'[h] = IF h = Root THEN "done" ELSE task[h]
  BY <1>1 DEF IInv, TypeOK
<1>5. /\ DOMAIN out = Groups /\ out = [h \in Groups |-> out[h]]
      /\ \A h \in Groups :
           /\ vars[h] = {}
           /\ task[h] # "idle" => h = Root \/ h \in Reachable(ever)
           /\ task[h] \in {"listing", "joining", "done"} => h \in Reachable(ever)
           /\ task[h] \in {"joining", "done"} => KidsListed(kids[h], h, stable)
           /\ task[h] = "done" => Found(out[h], h, stable, ever)
  BY <1>1 DEF WalkInv, Discovered
<1>6. \A h \in Groups : out'[h] = IF h = Root THEN c ELSE out[h]
  BY <1>1, <1>2, <1>5
<1>7. Discovered'
  <2>1. phase' # "discover" /\ DOMAIN out' = Groups /\ out' = [h \in Groups |-> out'[h]]
    BY <1>1, <1>5
  <2>2. task[Root] = "joining" /\ stable' = stable /\ ever' = ever /\ kids' = kids
    BY <1>1 DEF Joinable, store
  <2>3. ASSUME NEW h \in Groups
        PROVE  /\ task'[h] # "idle" => h = Root \/ h \in Reachable(ever)
               /\ task'[h] \in {"listing", "joining", "done"} => h \in Reachable(ever)
               /\ task'[h] \in {"joining", "done"} => KidsListed(kids[h], h, stable)
               /\ task'[h] = "done" => Found(out'[h], h, stable, ever)
    BY <1>2, <1>3, <1>4, <1>5, <1>6, <2>2
  <2> QED
    BY <2>1, <2>2, <2>3 DEF Discovered
<1>8. Gathered'
  <2>1. c \in Seq(Groups) /\ InPreOrder(c, Root)
    BY <1>3 DEF Found
  <2>2. Reachable(stable) \subseteq ToSet(c) /\ ToSet(c) \subseteq Reachable(ever)
    BY <1>3 DEF Found, Subtree, Reachable
  <2>3. \A g \in Groups : opener'[g] = IF g \in ToSet(c) THEN "opening" ELSE "idle"
    BY <1>1 DEF OpenersFor
  <2>4. \A g \in Groups : vars'[g] = {}
    BY <1>1, <1>5
  <2>5. stable' = stable /\ ever' = ever /\ paths' = c
    BY <1>1 DEF store
  <2> QED
    BY <2>1, <2>2, <2>3, <2>4, <2>5 DEF Gathered
<1>9. Answered'
  BY <1>1 DEF WalkInv, Answered
<1> QED
  BY <1>7, <1>8, <1>9 DEF WalkInv

-----------------------------------------------------------------------------
(* What a step of opening that does not end it has to show. *)
LEMMA OpeningWalkInv ==
  ASSUME WalkInv, phase = "open",
         UNCHANGED <<store, phase, discovery, answer>>,
         \A g \in Groups :
           /\ opener'[g] # "idle" <=> opener[g] # "idle"
           /\ opener'[g] \in {"listing", "arrays"} => g \in Reachable(ever)
           /\ opener'[g] = "arrays" => ChildArrays(stable, g) \subseteq vars'[g]
           /\ opener'[g] # "arrays" => vars'[g] = {}
           /\ vars'[g] \subseteq ChildArrays(ever, g)
  PROVE  WalkInv'
<1>1. Discovered'
  BY DEF WalkInv, Discovered, store, discovery
<1>2. Gathered'
  <2>1. paths' = paths /\ stable' = stable /\ ever' = ever
    BY DEF store, discovery
  <2>2. /\ paths \in Seq(Groups) /\ InPreOrder(paths, Root)
        /\ Reachable(stable) \subseteq ToSet(paths)
        /\ \A g \in ToSet(paths) : g = Root \/ g \in Reachable(ever)
        /\ \A g \in Groups : opener[g] # "idle" <=> g \in ToSet(paths)
    BY DEF WalkInv, Gathered
  <2> QED
    BY <2>1, <2>2 DEF Gathered
<1>3. Answered'
  BY DEF WalkInv, Answered
<1> QED
  BY <1>1, <1>2, <1>3 DEF WalkInv

LEMMA OpenNodeWalkInv ==
  ASSUME TypeOK, WalkInv, NEW g \in Groups, OpenNode(g)
  PROVE  WalkInv'
<1>1. /\ phase = "open" /\ opener[g] = "opening" /\ g \in present
      /\ UNCHANGED <<store, phase, discovery, vars, answer>>
  BY DEF OpenNode
<1>2. \A h \in Groups : opener'[h] = IF h = g THEN "listing" ELSE opener[h]
  BY DEF OpenNode, TypeOK
<1>3. \A h \in Groups :
        /\ opener[h] # "idle" <=> h \in ToSet(paths)
        /\ opener[h] \in {"listing", "arrays"} => h \in Reachable(ever)
        /\ opener[h] = "arrays" => ChildArrays(stable, h) \subseteq vars[h]
        /\ opener[h] # "arrays" => vars[h] = {}
        /\ vars[h] \subseteq ChildArrays(ever, h)
  BY <1>1 DEF WalkInv, Gathered
<1>4. g \in Reachable(ever)
  <2>1. g = Root \/ g \in Reachable(ever)
    BY <1>1, <1>3 DEF WalkInv, Gathered
  <2>2. g \in ever
    BY <1>1 DEF TypeOK
  <2> QED
    BY <2>1, <2>2, ReachableRoot
<1> QED
  BY <1>1, <1>2, <1>3, <1>4, OpeningWalkInv

LEMMA ListArraysWalkInv ==
  ASSUME TypeOK, WalkInv, NEW g \in Groups, ListArrays(g)
  PROVE  WalkInv'
<1>1. /\ phase = "open" /\ opener[g] = "listing"
      /\ UNCHANGED <<store, phase, discovery, answer>>
  BY DEF ListArrays
<1>2. \A h \in Groups :
        /\ opener'[h] = IF h = g THEN "arrays" ELSE opener[h]
        /\ vars'[h] = IF h = g THEN ChildArrays(present, g) ELSE vars[h]
  BY DEF ListArrays, TypeOK
<1>3. \A h \in Groups :
        /\ opener[h] # "idle" <=> h \in ToSet(paths)
        /\ opener[h] \in {"listing", "arrays"} => h \in Reachable(ever)
        /\ opener[h] = "arrays" => ChildArrays(stable, h) \subseteq vars[h]
        /\ opener[h] # "arrays" => vars[h] = {}
        /\ vars[h] \subseteq ChildArrays(ever, h)
  BY <1>1 DEF WalkInv, Gathered
<1>4. /\ ChildArrays(stable, g) \subseteq ChildArrays(present, g)
      /\ ChildArrays(present, g) \subseteq ChildArrays(ever, g)
  BY ChildrenGrow DEF TypeOK
<1> QED
  BY <1>1, <1>2, <1>3, <1>4, OpeningWalkInv

LEMMA OpenArrayWalkInv ==
  ASSUME WalkInv, NEW a \in Arrays, OpenArray(a)
  PROVE  WalkInv'
BY WalkInvLater DEF OpenArray, store, discovery

(* Everything is open: what was found is what is returned. *)
LEMMA ReturnWalkInv ==
  ASSUME TypeOK, WalkInv, Return
  PROVE  WalkInv'
<1> DEFINE ns == [i \in DOMAIN paths |->
                    [path |-> paths[i], vars |-> vars[paths[i]] \cap opened]]
<1>1. /\ phase = "open" /\ phase' = "returned" /\ AllOpened
      /\ answer' = [kind |-> "ok", nodes |-> ns]
      /\ UNCHANGED <<store, discovery, opening>>
  BY DEF Return
<1>2. /\ paths \in Seq(Groups) /\ InPreOrder(paths, Root)
      /\ Reachable(stable) \subseteq ToSet(paths)
      /\ \A g \in Groups :
           /\ opener[g] # "idle" <=> g \in ToSet(paths)
           /\ opener[g] \in {"listing", "arrays"} => g \in Reachable(ever)
           /\ opener[g] = "arrays" => ChildArrays(stable, g) \subseteq vars[g]
           /\ vars[g] \subseteq ChildArrays(ever, g)
  BY <1>1 DEF WalkInv, Gathered
<1>3. ASSUME NEW i \in DOMAIN paths
      PROVE  /\ paths[i] \in Reachable(ever)
             /\ vars[paths[i]] \cap opened = vars[paths[i]]
             /\ ChildArrays(stable, paths[i]) \subseteq vars[paths[i]]
             /\ vars[paths[i]] \subseteq ChildArrays(ever, paths[i])
  <2>1. paths[i] \in Groups /\ paths[i] \in ToSet(paths)
    BY <1>2 DEF ToSet
  <2>2. opener[paths[i]] = "arrays"
    BY <1>1, <1>2, <2>1 DEF AllOpened
  <2>3. vars[paths[i]] \subseteq opened
    <3> DEFINE U == UNION {vars[g] : g \in Groups}
               V == vars[paths[i]]
    <3>1. U \ opened = {}
      <4>1. AwaitedArrays = {}
        BY <1>1 DEF AllOpened
      <4> QED
        BY <4>1 DEF AwaitedArrays
    <3>2. V \subseteq U
      BY <2>1
    <3> HIDE DEF U, V
    <3>3. V \subseteq opened
      BY <3>1, <3>2
    <3> QED
      BY <3>3 DEF V
  <2> QED
    BY <1>2, <2>1, <2>2, <2>3
<1>4. /\ Len(paths) \in Nat \ {0} /\ DOMAIN paths = 1 .. Len(paths)
      /\ paths[1] = Root
      /\ \A i, j \in DOMAIN paths : Above(paths[i], paths[j]) => i <= j
  BY <1>2 DEF InPreOrder
<1>5. /\ DOMAIN ns = DOMAIN paths /\ Len(ns) = Len(paths)
      /\ \A i \in DOMAIN paths :
           ns[i].path = paths[i] /\ ns[i].vars = vars[paths[i]] \cap opened
  BY <1>4
<1> HIDE DEF ns
<1>6. \A g \in Reachable(stable) : \E i \in DOMAIN ns : ns[i].path = g
  BY <1>2, <1>5 DEF ToSet
<1>7. ListJustified(ns, stable, ever)
  <2>1. \A i \in DOMAIN ns :
           /\ ns[i].path \in Reachable(ever)
           /\ ChildArrays(stable, ns[i].path) \subseteq ns[i].vars
           /\ ns[i].vars \subseteq ChildArrays(ever, ns[i].path)
    BY <1>3, <1>5
  <2>2. \A i, j \in DOMAIN ns : Above(ns[i].path, ns[j].path) => i <= j
    BY <1>4, <1>5
  <2>3. Len(ns) \in Nat \ {0} /\ DOMAIN ns = 1 .. Len(ns) /\ ns[1].path = Root
    BY <1>4, <1>5
  <2> QED
    BY <1>6, <2>1, <2>2, <2>3 DEF ListJustified
<1>8. Answered'
  <2>1. Justified(answer', stable, ever)
    BY <1>1, <1>7 DEF Justified
  <2>2. stable' = stable /\ ever' = ever /\ phase' = "returned"
    BY <1>1 DEF store
  <2> QED
    BY <2>1, <2>2 DEF Answered
<1>9. Discovered'
  BY <1>1 DEF WalkInv, Discovered, store, discovery, opening
<1>10. Gathered'
  BY <1>1 DEF Gathered
<1> QED
  BY <1>8, <1>9, <1>10 DEF WalkInv

-----------------------------------------------------------------------------
(* Every step of the walk keeps its invariant, and so does a write. *)
LEMMA WriteWalkInv ==
  ASSUME WalkInv, TypeOK, NEW n, Write(n)
  PROVE  WalkInv'
<1>1. stable' \subseteq stable /\ ever \subseteq ever'
      /\ UNCHANGED <<phase, task, kids, out, paths, opener, vars, answer>>
  BY DEF Write, discovery, opening
<1> QED
  BY <1>1, WalkInvLater

LEMMA DiscoverStepWalkInv ==
  ASSUME IInv, WalkInv, Discover
  PROVE  WalkInv'
<1>1. TypeOK
  BY DEF IInv
<1>2. ASSUME NEW g \in Groups, GroupMissing(g)
      PROVE  WalkInv'
  <2>1. phase = "discover" /\ task[g] # "idle" /\ g \notin present /\ Fail("NotFound")
    BY <1>2 DEF GroupMissing
  <2> QED
    BY <1>1, <2>1, GroupReasons, FailWalkInv DEF WalkInv, Discovered
<1>3. ASSUME NEW g \in Groups, DiscoveryFault(g)
      PROVE  WalkInv'
  <2>1. phase = "discover" /\ task[g] # "idle" /\ g \in Faulty /\ Fail("Other")
    BY <1>3 DEF DiscoveryFault, Holders
  <2> QED
    BY <1>1, <2>1, GroupReasons, FailWalkInv DEF WalkInv, Discovered
<1> QED
  BY <1>1, <1>2, <1>3, AcquireWalkInv, OpenGroupWalkInv, ListKidsWalkInv,
     JoinWalkInv, JoinRootWalkInv
     DEF Discover

LEMMA OpenStepWalkInv ==
  ASSUME IInv, WalkInv, Open
  PROVE  WalkInv'
<1>1. TypeOK
  BY DEF IInv
<1>2. ASSUME NEW g \in Groups, opener[g] # "idle", phase = "open"
      PROVE  g = Root \/ g \in Reachable(ever)
  BY <1>2 DEF WalkInv, Gathered
<1>3. ASSUME NEW g \in Groups, NodeMissing(g)
      PROVE  WalkInv'
  <2>1. phase = "open" /\ opener[g] # "idle" /\ g \notin present /\ Fail("NotFound")
    BY <1>3 DEF NodeMissing
  <2> QED
    BY <1>1, <1>2, <2>1, GroupReasons, FailWalkInv
<1>4. ASSUME NEW a \in Arrays, ArrayMissing(a)
      PROVE  WalkInv'
  <2>1. phase = "open" /\ a \in AwaitedArrays /\ a \notin present /\ Fail("Other")
    BY <1>4 DEF ArrayMissing
  <2> QED
    BY <1>1, <2>1, ArrayReasons, FailWalkInv
<1>5. ASSUME NEW n \in Nodes, OpenFault(n)
      PROVE  WalkInv'
  <2>1. phase = "open" /\ n \in Faulty /\ Fail("Other")
    BY <1>5 DEF OpenFault
  <2>2. CASE n \in Groups /\ opener[n] \in {"opening", "listing"}
    BY <1>1, <1>2, <2>1, <2>2, GroupReasons, FailWalkInv
  <2>3. CASE n \in AwaitedArrays
    BY <1>1, <2>1, <2>3, ArrayReasons, FailWalkInv
  <2> QED
    BY <1>5, <2>2, <2>3 DEF OpenFault
<1> QED
  BY <1>1, <1>3, <1>4, <1>5, OpenNodeWalkInv, ListArraysWalkInv,
     OpenArrayWalkInv, ReturnWalkInv
     DEF Open

LEMMA StepWalkInv == IInv /\ WalkInv /\ [Next]_allVars => WalkInv'
<1> SUFFICES ASSUME IInv, WalkInv, [Next]_allVars PROVE WalkInv'
  OBVIOUS
<1>1. CASE \E n \in Nodes : Write(n)
  BY <1>1, WriteWalkInv DEF IInv
<1>2. CASE UNCHANGED allVars
  BY <1>2, WalkInvLater DEF allVars, store, discovery, opening
<1> QED
  BY <1>1, <1>2, DiscoverStepWalkInv, OpenStepWalkInv DEF Next, Returned

LEMMA WalkInvariance == Spec => []WalkInv
BY Invariance, InitWalkInv, StepWalkInv, PTL DEF Spec

LEMMA FoundInPreOrder == WalkInv => PreOrder
BY DEF WalkInv, Discovered, Found, PreOrder

(* What a future hands to its parent is its subtree in pre-order, whatever *)
(* order the requests finished in: walk.rs:477-481, 513, 535-537.          *)
THEOREM FoundParentsFirst == Spec => []PreOrder
BY WalkInvariance, FoundInPreOrder, PTL

-----------------------------------------------------------------------------
(***************************************************************************)
(* The whole call: the walk, then the eager phase under the permits of the *)
(* same semaphore.                                                         *)
(***************************************************************************)

(* Before the eager phase nothing is fetched, and it comes after the walk. *)
Staged ==
  /\ stage = "walking" => fetch = <<>>
  /\ stage # "walking" => phase = "returned"

(* The reads in flight are finitely many. *)
FewReads == IsFiniteSet(Eager!InFlight)

(* The inductive invariant. *)
CallInv == TypeOK /\ Structured /\ Staged /\ FewReads /\ OneSemaphore

-----------------------------------------------------------------------------
(* As long as the call walks, no eager read holds a permit. *)
LEMMA NoReads == fetch = <<>> => Eager!InFlight = {}
BY DEF Eager!InFlight

(* Then the walk's invariant and the call's are the same. *)
LEMMA WalkHasAll ==
  ASSUME CallInv, stage = "walking"
  PROVE  IInv
<1>1. Cardinality(Eager!InFlight) = 0
  BY NoReads, FS_EmptySet DEF CallInv, Staged
<1>2. Cardinality(Holders) \in Nat /\ permits \in Int
  BY HoldersFinite, CapacityPositive DEF CallInv, TypeOK, Holders
<1>3. Balanced
  BY <1>1, <1>2 DEF CallInv, OneSemaphore, Balanced
<1> QED
  BY <1>3 DEF CallInv, IInv

LEMMA CallHasAll ==
  ASSUME IInv, Staged, fetch = <<>>
  PROVE  CallInv
<1>1. Eager!InFlight = {} /\ Cardinality(Eager!InFlight) = 0
  BY NoReads, FS_EmptySet
<1>2. Cardinality(Holders) \in Nat /\ permits \in Int
  BY HoldersFinite, CapacityPositive DEF IInv, TypeOK, Holders
<1>3. OneSemaphore
  BY <1>1, <1>2 DEF IInv, OneSemaphore, Balanced
<1>4. FewReads
  BY <1>1, FS_EmptySet DEF FewReads
<1> QED
  BY <1>3, <1>4 DEF IInv, CallInv

-----------------------------------------------------------------------------
(* The initial states satisfy the inductive invariant. *)
LEMMA CallInitInv == CallInit => CallInv
<1> SUFFICES ASSUME CallInit PROVE CallInv
  OBVIOUS
<1>1. IInv
  BY InitInv DEF CallInit
<1>2. Staged /\ fetch = <<>>
  BY DEF CallInit, Eager!Init, Staged
<1> QED
  BY <1>1, <1>2, CallHasAll

(* A step of the walk, or of another user of the store. *)
LEMMA VanillaStepInv ==
  ASSUME CallInv, stage = "walking", [Next]_allVars, UNCHANGED reading
  PROVE  CallInv'
<1>1. IInv'
  BY WalkHasAll, StepInv
<1>2. Staged' /\ fetch' = <<>>
  BY DEF CallInv, Staged, reading
<1>3. Eager!InFlight' = {}
  BY <1>2 DEF Eager!InFlight
<1>4. Cardinality(Eager!InFlight') = 0 /\ FewReads'
  BY <1>3, FS_EmptySet DEF FewReads
<1>5. Cardinality(Holders') \in Nat /\ permits' \in Int
  BY <1>1, HoldersFinite, CapacityPositive DEF IInv, TypeOK, Holders
<1>6. OneSemaphore'
  BY <1>1, <1>4, <1>5 DEF IInv, OneSemaphore, Balanced
<1> QED
  BY <1>1, <1>2, <1>4, <1>6 DEF IInv, CallInv

(* A step that leaves the permits, the futures and the reads alone. *)
LEMMA QuietStepInv ==
  ASSUME CallInv, TypeOK', Structured', Staged',
         UNCHANGED <<permits, task, fetch>>
  PROVE  CallInv'
<1>1. Holders' = Holders /\ Eager!InFlight' = Eager!InFlight
  BY DEF Holders, Eager!InFlight
<1>2. OneSemaphore' /\ FewReads'
  BY <1>1 DEF CallInv, OneSemaphore, FewReads, Capacity
<1> QED
  BY <1>2 DEF CallInv

(* Others may go on writing while the eager phase reads. *)
LEMMA OverwriteInv ==
  ASSUME CallInv, Overwrite
  PROVE  CallInv'
<1>1. PICK n \in Writable : Write(n)
  BY DEF Overwrite
<1>2. n \in Nodes
  BY <1>1 DEF Writable
<1>3. TypeOK'
  BY <1>1, <1>2, VanillaWalkAssumption
     DEF CallInv, TypeOK, Write, discovery, opening, VanillaWalkAssumption
<1>4. Structured'
  BY <1>1 DEF CallInv, Write, discovery, Structured
<1>5. Staged' /\ UNCHANGED <<permits, task, fetch>>
  BY <1>1 DEF CallInv, Overwrite, Write, discovery, reading, Staged
<1> QED
  BY <1>3, <1>4, <1>5, QuietStepInv

(* The snapshot walk answers in one step. *)
LEMMA WalkSnapshotInv ==
  ASSUME CallInv, WalkSnapshot
  PROVE  CallInv'
<1>1. answer'.kind \in AnswerKinds
  BY WalkRecursiveAssumption DEF WalkSnapshot, SnapshotAnswers, AnswerKinds
<1>2. UNCHANGED <<present, stable, ever>>
  BY DEF WalkSnapshot, Promised!Answer
<1>3. TypeOK'
  BY <1>1, <1>2 DEF CallInv, TypeOK, WalkSnapshot, discovery, opening, Capacity
<1>4. Structured'
  BY DEF WalkSnapshot, Structured
<1>5. Staged' /\ UNCHANGED <<permits, task, fetch>>
  BY DEF CallInv, WalkSnapshot, discovery, reading, Staged
<1> QED
  BY <1>3, <1>4, <1>5, QuietStepInv

(* The walk's error ends the call. *)
LEMMA WalkFailsInv ==
  ASSUME CallInv, WalkFails
  PROVE  CallInv'
<1>1. UNCHANGED <<permits, walking, fetch>> /\ phase = "returned" /\ stage' = "returned"
  BY DEF WalkFails
<1>2. TypeOK'
  BY <1>1 DEF CallInv, TypeOK, walking, store, opening, Capacity
<1>3. Structured'
  BY <1>1 DEF CallInv, walking, Structured
<1>4. Staged' /\ UNCHANGED <<permits, task, fetch>>
  BY <1>1 DEF walking, Staged
<1> QED
  BY <1>2, <1>3, <1>4, QuietStepInv

(* The eager phase begins: all its reads wait for a permit. *)
LEMMA BeginEagerInv ==
  ASSUME CallInv, BeginEager
  PROVE  CallInv'
<1>1. /\ stage = "walking" /\ stage' # "walking" /\ phase = "returned"
      /\ UNCHANGED <<permits, walking>>
  BY DEF BeginEager, Eager!Begin
<1>2. \A k \in DOMAIN fetch' : fetch'[k] # "reading"
  BY DEF BeginEager, Eager!Begin
<1>3. Eager!InFlight' = {} /\ Eager!InFlight = {}
  BY <1>1, <1>2, NoReads DEF CallInv, Staged, Eager!InFlight
<1>4. TypeOK'
  BY <1>1 DEF CallInv, TypeOK, walking, store, opening, Capacity
<1>5. Structured' /\ Staged' /\ Holders' = Holders
  BY <1>1 DEF CallInv, walking, Structured, Staged, Holders
<1>6. OneSemaphore' /\ FewReads'
  BY <1>1, <1>3, <1>5 DEF CallInv, OneSemaphore, FewReads, Capacity
<1> QED
  BY <1>4, <1>5, <1>6 DEF CallInv

(* What a step of the eager phase has to show: what it takes from the free *)
(* permits it adds to the reads in flight.                                 *)
LEMMA ReadInv ==
  ASSUME CallInv, UNCHANGED <<walking, stage>>, stage # "walking",
         IsFiniteSet(Eager!InFlight'), permits' \in Nat,
         permits' + Cardinality(Eager!InFlight')
           = permits + Cardinality(Eager!InFlight)
  PROVE  CallInv'
<1>1. Holders' = Holders /\ Cardinality(Holders) \in Nat
  BY HoldersFinite DEF walking, Holders
<1>2. /\ Cardinality(Eager!InFlight) \in Nat
      /\ Cardinality(Eager!InFlight') \in Nat
  BY FS_CardinalityType DEF CallInv, FewReads
<1>3. permits \in Nat
  BY CapacityPositive DEF CallInv, TypeOK
<1>4. OneSemaphore' /\ permits' <= Capacity
  BY <1>1, <1>2, <1>3, CapacityPositive DEF CallInv, OneSemaphore, Capacity
<1>5. TypeOK'
  BY <1>4, CapacityPositive
     DEF CallInv, TypeOK, walking, store, opening, Capacity
<1>6. Structured' /\ Staged'
  BY DEF CallInv, walking, Structured, Staged
<1> QED
  BY <1>4, <1>5, <1>6 DEF CallInv, FewReads

LEMMA ReadsInv ==
  ASSUME CallInv, EagerStep(Eager!Reads)
  PROVE  CallInv'
<1>1. PICK k \in DOMAIN fetch :
        Eager!Acquire(k) \/ Eager!Fetched(k) \/ Eager!Skipped(k)
  BY DEF EagerStep, Eager!Reads
<1>2. /\ permits \in Nat
      /\ IsFiniteSet(Eager!InFlight) /\ Cardinality(Eager!InFlight) \in Nat
  BY CapacityPositive, FS_CardinalityType DEF CallInv, TypeOK, FewReads
<1>3. stage # "walking" /\ UNCHANGED <<walking, stage>>
  <2>1. fetch # <<>>
    BY <1>1
  <2>2. UNCHANGED stage
    BY <1>1 DEF Eager!Acquire, Eager!Fetched, Eager!Skipped
  <2> QED
    BY <2>1, <2>2 DEF CallInv, Staged, EagerStep
<1>4. CASE Eager!Acquire(k)
  <2>1. Eager!InFlight' = Eager!InFlight \cup {k} /\ k \notin Eager!InFlight
    BY <1>1, <1>4 DEF Eager!Acquire, Eager!InFlight
  <2>2. /\ IsFiniteSet(Eager!InFlight')
        /\ Cardinality(Eager!InFlight') = Cardinality(Eager!InFlight) + 1
    BY <1>2, <2>1, FS_AddElement
  <2>3. permits' = permits - 1 /\ permits > 0
    BY <1>4 DEF Eager!Acquire
  <2> QED
    BY <1>2, <1>3, <2>2, <2>3, ReadInv
<1>5. CASE Eager!Fetched(k) \/ Eager!Skipped(k)
  <2>1. Eager!InFlight' = Eager!InFlight \ {k} /\ k \in Eager!InFlight
    BY <1>1, <1>5 DEF Eager!Fetched, Eager!Skipped, Eager!InFlight
  <2>2. /\ IsFiniteSet(Eager!InFlight')
        /\ Cardinality(Eager!InFlight') = Cardinality(Eager!InFlight) - 1
    BY <1>2, <2>1, FS_RemoveElement
  <2>3. permits' = permits + 1
    BY <1>5 DEF Eager!Fetched, Eager!Skipped, Eager!PermitAfterSkip
  <2> QED
    BY <1>2, <1>3, <2>2, <2>3, ReadInv
<1> QED
  BY <1>1, <1>4, <1>5

(* The values are assigned and the call returns. *)
LEMMA AssignInv ==
  ASSUME CallInv, EagerStep(Eager!Assign)
  PROVE  CallInv'
<1>1. /\ UNCHANGED <<permits, fetch, walking>>
      /\ stage = "reading" /\ stage' = "returned"
  BY DEF EagerStep, Eager!Assign
<1>2. TypeOK'
  BY <1>1 DEF CallInv, TypeOK, walking, store, opening, Capacity
<1>3. Structured' /\ Staged' /\ UNCHANGED <<permits, task, fetch>>
  BY <1>1 DEF CallInv, walking, Structured, Staged
<1> QED
  BY <1>2, <1>3, QuietStepInv

-----------------------------------------------------------------------------
(* Every step of the call keeps the inductive invariant. *)
LEMMA CallStepInv == CallInv /\ [CallNext]_callVars => CallInv'
<1> SUFFICES ASSUME CallInv, [CallNext]_callVars PROVE CallInv'
  OBVIOUS
<1>1. CASE VanillaStep(Discover) \/ VanillaStep(Open)
  <2>1. phase # "returned"
    BY <1>1
       DEF VanillaStep, Discover, Acquire, OpenGroup, GroupMissing, ListKids,
           Join, JoinRoot, DiscoveryFault, Open, OpenNode, NodeMissing,
           ListArrays, OpenArray, ArrayMissing, OpenFault, Return
  <2>2. stage = "walking"
    BY <2>1 DEF CallInv, Staged
  <2> QED
    BY <1>1, <2>2, VanillaStepInv DEF VanillaStep, Next
<1>2. CASE UNCHANGED callVars
  <2>1. UNCHANGED <<permits, walking, fetch, stage>>
    BY <1>2 DEF callVars, reading
  <2>2. TypeOK'
    BY <2>1 DEF CallInv, TypeOK, walking, store, opening, Capacity
  <2>3. Structured' /\ Staged' /\ UNCHANGED <<permits, task, fetch>>
    BY <2>1 DEF CallInv, walking, Structured, Staged
  <2> QED
    BY <2>2, <2>3, QuietStepInv
<1> QED
  BY <1>1, <1>2, OverwriteInv, WalkSnapshotInv, WalkFailsInv, BeginEagerInv,
     ReadsInv, AssignInv
     DEF CallNext, Call, CallReturned

LEMMA CallInvariance == CallSpec => []CallInv
BY CallInitInv, CallStepInv, PTL DEF CallSpec

(* The control state of the whole call is well formed: walk.rs:148-185.    *)
THEOREM CallTypeCorrect == CallSpec => []TypeOK
<1>1. CallInv => TypeOK
  BY DEF CallInv
<1> QED
  BY <1>1, CallInvariance, PTL

(* No permit of the one semaphore is lost or made by either phase:         *)
(* walk.rs:155, 496-511, 734-755.                                          *)
THEOREM OneSemaphoreForBoth == CallSpec => []OneSemaphore
<1>1. CallInv => OneSemaphore
  BY DEF CallInv
<1> QED
  BY <1>1, CallInvariance, PTL

(* Discovery is never stuck, in the whole call too: walk.rs:155, 483-488.  *)
THEOREM CallNeverStuck == CallSpec => []NeverStuck
<1>1. ASSUME CallInv
      PROVE  NeverStuck
  <2>1. CASE phase # "discover"
    BY <2>1 DEF NeverStuck
  <2>2. CASE stage = "walking"
    BY <1>1, <2>2, WalkHasAll, NeverStuckInv
  <2> QED
    BY <1>1, <2>1, <2>2 DEF CallInv, Staged
<1>2. CallInv => NeverStuck
  BY <1>1
<1> QED
  BY <1>2, CallInvariance, PTL

-----------------------------------------------------------------------------
(***************************************************************************)
(* Values land on their own variables: the position a result is assigned   *)
(* by names the variable it was read from, in whatever order the reads     *)
(* ended.  Once the call has returned nothing moves any more.              *)
(***************************************************************************)
Settled ==
  /\ stage = "walking" => nodes = <<>> /\ fetch = <<>>
  /\ stage = "returned" => \A k \in DOMAIN fetch : fetch[k] \in {"fetched", "skipped"}

LEMMA InitOwn == CallInit => Settled /\ OwnValues
BY DEF CallInit, Eager!Init, Settled, OwnValues, Eager!OwnValues

(* What is put on a variable is its own, or nothing. *)
LEMMA PlacedOwn ==
  ASSUME NEW i, NEW j
  PROVE  Eager!Placed(i, j) =
           IF \E k \in DOMAIN Eager!Work :
                Eager!Work[k] = <<i, j>> /\ fetch[k] = "fetched"
           THEN nodes[i][j].array ELSE Eager!Unread
<1> DEFINE ks == {k \in DOMAIN Eager!Work :
                    fetch[k] = "fetched" /\ Eager!Target(k, i, j)}
           k0 == CHOOSE k \in ks : TRUE
<1>1. CASE ks = {}
  BY <1>1 DEF Eager!Placed, Eager!Target
<1>2. CASE ks # {}
  <2>1. k0 \in ks
    BY <1>2
  <2>2. Eager!Work[k0] = <<i, j>> /\ fetch[k0] = "fetched" /\ k0 \in DOMAIN Eager!Work
    BY <2>1 DEF Eager!Target
  <2>3. Eager!VarAt(Eager!Work[k0]) = nodes[i][j]
    BY <2>2 DEF Eager!VarAt
  <2>4. Eager!Placed(i, j) = Eager!VarAt(Eager!Work[k0]).array
    BY <1>2 DEF Eager!Placed
  <2> QED
    BY <2>2, <2>3, <2>4
<1> QED
  BY <1>1, <1>2

LEMMA AssignOwn ==
  ASSUME Eager!Assign
  PROVE  OwnValues'
<1>1. UNCHANGED <<nodes, fetch>> /\ Eager!Work' = Eager!Work
  BY DEF Eager!Assign, Eager!Work
<1>2. SUFFICES ASSUME NEW i \in DOMAIN nodes, NEW j \in DOMAIN nodes[i]
               PROVE  eager'[i][j] =
                        IF \E k \in DOMAIN Eager!Work :
                             Eager!Work[k] = <<i, j>> /\ fetch[k] = "fetched"
                        THEN nodes[i][j].array ELSE Eager!Unread
  BY <1>1 DEF OwnValues, Eager!OwnValues
<1>3. eager'[i][j] = Eager!Placed(i, j)
  BY DEF Eager!Assign
<1> QED
  BY <1>3, PlacedOwn

LEMMA BeginOwn ==
  ASSUME BeginEager
  PROVE  OwnValues'
<1> DEFINE ns == ListedNodes
<1>1. /\ nodes' = ns /\ eager' = Eager!Lazy(ns)
      /\ stage' = IF Eager!WorkOf(ns) = <<>> THEN "returned" ELSE "reading"
  BY DEF BeginEager, Eager!Begin
<1>2. Eager!Work' = Eager!WorkOf(nodes')
  BY DEF Eager!Work
<1> HIDE DEF ns
<1>3. CASE stage' # "returned"
  BY <1>3 DEF OwnValues, Eager!OwnValues
<1>4. CASE stage' = "returned"
  <2>1. Eager!Work' = <<>> /\ DOMAIN Eager!Work' = {}
    BY <1>1, <1>2, <1>4
  <2>2. \A i \in DOMAIN nodes' : \A j \in DOMAIN nodes'[i] :
          eager'[i][j] = Eager!Unread
    BY <1>1 DEF Eager!Lazy
  <2> QED
    BY <2>1, <2>2 DEF OwnValues, Eager!OwnValues
<1> QED
  BY <1>3, <1>4

LEMMA StepOwn ==
  Settled /\ OwnValues /\ [CallNext]_callVars => Settled' /\ OwnValues'
<1> SUFFICES ASSUME Settled, OwnValues, [CallNext]_callVars
             PROVE  Settled' /\ OwnValues'
  OBVIOUS
<1>1. CASE UNCHANGED reading
  BY <1>1 DEF reading, Settled, OwnValues, Eager!OwnValues, Eager!Work
<1>2. CASE WalkFails
  BY <1>2 DEF WalkFails, Settled, OwnValues, Eager!OwnValues
<1>3. CASE BeginEager
  <2>1. stage' # "walking" /\ (stage' = "returned" => DOMAIN fetch' = {})
    BY <1>3 DEF BeginEager, Eager!Begin
  <2> QED
    BY <1>3, <2>1, BeginOwn DEF Settled
<1>4. CASE EagerStep(Eager!Reads)
  <2>1. PICK k \in DOMAIN fetch :
          Eager!Acquire(k) \/ Eager!Fetched(k) \/ Eager!Skipped(k)
    BY <1>4 DEF EagerStep, Eager!Reads
  <2>2. UNCHANGED <<nodes, stage>> /\ fetch[k] \in {"queued", "reading"}
    BY <2>1 DEF Eager!Acquire, Eager!Fetched, Eager!Skipped
  <2>3. stage # "returned" /\ stage # "walking"
    BY <2>1, <2>2 DEF Settled
  <2> QED
    BY <2>2, <2>3 DEF Settled, OwnValues, Eager!OwnValues
<1>5. CASE EagerStep(Eager!Assign)
  BY <1>5, AssignOwn DEF EagerStep, Eager!Assign, Settled
<1> QED
  BY <1>1, <1>2, <1>3, <1>4, <1>5
     DEF CallNext, Call, CallReturned, Overwrite, VanillaStep, WalkSnapshot, callVars

(* A variable holds values exactly if its own read succeeded, and its own: *)
(* walk.rs:723-729, 757-761.                                               *)
THEOREM ValuesLand == CallSpec => []OwnValues
BY InitOwn, StepOwn, PTL DEF CallSpec

-----------------------------------------------------------------------------
(***************************************************************************)
(* The call implements GroupWalk.                                          *)
(***************************************************************************)

(* Hierarchy as GroupWalk has it is Hierarchy as the walk has it. *)
LEMMA SameTree ==
  /\ \A S : Promised!Reachable(S) = Reachable(S) /\ Promise!Reachable(S) = Reachable(S)
  /\ \A S, g : /\ Promised!ChildArrays(S, g) = ChildArrays(S, g)
               /\ Promise!ChildArrays(S, g) = ChildArrays(S, g)
  /\ \A m, n : /\ Promised!Above(m, n) = Above(m, n)
               /\ Promise!Above(m, n) = Above(m, n)
  /\ Promise!Nodes = Nodes
BY DEF Promised!Reachable, Promise!Reachable, Promised!ChildArrays,
       Promise!ChildArrays, Promised!IsChild, Promise!IsChild,
       Promised!Above, Promise!Above, Promise!Nodes,
       Reachable, ChildArrays, IsChild, Above, Nodes

(* So are the groups that each kind of source comes to, and the parents    *)
(* that are missing.                                                       *)
LEMMA SameGroups ==
  /\ Promised!Asked \subseteq Groups
  /\ \A S : /\ Promised!Walkable(S) =
                IF source = "vanilla" THEN Reachable(S) ELSE S \cap Promised!Asked
            /\ Promise!Walkable(S) = Promised!Walkable(S)
  /\ Promise!Orphaning = Promised!Orphaning
<1>1. Promise!Asked = Promised!Asked /\ Promised!Asked \subseteq Groups
  BY SameTree DEF Promise!Asked, Promised!Asked
<1>2. \A S : /\ Promised!Walkable(S) =
                 IF source = "vanilla" THEN Reachable(S) ELSE S \cap Promised!Asked
             /\ Promise!Walkable(S) = Promised!Walkable(S)
  BY <1>1, SameTree DEF Promise!Walkable, Promised!Walkable
<1>3. Promise!Orphaning = Promised!Orphaning
  BY <1>1, SameTree DEF Promise!Orphaning, Promised!Orphaning
<1> QED
  BY <1>1, <1>2, <1>3

-----------------------------------------------------------------------------
(* What GroupWalk asks of an answer, of either source. *)
ListPromised(ns) ==
  /\ Len(ns) \in Nat /\ DOMAIN ns = 1 .. Len(ns)
  /\ source = "vanilla" => Len(ns) > 0 /\ ns[1].path = Root
  /\ source = "icechunk" => Promised!Orphaning = {}
  /\ \A g \in Promised!Walkable(stable) : \E i \in DOMAIN ns : ns[i].path = g
  /\ \A i \in DOMAIN ns :
       /\ ns[i].path \in Promised!Walkable(ever)
       /\ ChildArrays(stable, ns[i].path) \subseteq ns[i].vars
       /\ ns[i].vars \subseteq ChildArrays(ever, ns[i].path)
  /\ \A i, j \in DOMAIN ns : Above(ns[i].path, ns[j].path) => i <= j

MissingPromised ==
  source = "vanilla" /\ \E g \in Promised!Walkable(ever \cup {Root}) : g \notin stable

OtherPromised ==
  \/ \E g \in Promised!Walkable(ever \cup {Root}) :
       \/ g \in Faulty
       \/ \E a \in ChildArrays(ever, g) : a \in Faulty \/ a \notin stable
  \/ source = "icechunk" /\ Promised!Orphaning # {}

ErrorPromised(a) ==
  \/ a = [kind |-> "NotFound", nodes |-> <<>>] /\ MissingPromised
  \/ a = [kind |-> "Other", nodes |-> <<>>] /\ OtherPromised
  \/ source = "icechunk" /\ \E kind \in Refusals : a = [kind |-> kind, nodes |-> <<>>]

AnswerPromised(a) ==
  \/ a = [kind |-> "ok", nodes |-> a.nodes] /\ ListPromised(a.nodes)
  \/ ErrorPromised(a)

LEMMA ErrorsAreErrors ==
  ASSUME NEW a, ErrorPromised(a)
  PROVE  a.kind # "ok" /\ a = [kind |-> a.kind, nodes |-> <<>>]
BY WalkRecursiveAssumption DEF ErrorPromised

(* The walk of a vanilla store, step by step, answers as promised. *)
LEMMA VanillaPromised ==
  ASSUME NEW a, source = "vanilla", Justified(a, stable, ever)
  PROVE  AnswerPromised(a)
<1>1. \A S : Promised!Walkable(S) = Reachable(S)
  BY SameGroups
<1>2. ASSUME NEW ns, ListJustified(ns, stable, ever) PROVE ListPromised(ns)
  <2>1. Len(ns) \in Nat \ {0} => Len(ns) > 0
    OBVIOUS
  <2> QED
    BY <1>1, <1>2, <2>1 DEF ListJustified, ListPromised
<1>3. NotFoundJustified(stable, ever) => MissingPromised
  BY <1>1 DEF NotFoundJustified, MissingPromised
<1>4. OtherJustified(stable, ever) => OtherPromised
  BY <1>1 DEF OtherJustified, OtherPromised
<1> QED
  BY <1>2, <1>3, <1>4 DEF Justified, AnswerPromised, ErrorPromised

(* So does the walk of a snapshot: that is what its one step says. *)
LEMMA SnapshotPromised ==
  ASSUME TypeOK, WalkSnapshot
  PROVE  AnswerPromised(answer') /\ source = "icechunk"
         /\ UNCHANGED <<source, present, stable, ever>>
<1>0. source = "icechunk" /\ UNCHANGED <<source, present, stable, ever>>
  BY DEF WalkSnapshot, Promised!Answer
<1>1. /\ answer' \in SnapshotAnswers
      /\ \/ Promised!AnswerNodes \/ Promised!AnswerNotFound
         \/ Promised!AnswerOther \/ Promised!AnswerRefused
  BY DEF WalkSnapshot, Promised!Answer
<1>2. CASE Promised!AnswerNodes
  <2> DEFINE ns == answer'.nodes
             W == Promised!Walkable(present)
  <2>1. /\ answer'.kind = "ok" /\ Promised!Orphaning = {}
        /\ Promised!Walkable(stable) \subseteq Promised!PathsOf(ns)
        /\ Promised!PathsOf(ns) \subseteq Promised!Walkable(ever)
        /\ Promised!ParentsFirst(ns) /\ Promised!ArraysOf(ns)
    BY <1>0, <1>2 DEF Promised!AnswerNodes
  <2>2. PICK order \in SetToSeqs(W) :
          answer' = [kind |-> "ok",
                     nodes |-> [i \in DOMAIN order |->
                       [path |-> order[i], vars |-> ChildArrays(present, order[i])]]]
    BY <1>1, <2>1, WalkRecursiveAssumption DEF SnapshotAnswers
  <2>3. order \in Seq(W)
    <3>1. W \in SUBSET Groups
      BY <1>0, SameGroups
    <3> QED
      BY <3>1, HoldersFinite, OrderOfSet
  <2>4. Len(ns) \in Nat /\ DOMAIN ns = 1 .. Len(ns)
        /\ answer' = [kind |-> "ok", nodes |-> ns]
    BY <2>2, <2>3
  <2> HIDE DEF ns
  <2>5. \A g \in Promised!Walkable(stable) : \E i \in DOMAIN ns : ns[i].path = g
    BY <2>1 DEF Promised!PathsOf
  <2>6. \A i \in DOMAIN ns :
           /\ ns[i].path \in Promised!Walkable(ever)
           /\ ChildArrays(stable, ns[i].path) \subseteq ns[i].vars
           /\ ns[i].vars \subseteq ChildArrays(ever, ns[i].path)
    BY <2>1, SameTree DEF Promised!PathsOf, Promised!ArraysOf
  <2>7. \A i, j \in DOMAIN ns : Above(ns[i].path, ns[j].path) => i <= j
    BY <2>1, SameTree DEF Promised!ParentsFirst
  <2>8. ListPromised(ns)
    BY <1>0, <2>1, <2>4, <2>5, <2>6, <2>7 DEF ListPromised
  <2> QED
    BY <1>0, <2>4, <2>8 DEF AnswerPromised, ns
<1>3. CASE Promised!AnswerNotFound
  BY <1>0, <1>3 DEF Promised!AnswerNotFound
<1>4. CASE Promised!AnswerOther
  BY <1>0, <1>4, SameTree
     DEF Promised!AnswerOther, AnswerPromised, ErrorPromised, OtherPromised
<1>5. CASE Promised!AnswerRefused
  BY <1>0, <1>5 DEF Promised!AnswerRefused, AnswerPromised, ErrorPromised
<1> QED
  BY <1>0, <1>1, <1>2, <1>3, <1>4, <1>5

(* What is promised depends on what the store has held. *)
LEMMA PromiseStays ==
  ASSUME UNCHANGED <<source, present, stable, ever>>
  PROVE  AnswerPromised(answer') => AnswerPromised(answer)'
<1>1. /\ \A S : Promised!Walkable(S)' = Promised!Walkable(S)
      /\ Promised!Orphaning' = Promised!Orphaning
  BY DEF Promised!Walkable, Promised!Orphaning
<1>2. ListPromised(answer'.nodes) => ListPromised(answer.nodes)'
  BY <1>1 DEF ListPromised
<1>3. (MissingPromised => MissingPromised') /\ (OtherPromised => OtherPromised')
  BY <1>1 DEF MissingPromised, OtherPromised
<1> QED
  BY <1>2, <1>3 DEF AnswerPromised, ErrorPromised

-----------------------------------------------------------------------------
(* The invariant of either walk: that of VanillaWalk, or that a snapshot's *)
(* answer is as promised and that no future ever runs.                     *)
SourceInv ==
  /\ source \in {"vanilla", "icechunk"}
  /\ source = "vanilla" => WalkInv
  /\ source = "icechunk" =>
       /\ \A g \in Groups : task[g] # "done"
       /\ phase = "returned" => AnswerPromised(answer)

LEMMA Owed ==
  ASSUME SourceInv, phase = "returned"
  PROVE  AnswerPromised(answer)
BY VanillaPromised DEF SourceInv, WalkInv, Answered

LEMMA SourcePreOrder == SourceInv => PreOrder
BY FoundInPreOrder DEF SourceInv, PreOrder

LEMMA CallStepSourceInv ==
  CallInv /\ SourceInv /\ [CallNext]_callVars => SourceInv'
<1> SUFFICES ASSUME CallInv, SourceInv, [CallNext]_callVars PROVE SourceInv'
  OBVIOUS
<1>1. CASE VanillaStep(Discover) \/ VanillaStep(Open)
  <2>1. phase # "returned" /\ source = "vanilla" /\ source' = source
    BY <1>1
       DEF VanillaStep, Discover, Acquire, OpenGroup, GroupMissing, ListKids,
           Join, JoinRoot, DiscoveryFault, Open, OpenNode, NodeMissing,
           ListArrays, OpenArray, ArrayMissing, OpenFault, Return
  <2>2. stage = "walking"
    BY <2>1 DEF CallInv, Staged
  <2>3. IInv
    BY <2>2, WalkHasAll
  <2>4. WalkInv'
    BY <1>1, <2>1, <2>3, DiscoverStepWalkInv, OpenStepWalkInv DEF VanillaStep, SourceInv
  <2> QED
    BY <2>1, <2>4 DEF SourceInv
<1>2. CASE Overwrite
  BY <1>2, WriteWalkInv DEF Overwrite, CallInv, SourceInv
<1>3. CASE WalkSnapshot
  <2>1. /\ AnswerPromised(answer') /\ source = "icechunk"
        /\ UNCHANGED <<source, present, stable, ever, task>>
    BY <1>3, SnapshotPromised DEF CallInv, WalkSnapshot, discovery
  <2>2. AnswerPromised(answer)'
    BY <2>1, PromiseStays
  <2> QED
    BY <2>1, <2>2 DEF SourceInv
<1>4. CASE UNCHANGED <<source, walking>>
  <2>1. source = "vanilla" => WalkInv'
    BY <1>4, WalkInvLater DEF SourceInv, walking, store, opening
  <2>2. AnswerPromised(answer) => AnswerPromised(answer)'
    <3>1. UNCHANGED <<source, present, stable, ever, answer>>
      BY <1>4 DEF walking, store
    <3> QED
      BY <3>1, PromiseStays
  <2> QED
    BY <1>4, <2>1, <2>2 DEF SourceInv, walking
<1> QED
  BY <1>1, <1>2, <1>3, <1>4
     DEF CallNext, Call, CallReturned, callVars, WalkFails, BeginEager, EagerStep

LEMMA CallSourceInvariance == CallSpec => []SourceInv
<1>1. CallInit => SourceInv
  <2> SUFFICES ASSUME CallInit PROVE SourceInv
    OBVIOUS
  <2>1. source \in {"vanilla", "icechunk"} /\ Init
    BY WalkRecursiveAssumption DEF CallInit
  <2>2. phase # "returned" /\ \A g \in Groups : task[g] # "done"
    BY <2>1 DEF Init
  <2> QED
    BY <2>1, <2>2, InitWalkInv DEF SourceInv
<1> QED
  BY <1>1, CallInvariance, CallStepSourceInv, PTL DEF CallSpec

(* Discovery is in pre-order in the whole call too, with others writing. *)
THEOREM CallFoundParentsFirst == CallSpec => []PreOrder
BY CallSourceInvariance, SourcePreOrder, PTL

-----------------------------------------------------------------------------
(* What the caller gets of an answer a once its nodes are the eager        *)
(* phase's.                                                                *)
Listed(a) ==
  [i \in DOMAIN a.nodes |->
     LET order == SetToSeq(a.nodes[i].vars)
     IN  [j \in DOMAIN order |-> MetaOf[order[j]]]]

Handed(a, ns) ==
  [a EXCEPT !.nodes =
     [i \in DOMAIN ns |->
        [path |-> a.nodes[i].path,
         vars |-> {ns[i][j].array : j \in DOMAIN ns[i]}]]]

(* Naming the arrays by their metadata loses none and makes none up. *)
LEMMA ListedArrays ==
  ASSUME NEW V \in SUBSET Arrays
  PROVE  LET order == SetToSeq(V)
             ms == [j \in DOMAIN order |-> MetaOf[order[j]]]
         IN  {ms[j].array : j \in DOMAIN ms} = V
<1> DEFINE order == SetToSeq(V)
           ms == [j \in DOMAIN order |-> MetaOf[order[j]]]
<1>1. IsFiniteSet(V)
  BY HierarchyAssumption, FS_Subset DEF HierarchyAssumption
<1>2. ToSet(order) = V
  BY <1>1, SetToSeqOrders, OrderOfSet
<1> HIDE DEF order
<1>3. \A j \in DOMAIN order : order[j] \in Arrays /\ ms[j].array = order[j]
  BY <1>2, WalkRecursiveAssumption DEF ToSet, WalkRecursiveAssumption
<1>4. {ms[j].array : j \in DOMAIN ms} = ToSet(order)
  BY <1>3 DEF ToSet
<1> QED
  BY <1>2, <1>4 DEF order

(* The eager phase's nodes are the walk's, with the same arrays. *)
LEMMA HandedIsAnswer ==
  ASSUME NEW a, AnswerPromised(a)
  PROVE  /\ a.kind = "ok" =>
              /\ Handed(a, Listed(a)).kind = "ok"
              /\ ListPromised(Handed(a, Listed(a)).nodes)
         /\ a.kind # "ok" => Handed(a, <<>>) = a
<1>1. CASE a.kind = "ok"
  <2>1. a = [kind |-> "ok", nodes |-> a.nodes] /\ ListPromised(a.nodes)
    BY <1>1, ErrorsAreErrors DEF AnswerPromised
  <2> DEFINE ls == Listed(a)
             h == [i \in DOMAIN ls |->
                     [path |-> a.nodes[i].path,
                      vars |-> {ls[i][j].array : j \in DOMAIN ls[i]}]]
  <2>2. Handed(a, ls).kind = "ok" /\ Handed(a, ls).nodes = h
    BY <2>1 DEF Handed
  <2>3. DOMAIN ls = DOMAIN a.nodes
    BY DEF Listed
  <2>4. ASSUME NEW i \in DOMAIN a.nodes
        PROVE  h[i].path = a.nodes[i].path /\ h[i].vars = a.nodes[i].vars
    <3>1. a.nodes[i].vars \in SUBSET Arrays
      BY <2>1 DEF ListPromised, ChildArrays
    <3> DEFINE V == a.nodes[i].vars
               order == SetToSeq(V)
               ms == [j \in DOMAIN order |-> MetaOf[order[j]]]
    <3>3. ls[i] = ms
      BY DEF Listed
    <3>4. {ms[j].array : j \in DOMAIN ms} = V
      BY <3>1, ListedArrays
    <3> HIDE DEF ls, ms, order, V
    <3>2. {ls[i][j].array : j \in DOMAIN ls[i]} = V
      BY <3>3, <3>4
    <3> USE DEF V
    <3> QED
      BY <2>3, <3>2
  <2>5. Len(a.nodes) \in Nat /\ DOMAIN a.nodes = 1 .. Len(a.nodes)
    BY <2>1 DEF ListPromised
  <2>6. DOMAIN h = DOMAIN a.nodes /\ Len(h) = Len(a.nodes)
    BY <2>3, <2>5
  <2>7. Len(a.nodes) > 0 => 1 \in DOMAIN a.nodes
    BY <2>5
  <2> HIDE DEF h
  <2>8. source = "vanilla" => Len(h) > 0 /\ h[1].path = Root
    BY <2>1, <2>4, <2>6, <2>7 DEF ListPromised
  <2>9. ListPromised(h)
    BY <2>1, <2>4, <2>5, <2>6, <2>8 DEF ListPromised
  <2> QED
    BY <1>1, <2>2, <2>9
<1>2. CASE a.kind # "ok"
  <2>1. a = [kind |-> a.kind, nodes |-> <<>>]
    BY <1>2, ErrorsAreErrors DEF AnswerPromised
  <2> QED
    BY <1>2, <2>1 DEF Handed
<1> QED
  BY <1>1, <1>2

(* An answer as promised, handed over, is a step GroupWalk allows. *)
LEMMA HandOver ==
  ASSUME Given = NoAnswer, UNCHANGED <<source, present, stable, ever>>,
         stage' = "returned", UNCHANGED answer, AnswerPromised(answer),
         nodes' = IF answer.kind = "ok" THEN Listed(answer) ELSE <<>>
  PROVE  Promise!Answer
<1>1. Given' = Handed(answer, nodes')
  BY DEF Given, Handed
<1>2. Given = Promise!NoAnswer
  BY DEF NoAnswer, Promise!NoAnswer
<1>3. CASE answer.kind = "ok"
  <2> DEFINE ns == Given'.nodes
  <2>1. Given'.kind = "ok" /\ ListPromised(ns)
    BY <1>1, <1>3, HandedIsAnswer
  <2> HIDE DEF ns
  <2>2. /\ Promise!Walkable(stable) \subseteq Promise!PathsOf(ns)
        /\ Promise!PathsOf(ns) \subseteq Promise!Walkable(ever)
    BY <2>1, SameGroups DEF ListPromised, Promise!PathsOf
  <2>3. Promise!ParentsFirst(ns) /\ Promise!ArraysOf(ns)
    BY <2>1, SameTree DEF ListPromised, Promise!ParentsFirst, Promise!ArraysOf
  <2>4. /\ source = "vanilla" => Len(ns) > 0 /\ ns[1].path = Root
        /\ source = "icechunk" => Promise!Orphaning = {}
    BY <2>1, SameGroups DEF ListPromised
  <2>5. Promise!AnswerNodes
    BY <2>1, <2>2, <2>3, <2>4 DEF Promise!AnswerNodes, ns
  <2> QED
    BY <1>2, <2>5 DEF Promise!Answer
<1>4. CASE answer.kind # "ok"
  <2>1. Given' = answer
    BY <1>1, <1>4, HandedIsAnswer
  <2>2. ErrorPromised(answer)
    BY <1>4 DEF AnswerPromised
  <2>3. MissingPromised =>
          /\ source = "vanilla"
          /\ \E g \in Promise!Walkable(ever \cup {Root}) : g \notin stable
    BY SameGroups DEF MissingPromised
  <2>4. OtherPromised =>
          \/ \E g \in Promise!Walkable(ever \cup {Root}) :
               \/ g \in Faulty
               \/ \E b \in Promise!ChildArrays(ever, g) : b \in Faulty \/ b \notin stable
          \/ source = "icechunk" /\ Promise!Orphaning # {}
    BY SameTree, SameGroups DEF OtherPromised
  <2>5. Promise!AnswerNotFound \/ Promise!AnswerOther \/ Promise!AnswerRefused
    BY <2>1, <2>2, <2>3, <2>4
       DEF ErrorPromised, Promise!AnswerNotFound, Promise!AnswerOther, Promise!AnswerRefused
  <2> QED
    BY <1>2, <2>5 DEF Promise!Answer
<1> QED
  BY <1>3, <1>4

-----------------------------------------------------------------------------
(* The nodes the eager phase works on are the walk's. *)
Relayed == stage = "reading" => answer.kind = "ok" /\ nodes = ListedNodes

LEMMA ListedIs == ListedNodes = Listed(answer)
BY DEF ListedNodes, Listed

LEMMA StepRelayed == Staged /\ Settled /\ Relayed /\ [CallNext]_callVars => Relayed'
<1> SUFFICES ASSUME Staged, Settled, Relayed, [CallNext]_callVars PROVE Relayed'
  OBVIOUS
<1>1. CASE stage' # "reading"
  BY <1>1 DEF Relayed
<1>2. CASE BeginEager
  <2>1. nodes' = ListedNodes /\ answer.kind = "ok" /\ UNCHANGED answer
    BY <1>2 DEF BeginEager, Eager!Begin, walking
  <2> QED
    BY <2>1 DEF Relayed, ListedNodes
<1>3. CASE UNCHANGED <<stage, nodes, answer>>
  BY <1>3 DEF Relayed, ListedNodes
<1>4. ASSUME stage' = stage, stage = "reading", phase # "returned"
      PROVE  FALSE
  BY <1>4 DEF Staged
<1>5. CASE VanillaStep(Discover) \/ VanillaStep(Open) \/ WalkSnapshot
  <2>1. phase # "returned" /\ stage' = stage
    BY <1>5
       DEF VanillaStep, WalkSnapshot, reading, Discover, Acquire, OpenGroup,
           GroupMissing, ListKids, Join, JoinRoot, DiscoveryFault, Open,
           OpenNode, NodeMissing, ListArrays, OpenArray, ArrayMissing,
           OpenFault, Return
  <2> QED
    BY <1>1, <1>4, <2>1
<1>6. CASE EagerStep(Eager!Reads)
  BY <1>3, <1>6
     DEF EagerStep, walking, Eager!Reads, Eager!Acquire, Eager!Fetched, Eager!Skipped
<1>7. CASE Overwrite
  BY <1>3, <1>7 DEF Overwrite, Write, reading
<1> QED
  BY <1>1, <1>2, <1>3, <1>5, <1>6, <1>7
     DEF CallNext, Call, CallReturned, WalkFails, EagerStep, Eager!Assign,
         callVars, walking, reading

LEMMA Relaying == CallSpec => [](Settled /\ Relayed)
<1>1. CallInit => Settled /\ OwnValues /\ Relayed
  BY InitOwn DEF CallInit, Eager!Init, Relayed
<1>2. CallInv => Staged
  BY DEF CallInv
<1> QED
  BY <1>1, <1>2, CallInvariance, StepOwn, StepRelayed, PTL DEF CallSpec

(* Every step is one that GroupWalk allows: a write is a change, the step  *)
(* in which the call returns is its answer, and no other step shows.       *)
LEMMA StepKeepsPromise ==
  CallInv /\ SourceInv /\ Settled /\ Relayed /\ [CallNext]_callVars
    => [Promise!Next]_(Promise!vars)
<1> SUFFICES ASSUME CallInv, SourceInv, Settled, Relayed, [CallNext]_callVars
             PROVE  [Promise!Next]_(Promise!vars)
  OBVIOUS
<1>1. ASSUME UNCHANGED <<source, present, stable, ever>>,
             \/ stage # "returned" /\ stage' # "returned"
             \/ UNCHANGED <<stage, answer, nodes>>
      PROVE  UNCHANGED Promise!vars
  BY <1>1 DEF Promise!vars, Given, NoAnswer
<1>2. CASE Overwrite
  <2>1. PICK n \in Writable : Write(n)
    BY <1>2 DEF Overwrite
  <2>2. n \in Promise!Nodes
    BY SameTree DEF Writable
  <2>3. stage # "returned" /\ stage' # "returned"
    BY <1>2 DEF Overwrite, reading
  <2>4. UNCHANGED <<Given, source>> /\ source = "vanilla"
    BY <1>2, <2>3 DEF Given, NoAnswer, Overwrite
  <2>5. Promise!Change
    BY <2>1, <2>2, <2>4 DEF Write, Promise!Change
  <2> QED
    BY <2>5 DEF Promise!Next
<1>3. CASE VanillaStep(Discover) \/ VanillaStep(Open) \/ WalkSnapshot
  <2>1. /\ phase # "returned" /\ UNCHANGED <<stage, source, present, stable, ever>>
    BY <1>3
       DEF VanillaStep, WalkSnapshot, Promised!Answer, reading, Discover,
           Acquire, OpenGroup, GroupMissing, ListKids, Join, JoinRoot,
           DiscoveryFault, Open, OpenNode, NodeMissing, ListArrays, OpenArray,
           ArrayMissing, OpenFault, Return, Fail, store
  <2>2. stage = "walking"
    BY <2>1 DEF CallInv, Staged
  <2> QED
    BY <1>1, <2>1, <2>2
<1>4. ASSUME UNCHANGED <<source, walking>>, stage # "returned", stage' = "returned",
             phase = "returned",
             nodes' = IF answer.kind = "ok" THEN ListedNodes ELSE <<>>
      PROVE  Promise!Answer
  <2>1. UNCHANGED <<source, present, stable, ever, answer>> /\ Given = NoAnswer
    BY <1>4 DEF walking, store, Given
  <2>2. AnswerPromised(answer)
    BY <1>4, Owed
  <2> QED
    BY <1>4, <2>1, <2>2, ListedIs, HandOver
<1>5. CASE WalkFails
  <2>1. nodes' = <<>> /\ answer.kind # "ok"
    BY <1>5 DEF WalkFails, Settled
  <2> QED
    BY <1>4, <1>5, <2>1 DEF WalkFails, Promise!Next
<1>6. CASE BeginEager
  <2>1. /\ UNCHANGED <<source, walking>> /\ stage = "walking" /\ phase = "returned"
        /\ nodes' = ListedNodes /\ answer.kind = "ok"
    BY <1>6 DEF BeginEager, Eager!Begin
  <2>2. UNCHANGED <<source, present, stable, ever>>
    BY <2>1 DEF walking, store
  <2> QED
    BY <1>1, <1>4, <2>1, <2>2 DEF Promise!Next
<1>7. CASE EagerStep(Eager!Assign)
  <2>1. /\ UNCHANGED <<source, walking>> /\ stage = "reading" /\ stage' = "returned"
        /\ UNCHANGED nodes
    BY <1>7 DEF EagerStep, Eager!Assign
  <2>2. phase = "returned" /\ answer.kind = "ok" /\ nodes = ListedNodes
    BY <2>1 DEF CallInv, Staged, Relayed
  <2> QED
    BY <1>4, <2>1, <2>2 DEF Promise!Next
<1>8. CASE EagerStep(Eager!Reads)
  <2>1. UNCHANGED <<source, walking, stage, nodes>>
    BY <1>8
       DEF EagerStep, Eager!Reads, Eager!Acquire, Eager!Fetched, Eager!Skipped
  <2> QED
    BY <1>1, <2>1 DEF walking, store
<1>9. CASE UNCHANGED callVars
  BY <1>1, <1>9 DEF callVars, walking, reading, store
<1> QED
  BY <1>2, <1>3, <1>5, <1>6, <1>7, <1>8, <1>9 DEF CallNext, Call, CallReturned

LEMMA InitKeepsPromise == CallInit => Promise!Init
<1> SUFFICES ASSUME CallInit PROVE Promise!Init
  OBVIOUS
<1>1. present \subseteq Nodes /\ stable = present /\ ever = present
      /\ source \in {"vanilla", "icechunk"}
  BY WalkRecursiveAssumption DEF CallInit, Init
<1>2. Given = Promise!NoAnswer
  BY DEF CallInit, Eager!Init, Given, NoAnswer, Promise!NoAnswer
<1> QED
  BY <1>1, <1>2, SameTree DEF Promise!Init

(***************************************************************************)
(* The call implements GroupWalk, for every store, source, glob, cap and   *)
(* schedule of requests and writes: what the caller gets misses nothing    *)
(* that was there all along, makes nothing up, has parents first, and an   *)
(* error has a reason of its kind.  (walk.rs:85-117, 156-184, 745-752)     *)
(***************************************************************************)
THEOREM CallKeepsPromise == CallSpec => KeepsPromise
BY InitKeepsPromise, StepKeepsPromise, CallInvariance, CallSourceInvariance,
   Relaying, PTL
   DEF CallSpec, KeepsPromise, Promise!Spec

-----------------------------------------------------------------------------
(***************************************************************************)
(* What is resident is within its cap.                                     *)
(***************************************************************************)

(* The folds inside the products of a shape s of at most one dimension. *)
MaxOf(S) == CHOOSE x \in S : \A y \in S : x >= y

Folding(w, s, f) ==
  f = [t \in SUBSET DOMAIN s |->
         IF t = {} THEN 1
         ELSE LET i == MaxOf(t) IN (f[t \ {i}] * s[i]) % w]

Multiplying(s, f) ==
  f = [t \in SUBSET DOMAIN s |->
         IF t = {} THEN 1
         ELSE LET i == MaxOf(t) IN f[t \ {i}] * s[i]]

LEMMA ProductIs ==
  ASSUME NEW s
  PROVE  /\ Eager!Product(s) = (CHOOSE f : Multiplying(s, f))[DOMAIN s]
         /\ Eager!WrappedProduct(s) = (CHOOSE f : Folding(Word, s, f))[DOMAIN s]
BY DEF Eager!Product, Eager!WrappedProduct, Eager!FoldLeft,
       Eager!MapThenFoldSet, Eager!Max, Folding, Multiplying, MaxOf

LEMMA ProductOfNone ==
  Eager!Product(<<>>) = 1 /\ Eager!WrappedProduct(<<>>) = 1
<1> DEFINE e == [t \in {{}} |-> 1]
           f == CHOOSE h : Multiplying(<<>>, h)
           g == CHOOSE h : Folding(Word, <<>>, h)
<1>1. SUBSET DOMAIN <<>> = {{}}
  OBVIOUS
<1>2. Multiplying(<<>>, e) /\ Folding(Word, <<>>, e)
  BY <1>1 DEF Multiplying, Folding
<1>3. Multiplying(<<>>, f) /\ Folding(Word, <<>>, g)
  BY <1>2
<1> HIDE DEF f, g
<1>4. f[{}] = 1 /\ g[{}] = 1
  BY <1>1, <1>3 DEF Multiplying, Folding
<1>5. DOMAIN <<>> = {}
  OBVIOUS
<1>6. Eager!Product(<<>>) = f[DOMAIN <<>>] /\ Eager!WrappedProduct(<<>>) = g[DOMAIN <<>>]
  BY ProductIs DEF f, g
<1> QED
  BY <1>4, <1>5, <1>6

LEMMA ProductOfOne ==
  ASSUME NEW x \in Nat
  PROVE  Eager!Product(<<x>>) = x /\ Eager!WrappedProduct(<<x>>) = x % Word
<1> DEFINE s == <<x>>
           e(y) == [t \in {{}, {1}} |-> IF t = {} THEN 1 ELSE y]
           f == CHOOSE h : Multiplying(s, h)
           g == CHOOSE h : Folding(Word, s, h)
<1>1. SUBSET DOMAIN s = {{}, {1}} /\ s[1] = x /\ DOMAIN s = {1}
  OBVIOUS
<1>2. MaxOf({1}) = 1 /\ {1} \ {1} = {} /\ {1} # {}
  BY DEF MaxOf
<1>3. \E h : Multiplying(s, h)
  <2>1. e(x)[{}] = 1 /\ 1 * x = x
    OBVIOUS
  <2>2. Multiplying(s, e(x))
    BY <1>1, <1>2, <2>1 DEF Multiplying
  <2> QED
    BY <2>2
<1>4. \E h : Folding(Word, s, h)
  <2>1. e(x % Word)[{}] = 1 /\ 1 * x = x
    OBVIOUS
  <2>2. Folding(Word, s, e(x % Word))
    BY <1>1, <1>2, <2>1 DEF Folding
  <2> QED
    BY <2>2
<1>5. Multiplying(s, f) /\ Folding(Word, s, g)
  BY <1>3, <1>4
<1> HIDE DEF f, g, s
<1>6. f[{}] = 1 /\ g[{}] = 1
  BY <1>1, <1>5 DEF Multiplying, Folding
<1>7. f[{1}] = f[{}] * x /\ g[{1}] = (g[{}] * x) % Word
  BY <1>1, <1>2, <1>5 DEF Multiplying, Folding
<1>8. f[{1}] = x /\ g[{1}] = x % Word
  BY <1>6, <1>7
<1> QED
  BY <1>1, <1>8, ProductIs DEF f, g, s

-----------------------------------------------------------------------------
(* Within its cap, whatever its product wraps to. *)
Fits(v) ==
  IF Eager!IsObject(v)
  THEN Eager!Product(v.shape) <= MaxObjectElements /\ v.bytes <= MaxObjectBytes
  ELSE Eager!Product(v.shape) <= MaxElements

LEMMA OneElement ==
  ASSUME NEW T, NEW q \in Seq(T), Len(q) = 1
  PROVE  \E x \in T : q = <<x>>
<1>1. q[1] \in T /\ <<q[1]>> \in Seq(T) /\ Len(<<q[1]>>) = 1
  OBVIOUS
<1>2. \A k \in 1 .. 1 : k = 1 /\ q[k] = <<q[1]>>[k]
  OBVIOUS
<1>3. q = <<q[1]>>
  BY <1>1, <1>2, SeqEqual
<1> QED
  BY <1>1, <1>3

(* What the phase chooses has at most one dimension, and the product of    *)
(* one dimension does not wrap.                                            *)
LEMMA ChosenFits ==
  ASSUME NEW a \in Arrays,
         Eager!ShouldFetch(MetaOf[a]), Eager!Fetchable(MetaOf[a])
  PROVE  Fits(MetaOf[a])
<1> DEFINE v == MetaOf[a]
<1>1. /\ v.type \in {"numeric", "string", "bytes"}
      /\ v.shape \in Seq(0 .. Word - 1) /\ Len(v.dims) = Len(v.shape)
      /\ Word \in Nat \ {0}
  BY WalkRecursiveAssumption DEF WalkRecursiveAssumption
<1> DEFINE n == Eager!WrappedProduct(v.shape)
<1>2. \/ Eager!IsObject(v) /\ n <= MaxObjectElements
           /\ (v.shape = <<>> \/ Eager!IsSelfNamed1D(v))
      \/ ~Eager!IsObject(v) /\ n <= MaxElements /\ Eager!IsSelfNamed1D(v)
  BY DEF Eager!ShouldFetch
<1>3. v.shape = <<>> => Eager!Product(v.shape) = n
  BY ProductOfNone
<1>4. ASSUME Eager!IsSelfNamed1D(v)
      PROVE  Eager!Product(v.shape) = n
  <2>1. Len(v.shape) = 1
    BY <1>1, <1>4 DEF Eager!IsSelfNamed1D
  <2>2. PICK x \in 0 .. Word - 1 : v.shape = <<x>>
    BY <1>1, <2>1, OneElement
  <2>3. x \in Nat /\ x % Word = x
    BY <1>1
  <2> QED
    BY <2>2, <2>3, ProductOfOne
<1>5. Eager!IsObject(v) => v.bytes <= MaxObjectBytes
  BY DEF Eager!Fetchable, Eager!IsObject
<1> QED
  BY <1>2, <1>3, <1>4, <1>5 DEF Fits

-----------------------------------------------------------------------------
(* The nodes are lists of the metadata of arrays. *)
Described(ns) ==
  /\ Len(ns) \in Nat /\ DOMAIN ns = 1 .. Len(ns)
  /\ \A i \in DOMAIN ns :
       /\ Len(ns[i]) \in Nat /\ DOMAIN ns[i] = 1 .. Len(ns[i])
       /\ \A j \in DOMAIN ns[i] : \E a \in Arrays : ns[i][j] = MetaOf[a]

LEMMA SameFlatten == \A s : Eager!FlattenSeq(s) = FlattenSeq(s)
BY DEF Eager!FlattenSeq, FlattenSeq

(* Only what should be fetched is on the work list. *)
LEMMA WorkChosen ==
  ASSUME NEW ns, Described(ns), NEW k \in DOMAIN Eager!WorkOf(ns)
  PROVE  \E i \in DOMAIN ns : \E j \in DOMAIN ns[i] :
           Eager!WorkOf(ns)[k] = <<i, j>> /\ Eager!ShouldFetch(ns[i][j])
<1> DEFINE row(i) == [j \in DOMAIN ns[i] |->
                        IF Eager!ShouldFetch(ns[i][j]) THEN << <<i, j>> >> ELSE <<>>]
           s == [i \in DOMAIN ns |-> FlattenSeq(row(i))]
           T == Nat \X Nat
<1>1. ASSUME NEW i \in DOMAIN ns
      PROVE  row(i) \in Seq(Seq(T)) /\ Len(row(i)) = Len(ns[i])
  <2>1. Len(ns[i]) \in Nat /\ DOMAIN ns[i] = 1 .. Len(ns[i]) /\ i \in Nat
    BY DEF Described
  <2>2. \A j \in 1 .. Len(ns[i]) :
          (IF Eager!ShouldFetch(ns[i][j]) THEN << <<i, j>> >> ELSE <<>>) \in Seq(T)
    <3> TAKE j \in 1 .. Len(ns[i])
    <3>1. <<i, j>> \in T
      BY <2>1
    <3>2. << <<i, j>> >> \in Seq(T) /\ <<>> \in Seq(T)
      BY <3>1
    <3> QED
      BY <3>2
  <2> QED
    BY <2>1, <2>2
<1>2. ASSUME NEW i \in DOMAIN ns
      PROVE  FlattenSeq(row(i)) \in Seq(T)
             /\ MadeOf(row(i), Len(ns[i]), FlattenSeq(row(i)))
  BY <1>1, Flattened
<1>3. s \in Seq(Seq(T)) /\ Len(s) = Len(ns)
  <2>1. Len(ns) \in Nat /\ DOMAIN ns = 1 .. Len(ns)
    BY DEF Described
  <2>2. \A i \in 1 .. Len(ns) : FlattenSeq(row(i)) \in Seq(T)
    BY <1>2, <2>1
  <2> HIDE DEF row, T
  <2> QED
    BY <2>1, <2>2
<1>4. Eager!WorkOf(ns) = FlattenSeq(s)
  BY SameFlatten DEF Eager!WorkOf
<1>5. MadeOf(s, Len(ns), FlattenSeq(s)) /\ Len(ns) \in Nat
  BY <1>3, Flattened DEF Described
<1> DEFINE p == Eager!WorkOf(ns)[k]
<1>6. p \in ToSet(FlattenSeq(s))
  BY <1>4 DEF ToSet
<1>7. PICK i \in 1 .. Len(ns) : p \in ToSet(s[i])
  <2> HIDE DEF s, p
  <2> QED
    BY <1>5, <1>6, MembersOfBlocks
<1>8. i \in DOMAIN ns /\ s[i] = FlattenSeq(row(i)) /\ Len(ns[i]) \in Nat
  BY <1>7 DEF Described
<1>9. PICK j \in 1 .. Len(ns[i]) : p \in ToSet(row(i)[j])
  <2> HIDE DEF p, row
  <2>1. MadeOf(row(i), Len(ns[i]), FlattenSeq(row(i)))
    BY <1>2, <1>8
  <2> QED
    BY <1>7, <1>8, <2>1, MembersOfBlocks
<1>10. j \in DOMAIN ns[i]
  BY <1>8, <1>9 DEF Described
<1>11. row(i)[j] = IF Eager!ShouldFetch(ns[i][j]) THEN << <<i, j>> >> ELSE <<>>
  BY <1>10
<1>12. Eager!ShouldFetch(ns[i][j]) /\ p = <<i, j>>
  <2> HIDE DEF p, row
  <2> QED
    BY <1>9, <1>11 DEF ToSet
<1> QED
  BY <1>8, <1>10, <1>12

(* The nodes of an answer as promised are described. *)
LEMMA ListedDescribed ==
  ASSUME NEW a, AnswerPromised(a), a.kind = "ok"
  PROVE  Described(Listed(a))
<1>1. ListPromised(a.nodes)
  BY ErrorsAreErrors DEF AnswerPromised
<1>2. Len(a.nodes) \in Nat /\ DOMAIN a.nodes = 1 .. Len(a.nodes)
  BY <1>1 DEF ListPromised
<1>3. ASSUME NEW i \in DOMAIN a.nodes
      PROVE  LET ms == Listed(a)[i] IN
             /\ Len(ms) \in Nat /\ DOMAIN ms = 1 .. Len(ms)
             /\ \A j \in DOMAIN ms : \E b \in Arrays : ms[j] = MetaOf[b]
  <2> DEFINE V == a.nodes[i].vars
             order == SetToSeq(V)
             ms == [j \in DOMAIN order |-> MetaOf[order[j]]]
  <2>1. V \subseteq Arrays
    BY <1>1 DEF ListPromised, ChildArrays
  <2>2. IsFiniteSet(V)
    BY <2>1, HierarchyAssumption, FS_Subset DEF HierarchyAssumption
  <2>3. order \in Seq(V)
    BY <2>2, SetToSeqOrders, OrderOfSet
  <2>4. Listed(a)[i] = ms
    BY DEF Listed
  <2> HIDE DEF order
  <2>5. \A j \in DOMAIN order : order[j] \in Arrays
    BY <2>1, <2>3
  <2>6. Len(ms) \in Nat /\ DOMAIN ms = 1 .. Len(ms)
    BY <2>3
  <2> QED
    BY <2>4, <2>5, <2>6
<1>4. DOMAIN Listed(a) = DOMAIN a.nodes /\ Len(Listed(a)) = Len(a.nodes)
  BY <1>2 DEF Listed
<1> QED
  BY <1>2, <1>3, <1>4 DEF Described

-----------------------------------------------------------------------------
(* What has been fetched may be: it was chosen, and its payload measured.  *)
Bounded ==
  /\ Described(nodes)
  /\ DOMAIN fetch = DOMAIN Eager!Work
  /\ \A k \in DOMAIN fetch :
       fetch[k] = "fetched" => Eager!Fetchable(Eager!VarAt(Eager!Work[k]))
  /\ ResidentWithinCaps

LEMMA InitBounded == CallInit => Bounded
<1> SUFFICES ASSUME CallInit PROVE Bounded
  OBVIOUS
<1>1. nodes = <<>> /\ fetch = <<>> /\ eager = <<>>
  BY DEF CallInit, Eager!Init
<1>2. Described(nodes)
  BY <1>1 DEF Described
<1>3. Eager!WorkOf(<<>>) = <<>>
  BY DEF Eager!WorkOf, Eager!FlattenSeq
<1> QED
  BY <1>1, <1>2, <1>3 DEF Bounded, Eager!Work, ResidentWithinCaps, Eager!ResidentWithinCaps

(* A value is put on a variable only if it fits. *)
LEMMA AssignBounded ==
  ASSUME Bounded, Eager!Assign
  PROVE  Bounded'
<1>1. UNCHANGED <<nodes, fetch>> /\ Eager!Work' = Eager!Work
  BY DEF Eager!Assign, Eager!Work
<1>2. ASSUME NEW i \in DOMAIN nodes, NEW j \in DOMAIN nodes[i],
             eager'[i][j] # Eager!Unread
      PROVE  Fits(nodes[i][j])
  <2>1. eager'[i][j] = Eager!Placed(i, j)
    BY DEF Eager!Assign
  <2>2. PICK k \in DOMAIN Eager!Work :
          Eager!Work[k] = <<i, j>> /\ fetch[k] = "fetched"
    BY <1>2, <2>1, PlacedOwn
  <2>3. Eager!Fetchable(nodes[i][j])
    BY <2>2 DEF Bounded, Eager!VarAt
  <2>4. PICK h \in DOMAIN nodes : \E l \in DOMAIN nodes[h] :
          Eager!Work[k] = <<h, l>> /\ Eager!ShouldFetch(nodes[h][l])
    BY <2>2, WorkChosen DEF Bounded, Eager!Work
  <2>5. Eager!ShouldFetch(nodes[i][j])
    BY <2>2, <2>4
  <2>6. PICK a \in Arrays : nodes[i][j] = MetaOf[a]
    BY DEF Bounded, Described
  <2> QED
    BY <2>3, <2>5, <2>6, ChosenFits
<1>3. ResidentWithinCaps'
  BY <1>1, <1>2 DEF ResidentWithinCaps, Eager!ResidentWithinCaps, Fits
<1> QED
  BY <1>1, <1>3 DEF Bounded, Eager!VarAt

LEMMA StepBounded ==
  SourceInv /\ Staged /\ Bounded /\ [CallNext]_callVars => Bounded'
<1> SUFFICES ASSUME SourceInv, Staged, Bounded, [CallNext]_callVars PROVE Bounded'
  OBVIOUS
<1>1. CASE UNCHANGED <<nodes, fetch, eager>>
  BY <1>1 DEF Bounded, Eager!Work, Eager!VarAt, ResidentWithinCaps, Eager!ResidentWithinCaps
<1>2. CASE BeginEager
  <2>1. /\ nodes' = Listed(answer) /\ phase = "returned" /\ answer.kind = "ok"
        /\ fetch' = [k \in DOMAIN Eager!WorkOf(nodes') |-> "queued"]
        /\ eager' = Eager!Lazy(nodes')
    BY <1>2, ListedIs DEF BeginEager, Eager!Begin
  <2>2. Described(nodes')
    BY <2>1, ListedDescribed, Owed
  <2>3. DOMAIN fetch' = DOMAIN Eager!Work' /\ \A k \in DOMAIN fetch' : fetch'[k] = "queued"
    BY <2>1 DEF Eager!Work
  <2>4. \A i \in DOMAIN nodes' : \A j \in DOMAIN nodes'[i] :
          eager'[i][j] = Eager!Unread
    BY <2>1 DEF Eager!Lazy
  <2>5. ResidentWithinCaps'
    BY <2>4 DEF ResidentWithinCaps, Eager!ResidentWithinCaps
  <2> QED
    BY <2>2, <2>3, <2>5 DEF Bounded
<1>3. CASE EagerStep(Eager!Reads)
  <2>1. PICK k \in DOMAIN fetch :
          Eager!Acquire(k) \/ Eager!Fetched(k) \/ Eager!Skipped(k)
    BY <1>3 DEF EagerStep, Eager!Reads
  <2>2. UNCHANGED <<nodes, eager>> /\ DOMAIN fetch' = DOMAIN fetch /\ Eager!Work' = Eager!Work
    BY <2>1 DEF Eager!Acquire, Eager!Fetched, Eager!Skipped, Eager!Work
  <2>3. ASSUME NEW l \in DOMAIN fetch, fetch'[l] = "fetched"
        PROVE  Eager!Fetchable(Eager!VarAt(Eager!Work[l]))
    BY <2>1, <2>3 DEF Bounded, Eager!Acquire, Eager!Fetched, Eager!Skipped
  <2>4. ResidentWithinCaps'
    BY <2>2 DEF Bounded, ResidentWithinCaps, Eager!ResidentWithinCaps
  <2> QED
    BY <2>2, <2>3, <2>4 DEF Bounded, Eager!VarAt
<1>4. CASE EagerStep(Eager!Assign)
  BY <1>4, AssignBounded DEF EagerStep
<1>5. CASE WalkFails \/ Overwrite \/ VanillaStep(Discover) \/ VanillaStep(Open) \/ WalkSnapshot
  BY <1>1, <1>5 DEF WalkFails, Overwrite, VanillaStep, WalkSnapshot, reading
<1> QED
  BY <1>1, <1>2, <1>3, <1>4, <1>5
     DEF CallNext, Call, CallReturned, callVars, reading

(* Whatever the shapes, counts and payloads, nothing over its cap is ever  *)
(* resident, and no product wraps its way past one: walk.rs:633-656,       *)
(* 664-687.                                                                *)
THEOREM CapsHold == CallSpec => []ResidentWithinCaps
<1>1. CallInv => Staged
  BY DEF CallInv
<1>2. Bounded => ResidentWithinCaps
  BY DEF Bounded
<1> QED
  BY <1>1, <1>2, InitBounded, StepBounded, CallInvariance, CallSourceInvariance,
     PTL DEF CallSpec

=============================================================================
