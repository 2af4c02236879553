---------------------------- MODULE GlobPruneProofs ----------------------------
(***************************************************************************)
(* Theorems about GlobPrune, for patterns and names of any length and      *)
(* trees of any depth: star_match accepts what fnmatch accepts, and        *)
(* pruning with it changes nothing the caller gets.                        *)
(*                                                                         *)
(* The ends of a match after a star are all those from some first one on,  *)
(* which is where the greedy cursor stands; or, if the cursor is lost,     *)
(* they are all past the place where the last piece would have to start.   *)
(***************************************************************************)
EXTENDS GlobPrune, WellFoundedInduction, TLAPS

(* A set that has 0 and, with each number, the next one has them all. *)
LEMMA SetInduction ==
  ASSUME NEW S, 0 \in S, \A n \in Nat : n \in S => n + 1 \in S
  PROVE  Nat \subseteq S
<1> DEFINE T == Nat \ S
<1> SUFFICES ASSUME T # {} PROVE FALSE
  OBVIOUS
<1>1. PICK n \in T : \A m \in T : <<m, n>> \notin OpToRel(<, Nat)
  <2>1. IsWellFoundedOn(OpToRel(<, Nat), Nat) /\ T \subseteq Nat
    BY NatLessThanWellFounded
  <2> QED
    BY <2>1, WFMin
<1>2. n \in Nat /\ n # 0
  OBVIOUS
<1>3. n - 1 \in Nat /\ (n - 1) + 1 = n
  BY <1>2
<1>4. n - 1 \in T
  BY <1>3
<1>5. <<n - 1, n>> \in OpToRel(<, Nat)
  BY <1>3 DEF OpToRel
<1> QED
  BY <1>1, <1>4, <1>5

(* Induction from one number up to another. *)
LEMMA Upward ==
  ASSUME NEW a \in Nat, NEW b \in Nat, NEW S, a \in S,
         \A i \in a + 1 .. b : i - 1 \in S => i \in S
  PROVE  a .. b \subseteq S
<1> DEFINE T == {j \in Nat : a + j <= b => a + j \in S}
<1>1. 0 \in T
  OBVIOUS
<1>2. ASSUME NEW j \in Nat, j \in T PROVE j + 1 \in T
  <2> SUFFICES ASSUME a + (j + 1) <= b PROVE a + (j + 1) \in S
    OBVIOUS
  <2>1. /\ a + (j + 1) \in a + 1 .. b /\ (a + (j + 1)) - 1 = a + j
        /\ a + j \in S
    BY <1>2
  <2> QED
    BY <2>1
<1>3. Nat \subseteq T
  <2> HIDE DEF T
  <2> QED
    BY <1>1, <1>2, SetInduction
<1>4. ASSUME NEW i \in a .. b PROVE i \in S
  <2>1. i - a \in T /\ a + (i - a) = i /\ a + (i - a) <= b
    BY <1>3
  <2> QED
    BY <2>1
<1> QED
  BY <1>4

(* A function counted up from 0 exists: step tells how. *)
Counted(A, n, c, step) ==
  \E f \in [0 .. n -> A] : f[0] = c /\ \A i \in 1 .. n : f[i] = step[<<i, f[i - 1]>>]

LEMMA Recursion ==
  ASSUME NEW A, NEW n \in Nat, NEW c \in A, NEW step \in [(1 .. n) \X A -> A]
  PROVE  Counted(A, n, c, step)
<1> DEFINE Upto(m, f) ==
             /\ f \in [0 .. m -> A] /\ f[0] = c
             /\ \A i \in 1 .. m : f[i] = step[<<i, f[i - 1]>>]
           S == {m \in 0 .. n : \E f : Upto(m, f)}
<1>1. 0 \in S
  <2> DEFINE g == [i \in 0 .. 0 |-> c]
  <2>1. Upto(0, g)
    OBVIOUS
  <2>2. 0 \in 0 .. n
    OBVIOUS
  <2> HIDE DEF Upto, g
  <2> QED
    BY <2>1, <2>2
<1>2. ASSUME NEW m \in 0 + 1 .. n, m - 1 \in S PROVE m \in S
  <2>1. PICK f : Upto(m - 1, f)
    BY <1>2
  <2> DEFINE g == [i \in 0 .. m |-> IF i = m THEN step[<<m, f[m - 1]>>] ELSE f[i]]
  <2>2. m \in Nat /\ m - 1 \in 0 .. m - 1 /\ 0 \in 0 .. m /\ m # 0
    OBVIOUS
  <2>3. f[m - 1] \in A
    BY <2>1, <2>2
  <2>4. step[<<m, f[m - 1]>>] \in A
    BY <2>3
  <2>5. ASSUME NEW i \in 0 .. m PROVE g[i] \in A
    BY <2>1, <2>4
  <2>6. ASSUME NEW i \in 1 .. m PROVE g[i] = step[<<i, g[i - 1]>>]
    <3>1. i \in 0 .. m /\ i - 1 \in 0 .. m /\ i - 1 # m
      OBVIOUS
    <3>2. g[i - 1] = f[i - 1]
      BY <3>1
    <3>3. CASE i = m
      BY <3>1, <3>2, <3>3
    <3>4. CASE i # m
      <4>1. i \in 1 .. m - 1
        BY <3>4
      <4> QED
        BY <2>1, <3>1, <3>2, <3>4, <4>1
    <3> QED
      BY <3>3, <3>4
  <2>7. g[0] = c
    BY <2>1, <2>2
  <2>8. g \in [0 .. m -> A]
    <3>1. g = [i \in 0 .. m |-> g[i]]
      OBVIOUS
    <3> HIDE DEF g
    <3> QED
      BY <2>5, <3>1
  <2> HIDE DEF g
  <2>9. Upto(m, g)
    BY <2>6, <2>7, <2>8
  <2> QED
    BY <2>9
<1>3. 0 .. n \subseteq S
  <2> HIDE DEF S
  <2>1. 0 \in Nat
    OBVIOUS
  <2> QED
    BY <1>1, <1>2, <2>1, Upward
<1>4. n \in S
  <2>1. n \in 0 .. n
    OBVIOUS
  <2> HIDE DEF S
  <2> QED
    BY <1>3, <2>1
<1> QED
  BY <1>4 DEF Counted

(* The least of some numbers, and the greatest of some within a bound. *)
LEMMA MinIs ==
  ASSUME NEW S \in SUBSET Nat, S # {}
  PROVE  Min(S) \in S /\ \A y \in S : Min(S) <= y
<1>1. IsWellFoundedOn(OpToRel(<, Nat), Nat)
  BY NatLessThanWellFounded
<1>2. PICK x \in S : \A y \in S : <<y, x>> \notin OpToRel(<, Nat)
  BY <1>1, WFMin
<1>3. ASSUME NEW y \in S PROVE x <= y
  <2>1. ~(y < x) /\ x \in Nat /\ y \in Nat
    BY <1>2 DEF OpToRel
  <2> QED
    BY <2>1
<1> QED
  BY <1>3 DEF Min

LEMMA MaxIs ==
  ASSUME NEW n \in Nat, NEW S \in SUBSET (1 .. n), S # {}
  PROVE  Max(S) \in S /\ \A y \in S : y <= Max(S)
<1> DEFINE T == {k \in 0 .. n : n - k \in S}
           x == n - Min(T)
<1>1. T \in SUBSET Nat /\ T # {}
  <2>1. PICK y \in S : TRUE
    OBVIOUS
  <2>2. n - y \in 0 .. n /\ n - (n - y) = y
    BY <2>1
  <2>3. n - y \in T
    BY <2>1, <2>2
  <2>4. T \in SUBSET Nat
    OBVIOUS
  <2> HIDE DEF T
  <2> QED
    BY <2>3, <2>4
<1>2. Min(T) \in T /\ \A k \in T : Min(T) <= k
  <2> HIDE DEF T
  <2> QED
    BY <1>1, MinIs
<1>3. x \in S
  BY <1>2
<1>4. ASSUME NEW y \in S PROVE x >= y
  <2>1. y \in 1 .. n /\ n - y \in 0 .. n /\ n - (n - y) = y
    OBVIOUS
  <2>2. n - y \in T
    BY <2>1
  <2>3. Min(T) <= n - y /\ Min(T) \in Nat
    BY <1>2, <2>2
  <2> HIDE DEF T
  <2> QED
    BY <2>1, <2>3
<1> HIDE DEF x
<1>5. Max(S) \in S /\ \A y \in S : Max(S) >= y
  BY <1>3, <1>4 DEF Max
<1> QED
  BY <1>5

-----------------------------------------------------------------------------
(***************************************************************************)
(* What the wildcards mean.                                                *)
(***************************************************************************)
(* The ends of the matches of i characters, from those of one less. *)
EndsAfter(pat, name, i, ends) ==
  IF pat[i] = "*" THEN {j \in 0 .. Len(name) : \E k \in ends : k <= j}
  ELSE {j \in 1 .. Len(name) : j - 1 \in ends /\ pat[i] \in {"?", name[j]}}

EndsOf(pat, name, r) ==
  /\ r[0] = {0}
  /\ \A i \in 1 .. Len(pat) : r[i] = EndsAfter(pat, name, i, r[i - 1])

(* The recursive function inside FnMatch. *)
Ending(pat, name, ends) ==
  ends = [i \in 0 .. Len(pat) |->
            IF i = 0 THEN {0}
            ELSE IF pat[i] = "*"
            THEN {j \in 0 .. Len(name) : \E k \in ends[i - 1] : k <= j}
            ELSE {j \in 1 .. Len(name) :
                    j - 1 \in ends[i - 1] /\ pat[i] \in {"?", name[j]}}]

LEMMA FnMatchIs ==
  ASSUME NEW pat, NEW name
  PROVE  FnMatch(pat, name)
           <=> Len(name) \in (CHOOSE r : Ending(pat, name, r))[Len(pat)]
BY DEF FnMatch, Ending

LEMMA EndingExists ==
  ASSUME NEW pat \in Seq(STRING), NEW name \in Seq(STRING)
  PROVE  \E r : Ending(pat, name, r)
<1> DEFINE m == Len(pat)
           A == SUBSET (0 .. Len(name))
           none == {0}
           step == [x \in (1 .. m) \X A |-> EndsAfter(pat, name, x[1], x[2])]
<1>1. m \in Nat /\ none \in A
  OBVIOUS
<1>2. step \in [(1 .. m) \X A -> A]
  <2>1. ASSUME NEW x \in (1 .. m) \X A PROVE EndsAfter(pat, name, x[1], x[2]) \in A
    BY DEF EndsAfter
  <2> QED
    BY <2>1
<1>3. PICK f \in [0 .. m -> A] :
        f[0] = none /\ \A i \in 1 .. m : f[i] = step[<<i, f[i - 1]>>]
  <2> HIDE DEF step, m, A, none
  <2>1. Counted(A, m, none, step)
    BY <1>1, <1>2, Recursion
  <2> QED
    BY <2>1 DEF Counted
<1>4. ASSUME NEW i \in 1 .. m PROVE f[i] = EndsAfter(pat, name, i, f[i - 1])
  <2>1. i - 1 \in 0 .. m
    BY <1>1
  <2>2. <<i, f[i - 1]>> \in (1 .. m) \X A
    BY <1>3, <2>1
  <2> QED
    BY <1>3, <2>2
<1>5. Ending(pat, name, f)
  <2> HIDE DEF step, m, A
  <2>1. \A i \in 0 .. m : i = 0 \/ i \in 1 .. m
    BY <1>1
  <2>2. f = [i \in 0 .. m |-> IF i = 0 THEN {0} ELSE EndsAfter(pat, name, i, f[i - 1])]
    BY <1>3, <1>4, <2>1
  <2> QED
    BY <2>2 DEF m, Ending, EndsAfter
<1> QED
  BY <1>5

LEMMA FnMatchEnds ==
  ASSUME NEW pat \in Seq(STRING), NEW name \in Seq(STRING)
  PROVE  \E r : EndsOf(pat, name, r)
                  /\ (FnMatch(pat, name) <=> Len(name) \in r[Len(pat)])
<1> DEFINE r == CHOOSE q : Ending(pat, name, q)
<1>1. Ending(pat, name, r)
  BY EndingExists
<1> HIDE DEF r
<1>2. Len(pat) \in Nat
  OBVIOUS
<1>3. r[0] = {0}
  BY <1>1, <1>2 DEF Ending
<1>4. ASSUME NEW i \in 1 .. Len(pat) PROVE r[i] = EndsAfter(pat, name, i, r[i - 1])
  <2>1. i \in 0 .. Len(pat) /\ i # 0
    BY <1>2
  <2> QED
    BY <1>1, <2>1 DEF Ending, EndsAfter
<1>5. EndsOf(pat, name, r)
  BY <1>3, <1>4 DEF EndsOf
<1> QED
  BY <1>5, FnMatchIs DEF r

(* The name has the q characters that come after the a-th of the pattern. *)
Says(pat, a, q, name, x) == \A k \in 1 .. q : name[x + k] = pat[a + k]

Literal(pat, a, b) == \A i \in a + 1 .. b : pat[i] # "*" /\ pat[i] # "?"

LEMMA EndsBound ==
  ASSUME NEW pat \in Seq(STRING), NEW name \in Seq(STRING), NEW r,
         EndsOf(pat, name, r), NEW i \in 0 .. Len(pat)
  PROVE  r[i] \subseteq 0 .. Len(name)
<1>1. CASE i = 0
  BY <1>1 DEF EndsOf
<1>2. CASE i # 0
  <2>1. i \in 1 .. Len(pat)
    BY <1>2
  <2>2. r[i] = EndsAfter(pat, name, i, r[i - 1])
    BY <2>1 DEF EndsOf
  <2>3. EndsAfter(pat, name, i, r[i - 1]) \subseteq 0 .. Len(name)
    BY DEF EndsAfter
  <2> QED
    BY <2>2, <2>3
<1> QED
  BY <1>1, <1>2

(* A piece without wildcards is found as it is. *)
LEMMA Block ==
  ASSUME NEW pat \in Seq(STRING), NEW name \in Seq(STRING), NEW r,
         EndsOf(pat, name, r), NEW a \in 0 .. Len(pat), NEW b \in a .. Len(pat),
         Literal(pat, a, b)
  PROVE  \A j \in 0 .. Len(name) :
           j \in r[b] <=> /\ j - (b - a) \in r[a]
                          /\ Says(pat, a, b - a, name, j - (b - a))
<1> DEFINE n == Len(name)
           m == Len(pat)
           Good(i) == \A j \in 0 .. n :
             j \in r[i] <=> /\ j - (i - a) \in r[a]
                            /\ Says(pat, a, i - a, name, j - (i - a))
           S == {i \in a .. b : Good(i)}
<1>1. n \in Nat /\ m \in Nat /\ a \in Nat /\ b \in Nat /\ a <= b /\ b <= m
  OBVIOUS
<1>2. a \in S
  <2>1. \A j \in 0 .. n : j - (a - a) = j
    BY <1>1
  <2>2. \A j : Says(pat, a, a - a, name, j)
    BY <1>1 DEF Says
  <2> QED
    BY <1>1, <2>1, <2>2
<1>3. ASSUME NEW i \in a + 1 .. b, i - 1 \in S PROVE i \in S
  <2> DEFINE d == i - a
  <2>1. /\ i \in 1 .. m /\ i \in a .. b /\ d \in Nat /\ d >= 1
        /\ (i - 1) - a = d - 1 /\ a + d = i /\ a + 1 <= i
    BY <1>1
  <2>2. pat[i] # "*" /\ pat[i] # "?"
    BY <2>1 DEF Literal
  <2>3. r[i] = {j \in 1 .. n : j - 1 \in r[i - 1] /\ pat[i] = name[j]}
    <3>1. r[i] = EndsAfter(pat, name, i, r[i - 1])
      BY <2>1 DEF EndsOf
    <3> QED
      BY <2>2, <3>1 DEF EndsAfter
  <2>4. r[a] \subseteq 0 .. n
    BY EndsBound
  <2>5. Good(i - 1)
    BY <1>3
  <2>6. ASSUME NEW j \in 0 .. n
        PROVE  j \in r[i] <=> j - d \in r[a] /\ Says(pat, a, d, name, j - d)
    <3>1. CASE j = 0
      <4>1. j \notin r[i]
        BY <2>3, <3>1
      <4>2. j - d \notin r[a]
        BY <2>1, <2>4, <3>1
      <4> QED
        BY <4>1, <4>2
    <3>2. CASE j # 0
      <4>1. /\ j \in 1 .. n /\ j - 1 \in 0 .. n /\ (j - 1) - (d - 1) = j - d
            /\ (j - d) + d = j
        BY <1>1, <2>1, <3>2
      <4>2. j - 1 \in r[i - 1] <=> /\ j - d \in r[a]
                                   /\ Says(pat, a, d - 1, name, j - d)
        BY <2>1, <2>5, <4>1
      <4>3. 1 .. d = (1 .. d - 1) \cup {d}
        BY <2>1
      <4>4. Says(pat, a, d, name, j - d)
              <=> Says(pat, a, d - 1, name, j - d) /\ name[j] = pat[i]
        <5> HIDE DEF d
        <5> QED
          BY <2>1, <4>1, <4>3 DEF Says
      <4> QED
        BY <2>3, <4>1, <4>2, <4>4
    <3> QED
      BY <3>1, <3>2
  <2> QED
    BY <2>1, <2>6
<1>4. b \in S
  <2>1. b \in a .. b
    BY <1>1
  <2> HIDE DEF S
  <2> QED
    BY <1>1, <1>2, <1>3, <2>1, Upward
<1> QED
  BY <1>4

(* What a longer piece matches ends no earlier than what a shorter one does. *)
LEMMA Later ==
  ASSUME NEW pat \in Seq(STRING), NEW name \in Seq(STRING), NEW r,
         EndsOf(pat, name, r), NEW a \in 0 .. Len(pat), NEW b \in a .. Len(pat)
  PROVE  \A j \in r[b] : \E k \in r[a] : k <= j
<1> DEFINE S == {i \in a .. b : \A j \in r[i] : \E k \in r[a] : k <= j}
<1>1. Len(name) \in Nat /\ Len(pat) \in Nat /\ a \in Nat /\ b \in Nat /\ a <= b /\ b <= Len(pat)
  OBVIOUS
<1>2. r[a] \subseteq 0 .. Len(name)
  BY EndsBound
<1>3. a \in S
  BY <1>1, <1>2
<1>4. ASSUME NEW i \in a + 1 .. b, i - 1 \in S PROVE i \in S
  <2>1. i \in 1 .. Len(pat) /\ i \in a .. b /\ i - 1 \in 0 .. Len(pat)
    BY <1>1
  <2>2. r[i] = EndsAfter(pat, name, i, r[i - 1])
    BY <2>1 DEF EndsOf
  <2>3. r[i - 1] \subseteq 0 .. Len(name)
    BY <2>1, EndsBound
  <2>4. ASSUME NEW j \in r[i] PROVE \E k \in r[a] : k <= j
    <3>1. PICK l \in r[i - 1] : l <= j /\ j \in Nat
      BY <2>2, <2>3 DEF EndsAfter
    <3>2. PICK k \in r[a] : k <= l
      BY <1>4
    <3> QED
      BY <1>2, <2>3, <3>1, <3>2
  <2> QED
    BY <2>1, <2>4
<1>5. b \in S
  <2>1. b \in a .. b
    BY <1>1
  <2> HIDE DEF S
  <2> QED
    BY <1>1, <1>3, <1>4, <2>1, Upward
<1> QED
  BY <1>5

-----------------------------------------------------------------------------
(***************************************************************************)
(* The pieces between the stars.                                           *)
(***************************************************************************)
LEMMA SubSeqIs ==
  ASSUME NEW s \in Seq(STRING), NEW x \in Nat, NEW y \in Nat, x <= y, y <= Len(s)
  PROVE  LET t == SubSeq(s, x + 1, y)
         IN  /\ t \in Seq(STRING) /\ Len(t) = y - x
             /\ \A k \in 1 .. y - x : t[k] = s[x + k]
  OBVIOUS

LEMMA SubSeqSays ==
  ASSUME NEW s \in Seq(STRING), NEW t \in Seq(STRING), NEW x \in Nat,
         x + Len(t) <= Len(s)
  PROVE  SubSeq(s, x + 1, x + Len(t)) = t
           <=> \A k \in 1 .. Len(t) : s[x + k] = t[k]
<1> DEFINE q == Len(t)
           u == SubSeq(s, x + 1, x + q)
<1>1. q \in Nat /\ x + q \in Nat /\ x <= x + q /\ (x + q) - x = q
  OBVIOUS
<1>2. u \in Seq(STRING) /\ Len(u) = q /\ \A k \in 1 .. q : u[k] = s[x + k]
  <2> HIDE DEF q
  <2> QED
    BY <1>1, SubSeqIs DEF q
<1> HIDE DEF u
<1>3. u = t <=> \A k \in 1 .. q : u[k] = t[k]
  <2>1. ASSUME \A k \in 1 .. q : u[k] = t[k] PROVE u = t
    BY <1>2, <2>1
  <2> QED
    BY <2>1
<1> QED
  BY <1>2, <1>3 DEF u

LEMMA PrefixSays ==
  ASSUME NEW s \in Seq(STRING), NEW t \in Seq(STRING)
  PROVE  IsPrefix(s, t) <=> /\ Len(s) <= Len(t)
                            /\ \A k \in 1 .. Len(s) : t[k] = s[k]
<1> SUFFICES ASSUME Len(s) <= Len(t)
             PROVE  IsPrefix(s, t) <=> \A k \in 1 .. Len(s) : t[k] = s[k]
  BY DEF IsPrefix
<1>1. 0 \in Nat /\ 0 + Len(s) <= Len(t) /\ 0 + Len(s) = Len(s) /\ 0 + 1 = 1
      /\ \A k \in 1 .. Len(s) : 0 + k = k
  OBVIOUS
<1>2. SubSeq(t, 1, Len(s)) = s <=> \A k \in 1 .. Len(s) : t[k] = s[k]
  BY <1>1, SubSeqSays
<1>3. SubSeq(s, 1, Len(s)) = s
  OBVIOUS
<1> QED
  BY <1>2, <1>3 DEF IsPrefix

LEMMA SuffixSays ==
  ASSUME NEW s \in Seq(STRING), NEW t \in Seq(STRING)
  PROVE  IsSuffix(s, t) <=>
           /\ Len(s) <= Len(t)
           /\ \A k \in 1 .. Len(s) : t[(Len(t) - Len(s)) + k] = s[k]
<1> DEFINE n == Len(t)
           q == Len(s)
<1>1. n \in Nat /\ q \in Nat
  OBVIOUS
<1>2. /\ Reverse(s) \in Seq(STRING) /\ Len(Reverse(s)) = q
      /\ \A k \in 1 .. q : Reverse(s)[k] = s[(q - k) + 1]
      /\ Reverse(t) \in Seq(STRING) /\ Len(Reverse(t)) = n
      /\ \A k \in 1 .. n : Reverse(t)[k] = t[(n - k) + 1]
  BY DEF Reverse
<1>3. IsSuffix(s, t) <=> /\ q <= n
                         /\ \A k \in 1 .. q : Reverse(t)[k] = Reverse(s)[k]
  BY <1>2, PrefixSays DEF IsSuffix
<1> SUFFICES ASSUME q <= n
             PROVE  (\A k \in 1 .. q : Reverse(t)[k] = Reverse(s)[k])
                      <=> \A k \in 1 .. q : t[(n - q) + k] = s[k]
  BY <1>3
<1> HIDE DEF n, q
<1>4. ASSUME NEW k \in 1 .. q
      PROVE  /\ (q - k) + 1 \in 1 .. q
             /\ (q - ((q - k) + 1)) + 1 = k
             /\ (n - ((q - k) + 1)) + 1 = (n - q) + k
             /\ k \in 1 .. n /\ (q - k) + 1 \in 1 .. n
  BY <1>1
<1>5. ASSUME \A k \in 1 .. q : Reverse(t)[k] = Reverse(s)[k], NEW k \in 1 .. q
      PROVE  t[(n - q) + k] = s[k]
  <2> DEFINE l == (q - k) + 1
  <2>1. l \in 1 .. q /\ l \in 1 .. n /\ (q - l) + 1 = k /\ (n - l) + 1 = (n - q) + k
    BY <1>4
  <2> HIDE DEF l
  <2>2. Reverse(t)[l] = t[(n - l) + 1] /\ Reverse(s)[l] = s[(q - l) + 1]
    BY <1>2, <2>1
  <2>3. Reverse(t)[l] = Reverse(s)[l]
    BY <1>5, <2>1
  <2> QED
    BY <2>1, <2>2, <2>3
<1>6. ASSUME \A k \in 1 .. q : t[(n - q) + k] = s[k], NEW k \in 1 .. q
      PROVE  Reverse(t)[k] = Reverse(s)[k]
  <2> DEFINE l == (q - k) + 1
  <2>1. l \in 1 .. q /\ k \in 1 .. n /\ (n - k) + 1 = (n - q) + l
    BY <1>1, <1>4
  <2> HIDE DEF l
  <2>2. t[(n - q) + l] = s[l]
    BY <1>6, <2>1
  <2> QED
    BY <1>2, <2>1, <2>2 DEF l
<1> QED
  BY <1>5, <1>6

LEMMA EndPieces ==
  ASSUME NEW pat \in Seq(STRING), Stars(pat) # {}
  PROVE  LET m == Min(Stars(pat))
             x == Max(Stars(pat))
         IN  /\ m \in 1 .. x /\ x \in 1 .. Len(pat)
             /\ pat[m] = "*" /\ pat[x] = "*"
             /\ \A i \in 1 .. Len(pat) : pat[i] = "*" => m <= i /\ i <= x
             /\ FirstPiece(pat) \in Seq(STRING) /\ Len(FirstPiece(pat)) = m - 1
             /\ \A k \in 1 .. m - 1 : FirstPiece(pat)[k] = pat[k]
             /\ LastPiece(pat) \in Seq(STRING) /\ Len(LastPiece(pat)) = Len(pat) - x
             /\ \A k \in 1 .. Len(pat) - x : LastPiece(pat)[k] = pat[x + k]
<1> DEFINE m == Min(Stars(pat))
           x == Max(Stars(pat))
           n == Len(pat)
<1>1. n \in Nat /\ DOMAIN pat = 1 .. n
  OBVIOUS
<1>2. Stars(pat) = {i \in 1 .. n : pat[i] = "*"}
  BY <1>1 DEF Stars
<1>3. Stars(pat) \in SUBSET Nat /\ Stars(pat) \in SUBSET (1 .. n)
  BY <1>1, <1>2
<1>4. m \in Stars(pat) /\ \A y \in Stars(pat) : m <= y
  BY <1>3, MinIs
<1>5. x \in Stars(pat) /\ \A y \in Stars(pat) : y <= x
  BY <1>1, <1>3, MaxIs
<1> HIDE DEF m, x, n
<1>6. /\ m \in 1 .. x /\ x \in 1 .. n /\ pat[m] = "*" /\ pat[x] = "*"
      /\ \A i \in 1 .. n : pat[i] = "*" => m <= i /\ i <= x
  BY <1>1, <1>2, <1>4, <1>5
<1>7. LET t == FirstPiece(pat) IN
      t \in Seq(STRING) /\ Len(t) = m - 1 /\ \A k \in 1 .. m - 1 : t[k] = pat[k]
  <2>1. /\ 0 \in Nat /\ m - 1 \in Nat /\ 0 <= m - 1 /\ m - 1 <= Len(pat) /\ 0 + 1 = 1
        /\ (m - 1) - 0 = m - 1 /\ \A k \in 1 .. m - 1 : 0 + k = k
    BY <1>1, <1>6 DEF n
  <2>2. FirstPiece(pat) = SubSeq(pat, 0 + 1, m - 1)
    BY <2>1 DEF FirstPiece, m
  <2>3. LET t == SubSeq(pat, 0 + 1, m - 1)
        IN  /\ t \in Seq(STRING) /\ Len(t) = (m - 1) - 0
            /\ \A k \in 1 .. (m - 1) - 0 : t[k] = pat[0 + k]
    BY <2>1, SubSeqIs
  <2> QED
    BY <2>1, <2>2, <2>3
<1>8. LET t == LastPiece(pat) IN
      t \in Seq(STRING) /\ Len(t) = n - x /\ \A k \in 1 .. n - x : t[k] = pat[x + k]
  <2>1. x \in Nat /\ n \in Nat /\ x <= n /\ n <= Len(pat)
    BY <1>1, <1>6 DEF n
  <2>2. LastPiece(pat) = SubSeq(pat, x + 1, n)
    BY DEF LastPiece, x, n
  <2> QED
    BY <2>1, <2>2, SubSeqIs
<1> QED
  BY <1>6, <1>7, <1>8 DEF m, x, n

(* A middle piece lies between two stars. *)
LEMMA MiddlePiece ==
  ASSUME NEW pat \in Seq(STRING), NEW i \in 1 .. Len(pat), pat[i] = "*",
         NEW j \in Stars(pat), j < i
  PROVE  \E b \in 1 .. i - 1 :
           /\ pat[b] = "*" /\ \A k \in b + 1 .. i - 1 : pat[k] # "*"
           /\ PieceBefore(pat, i) \in Seq(STRING)
           /\ Len(PieceBefore(pat, i)) = (i - 1) - b
           /\ \A k \in 1 .. (i - 1) - b : PieceBefore(pat, i)[k] = pat[b + k]
           /\ \A k \in Stars(pat) : k < i => k <= b
<1> DEFINE S == {k \in Stars(pat) : k < i}
           b == Max(S)
           n == Len(pat)
<1>1. n \in Nat /\ DOMAIN pat = 1 .. n /\ i \in 1 .. n
  OBVIOUS
<1>2. S = {k \in 1 .. n : pat[k] = "*" /\ k < i}
  BY <1>1 DEF Stars
<1>3. S \in SUBSET (1 .. n) /\ S # {}
  BY <1>1, <1>2
<1>4. b \in S /\ \A y \in S : y <= b
  <2> HIDE DEF S, n
  <2> QED
    BY <1>1, <1>3, MaxIs
<1> HIDE DEF b, n
<1>5. b \in 1 .. i - 1 /\ pat[b] = "*"
  BY <1>1, <1>2, <1>4
<1>6. \A k \in b + 1 .. i - 1 : pat[k] # "*"
  BY <1>1, <1>2, <1>4, <1>5
<1>7. LET t == PieceBefore(pat, i)
      IN  /\ t \in Seq(STRING) /\ Len(t) = (i - 1) - b
          /\ \A k \in 1 .. (i - 1) - b : t[k] = pat[b + k]
  <2>1. b \in Nat /\ i - 1 \in Nat /\ b <= i - 1 /\ i - 1 <= Len(pat)
    BY <1>1, <1>5 DEF n
  <2>2. PieceBefore(pat, i) = SubSeq(pat, b + 1, i - 1)
    BY DEF PieceBefore, b
  <2> QED
    BY <2>1, <2>2, SubSeqIs
<1> QED
  BY <1>4, <1>5, <1>6, <1>7

-----------------------------------------------------------------------------
(***************************************************************************)
(* The cursor.                                                             *)
(***************************************************************************)
Cursors == Nat \cup {-1}

(* Where find may stop: the places from c on where the piece ends by stop. *)
Fits(name, stop, piece, c, x) ==
  /\ x >= c /\ x + Len(piece) <= stop
  /\ \A k \in 1 .. Len(piece) : name[x + k] = piece[k]

LEMMA Find ==
  ASSUME NEW name \in Seq(STRING), NEW piece \in Seq(STRING),
         NEW stop \in Int, stop <= Len(name), NEW c \in Nat
  PROVE  \/ /\ FindFrom(name, stop, c, piece) = -1
            /\ \A x \in Nat : ~Fits(name, stop, piece, c, x)
         \/ \E x \in Nat :
              /\ FindFrom(name, stop, c, piece) = x + Len(piece)
              /\ Fits(name, stop, piece, c, x)
              /\ \A y \in Nat : Fits(name, stop, piece, c, y) => x <= y
<1> DEFINE q == Len(piece)
           at == {i \in c .. stop - q : SubSeq(name, i + 1, i + q) = piece}
<1>1. q \in Nat /\ c # -1 /\ Len(name) \in Nat
  OBVIOUS
<1>2. ASSUME NEW x \in Nat
      PROVE  x \in at <=> Fits(name, stop, piece, c, x)
  <2>1. x \in c .. stop - q <=> x >= c /\ x + q <= stop
    BY <1>1
  <2>2. ASSUME x + q <= stop
        PROVE  SubSeq(name, x + 1, x + q) = piece
                 <=> \A k \in 1 .. q : name[x + k] = piece[k]
    <3>1. x + Len(piece) <= Len(name)
      BY <1>1, <2>2
    <3> QED
      BY <3>1, SubSeqSays
  <2> QED
    BY <2>1, <2>2 DEF Fits
<1>3. at \in SUBSET Nat
  BY <1>1
<1>4. FindFrom(name, stop, c, piece) = IF at = {} THEN -1 ELSE Min(at) + q
  BY <1>1 DEF FindFrom
<1> HIDE DEF at
<1>5. CASE at = {}
  BY <1>2, <1>4, <1>5
<1>6. CASE at # {}
  <2>1. Min(at) \in at /\ \A y \in at : Min(at) <= y
    BY <1>3, <1>6, MinIs
  <2>2. Min(at) \in Nat
    BY <1>3, <2>1
  <2>3. FindFrom(name, stop, c, piece) = Min(at) + q
    BY <1>4, <1>6
  <2> QED
    BY <1>2, <2>1, <2>2, <2>3
<1> QED
  BY <1>5, <1>6

LEMMA FindLost ==
  ASSUME NEW name, NEW stop, NEW piece
  PROVE  FindFrom(name, stop, -1, piece) = -1
BY DEF FindFrom

LEMMA FindType ==
  ASSUME NEW name \in Seq(STRING), NEW piece \in Seq(STRING),
         NEW stop \in Int, stop <= Len(name), NEW c \in Cursors
  PROVE  FindFrom(name, stop, c, piece) \in Cursors
<1>1. CASE c = -1
  BY <1>1, FindLost DEF Cursors
<1>2. CASE c # -1
  <2>1. c \in Nat /\ Len(piece) \in Nat
    BY <1>2 DEF Cursors
  <2>2. \/ FindFrom(name, stop, c, piece) = -1
        \/ \E x \in Nat : FindFrom(name, stop, c, piece) = x + Len(piece)
    BY <2>1, Find
  <2> QED
    BY <2>1, <2>2 DEF Cursors
<1> QED
  BY <1>1, <1>2

Stop(pat, name) == Len(name) - Len(LastPiece(pat))

CursorAfter(pat, name, i, c) ==
  IF i <= Min(Stars(pat)) THEN Len(FirstPiece(pat))
  ELSE IF pat[i] # "*" THEN c
  ELSE FindFrom(name, Stop(pat, name), c, PieceBefore(pat, i))

(* The recursive function inside Cursor. *)
Moving(pat, name, cursor) ==
  cursor = [i \in 0 .. Len(pat) |->
              IF i <= Min(Stars(pat)) THEN Len(FirstPiece(pat))
              ELSE IF pat[i] # "*" THEN cursor[i - 1]
              ELSE FindFrom(name, Len(name) - Len(LastPiece(pat)), cursor[i - 1],
                            PieceBefore(pat, i))]

LEMMA CursorIs ==
  ASSUME NEW pat, NEW name
  PROVE  Cursor(pat, name) = (CHOOSE c : Moving(pat, name, c))[Len(pat)]
BY DEF Cursor, Moving

LEMMA StopBound ==
  ASSUME NEW pat \in Seq(STRING), NEW name \in Seq(STRING), Stars(pat) # {}
  PROVE  Stop(pat, name) \in Int /\ Stop(pat, name) <= Len(name)
<1>1. LastPiece(pat) \in Seq(STRING)
  BY EndPieces
<1>2. Len(LastPiece(pat)) \in Nat /\ Len(name) \in Nat
  BY <1>1
<1> QED
  BY <1>2 DEF Stop

LEMMA MovingExists ==
  ASSUME NEW pat \in Seq(STRING), NEW name \in Seq(STRING), Stars(pat) # {}
  PROVE  \E c : Moving(pat, name, c)
<1> DEFINE n == Len(pat)
           m == Min(Stars(pat))
           first == Len(FirstPiece(pat))
           step == [x \in (1 .. n) \X Cursors |-> CursorAfter(pat, name, x[1], x[2])]
<1>1. n \in Nat /\ DOMAIN pat = 1 .. n
  OBVIOUS
<1>2. m \in 1 .. n /\ pat[m] = "*" /\ m \in Stars(pat) /\ first \in Nat /\ first \in Cursors
  <2>1. m \in 1 .. n /\ pat[m] = "*" /\ FirstPiece(pat) \in Seq(STRING)
    <3> HIDE DEF m, n
    <3>1. /\ m \in 1 .. Max(Stars(pat)) /\ Max(Stars(pat)) \in 1 .. n
          /\ pat[m] = "*" /\ FirstPiece(pat) \in Seq(STRING)
      BY EndPieces DEF m, n
    <3> QED
      BY <1>1, <3>1
  <2>2. m \in Stars(pat)
    BY <1>1, <2>1 DEF Stars
  <2> QED
    BY <2>1, <2>2 DEF Cursors
<1>3. ASSUME NEW i \in 1 .. n, NEW c \in Cursors
      PROVE  CursorAfter(pat, name, i, c) \in Cursors
  <2> HIDE DEF m, first, n
  <2>1. CASE i <= m
    BY <1>2, <2>1 DEF CursorAfter, first, m
  <2>2. CASE ~(i <= m) /\ pat[i] # "*"
    BY <2>2 DEF CursorAfter, m
  <2>3. CASE ~(i <= m) /\ pat[i] = "*"
    <3>1. m < i /\ i \in 1 .. Len(pat)
      BY <1>1, <1>2, <2>3 DEF n
    <3>2. PieceBefore(pat, i) \in Seq(STRING)
      BY <1>2, <2>3, <3>1, MiddlePiece
    <3>3. FindFrom(name, Stop(pat, name), c, PieceBefore(pat, i)) \in Cursors
      BY <3>2, StopBound, FindType
    <3> QED
      BY <2>3, <3>3 DEF CursorAfter, m
  <2> QED
    BY <2>1, <2>2, <2>3
<1>4. step \in [(1 .. n) \X Cursors -> Cursors]
  <2> HIDE DEF m, first, n
  <2> QED
    BY <1>3
<1>5. PICK f \in [0 .. n -> Cursors] :
        f[0] = first /\ \A i \in 1 .. n : f[i] = step[<<i, f[i - 1]>>]
  <2> HIDE DEF step, n, first
  <2>1. Counted(Cursors, n, first, step)
    BY <1>1, <1>2, <1>4, Recursion
  <2> QED
    BY <2>1 DEF Counted
<1>6. ASSUME NEW i \in 1 .. n PROVE f[i] = CursorAfter(pat, name, i, f[i - 1])
  <2>1. i - 1 \in 0 .. n
    BY <1>1
  <2>2. <<i, f[i - 1]>> \in (1 .. n) \X Cursors
    BY <1>5, <2>1
  <2> QED
    BY <1>5, <2>2
<1>7. Moving(pat, name, f)
  <2> HIDE DEF step, n, m, first
  <2>1. \A i \in 0 .. n : i = 0 \/ i \in 1 .. n
    BY <1>1
  <2>2. 0 <= m
    BY <1>1, <1>2
  <2>3. f = [i \in 0 .. n |-> IF i <= m THEN first ELSE CursorAfter(pat, name, i, f[i - 1])]
    <3>1. ASSUME NEW i \in 1 .. n, i <= m PROVE f[i] = first
      BY <1>6, <3>1 DEF CursorAfter, first, m
    <3> QED
      BY <1>5, <1>6, <2>1, <2>2, <3>1
  <2> QED
    BY <2>3 DEF n, m, first, Moving, CursorAfter, Stop
<1> QED
  BY <1>7

(* The cursor's way along the pattern. *)
CursorOf(pat, name, c) ==
  \A i \in 0 .. Len(pat) :
    c[i] = IF i <= Min(Stars(pat)) THEN Len(FirstPiece(pat))
           ELSE IF pat[i] # "*" THEN c[i - 1]
           ELSE FindFrom(name, Stop(pat, name), c[i - 1], PieceBefore(pat, i))

LEMMA CursorMoves ==
  ASSUME NEW pat \in Seq(STRING), NEW name \in Seq(STRING), Stars(pat) # {}
  PROVE  \E c : CursorOf(pat, name, c) /\ Cursor(pat, name) = c[Len(pat)]
<1> DEFINE c == CHOOSE d : Moving(pat, name, d)
<1>1. Moving(pat, name, c)
  BY MovingExists
<1> HIDE DEF c
<1>2. CursorOf(pat, name, c)
  BY <1>1 DEF Moving, CursorOf, Stop
<1> QED
  BY <1>2, CursorIs DEF c

-----------------------------------------------------------------------------
(***************************************************************************)
(* star_match finds what fnmatch finds.                                    *)
(***************************************************************************)
(* Where the cursor stands after a star tells where the matches end that   *)
(* leave room for the last piece.                                          *)
Standing(ends, stop, n, c) ==
  \/ c \in 0 .. stop /\ ends = c .. n
  \/ c = -1 /\ \A y \in ends : y > stop

LEMMA GreedyStep ==
  ASSUME NEW pat \in Seq(STRING), NEW name \in Seq(STRING), NEW r,
         EndsOf(pat, name, r), \A k \in 1 .. Len(pat) : pat[k] # "?",
         NEW stop \in Int, stop <= Len(name),
         NEW i \in 1 .. Len(pat), pat[i] = "*",
         NEW b \in 1 .. i - 1, \A k \in b + 1 .. i - 1 : pat[k] # "*",
         NEW piece \in Seq(STRING), Len(piece) = (i - 1) - b,
         \A k \in 1 .. (i - 1) - b : piece[k] = pat[b + k],
         NEW c, Standing(r[b], stop, Len(name), c)
  PROVE  Standing(r[i], stop, Len(name), FindFrom(name, stop, c, piece))
<1> DEFINE n == Len(name)
           q == Len(piece)
           d == FindFrom(name, stop, c, piece)
<1>1. /\ n \in Nat /\ q \in Nat /\ Len(pat) \in Nat /\ q = (i - 1) - b
      /\ b \in 0 .. Len(pat) /\ i - 1 \in b .. Len(pat) /\ i - 1 \in 0 .. Len(pat)
  OBVIOUS
<1>2. r[b] \subseteq 0 .. n /\ r[i - 1] \subseteq 0 .. n
  BY <1>1, EndsBound
<1>3. r[i] = {j \in 0 .. n : \E k \in r[i - 1] : k <= j}
  BY DEF EndsOf, EndsAfter
<1>4. Literal(pat, b, i - 1)
  BY <1>1 DEF Literal
<1>5. \A j \in 0 .. n : j \in r[i - 1] <=> j - q \in r[b] /\ Says(pat, b, q, name, j - q)
  BY <1>1, <1>4, Block
<1>6. ASSUME NEW x \in Nat
      PROVE  Says(pat, b, q, name, x) <=> \A k \in 1 .. q : name[x + k] = piece[k]
  BY <1>1 DEF Says
<1> HIDE DEF n, q
<1>7. CASE c = -1
  <2>1. d = -1
    BY <1>7, FindLost
  <2>2. \A y \in r[b] : y > stop
    BY <1>7 DEF Standing
  <2>3. ASSUME NEW k \in r[i - 1] PROVE k > stop /\ k \in 0 .. n
    <3>1. k \in 0 .. n /\ k - q \in r[b]
      BY <1>2, <1>5
    <3> QED
      BY <1>1, <2>2, <3>1
  <2>4. \A y \in r[i] : y > stop
    BY <1>1, <1>3, <2>3
  <2> QED
    BY <2>1, <2>4 DEF Standing
<1>8. CASE c # -1
  <2>1. c \in 0 .. stop /\ r[b] = c .. n /\ c \in Nat
    BY <1>8 DEF Standing, n
  <2>2. ASSUME NEW k \in r[i - 1], k <= stop
        PROVE  k - q \in Nat /\ Fits(name, stop, piece, c, k - q)
    <3>1. k \in 0 .. n /\ k - q \in c .. n /\ Says(pat, b, q, name, k - q)
      BY <1>2, <1>5, <2>1
    <3>2. k - q \in Nat /\ k - q >= c /\ (k - q) + q = k
      BY <1>1, <2>1, <3>1
    <3> QED
      BY <1>6, <2>2, <3>1, <3>2 DEF Fits, q
  <2>3. ASSUME d = -1, \A x \in Nat : ~Fits(name, stop, piece, c, x)
        PROVE  Standing(r[i], stop, n, d)
    <3>1. ASSUME NEW k \in r[i - 1] PROVE k > stop /\ k \in 0 .. n
      <4>1. ~(k <= stop) /\ k \in 0 .. n
        BY <1>2, <2>2, <2>3
      <4> QED
        BY <4>1
    <3>2. \A y \in r[i] : y > stop
      BY <1>1, <1>3, <3>1
    <3> QED
      BY <2>3, <3>2 DEF Standing
  <2>4. ASSUME NEW x \in Nat, d = x + q, Fits(name, stop, piece, c, x),
               \A y \in Nat : Fits(name, stop, piece, c, y) => x <= y
        PROVE  Standing(r[i], stop, n, d)
    <3> HIDE DEF d
    <3>1. x >= c /\ x + q <= stop /\ stop <= n
      BY <2>4 DEF Fits, q, n
    <3>2. d \in 0 .. stop /\ d \in 0 .. n /\ d - q = x /\ x \in c .. n
      BY <1>1, <2>1, <2>4, <3>1
    <3>3. d \in r[i - 1]
      <4>1. Says(pat, b, q, name, x)
        BY <1>6, <2>4 DEF Fits, q
      <4> QED
        BY <1>5, <2>1, <3>2, <4>1
    <3>4. ASSUME NEW k \in r[i - 1] PROVE d <= k
      <4>1. k \in 0 .. n
        BY <1>2
      <4>2. CASE k <= stop
        <5>1. k - q \in Nat /\ x <= k - q
          BY <2>2, <2>4, <4>2
        <5> QED
          BY <1>1, <2>4, <4>1, <5>1
      <4>3. CASE ~(k <= stop)
        BY <3>2, <4>1, <4>3
      <4> QED
        BY <4>2, <4>3
    <3>5. r[i] = d .. n
      <4>1. ASSUME NEW j \in 0 .. n PROVE (\E k \in r[i - 1] : k <= j) <=> d <= j
        <5>1. \A k \in r[i - 1] : k \in 0 .. n /\ d <= k
          BY <1>2, <3>4
        <5>2. ASSUME NEW k \in r[i - 1], k <= j PROVE d <= j
          <6>1. k \in 0 .. n /\ d <= k
            BY <5>1
          <6> QED
            BY <1>1, <3>2, <5>2, <6>1
        <5> QED
          BY <3>3, <5>2
      <4>2. r[i] = {j \in 0 .. n : d <= j}
        BY <1>3, <4>1
      <4> QED
        BY <1>1, <3>2, <4>2
    <3> QED
      BY <3>2, <3>5 DEF Standing
  <2>5. \/ d = -1 /\ \A x \in Nat : ~Fits(name, stop, piece, c, x)
        \/ \E x \in Nat : /\ d = x + q /\ Fits(name, stop, piece, c, x)
                          /\ \A y \in Nat : Fits(name, stop, piece, c, y) => x <= y
    BY <2>1, Find DEF q
  <2> HIDE DEF d
  <2>6. ASSUME d = -1 /\ \A x \in Nat : ~Fits(name, stop, piece, c, x)
        PROVE  Standing(r[i], stop, n, d)
    BY <2>3, <2>6
  <2>7. ASSUME \E x \in Nat : /\ d = x + q /\ Fits(name, stop, piece, c, x)
                             /\ \A y \in Nat : Fits(name, stop, piece, c, y) => x <= y
        PROVE  Standing(r[i], stop, n, d)
    BY <2>4, <2>7, Zenon
  <2>8. Standing(r[i], stop, n, d)
    BY <2>5, <2>6, <2>7, Zenon
  <2> QED
    BY <2>8 DEF n, d
<1> QED
  BY <1>7, <1>8 DEF n

LEMMA Greedy ==
  ASSUME NEW pat \in Seq(STRING), NEW name \in Seq(STRING), Stars(pat) # {},
         NEW r, EndsOf(pat, name, r), \A k \in 1 .. Len(pat) : pat[k] # "?",
         NEW c, CursorOf(pat, name, c),
         IsPrefix(FirstPiece(pat), name),
         Len(FirstPiece(pat)) <= Stop(pat, name)
  PROVE  Stop(pat, name) \in r[Max(Stars(pat))] <=> c[Len(pat)] # -1
<1> DEFINE n == Len(name)
           l == Len(pat)
           m == Min(Stars(pat))
           x == Max(Stars(pat))
           stop == Stop(pat, name)
           first == Len(FirstPiece(pat))
           At(i) == \A b \in m .. i :
                      pat[b] = "*" /\ (\A k \in b + 1 .. i : pat[k] # "*")
                        => Standing(r[b], stop, n, c[i])
           S == {i \in m .. x : At(i)}
<1>1. /\ n \in Nat /\ l \in Nat /\ stop \in Int /\ stop <= n
      /\ DOMAIN pat = 1 .. l
  BY StopBound
<1>2. /\ m \in 1 .. x /\ x \in 1 .. l /\ pat[m] = "*" /\ pat[x] = "*"
      /\ \A i \in 1 .. l : pat[i] = "*" => m <= i /\ i <= x
      /\ FirstPiece(pat) \in Seq(STRING) /\ first = m - 1
      /\ \A k \in 1 .. m - 1 : FirstPiece(pat)[k] = pat[k]
  BY EndPieces
<1> HIDE DEF n, l, m, x, stop, first
<1>3. m \in Nat /\ x \in Nat /\ m <= x /\ first \in Nat /\ first <= stop /\ first <= n
  BY <1>1, <1>2 DEF first, stop
<1>4. r[m] = first .. n
  <2>1. 0 \in 0 .. Len(pat) /\ m - 1 \in 0 .. Len(pat) /\ (m - 1) - 0 = first
    BY <1>1, <1>2 DEF l
  <2>2. Literal(pat, 0, m - 1)
    <3>1. ASSUME NEW i \in 0 + 1 .. m - 1 PROVE pat[i] # "*" /\ pat[i] # "?"
      <4>1. i \in 1 .. l /\ ~(m <= i)
        BY <1>1, <1>2
      <4> QED
        BY <1>2, <4>1 DEF l
    <3> QED
      BY <3>1 DEF Literal
  <2>3. \A j \in 0 .. n : j \in r[m - 1] <=> j - first \in {0} /\ Says(pat, 0, first, name, j - first)
    <3>1. \A j \in 0 .. Len(name) :
            j \in r[m - 1] <=> /\ j - ((m - 1) - 0) \in r[0]
                              /\ Says(pat, 0, (m - 1) - 0, name, j - ((m - 1) - 0))
      BY <2>1, <2>2, Block
    <3>2. r[0] = {0}
      BY DEF EndsOf
    <3> QED
      BY <2>1, <3>1, <3>2 DEF n
  <2>4. Says(pat, 0, first, name, 0)
    <3>1. \A k \in 1 .. first : name[k] = FirstPiece(pat)[k]
      BY <1>2, PrefixSays DEF first
    <3>2. \A k \in 1 .. first : 0 + k = k
      OBVIOUS
    <3> QED
      BY <1>2, <3>1, <3>2 DEF Says
  <2>5. r[m - 1] \subseteq 0 .. n
    BY <2>1, EndsBound DEF n
  <2>6. ASSUME NEW j \in 0 .. n PROVE j \in r[m - 1] <=> j = first
    <3>1. j - first = 0 <=> j = first
      BY <1>3
    <3> QED
      BY <2>3, <2>4, <3>1
  <2>7. first \in r[m - 1] /\ \A j \in r[m - 1] : j = first
    <3>1. first \in 0 .. n
      BY <1>1, <1>3
    <3> QED
      BY <2>5, <2>6, <3>1
  <2>8. r[m] = {j \in 0 .. n : \E k \in r[m - 1] : k <= j}
    <3>1. m \in 1 .. Len(pat)
      BY <1>2 DEF l
    <3> QED
      BY <1>2, <3>1 DEF EndsOf, EndsAfter, n
  <2>9. r[m] = {j \in 0 .. n : first <= j}
    BY <2>7, <2>8
  <2> QED
    BY <1>1, <1>3, <2>9
<1>5. \A i \in 0 .. l :
        c[i] = IF i <= m THEN first
               ELSE IF pat[i] # "*" THEN c[i - 1]
               ELSE FindFrom(name, stop, c[i - 1], PieceBefore(pat, i))
  BY DEF CursorOf, l, m, first, stop
<1>6. m \in S
  <2>1. c[m] = first
    BY <1>1, <1>2, <1>5
  <2>2. Standing(r[m], stop, n, c[m])
    BY <1>1, <1>3, <1>4, <2>1 DEF Standing
  <2>3. \A b \in m .. m : b = m
    BY <1>3
  <2>4. m \in m .. x
    BY <1>3
  <2> QED
    BY <2>2, <2>3, <2>4
<1>7. ASSUME NEW i \in m + 1 .. x, i - 1 \in S PROVE i \in S
  <2>1. i \in 1 .. l /\ i \in 0 .. l /\ ~(i <= m) /\ i \in m .. x /\ m < i
    BY <1>1, <1>2, <1>3
  <2>2. At(i - 1)
    BY <1>7
  <2>3. CASE pat[i] # "*"
    <3>1. c[i] = c[i - 1]
      BY <1>5, <2>1, <2>3
    <3>2. ASSUME NEW b \in m .. i, pat[b] = "*", \A k \in b + 1 .. i : pat[k] # "*"
          PROVE  Standing(r[b], stop, n, c[i])
      <4>1. b # i /\ b \in m .. i - 1 /\ \A k \in b + 1 .. i - 1 : k \in b + 1 .. i
        BY <1>3, <2>3, <3>2
      <4> QED
        BY <2>2, <3>1, <3>2, <4>1
    <3> QED
      BY <2>1, <3>2
  <2>4. CASE pat[i] = "*"
    <3>1. m \in Stars(pat)
      BY <1>1, <1>2 DEF Stars
    <3>2. PICK b \in 1 .. i - 1 :
            /\ pat[b] = "*" /\ \A k \in b + 1 .. i - 1 : pat[k] # "*"
            /\ PieceBefore(pat, i) \in Seq(STRING)
            /\ Len(PieceBefore(pat, i)) = (i - 1) - b
            /\ \A k \in 1 .. (i - 1) - b : PieceBefore(pat, i)[k] = pat[b + k]
            /\ \A k \in Stars(pat) : k < i => k <= b
      BY <2>1, <2>4, <3>1, MiddlePiece DEF l
    <3>3. b \in m .. i - 1
      BY <1>3, <2>1, <3>1, <3>2
    <3>4. Standing(r[b], stop, n, c[i - 1])
      BY <2>2, <3>2, <3>3
    <3> DEFINE piece == PieceBefore(pat, i)
    <3>5. Standing(r[i], stop, n, FindFrom(name, stop, c[i - 1], piece))
      <4>1. /\ piece \in Seq(STRING) /\ Len(piece) = (i - 1) - b
            /\ \A k \in 1 .. (i - 1) - b : piece[k] = pat[b + k]
        BY <3>2
      <4> HIDE DEF piece
      <4> QED
        BY <1>1, <2>1, <2>4, <3>2, <3>4, <4>1, GreedyStep DEF n, l
    <3>6. Standing(r[i], stop, n, c[i])
      BY <1>5, <2>1, <2>4, <3>5
    <3>7. ASSUME NEW b1 \in m .. i, \A k \in b1 + 1 .. i : pat[k] # "*"
          PROVE  b1 = i
      <4>1. ~(i \in b1 + 1 .. i)
        BY <2>4, <3>7
      <4> QED
        BY <1>3, <4>1
    <3> QED
      BY <2>1, <3>6, <3>7
  <2> QED
    BY <2>3, <2>4
<1>8. Standing(r[x], stop, n, c[x])
  <2>1. x \in S
    <3>1. x \in m .. x
      BY <1>3
    <3> HIDE DEF S
    <3> QED
      BY <1>3, <1>6, <1>7, <3>1, Upward
  <2>2. x \in m .. x /\ \A k \in x + 1 .. x : pat[k] # "*"
    BY <1>3
  <2> QED
    BY <1>2, <2>1, <2>2
<1>9. c[l] = c[x]
  <2> DEFINE T == {i \in x .. l : c[i] = c[x]}
  <2>1. x \in T /\ l \in x .. l
    BY <1>1, <1>2
  <2>2. ASSUME NEW i \in x + 1 .. l, i - 1 \in T PROVE i \in T
    <3>1. i \in 0 .. l /\ i \in 1 .. l /\ ~(i <= m) /\ ~(i <= x) /\ i \in x .. l
      BY <1>1, <1>3
    <3>2. pat[i] # "*"
      BY <1>2, <3>1
    <3> QED
      BY <1>5, <2>2, <3>1, <3>2
  <2> HIDE DEF T
  <2>3. l \in T
    BY <1>1, <1>3, <2>1, <2>2, Upward
  <2> QED
    BY <2>3 DEF T
<1>10. stop \in r[x] <=> c[x] # -1
  <2>1. CASE c[x] = -1
    <3>1. \A y \in r[x] : y > stop
      BY <1>3, <1>8, <2>1 DEF Standing
    <3> QED
      BY <1>1, <2>1, <3>1
  <2>2. CASE c[x] # -1
    <3>1. c[x] \in 0 .. stop /\ r[x] = c[x] .. n
      BY <1>8, <2>2 DEF Standing
    <3> QED
      BY <1>1, <2>2, <3>1
  <2> QED
    BY <2>1, <2>2
<1> QED
  BY <1>9, <1>10 DEF stop, x, l

(* star_match accepts what fnmatch accepts, for a "*" pattern.  *)
LEMMA StarMatches ==
  ASSUME NEW pat \in Seq(STRING), NEW name \in Seq(STRING),
         \A k \in 1 .. Len(pat) : pat[k] # "?"
  PROVE  StarMatch(pat, name) <=> FnMatch(pat, name)
<1> DEFINE n == Len(name)
           l == Len(pat)
<1>1. n \in Nat /\ l \in Nat /\ DOMAIN pat = 1 .. l /\ n \in 0 .. n
  OBVIOUS
<1>2. PICK r : EndsOf(pat, name, r) /\ (FnMatch(pat, name) <=> n \in r[l])
  BY FnMatchEnds
<1> HIDE DEF n, l
<1>3. CASE Stars(pat) = {}
  <2>1. Literal(pat, 0, l)
    BY <1>1, <1>3 DEF Stars, Literal, l
  <2>2. 0 \in 0 .. l /\ l \in 0 .. l /\ l - 0 = l
    BY <1>1
  <2>3. n \in r[l] <=> n - l \in {0} /\ Says(pat, 0, l, name, n - l)
    BY <1>1, <1>2, <2>1, <2>2, Block DEF EndsOf, n, l
  <2>4. n - l = 0 <=> n = l
    BY <1>1
  <2>5. Says(pat, 0, l, name, 0) <=> \A k \in 1 .. l : name[k] = pat[k]
    <3>1. \A k \in 1 .. l : 0 + k = k
      OBVIOUS
    <3> QED
      BY <3>1 DEF Says
  <2>6. ASSUME n = l, \A k \in 1 .. l : name[k] = pat[k] PROVE pat = name
    BY <2>6 DEF n, l
  <2>7. ASSUME pat = name PROVE n = l /\ \A k \in 1 .. l : name[k] = pat[k]
    BY <2>7 DEF n, l
  <2> QED
    BY <1>2, <1>3, <2>3, <2>4, <2>5, <2>6, <2>7 DEF StarMatch
<1>4. CASE Stars(pat) # {}
  <2> DEFINE m == Min(Stars(pat))
             x == Max(Stars(pat))
             stop == Stop(pat, name)
             first == Len(FirstPiece(pat))
             last == Len(LastPiece(pat))
  <2>1. /\ m \in 1 .. x /\ x \in 1 .. l /\ pat[m] = "*"
        /\ \A i \in 1 .. l : pat[i] = "*" => m <= i /\ i <= x
        /\ FirstPiece(pat) \in Seq(STRING) /\ first = m - 1
        /\ \A k \in 1 .. m - 1 : FirstPiece(pat)[k] = pat[k]
        /\ LastPiece(pat) \in Seq(STRING) /\ last = l - x
        /\ \A k \in 1 .. l - x : LastPiece(pat)[k] = pat[x + k]
    BY <1>4, EndPieces DEF l
  <2>2. stop = n - last
    BY DEF Stop, n
  <2> HIDE DEF m, x, stop, first, last
  <2>3. /\ m \in Nat /\ x \in Nat /\ m <= x /\ x <= l /\ first \in Nat /\ last \in Nat
        /\ m \in 0 .. l /\ x \in 0 .. l /\ x \in m .. l /\ l \in x .. l
        /\ stop \in Int /\ stop <= n
    BY <1>1, <2>1, <2>2
  <2>4. r[x] \subseteq 0 .. n /\ r[m] \subseteq 0 .. n
    BY <1>2, <2>3, EndsBound DEF n, l
  <2>5. n \in r[l] <=> stop \in r[x] /\ IsSuffix(LastPiece(pat), name)
    <3>1. Literal(pat, x, l)
      <4>1. ASSUME NEW i \in x + 1 .. l PROVE pat[i] # "*" /\ pat[i] # "?"
        <5>1. i \in 1 .. l /\ ~(i <= x)
          BY <1>1, <2>3
        <5> QED
          BY <2>1, <5>1 DEF l
      <4> QED
        BY <4>1 DEF Literal
    <3>2. n \in r[l] <=> n - (l - x) \in r[x] /\ Says(pat, x, l - x, name, n - (l - x))
      BY <1>1, <1>2, <2>3, <3>1, Block DEF n, l
    <3>3. n - (l - x) = stop
      BY <2>1, <2>2
    <3>4. IsSuffix(LastPiece(pat), name) <=>
            last <= n /\ \A k \in 1 .. last : name[(n - last) + k] = LastPiece(pat)[k]
      BY <2>1, SuffixSays DEF last, n
    <3>5. Says(pat, x, last, name, stop)
            <=> \A k \in 1 .. last : name[stop + k] = LastPiece(pat)[k]
      BY <2>1 DEF Says
    <3>6. stop \in r[x] => last <= n
      BY <1>1, <2>2, <2>3, <2>4
    <3> QED
      BY <2>1, <2>2, <3>2, <3>3, <3>4, <3>5, <3>6
  <2>6. \A y \in r[x] : /\ IsPrefix(FirstPiece(pat), name) /\ first <= y
    <3>1. ASSUME NEW y \in r[m] PROVE IsPrefix(FirstPiece(pat), name) /\ first <= y
      <4>1. m \in 1 .. Len(pat) /\ m - 1 \in 0 .. Len(pat) /\ 0 \in 0 .. Len(pat)
            /\ (m - 1) - 0 = first
        BY <1>1, <2>1, <2>3 DEF l
      <4>2. PICK k \in r[m - 1] : k <= y
        BY <1>2, <2>1, <4>1 DEF EndsOf, EndsAfter
      <4>3. k \in 0 .. n /\ y \in 0 .. n
        BY <1>2, <2>4, <4>1, EndsBound DEF n
      <4>4. Literal(pat, 0, m - 1)
        <5>1. ASSUME NEW i \in 0 + 1 .. m - 1 PROVE pat[i] # "*" /\ pat[i] # "?"
          <6>1. i \in 1 .. l /\ ~(m <= i)
            BY <1>1, <2>3
          <6> QED
            BY <2>1, <6>1 DEF l
        <5> QED
          BY <5>1 DEF Literal
      <4>5. k - first \in {0} /\ Says(pat, 0, first, name, k - first)
        BY <1>2, <4>1, <4>2, <4>3, <4>4, Block DEF EndsOf, n
      <4>6. k = first /\ k - first = 0
        BY <2>3, <4>3, <4>5
      <4>7. \A i \in 1 .. first : name[i] = FirstPiece(pat)[i]
        <5>1. \A i \in 1 .. first : 0 + i = i
          OBVIOUS
        <5> QED
          BY <2>1, <4>5, <4>6, <5>1 DEF Says
      <4>8. first <= n /\ first <= y
        BY <4>2, <4>3, <4>6
      <4> QED
        BY <2>1, <4>7, <4>8, PrefixSays DEF first, n
    <3>2. ASSUME NEW y \in r[x] PROVE \E k \in r[m] : k <= y
      BY <1>2, <2>3, Later DEF l
    <3>3. ASSUME NEW y \in r[x] PROVE IsPrefix(FirstPiece(pat), name) /\ first <= y
      <4>1. PICK k \in r[m] : k <= y
        BY <3>2
      <4>2. k \in 0 .. n /\ y \in 0 .. n
        BY <2>4
      <4> QED
        BY <2>3, <3>1, <4>1, <4>2
    <3> QED
      BY <3>3
  <2>7. CASE IsPrefix(FirstPiece(pat), name) /\ first <= stop
    <3>1. PICK c : CursorOf(pat, name, c) /\ Cursor(pat, name) = c[l]
      BY <1>4, CursorMoves DEF l
    <3>2. stop \in r[x] <=> c[l] # -1
      BY <1>2, <1>4, <2>7, <3>1, Greedy DEF stop, x, l, first
    <3>3. first + last <= n
      BY <1>1, <2>2, <2>3, <2>7
    <3>4. StarMatch(pat, name)
            <=> IsSuffix(LastPiece(pat), name) /\ Cursor(pat, name) # -1
      BY <1>4, <2>7, <3>3 DEF StarMatch, first, last, n
    <3> QED
      BY <1>2, <2>5, <3>1, <3>2, <3>4
  <2>8. CASE ~(IsPrefix(FirstPiece(pat), name) /\ first <= stop)
    <3>1. stop \notin r[x]
      BY <2>6, <2>8
    <3>2. ~StarMatch(pat, name)
      <4>1. first + last <= n <=> first <= stop
        BY <1>1, <2>2, <2>3
      <4> QED
        BY <1>4, <2>8, <4>1 DEF StarMatch, first, last, n
    <3> QED
      BY <1>2, <2>5, <3>1, <3>2
  <2> QED
    BY <2>7, <2>8
<1> QED
  BY <1>3, <1>4

-----------------------------------------------------------------------------
(***************************************************************************)
(* The segments of a pattern.                                              *)
(***************************************************************************)
(* The recursive function inside Without. *)
Keeping(segments, gone, kept) ==
  kept = [i \in 0 .. Len(segments) |->
            IF i = 0 THEN <<>>
            ELSE IF segments[i] \in gone THEN kept[i - 1]
            ELSE Append(kept[i - 1], segments[i])]

LEMMA WithoutIs ==
  ASSUME NEW segments, NEW gone
  PROVE  Without(segments, gone)
           = (CHOOSE k : Keeping(segments, gone, k))[Len(segments)]
BY DEF Without, Keeping

(* Only what it takes out matters. *)
LEMMA WithoutSame ==
  ASSUME NEW segments \in Seq(Seq(STRING)), NEW g, NEW h,
         \A i \in 1 .. Len(segments) : segments[i] \in g <=> segments[i] \in h
  PROVE  Without(segments, g) = Without(segments, h)
<1>1. ASSUME NEW k PROVE Keeping(segments, g, k) <=> Keeping(segments, h, k)
  <2>1. ASSUME NEW i \in 0 .. Len(segments)
        PROVE  (IF i = 0 THEN <<>>
                ELSE IF segments[i] \in g THEN k[i - 1]
                ELSE Append(k[i - 1], segments[i]))
               = (IF i = 0 THEN <<>>
                  ELSE IF segments[i] \in h THEN k[i - 1]
                  ELSE Append(k[i - 1], segments[i]))
    <3>1. i # 0 => i \in 1 .. Len(segments)
      OBVIOUS
    <3>2. i # 0 => (segments[i] \in g <=> segments[i] \in h)
      BY <3>1
    <3> QED
      BY <3>2
  <2>2. [i \in 0 .. Len(segments) |->
           IF i = 0 THEN <<>>
           ELSE IF segments[i] \in g THEN k[i - 1]
           ELSE Append(k[i - 1], segments[i])]
        = [i \in 0 .. Len(segments) |->
             IF i = 0 THEN <<>>
             ELSE IF segments[i] \in h THEN k[i - 1]
             ELSE Append(k[i - 1], segments[i])]
    BY <2>1, Zenon
  <2> QED
    BY <2>2, Zenon DEF Keeping
<1>2. (CHOOSE k : Keeping(segments, g, k)) = (CHOOSE k : Keeping(segments, h, k))
  BY <1>1, Zenon
<1> QED
  BY <1>2, WithoutIs

(* What is kept are segments of the pattern. *)
LEMMA WithoutMembers ==
  ASSUME NEW segments \in Seq(Seq(STRING)), NEW gone
  PROVE  LET kept == Without(segments, gone)
         IN  /\ kept \in Seq(Seq(STRING))
             /\ \A i \in 1 .. Len(kept) : \E j \in 1 .. Len(segments) : kept[i] = segments[j]
<1> DEFINE n == Len(segments)
           E == {segments[j] : j \in 1 .. n}
           A == Seq(E)
           none == <<>>
           step == [x \in (1 .. n) \X A |->
                      IF segments[x[1]] \in gone THEN x[2]
                      ELSE Append(x[2], segments[x[1]])]
           kept == CHOOSE k : Keeping(segments, gone, k)
<1>1. n \in Nat /\ none \in A /\ \A i \in 1 .. n : segments[i] \in E
  OBVIOUS
<1>2. step \in [(1 .. n) \X A -> A]
  <2> HIDE DEF n, E
  <2>1. ASSUME NEW i \in 1 .. n, NEW s \in A
        PROVE  (IF segments[i] \in gone THEN s ELSE Append(s, segments[i])) \in A
    BY <1>1
  <2> QED
    BY <2>1
<1>3. \E k : Keeping(segments, gone, k)
  <2>1. PICK f \in [0 .. n -> A] :
          f[0] = none /\ \A i \in 1 .. n : f[i] = step[<<i, f[i - 1]>>]
    <3> HIDE DEF step, n, A, none
    <3>1. Counted(A, n, none, step)
      BY <1>1, <1>2, Recursion
    <3> QED
      BY <3>1 DEF Counted
  <2>2. ASSUME NEW i \in 1 .. n
        PROVE  f[i] = IF segments[i] \in gone THEN f[i - 1]
                      ELSE Append(f[i - 1], segments[i])
    <3>1. i - 1 \in 0 .. n
      BY <1>1
    <3>2. <<i, f[i - 1]>> \in (1 .. n) \X A
      <4> HIDE DEF A
      <4> QED
        BY <2>1, <3>1
    <3> HIDE DEF A
    <3> QED
      BY <2>1, <3>2
  <2>3. Keeping(segments, gone, f)
    <3>1. \A i \in 0 .. n : i = 0 \/ i \in 1 .. n
      BY <1>1
    <3> HIDE DEF n, A, step
    <3>2. f = [i \in 0 .. n |->
                 IF i = 0 THEN <<>>
                 ELSE IF segments[i] \in gone THEN f[i - 1]
                 ELSE Append(f[i - 1], segments[i])]
      BY <2>1, <2>2, <3>1
    <3> QED
      BY <3>2 DEF Keeping, n
  <2> QED
    BY <2>3
<1>4. Keeping(segments, gone, kept)
  BY <1>3
<1> HIDE DEF kept, step
<1> DEFINE S == {i \in 0 .. n : kept[i] \in A}
<1>5. n \in S
  <2>1. 0 \in S
    BY <1>1, <1>4 DEF Keeping
  <2>2. ASSUME NEW i \in 0 + 1 .. n, i - 1 \in S PROVE i \in S
    <3>1. i \in 0 .. n /\ i # 0 /\ i \in 1 .. n /\ kept[i - 1] \in A
      BY <1>1, <2>2
    <3>2. kept[i] = IF segments[i] \in gone THEN kept[i - 1]
                    ELSE Append(kept[i - 1], segments[i])
      BY <1>4, <3>1 DEF Keeping
    <3>3. segments[i] \in E
      BY <1>1, <3>1
    <3> HIDE DEF E
    <3>4. kept[i] \in A
      BY <3>1, <3>2, <3>3
    <3> QED
      BY <3>1, <3>4
  <2>3. 0 \in Nat /\ n \in 0 .. n
    BY <1>1
  <2> HIDE DEF S
  <2> QED
    BY <1>1, <2>1, <2>2, <2>3, Upward
<1>6. Without(segments, gone) = kept[n]
  BY WithoutIs DEF kept
<1>7. kept[n] \in Seq(E)
  BY <1>5
<1>8. E \subseteq Seq(STRING)
  OBVIOUS
<1> HIDE DEF S
<1>9. \A i \in 1 .. Len(kept[n]) : kept[n][i] \in E
  <2> HIDE DEF E
  <2> QED
    BY <1>7
<1>10. kept[n] \in Seq(Seq(STRING))
  <2> HIDE DEF E
  <2> QED
    BY <1>7, <1>8
<1> QED
  BY <1>6, <1>9, <1>10

-----------------------------------------------------------------------------
(***************************************************************************)
(* The theorems.                                                           *)
(***************************************************************************)
Placed == pattern \in Patterns /\ tree \in Stores

LEMMA PlacedInvariant == Spec => []Placed
<1>1. Init => Placed
  BY DEF Init, Placed
<1>2. Placed /\ [Next]_vars => Placed'
  BY DEF Placed, Next, vars
<1> QED
  BY <1>1, <1>2, PTL DEF Spec

LEMMA Given ==
  ASSUME Placed
  PROVE  /\ pattern.segments \in Seq(Seq(STRING))
         /\ \A path \in tree :
              /\ path \in Seq(Seq(STRING))
              /\ \A k \in 0 .. Len(path) : SubSeq(path, 1, k) \in tree
<1>1. pattern.segments \in Seq(Seq(STRING))
  BY GlobPruneAssumption DEF Placed, GlobPruneAssumption
<1>2. ASSUME NEW path \in tree
      PROVE  /\ path \in Seq(Seq(STRING))
             /\ \A k \in 0 .. Len(path) : SubSeq(path, 1, k) \in tree
  <2>1. /\ path \in Seq(Seq(STRING) \ {<<>>, <<".">>})
        /\ \A k \in 0 .. Len(path) : SubSeq(path, 1, k) \in tree
    BY GlobPruneAssumption DEF Placed, GlobPruneAssumption
  <2> QED
    BY <2>1
<1> QED
  BY <1>1, <1>2

(* A pattern that prunes has no other wildcards than stars. *)
LEMMA StarsOnly ==
  ASSUME Placed, Prunes(pattern), NEW i \in 1 .. Len(pattern.segments)
  PROVE  /\ pattern.segments[i] \in Seq(STRING)
         /\ \A k \in 1 .. Len(pattern.segments[i]) : pattern.segments[i][k] # "?"
<1>1. pattern.segments \in Seq(Seq(STRING)) /\ i \in DOMAIN pattern.segments
  BY Given
<1> QED
  BY <1>1 DEF Prunes, Contains

(* star_match, which looks for the pieces between the stars greedily,      *)
(* accepts exactly the names fnmatch accepts, whatever the length of the   *)
(* pattern and of the name.  (glob.rs:97-131)                              *)
THEOREM StarMatchCorrect == Spec => []StarMatchIsFnMatch
<1>1. Placed => StarMatchIsFnMatch
  <2> SUFFICES ASSUME Placed, Prunes(pattern),
                      NEW i \in DOMAIN pattern.segments,
                      NEW path \in tree, NEW j \in DOMAIN path
               PROVE  StarMatch(pattern.segments[i], path[j])
                        <=> FnMatch(pattern.segments[i], path[j])
    BY DEF StarMatchIsFnMatch
  <2>1. i \in 1 .. Len(pattern.segments) /\ path[j] \in Seq(STRING)
    BY Given
  <2> DEFINE pat == pattern.segments[i]
             name == path[j]
  <2>2. pat \in Seq(STRING) /\ \A k \in 1 .. Len(pat) : pat[k] # "?"
    BY <2>1, StarsOnly
  <2>3. name \in Seq(STRING)
    BY <2>1
  <2> HIDE DEF pat, name
  <2>4. StarMatch(pat, name) <=> FnMatch(pat, name)
    BY <2>2, <2>3, StarMatches
  <2> QED
    BY <2>4 DEF pat, name
<1> QED
  BY <1>1, PlacedInvariant, PTL

(* No pattern has a segment that PurePosixPath drops and the predicate     *)
(* keeps.                                                                  *)
NoDots ==
  \A p \in Patterns : \A i \in DOMAIN p.segments : p.segments[i] # <<".">>

LEMMA SamePieces ==
  ASSUME NoDots, Placed
  PROVE  PosixParts(pattern) = Segments(pattern)
<1>1. pattern.segments \in Seq(Seq(STRING))
  BY Given
<1>2. \A i \in 1 .. Len(pattern.segments) : pattern.segments[i] # <<".">>
  BY <1>1 DEF NoDots, Placed
<1>3. \A i \in 1 .. Len(pattern.segments) :
        pattern.segments[i] \in {<<>>, <<".">>} <=> pattern.segments[i] \in {<<>>}
  BY <1>2
<1> QED
  BY <1>1, <1>3, WithoutSame DEF PosixParts, Segments

(* The beginnings of a path. *)
LEMMA Beginning ==
  ASSUME NEW path \in Seq(Seq(STRING)), NEW k \in 0 .. Len(path)
  PROVE  /\ SubSeq(path, 1, k) \in Seq(Seq(STRING))
         /\ Len(SubSeq(path, 1, k)) = k
         /\ \A i \in 1 .. k : SubSeq(path, 1, k)[i] = path[i]
  OBVIOUS

LEMMA MatchWalked ==
  ASSUME NoDots, Placed, NEW path \in tree, PosixMatch(pattern, path)
  PROVE  path \in Walked
<1> SUFFICES ASSUME Prunes(pattern), NEW k \in 1 .. Len(path)
             PROVE  CouldMatchSegments(Segments(pattern), SubSeq(path, 1, k))
  BY DEF Walked, CouldDescendantMatch
<1> DEFINE segs == Segments(pattern)
           start == SubSeq(path, 1, k)
<1>1. path \in Seq(Seq(STRING)) /\ pattern.segments \in Seq(Seq(STRING))
  BY Given
<1>2. /\ start \in Seq(Seq(STRING)) /\ Len(start) = k
      /\ \A i \in 1 .. k : start[i] = path[i]
  BY <1>1, Beginning
<1>3. /\ segs \in Seq(Seq(STRING))
      /\ \A i \in 1 .. Len(segs) : \E j \in 1 .. Len(pattern.segments) :
           segs[i] = pattern.segments[j]
  <2> DEFINE all == pattern.segments
             gone == {<<>>}
  <2>1. all \in Seq(Seq(STRING)) /\ segs = Without(all, gone)
    BY <1>1 DEF Segments
  <2> HIDE DEF segs, all, gone
  <2>2. /\ segs \in Seq(Seq(STRING))
        /\ \A i \in 1 .. Len(segs) : \E j \in 1 .. Len(all) : segs[i] = all[j]
    BY <2>1, WithoutMembers
  <2> QED
    BY <2>2 DEF all
<1>4. PosixParts(pattern) = segs
  BY SamePieces
<1> HIDE DEF segs, start
<1>5. /\ Len(path) - Len(segs) = 0
      /\ \A i \in DOMAIN segs : FnMatch(segs[i], path[(Len(path) - Len(segs)) + i])
  BY <1>4 DEF PosixMatch, Prunes
<1>6. Len(path) = Len(segs) /\ k \in 1 .. Len(segs) /\ DOMAIN start = 1 .. k
      /\ \A i \in 1 .. k : (Len(path) - Len(segs)) + i = i /\ i \in 1 .. Len(segs)
                           /\ i \in DOMAIN segs /\ i \in 1 .. Len(path)
  <2> DEFINE n == Len(path)
             l == Len(segs)
  <2>1. n \in Nat /\ l \in Nat /\ k \in 1 .. n /\ DOMAIN segs = 1 .. l /\ DOMAIN start = 1 .. k
    BY <1>1, <1>2, <1>3
  <2>2. n - l = 0
    BY <1>5
  <2> HIDE DEF n, l
  <2> QED
    BY <2>1, <2>2 DEF n, l
<1>7. ASSUME NEW i \in 1 .. k PROVE StarMatch(segs[i], start[i])
  <2> DEFINE pat == segs[i]
             name == path[i]
  <2>1. FnMatch(pat, name) /\ start[i] = name
    BY <1>2, <1>5, <1>6
  <2>2. name \in Seq(STRING)
    BY <1>1, <1>6
  <2>3. pat \in Seq(STRING) /\ \A l \in 1 .. Len(pat) : pat[l] # "?"
    <3>1. PICK j \in 1 .. Len(pattern.segments) : pat = pattern.segments[j]
      BY <1>3, <1>6
    <3> QED
      BY <3>1, StarsOnly
  <2> HIDE DEF pat, name
  <2>4. StarMatch(pat, name)
    BY <2>1, <2>2, <2>3, StarMatches
  <2> QED
    BY <2>1, <2>4 DEF pat
<1>8. Len(start) <= Len(segs)
  BY <1>2, <1>6
<1> QED
  BY <1>6, <1>7, <1>8 DEF CouldMatchSegments, segs, start

(* A group that is walked was reached through groups that are walked. *)
LEMMA WalkedAbove ==
  ASSUME Placed, NEW q \in Walked, NEW path \in tree, IsPrefix(path, q)
  PROVE  path \in Walked
<1>1. path \in Seq(Seq(STRING)) /\ q \in Seq(Seq(STRING)) /\ q \in tree
  BY Given DEF Walked
<1>2. Len(path) <= Len(q) /\ \A i \in 1 .. Len(path) : path[i] = q[i]
  <2>1. Len(path) <= Len(q) /\ SubSeq(path, 1, Len(path)) = SubSeq(q, 1, Len(path))
    BY DEF IsPrefix
  <2>2. Len(path) \in 0 .. Len(path) /\ Len(path) \in 0 .. Len(q)
    BY <1>1, <2>1
  <2>3. ASSUME NEW i \in 1 .. Len(path) PROVE path[i] = q[i]
    <3>1. SubSeq(path, 1, Len(path))[i] = path[i]
      BY <1>1, <2>2, Beginning
    <3>2. SubSeq(q, 1, Len(path))[i] = q[i]
      BY <1>1, <2>2, Beginning
    <3> QED
      BY <2>1, <3>1, <3>2
  <2> QED
    BY <2>1, <2>3
<1>3. ASSUME NEW k \in 1 .. Len(path)
      PROVE  CouldDescendantMatch(pattern, SubSeq(path, 1, k))
  <2>1. k \in 0 .. Len(path) /\ k \in 0 .. Len(q) /\ k \in 1 .. Len(q)
        /\ \A i \in 1 .. k : i \in 1 .. Len(path)
    BY <1>1, <1>2
  <2> DEFINE s == SubSeq(path, 1, k)
             t == SubSeq(q, 1, k)
  <2>2. s \in Seq(Seq(STRING)) /\ Len(s) = k /\ \A i \in 1 .. k : s[i] = path[i]
    BY <1>1, <2>1, Beginning
  <2>3. t \in Seq(Seq(STRING)) /\ Len(t) = k /\ \A i \in 1 .. k : t[i] = q[i]
    BY <1>1, <2>1, Beginning
  <2>4. CouldDescendantMatch(pattern, t)
    BY <2>1 DEF Walked
  <2> HIDE DEF s, t
  <2>5. s = t
    <3>1. \A i \in 1 .. k : s[i] = t[i]
      BY <1>2, <2>1, <2>2, <2>3
    <3> QED
      BY <2>2, <2>3, <3>1
  <2>6. CouldDescendantMatch(pattern, s)
    BY <2>4, <2>5
  <2> QED
    BY <2>6 DEF s
<1> QED
  BY <1>3 DEF Walked

(* Pruning loses nothing: the walk returns every group that Python's       *)
(* filter accepts, unless a segment of the pattern is ".", which the run   *)
(* glob_dot is about.  (glob.rs:9-16)                                      *)
THEOREM PruningLosesNothing ==
  ASSUME NoDots
  PROVE  Spec => []NoFalseNegative
<1>1. Placed => NoFalseNegative
  BY MatchWalked DEF NoFalseNegative
<1> QED
  BY <1>1, PlacedInvariant, PTL

(* What the caller gets is what an unpruned walk would have given, and a   *)
(* tree: with each group, its ancestors.  (glob.rs:9-16,                   *)
(* backend.py:319-330)                                                     *)
THEOREM FilterGivesTheSame ==
  ASSUME NoDots
  PROVE  Spec => []FilterAgrees
<1>1. ASSUME Placed PROVE Filtered(Walked) = Filtered(tree)
  <2>1. Walked \subseteq tree
    BY DEF Walked
  <2>2. {path \in Walked : PosixMatch(pattern, path)}
          = {path \in tree : PosixMatch(pattern, path)}
    BY <1>1, <2>1, MatchWalked
  <2> DEFINE M == {path \in tree : PosixMatch(pattern, path)}
  <2>3. M \subseteq Walked
    BY <2>2
  <2> HIDE DEF M
  <2>4. ASSUME NEW path \in tree, NEW q \in M, IsPrefix(path, q) PROVE path \in Walked
    BY <1>1, <2>3, <2>4, WalkedAbove
  <2>5. WithAncestors(Walked, M) = WithAncestors(tree, M)
    BY <2>1, <2>4 DEF WithAncestors
  <2> QED
    BY <2>2, <2>5 DEF Filtered, M
<1>2. ASSUME Placed, NEW path \in Filtered(Walked), NEW k \in 0 .. Len(path)
      PROVE  SubSeq(path, 1, k) \in Filtered(Walked)
  <2> DEFINE s == SubSeq(path, 1, k)
             M == {p \in Walked : PosixMatch(pattern, p)}
  <2>1. PICK q \in M : IsPrefix(path, q) /\ path \in Walked /\ q \in Walked
    BY <1>2 DEF Filtered, WithAncestors
  <2>2. /\ path \in tree /\ q \in tree
        /\ path \in Seq(Seq(STRING)) /\ q \in Seq(Seq(STRING))
    <3>1. path \in tree /\ q \in tree
      BY <2>1 DEF Walked
    <3> QED
      BY <1>2, <3>1, Given
  <2>3. s \in tree
    BY <1>2, <2>2, Given
  <2>4. s \in Seq(Seq(STRING)) /\ Len(s) = k /\ \A i \in 1 .. k : s[i] = path[i]
    BY <2>2, Beginning
  <2> HIDE DEF s, M
  <2>5. Len(path) <= Len(q) /\ SubSeq(path, 1, Len(path)) = SubSeq(q, 1, Len(path))
    BY <2>1 DEF IsPrefix
  <2>6. /\ k \in 0 .. Len(q) /\ k \in 0 .. Len(s) /\ Len(path) \in 0 .. Len(path)
        /\ Len(path) \in 0 .. Len(q) /\ k <= Len(q)
        /\ \A i \in 1 .. k : i \in 1 .. Len(path)
    BY <2>2, <2>4, <2>5
  <2>7. IsPrefix(s, q)
    <3> DEFINE t == SubSeq(q, 1, k)
               u == SubSeq(s, 1, k)
    <3>1. t \in Seq(Seq(STRING)) /\ Len(t) = k /\ \A i \in 1 .. k : t[i] = q[i]
      BY <2>2, <2>6, Beginning
    <3>2. u \in Seq(Seq(STRING)) /\ Len(u) = k /\ \A i \in 1 .. k : u[i] = s[i]
      BY <2>4, <2>6, Beginning
    <3>3. ASSUME NEW i \in 1 .. Len(path) PROVE path[i] = q[i]
      <4>1. SubSeq(path, 1, Len(path))[i] = path[i]
        BY <2>2, <2>6, Beginning
      <4>2. SubSeq(q, 1, Len(path))[i] = q[i]
        BY <2>2, <2>6, Beginning
      <4> QED
        BY <2>5, <4>1, <4>2
    <3> HIDE DEF t, u
    <3>4. u = t
      <4>1. \A i \in 1 .. k : u[i] = t[i]
        BY <2>4, <2>6, <3>1, <3>2, <3>3
      <4> QED
        BY <3>1, <3>2, <4>1
    <3> QED
      BY <2>4, <2>6, <3>4 DEF IsPrefix, t, u
  <2>8. IsPrefix(s, path)
    <3> DEFINE u == SubSeq(s, 1, k)
    <3>1. u \in Seq(Seq(STRING)) /\ Len(u) = k /\ \A i \in 1 .. k : u[i] = s[i]
      BY <2>4, <2>6, Beginning
    <3> HIDE DEF u
    <3>2. u = s
      BY <2>4, <3>1
    <3>3. k <= Len(path)
      BY <2>2
    <3> QED
      BY <2>4, <3>2, <3>3 DEF IsPrefix, s, u
  <2>9. s \in Walked
    BY <1>2, <2>1, <2>3, <2>8, WalkedAbove
  <2>10. s \in Filtered(Walked)
    BY <2>7, <2>9 DEF Filtered, WithAncestors, M
  <2> QED
    BY <2>10 DEF s
<1>3. Placed => FilterAgrees
  BY <1>1, <1>2 DEF FilterAgrees
<1> QED
  BY <1>3, PlacedInvariant, PTL

=============================================================================
