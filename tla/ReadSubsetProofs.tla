--------------------------- MODULE ReadSubsetProofs ---------------------------
(***************************************************************************)
(* Theorems about ReadSubset, for arrays of any number of axes, any sizes, *)
(* chunks and keys: what is read is whole chunks the request touches, what *)
(* is returned is what the key selects, in row-major order, the buffer is  *)
(* never indexed past its end, and an exception has a reason.  They rest   *)
(* on the alignment of one axis, for every chunk size and every size that  *)
(* ends a chunk below the word size, and on counting in mixed radix, for   *)
(* the buffer's strides and slice_nd's carrying index.                     *)
(***************************************************************************)
EXTENDS ReadSubset, FiniteSetTheorems, WellFoundedInduction, TLAPS

(* A set that has 0 and, with each number, the next one has them all. *)
LEMMA SetInduction ==
  ASSUME NEW S, 0 \in S, \A n \in Nat : n \in S => n + 1 \in S
  PROVE  Nat \subseteq S
<1> DEFINE T == Nat \ S
<1> SUFFICES ASSUME T # {} PROVE FALSE
  OBVIOUS
<1>1. PICK n \in T : \A m \in T : <<m, n>> \notin OpToRel(<, Nat)
  <2>1. IsWellFoundedOn(OpToRel(<, Nat), Nat) /\ T \subseteq Nat
    BY NatLessThanWellFounded
  <2> QED
    BY <2>1, WFMin
<1>2. n \in Nat /\ n # 0
  OBVIOUS
<1>3. n - 1 \in Nat /\ (n - 1) + 1 = n
  BY <1>2
<1>4. n - 1 \in T
  BY <1>3
<1>5. <<n - 1, n>> \in OpToRel(<, Nat)
  BY <1>2, <1>3 DEF OpToRel
<1> QED
  BY <1>1, <1>4, <1>5

LEMMA Division ==
  ASSUME NEW n \in Nat, NEW cs \in Nat \ {0}
  PROVE  /\ n \div cs \in Nat
         /\ (n \div cs) * cs \in Nat
         /\ (n \div cs) * cs <= n
         /\ n < (n \div cs) * cs + cs
  OBVIOUS

-----------------------------------------------------------------------------
(***************************************************************************)
(* Quotients and remainders.                                               *)
(***************************************************************************)
LEMMA Monotone ==
  ASSUME NEW a \in Nat, NEW b \in Nat, NEW s \in Nat, a <= b
  PROVE  a * s <= b * s
  OBVIOUS

LEMMA DivUnique ==
  ASSUME NEW n \in Nat, NEW q \in Nat, NEW s \in Nat \ {0},
         q * s <= n, n < q * s + s
  PROVE  n \div s = q
<1> DEFINE p == n \div s
<1>1. p \in Nat /\ p * s <= n /\ n < p * s + s
  BY Division
<1> HIDE DEF p
<1>2. (p + 1) * s = p * s + s /\ (q + 1) * s = q * s + s
      /\ p * s \in Nat /\ q * s \in Nat
  BY <1>1
<1>3. ~(p < q)
  <2> SUFFICES ASSUME p < q PROVE FALSE
    OBVIOUS
  <2>1. (p + 1) * s <= q * s
    BY <1>1, Monotone
  <2> QED
    BY <1>1, <1>2, <2>1
<1>4. ~(q < p)
  <2> SUFFICES ASSUME q < p PROVE FALSE
    OBVIOUS
  <2>1. (q + 1) * s <= p * s
    BY <1>1, Monotone
  <2> QED
    BY <1>1, <1>2, <2>1
<1>5. p = q
  BY <1>1, <1>3, <1>4
<1> QED
  BY <1>5 DEF p

LEMMA Remainder ==
  ASSUME NEW n \in Nat, NEW s \in Nat \ {0}
  PROVE  n % s = n - (n \div s) * s /\ n % s \in 0 .. s - 1
  OBVIOUS

LEMMA RemainderUnique ==
  ASSUME NEW q \in Nat, NEW s \in Nat \ {0}, NEW x \in 0 .. s - 1
  PROVE  (q * s + x) \div s = q /\ (q * s + x) % s = x
<1>1. q * s \in Nat
  OBVIOUS
<1>2. (q * s + x) \div s = q
  BY <1>1, DivUnique
<1>3. q * s + x \in Nat
  BY <1>1
<1> DEFINE n == q * s + x
<1>4. n % s = n - (n \div s) * s
  BY <1>3, Remainder
<1> QED
  BY <1>1, <1>2, <1>4

LEMMA Successor ==
  ASSUME NEW n \in Nat, NEW s \in Nat \ {0}
  PROVE  /\ n % s = s - 1 => /\ (n + 1) \div s = (n \div s) + 1
                             /\ (n + 1) % s = 0
         /\ n % s # s - 1 => /\ (n + 1) \div s = n \div s
                             /\ (n + 1) % s = (n % s) + 1
<1> DEFINE q == n \div s
           r == n % s
<1>1. q \in Nat /\ r \in 0 .. s - 1 /\ r = n - q * s /\ q * s \in Nat
  BY Division, Remainder
<1> HIDE DEF q, r
<1>2. CASE r = s - 1
  <2>1. n + 1 = (q + 1) * s + 0 /\ 0 \in 0 .. s - 1 /\ q + 1 \in Nat
    BY <1>1, <1>2
  <2> DEFINE p == q + 1
  <2>2. p \in Nat
    BY <2>1
  <2> HIDE DEF p
  <2>3. (p * s + 0) \div s = p /\ (p * s + 0) % s = 0
    BY <2>1, <2>2, RemainderUnique
  <2>4. (n + 1) \div s = p /\ (n + 1) % s = 0
    BY <2>1, <2>3 DEF p
  <2> QED
    BY <1>2, <2>4 DEF q, r, p
<1>3. CASE r # s - 1
  <2>1. n + 1 = q * s + (r + 1) /\ r + 1 \in 0 .. s - 1
    BY <1>1, <1>3
  <2>2. (n + 1) \div s = q /\ (n + 1) % s = r + 1
    BY <1>1, <2>1, RemainderUnique
  <2> QED
    BY <1>3, <2>2 DEF q, r
<1> QED
  BY <1>2, <1>3

(* Dividing by a product is dividing by one factor and then the other. *)
LEMMA DivideTwice ==
  ASSUME NEW n \in Nat, NEW s \in Nat \ {0}, NEW d \in Nat \ {0}
  PROVE  /\ s * d \in Nat \ {0}
         /\ n \div (s * d) = (n \div s) \div d
         /\ n % (s * d) = ((n \div s) % d) * s + (n % s)
<1> DEFINE q == n \div s
           r == n % s
           p == q \div d
           x == q % d
<1>1. q \in Nat /\ r \in 0 .. s - 1 /\ r = n - q * s /\ q * s \in Nat
  BY Division, Remainder
<1>2. p \in Nat /\ x \in 0 .. d - 1 /\ x = q - p * d /\ p * d \in Nat
  BY <1>1, Division, Remainder
<1>3. s * d \in Nat \ {0}
  OBVIOUS
<1> HIDE DEF q, r, p, x
<1>4. n = p * (s * d) + (x * s + r)
  <2>1. q = p * d + x /\ n = q * s + r
    BY <1>1, <1>2
  <2>2. (p * d + x) * s = p * (s * d) + x * s
    BY <1>2
  <2> QED
    BY <1>1, <1>2, <2>1, <2>2
<1>5. x * s + r \in 0 .. s * d - 1
  <2>1. x + 1 <= d /\ x + 1 \in Nat
    BY <1>2
  <2>2. (x + 1) * s <= d * s
    BY <2>1, Monotone
  <2>3. (x + 1) * s = x * s + s /\ d * s = s * d /\ x * s \in Nat
    BY <1>2
  <2> QED
    BY <1>1, <1>3, <2>2, <2>3
<1>6. n \div (s * d) = p /\ n % (s * d) = x * s + r
  BY <1>2, <1>3, <1>4, <1>5, RemainderUnique
<1> QED
  BY <1>3, <1>6 DEF q, r, p, x

-----------------------------------------------------------------------------
(* Induction along the axes, from either end. *)
LEMMA Upward ==
  ASSUME NEW n \in Nat, NEW S, 0 \in S, \A i \in 1 .. n : i - 1 \in S => i \in S
  PROVE  0 .. n \subseteq S
<1> DEFINE T == {j \in Nat : j <= n => j \in S}
<1>1. 0 \in T
  OBVIOUS
<1>2. ASSUME NEW j \in Nat, j \in T PROVE j + 1 \in T
  <2> SUFFICES ASSUME j + 1 <= n PROVE j + 1 \in S
    OBVIOUS
  <2>1. j + 1 \in 1 .. n /\ (j + 1) - 1 = j /\ j \in S
    BY <1>2
  <2> QED
    BY <2>1
<1>3. Nat \subseteq T
  <2> HIDE DEF T
  <2> QED
    BY <1>1, <1>2, SetInduction
<1> QED
  BY <1>3

LEMMA Downward ==
  ASSUME NEW n \in Nat, NEW S, n \in S, \A i \in 1 .. n : i \in S => i - 1 \in S
  PROVE  0 .. n \subseteq S
<1> DEFINE T == {j \in Nat : j <= n => n - j \in S}
<1>1. 0 \in T
  OBVIOUS
<1>2. ASSUME NEW j \in Nat, j \in T PROVE j + 1 \in T
  <2> SUFFICES ASSUME j + 1 <= n PROVE n - (j + 1) \in S
    OBVIOUS
  <2>1. n - j \in 1 .. n /\ (n - j) - 1 = n - (j + 1) /\ n - j \in S
    BY <1>2
  <2> QED
    BY <2>1
<1>3. Nat \subseteq T
  <2> HIDE DEF T
  <2> QED
    BY <1>1, <1>2, SetInduction
<1>4. ASSUME NEW i \in 0 .. n PROVE i \in S
  <2>1. n - i \in T /\ n - (n - i) = i /\ n - i <= n
    BY <1>3
  <2> QED
    BY <2>1
<1> QED
  BY <1>4

-----------------------------------------------------------------------------
(***************************************************************************)
(* A row-major buffer counts in mixed radix: an axis of size d[i] has      *)
(* weight w[i], the number of elements one step along it skips.            *)
(***************************************************************************)
Radix(w, d, n) ==
  /\ n \in Nat
  /\ w \in [0 .. n -> Nat] /\ d \in [1 .. n -> Nat \ {0}]
  /\ w[n] = 1
  /\ \A i \in 1 .. n : w[i - 1] = w[i] * d[i]

Digit(k, w, d, i) == (k \div w[i]) % d[i]

LEMMA WeightsPositive ==
  ASSUME NEW w, NEW d, NEW n, Radix(w, d, n)
  PROVE  \A i \in 0 .. n : w[i] \in Nat \ {0}
<1> DEFINE S == {i \in 0 .. n : w[i] \in Nat \ {0}}
<1>0. n \in Nat
  BY DEF Radix
<1>1. n \in S
  BY DEF Radix
<1>2. ASSUME NEW i \in 1 .. n, i \in S PROVE i - 1 \in S
  <2>1. w[i] \in Nat \ {0} /\ d[i] \in Nat \ {0} /\ w[i - 1] = w[i] * d[i]
    BY <1>2 DEF Radix
  <2>2. \A a, b \in Nat \ {0} : a * b \in Nat \ {0}
    OBVIOUS
  <2> QED
    BY <1>0, <2>1, <2>2
<1>3. 0 .. n \subseteq S
  <2> HIDE DEF S
  <2> QED
    BY <1>0, <1>1, <1>2, Downward
<1> QED
  BY <1>3

(* What the induction and the arithmetic need of one axis. *)
LEMMA RadixAt ==
  ASSUME NEW w, NEW d, NEW n, Radix(w, d, n), NEW i \in 1 .. n
  PROVE  /\ n \in Nat /\ i \in 0 .. n /\ i - 1 \in 0 .. n
         /\ w[i] \in Nat \ {0} /\ w[i - 1] \in Nat \ {0} /\ d[i] \in Nat \ {0}
         /\ w[i - 1] = w[i] * d[i]
<1>1. n \in Nat
  BY DEF Radix
<1>2. i \in 0 .. n /\ i - 1 \in 0 .. n
  BY <1>1
<1>3. w[i] \in Nat \ {0} /\ w[i - 1] \in Nat \ {0}
  BY <1>2, WeightsPositive
<1>4. d[i] \in Nat \ {0} /\ w[i - 1] = w[i] * d[i]
  BY DEF Radix
<1> QED
  BY <1>1, <1>2, <1>3, <1>4

LEMMA DigitType ==
  ASSUME NEW w, NEW d, NEW n, Radix(w, d, n), NEW k \in Nat, NEW i \in 1 .. n
  PROVE  Digit(k, w, d, i) \in 0 .. d[i] - 1
<1>1. w[i] \in Nat \ {0} /\ d[i] \in Nat \ {0}
  BY RadixAt
<1>2. k \div w[i] \in Nat
  BY <1>1, Division
<1> QED
  BY <1>1, <1>2, Remainder DEF Digit

(* The digits after the i-th are all as large as they can be. *)
Full(k, w, d, n, i) == \A j \in i + 1 .. n : Digit(k, w, d, j) + 1 = d[j]

LEMMA FullMeans ==
  ASSUME NEW w, NEW d, NEW n, Radix(w, d, n), NEW k \in Nat, NEW i \in 0 .. n
  PROVE  Full(k, w, d, n, i) <=> k % w[i] = w[i] - 1
<1> DEFINE Same(l) == Full(k, w, d, n, l) <=> k % w[l] = w[l] - 1
           S == {l \in 0 .. n : Same(l)}
<1>0. n \in Nat
  BY DEF Radix
<1>1. n \in S
  <2>1. w[n] = 1
    BY DEF Radix
  <2>2. k % 1 = 1 - 1
    OBVIOUS
  <2>3. Full(k, w, d, n, n)
    BY <1>0 DEF Full
  <2> QED
    BY <1>0, <2>1, <2>2, <2>3
<1>2. ASSUME NEW l \in 1 .. n, l \in S PROVE l - 1 \in S
  <2> DEFINE x == Digit(k, w, d, l)
             r == k % w[l]
  <2>1. /\ w[l] \in Nat \ {0} /\ d[l] \in Nat \ {0}
        /\ w[l - 1] = w[l] * d[l]
    BY RadixAt
  <2>2. k % w[l - 1] = x * w[l] + r
    BY <2>1, DivideTwice DEF Digit
  <2>3. x \in 0 .. d[l] - 1 /\ r \in 0 .. w[l] - 1
    BY <2>1, DigitType, Remainder
  <2>4. Full(k, w, d, n, l - 1) <=> x + 1 = d[l] /\ Full(k, w, d, n, l)
    <3>1. (l - 1) + 1 .. n = {l} \cup (l + 1 .. n)
      BY <1>0
    <3> QED
      BY <3>1 DEF Full
  <2>5. Full(k, w, d, n, l) <=> r = w[l] - 1
    BY <1>2
  <2> HIDE DEF x, r
  <2>6. x * w[l] + r = w[l] * d[l] - 1 <=> x + 1 = d[l] /\ r = w[l] - 1
    <3> DEFINE a == w[l]
               b == d[l]
    <3>1. a \in Nat \ {0} /\ b \in Nat \ {0} /\ x \in 0 .. b - 1 /\ r \in 0 .. a - 1
      BY <2>1, <2>3
    <3> HIDE DEF a, b
    <3>2. ASSUME x + 1 = b PROVE x * a + r = a * b - 1 <=> r = a - 1
      <4>1. (x + 1) * a = x * a + a /\ x * a \in Nat
        BY <3>1
      <4>2. a * b = x * a + a
        BY <3>1, <3>2, <4>1
      <4> QED
        BY <3>1, <4>1, <4>2
    <3>3. ASSUME x + 1 # b PROVE x * a + r # a * b - 1
      <4>1. x + 2 <= b /\ x + 2 \in Nat
        BY <3>1, <3>3
      <4>2. (x + 2) * a <= b * a
        BY <3>1, <4>1, Monotone
      <4>3. (x + 2) * a = x * a + a + a /\ b * a = a * b /\ x * a \in Nat
        BY <3>1
      <4> QED
        BY <3>1, <4>2, <4>3
    <3> QED
      BY <3>2, <3>3 DEF a, b
  <2>7. Same(l - 1)
    BY <2>1, <2>2, <2>4, <2>5, <2>6
  <2> QED
    BY <1>0, <2>7
<1>3. 0 .. n \subseteq S
  <2> HIDE DEF S
  <2> QED
    BY <1>0, <1>1, <1>2, Downward
<1> QED
  BY <1>3

(* Counting on carries into an axis once all axes after it are full. *)
LEMMA Carry ==
  ASSUME NEW w, NEW d, NEW n, Radix(w, d, n), NEW k \in Nat, NEW i \in 1 .. n
  PROVE  LET x == Digit(k, w, d, i)
         IN  Digit(k + 1, w, d, i) =
               IF ~Full(k, w, d, n, i) THEN x ELSE IF x + 1 < d[i] THEN x + 1 ELSE 0
<1> DEFINE q == k \div w[i]
           x == Digit(k, w, d, i)
<1>1. /\ w[i] \in Nat \ {0} /\ d[i] \in Nat \ {0} /\ i \in 0 .. n
  BY RadixAt
<1>2. q \in Nat /\ x = q % d[i] /\ x \in 0 .. d[i] - 1
  BY <1>1, Division, DigitType DEF Digit
<1>3. CASE ~Full(k, w, d, n, i)
  <2>1. k % w[i] # w[i] - 1
    BY <1>1, <1>3, FullMeans
  <2>2. (k + 1) \div w[i] = q
    BY <1>1, <2>1, Successor
  <2> QED
    BY <1>3, <2>2 DEF Digit
<1>4. CASE Full(k, w, d, n, i)
  <2>1. k % w[i] = w[i] - 1
    BY <1>1, <1>4, FullMeans
  <2>2. (k + 1) \div w[i] = q + 1
    BY <1>1, <2>1, Successor
  <2>3. Digit(k + 1, w, d, i) = (q + 1) % d[i]
    BY <2>2 DEF Digit
  <2> HIDE DEF q, x
  <2>4. (q + 1) % d[i] = IF x = d[i] - 1 THEN 0 ELSE x + 1
    BY <1>1, <1>2, Successor
  <2>5. x = d[i] - 1 <=> ~(x + 1 < d[i])
    BY <1>1, <1>2
  <2> QED
    BY <1>4, <2>3, <2>4, <2>5 DEF x
<1> QED
  BY <1>3, <1>4

(* Until the count is over, some axis takes the carry. *)
LEMMA SomeAxisTurns ==
  ASSUME NEW w, NEW d, NEW n, Radix(w, d, n), NEW k \in Nat, k + 1 < w[0]
  PROVE  \E i \in 1 .. n :
           /\ Digit(k + 1, w, d, i) = Digit(k, w, d, i) + 1
           /\ \A j \in 1 .. i - 1 : Digit(k + 1, w, d, j) = Digit(k, w, d, j)
<1>0. n \in Nat /\ w[0] \in Nat \ {0}
  <2>1. n \in Nat
    BY DEF Radix
  <2> QED
    BY <2>1, WeightsPositive
<1> DEFINE S == {l \in 0 .. n : Full(k, w, d, n, l)}
<1>1. n \in S
  BY <1>0 DEF Full
<1>2. 0 \notin S
  <2>1. k \div w[0] = 0 /\ k % w[0] = k
    <3>1. 0 * w[0] + k = k /\ k \in 0 .. w[0] - 1
      BY <1>0
    <3> QED
      BY <1>0, <3>1, RemainderUnique
  <2>2. k % w[0] # w[0] - 1
    BY <1>0, <2>1
  <2> QED
    BY <1>0, <2>2, FullMeans
<1>3. \E i \in 1 .. n : i \in S /\ i - 1 \notin S
  <2> SUFFICES ASSUME \A i \in 1 .. n : i \in S => i - 1 \in S PROVE FALSE
    OBVIOUS
  <2>1. 0 .. n \subseteq S
    <3> HIDE DEF S
    <3> QED
      BY <1>0, <1>1, Downward
  <2>2. 0 \in 0 .. n
    BY <1>0
  <2> HIDE DEF S
  <2> QED
    BY <1>2, <2>1, <2>2
<1>4. PICK i \in 1 .. n : i \in S /\ i - 1 \notin S
  BY <1>3
<1>5. Full(k, w, d, n, i) /\ ~Full(k, w, d, n, i - 1)
  BY <1>0, <1>4
<1>6. Digit(k, w, d, i) + 1 # d[i]
  <2>1. (i - 1) + 1 .. n = {i} \cup (i + 1 .. n)
    BY <1>0
  <2> QED
    BY <1>5, <2>1 DEF Full
<1>7. Digit(k, w, d, i) \in 0 .. d[i] - 1 /\ d[i] \in Nat \ {0}
  BY DigitType DEF Radix
<1>8. Digit(k + 1, w, d, i) = Digit(k, w, d, i) + 1
  <2>1. Digit(k, w, d, i) + 1 < d[i]
    BY <1>6, <1>7
  <2> QED
    BY <1>5, <2>1, Carry
<1>9. ASSUME NEW j \in 1 .. i - 1
      PROVE  Digit(k + 1, w, d, j) = Digit(k, w, d, j)
  <2>1. j \in 1 .. n /\ i \in j + 1 .. n
    BY <1>0
  <2>2. ~Full(k, w, d, n, j)
    BY <1>6, <2>1 DEF Full
  <2> QED
    BY <2>1, <2>2, Carry
<1> QED
  BY <1>8, <1>9

(***************************************************************************)
(* The place f[n] of the element with coordinates x, summed up along the   *)
(* axes, is inside the buffer, and has those coordinates for its digits.   *)
(***************************************************************************)
Place(f, x, w, d, n) ==
  /\ \A i \in 1 .. n : x[i] \in 0 .. d[i] - 1
  /\ f[0] = 0
  /\ \A i \in 1 .. n : f[i] = f[i - 1] + x[i] * w[i]

LEMMA PlaceBounds ==
  ASSUME NEW w, NEW d, NEW n, Radix(w, d, n), NEW f, NEW x, Place(f, x, w, d, n)
  PROVE  /\ \A i \in 0 .. n : /\ f[i] \in Nat
                              /\ f[i] + w[i] <= w[0]
                              /\ f[i] <= f[n] /\ f[n] < f[i] + w[i]
<1>0. n \in Nat /\ n \in 0 .. n /\ 0 \in 0 .. n
  BY DEF Radix
<1>1. ASSUME NEW i \in 1 .. n, f[i - 1] \in Nat
      PROVE  /\ f[i] \in Nat /\ f[i - 1] <= f[i]
             /\ f[i] + w[i] <= f[i - 1] + w[i - 1]
  <2>1. /\ w[i] \in Nat \ {0} /\ d[i] \in Nat \ {0} /\ w[i - 1] = w[i] * d[i]
        /\ x[i] \in 0 .. d[i] - 1 /\ f[i] = f[i - 1] + x[i] * w[i]
    BY <1>0, RadixAt DEF Place
  <2> DEFINE a == w[i]
             b == d[i]
             c == x[i]
  <2>2. /\ a \in Nat \ {0} /\ b \in Nat \ {0} /\ c \in 0 .. b - 1
        /\ w[i - 1] = a * b /\ f[i] = f[i - 1] + c * a /\ w[i] = a
    BY <2>1
  <2> HIDE DEF a, b, c
  <2>3. (c + 1) * a <= b * a
    BY <2>2, Monotone
  <2>4. (c + 1) * a = c * a + a /\ b * a = a * b /\ c * a \in Nat
    BY <2>2
  <2> QED
    BY <1>1, <2>2, <2>3, <2>4
<1>2. \A i \in 0 .. n : w[i] \in Nat \ {0}
  BY WeightsPositive
<1> DEFINE S == {i \in 0 .. n : f[i] \in Nat /\ f[i] + w[i] <= w[0]}
<1>3. 0 .. n \subseteq S
  <2>1. 0 \in S
    BY <1>0, <1>2 DEF Place
  <2>2. ASSUME NEW i \in 1 .. n, i - 1 \in S PROVE i \in S
    <3>1. f[i - 1] \in Nat /\ f[i - 1] + w[i - 1] <= w[0] /\ i \in 0 .. n /\ i - 1 \in 0 .. n
      BY <1>0, <2>2
    <3>2. /\ f[i] \in Nat
          /\ f[i] + w[i] <= f[i - 1] + w[i - 1]
      BY <1>1, <3>1
    <3>3. w[i] \in Nat /\ w[i - 1] \in Nat /\ w[0] \in Nat
      BY <1>0, <1>2, <3>1
    <3>4. f[i] + w[i] <= w[0]
      BY <3>1, <3>2, <3>3
    <3> QED
      BY <3>1, <3>2, <3>4
  <2> HIDE DEF S
  <2> QED
    BY <1>0, <2>1, <2>2, Upward
<1> DEFINE T == {i \in 0 .. n : f[i] <= f[n] /\ f[n] < f[i] + w[i]}
<1>4. 0 .. n \subseteq T
  <2>1. n \in T
    <3>1. f[n] \in Nat /\ w[n] \in Nat \ {0}
      BY <1>0, <1>2, <1>3
    <3> QED
      BY <1>0, <3>1
  <2>2. ASSUME NEW i \in 1 .. n, i \in T PROVE i - 1 \in T
    <3>1. /\ f[i] <= f[n] /\ f[n] < f[i] + w[i] /\ i \in 0 .. n /\ i - 1 \in 0 .. n
      BY <1>0, <2>2
    <3>2. /\ f[i] \in Nat /\ f[i - 1] \in Nat /\ f[n] \in Nat
          /\ w[i] \in Nat /\ w[i - 1] \in Nat
      BY <1>0, <1>2, <1>3, <3>1
    <3>3. f[i - 1] <= f[i] /\ f[i] + w[i] <= f[i - 1] + w[i - 1]
      BY <1>1, <3>2
    <3>4. f[i - 1] <= f[n] /\ f[n] < f[i - 1] + w[i - 1]
      BY <3>1, <3>2, <3>3
    <3> QED
      BY <3>1, <3>4
  <2> HIDE DEF T
  <2> QED
    BY <1>0, <2>1, <2>2, Downward
<1> QED
  BY <1>3, <1>4

LEMMA PlaceDigits ==
  ASSUME NEW w, NEW d, NEW n, Radix(w, d, n), NEW f, NEW x, Place(f, x, w, d, n),
         NEW i \in 1 .. n
  PROVE  Digit(f[n], w, d, i) = x[i]
<1>0. n \in Nat /\ i \in 0 .. n /\ i - 1 \in 0 .. n
  BY DEF Radix
<1> DEFINE Multiple(j) == \E q \in Nat : f[j] = q * w[j]
           S == {j \in 0 .. n : Multiple(j)}
<1>1. ASSUME NEW j \in 1 .. n, NEW q \in Nat, f[j - 1] = q * w[j - 1]
      PROVE  f[j] = (q * d[j] + x[j]) * w[j] /\ q * d[j] + x[j] \in Nat
  <2>1. /\ j \in 0 .. n /\ w[j] \in Nat \ {0} /\ d[j] \in Nat \ {0}
        /\ w[j - 1] = w[j] * d[j]
        /\ x[j] \in 0 .. d[j] - 1 /\ f[j] = f[j - 1] + x[j] * w[j]
    BY <1>0, RadixAt DEF Place
  <2> DEFINE a == w[j]
             b == d[j]
             c == x[j]
  <2>2. /\ a \in Nat \ {0} /\ b \in Nat \ {0} /\ c \in Nat
        /\ f[j] = q * (a * b) + c * a
    BY <1>1, <2>1
  <2> HIDE DEF a, b, c
  <2>3. (q * b + c) * a = q * (a * b) + c * a /\ q * b + c \in Nat
    BY <2>2
  <2> QED
    BY <2>2, <2>3 DEF a, b, c
<1>2. 0 .. n \subseteq S
  <2>1. 0 \in S
    <3>1. f[0] = 0 /\ 0 \in 0 .. n /\ w[0] \in Nat
      BY <1>0, WeightsPositive DEF Place
    <3>2. 0 = 0 * w[0]
      BY <3>1
    <3> QED
      BY <3>1, <3>2
  <2>2. ASSUME NEW j \in 1 .. n, j - 1 \in S PROVE j \in S
    <3>1. PICK q \in Nat : f[j - 1] = q * w[j - 1]
      BY <2>2
    <3>2. f[j] = (q * d[j] + x[j]) * w[j] /\ q * d[j] + x[j] \in Nat
      BY <1>1, <3>1
    <3>3. j \in 0 .. n
      BY <1>0
    <3> QED
      BY <3>2, <3>3
  <2> HIDE DEF S
  <2> QED
    BY <1>0, <2>1, <2>2, Upward
<1>3. PICK q \in Nat : f[i - 1] = q * w[i - 1]
  BY <1>0, <1>2
<1> DEFINE p == q * d[i] + x[i]
<1>4. f[i] = p * w[i] /\ p \in Nat
  BY <1>1, <1>3
<1>5. /\ w[i] \in Nat \ {0} /\ d[i] \in Nat \ {0} /\ x[i] \in 0 .. d[i] - 1
      /\ f[n] \in Nat /\ f[i] <= f[n] /\ f[n] < f[i] + w[i]
  <2>1. n \in 0 .. n
    BY <1>0
  <2> QED
    BY <1>0, <2>1, RadixAt, PlaceBounds DEF Place
<1>6. p % d[i] = x[i]
  BY <1>5, RemainderUnique
<1> HIDE DEF p
<1>7. f[n] \div w[i] = p
  BY <1>4, <1>5, DivUnique
<1> QED
  BY <1>6, <1>7 DEF Digit

-----------------------------------------------------------------------------
(* A function counted up along the axes exists: step tells how. *)
LEMMA Recursion ==
  ASSUME NEW n \in Nat, NEW c \in Nat, NEW step \in [(1 .. n) \X Nat -> Nat]
  PROVE  \E f \in [0 .. n -> Nat] :
           f[0] = c /\ \A i \in 1 .. n : f[i] = step[<<i, f[i - 1]>>]
<1> DEFINE Upto(m, f) ==
             /\ f \in [0 .. m -> Nat] /\ f[0] = c
             /\ \A i \in 1 .. m : f[i] = step[<<i, f[i - 1]>>]
           S == {m \in 0 .. n : \E f : Upto(m, f)}
<1>1. 0 \in S
  <2> DEFINE g == [i \in 0 .. 0 |-> c]
  <2>1. Upto(0, g)
    OBVIOUS
  <2>2. 0 \in 0 .. n
    OBVIOUS
  <2> HIDE DEF Upto, g
  <2> QED
    BY <2>1, <2>2
<1>2. ASSUME NEW m \in 1 .. n, m - 1 \in S PROVE m \in S
  <2>1. PICK f : Upto(m - 1, f)
    BY <1>2
  <2> DEFINE g == [i \in 0 .. m |-> IF i = m THEN step[<<m, f[m - 1]>>] ELSE f[i]]
  <2>2. m \in Nat /\ m - 1 \in 0 .. m - 1 /\ 0 \in 0 .. m /\ m # 0
    OBVIOUS
  <2>3. f[m - 1] \in Nat
    BY <2>1, <2>2
  <2>4. step[<<m, f[m - 1]>>] \in Nat
    BY <2>3
  <2>5. ASSUME NEW i \in 0 .. m PROVE g[i] \in Nat
    BY <2>1, <2>4
  <2>6. ASSUME NEW i \in 1 .. m PROVE g[i] = step[<<i, g[i - 1]>>]
    <3>1. i \in 0 .. m /\ i - 1 \in 0 .. m /\ i - 1 # m
      OBVIOUS
    <3>2. g[i - 1] = f[i - 1]
      BY <3>1
    <3>3. CASE i = m
      BY <3>1, <3>2, <3>3
    <3>4. CASE i # m
      <4>1. i \in 1 .. m - 1
        BY <3>4
      <4> QED
        BY <2>1, <3>1, <3>2, <3>4, <4>1
    <3> QED
      BY <3>3, <3>4
  <2>7. g[0] = c
    BY <2>1, <2>2
  <2>8. g \in [0 .. m -> Nat]
    <3>1. g = [i \in 0 .. m |-> g[i]]
      OBVIOUS
    <3> HIDE DEF g
    <3> QED
      BY <2>5, <3>1
  <2> HIDE DEF g
  <2>9. Upto(m, g)
    BY <2>6, <2>7, <2>8
  <2>10. m \in 0 .. n /\ \E h : Upto(m, h)
    BY <2>9
  <2> HIDE DEF Upto
  <2> QED
    BY <2>10
<1>3. 0 .. n \subseteq S
  <2> HIDE DEF S
  <2> QED
    BY <1>1, <1>2, Upward
<1>4. n \in S
  <2>1. n \in 0 .. n
    OBVIOUS
  <2> HIDE DEF S
  <2> QED
    BY <1>3, <2>1
<1> QED
  BY <1>4

(***************************************************************************)
(* The weights of the axes: the strides of a row-major buffer, and its     *)
(* size before them.                                                       *)
(***************************************************************************)
Weights(w, dims) ==
  /\ w \in [0 .. Len(dims) -> Nat] /\ w[Len(dims)] = 1
  /\ \A i \in 1 .. Len(dims) : w[i - 1] = w[i] * dims[i]

LEMMA WeightsExist ==
  ASSUME NEW dims \in Seq(Nat)
  PROVE  \E w : Weights(w, dims)
<1> DEFINE n == Len(dims)
           step == [x \in (1 .. n) \X Nat |-> x[2] * dims[(n - x[1]) + 1]]
<1>1. n \in Nat /\ \A i \in 1 .. n : dims[i] \in Nat
  OBVIOUS
<1>2. step \in [(1 .. n) \X Nat -> Nat]
  <2>1. ASSUME NEW x \in (1 .. n) \X Nat
        PROVE  x[2] * dims[(n - x[1]) + 1] \in Nat
    <3>1. (n - x[1]) + 1 \in 1 .. n /\ x[2] \in Nat
      BY <1>1
    <3>2. dims[(n - x[1]) + 1] \in Nat
      BY <1>1, <3>1
    <3> QED
      BY <3>1, <3>2
  <2> QED
    BY <2>1
<1>3. PICK t \in [0 .. n -> Nat] :
        t[0] = 1 /\ \A i \in 1 .. n : t[i] = step[<<i, t[i - 1]>>]
  <2>1. 1 \in Nat
    OBVIOUS
  <2> HIDE DEF step, n
  <2> QED
    BY <1>1, <1>2, <2>1, Recursion, Zenon
<1> DEFINE w == [i \in 0 .. n |-> t[n - i]]
<1>4. w \in [0 .. n -> Nat] /\ w[n] = 1
  BY <1>1, <1>3
<1>5. ASSUME NEW i \in 1 .. n PROVE w[i - 1] = w[i] * dims[i]
  <2> DEFINE j == (n - i) + 1
  <2>1. /\ j \in 1 .. n /\ j - 1 = n - i /\ j = n - (i - 1) /\ (n - j) + 1 = i
        /\ i \in 0 .. n /\ i - 1 \in 0 .. n /\ j - 1 \in 0 .. n
    BY <1>1
  <2>2. t[j] = t[j - 1] * dims[(n - j) + 1]
    <3>1. t[j - 1] \in Nat
      BY <1>3, <2>1
    <3>2. <<j, t[j - 1]>> \in (1 .. n) \X Nat
      BY <2>1, <3>1
    <3>3. step[<<j, t[j - 1]>>] = t[j - 1] * dims[(n - j) + 1]
      BY <3>2
    <3> QED
      BY <1>3, <2>1, <3>3
  <2>3. w[i - 1] = t[j] /\ w[i] = t[j - 1]
    BY <2>1
  <2> QED
    BY <2>1, <2>2, <2>3
<1>6. Weights(w, dims)
  BY <1>4, <1>5 DEF Weights
<1> QED
  BY <1>6

(* The recursive functions inside ProductOf and Strides. *)
Multiplied(s, p) ==
  p = [n \in 0 .. Len(s) |-> IF n = 0 THEN 1 ELSE p[n - 1] * s[n]]

Stridden(dims, s) ==
  s = [i \in DOMAIN dims |-> IF i = Len(dims) THEN 1 ELSE s[i + 1] * dims[i + 1]]

LEMMA ProductIs ==
  ASSUME NEW s
  PROVE  ProductOf(s) = (CHOOSE p : Multiplied(s, p))[Len(s)]
BY DEF ProductOf, Multiplied

LEMMA StridesIs ==
  ASSUME NEW dims
  PROVE  Strides(dims) = CHOOSE s : Stridden(dims, s)
BY DEF Strides, Stridden

LEMMA ProductCounts ==
  ASSUME NEW s \in Seq(Nat)
  PROVE  \E p \in [0 .. Len(s) -> Nat] :
           /\ p[0] = 1 /\ \A i \in 1 .. Len(s) : p[i] = p[i - 1] * s[i]
           /\ ProductOf(s) = p[Len(s)]
<1> DEFINE n == Len(s)
           step == [x \in (1 .. n) \X Nat |-> x[2] * s[x[1]]]
           p == CHOOSE q : Multiplied(s, q)
<1>1. n \in Nat /\ \A i \in 1 .. n : s[i] \in Nat
  OBVIOUS
<1>2. step \in [(1 .. n) \X Nat -> Nat]
  <2>1. ASSUME NEW x \in (1 .. n) \X Nat PROVE x[2] * s[x[1]] \in Nat
    <3>1. x[1] \in 1 .. n /\ x[2] \in Nat
      OBVIOUS
    <3>2. s[x[1]] \in Nat
      BY <1>1, <3>1
    <3> QED
      BY <3>1, <3>2
  <2> QED
    BY <2>1
<1>3. PICK q \in [0 .. n -> Nat] :
        q[0] = 1 /\ \A i \in 1 .. n : q[i] = step[<<i, q[i - 1]>>]
  <2>1. 1 \in Nat
    OBVIOUS
  <2> HIDE DEF step, n
  <2> QED
    BY <1>1, <1>2, <2>1, Recursion, Zenon
<1>4. ASSUME NEW i \in 1 .. n PROVE q[i] = q[i - 1] * s[i]
  <2>1. i - 1 \in 0 .. n
    BY <1>1
  <2>2. <<i, q[i - 1]>> \in (1 .. n) \X Nat
    BY <1>3, <2>1
  <2> QED
    BY <1>3, <2>2
<1> HIDE DEF step
<1>5. Multiplied(s, q)
  <2>1. ASSUME NEW i \in 0 .. n
        PROVE  q[i] = IF i = 0 THEN 1 ELSE q[i - 1] * s[i]
    <3>1. i # 0 => i \in 1 .. n
      BY <1>1
    <3> QED
      BY <1>3, <1>4, <3>1
  <2>2. q = [i \in 0 .. n |-> q[i]]
    BY <1>3
  <2> QED
    BY <2>1, <2>2 DEF Multiplied
<1>6. Multiplied(s, p)
  BY <1>5
<1> HIDE DEF p
<1>7. /\ p = [i \in 0 .. n |-> p[i]] /\ p[0] = 1
      /\ \A i \in 1 .. n : p[i] = p[i - 1] * s[i]
  <2>1. ASSUME NEW i \in 0 .. n
        PROVE  p[i] = IF i = 0 THEN 1 ELSE p[i - 1] * s[i]
    BY <1>6 DEF Multiplied
  <2>2. DOMAIN p = 0 .. n /\ p = [i \in DOMAIN p |-> p[i]]
    BY <1>6 DEF Multiplied
  <2>3. 0 \in 0 .. n /\ \A i \in 1 .. n : i \in 0 .. n /\ i # 0
    BY <1>1
  <2> QED
    BY <2>1, <2>2, <2>3
<1> DEFINE S == {i \in 0 .. n : p[i] \in Nat}
<1>8. 0 .. n \subseteq S
  <2>1. 0 \in S
    BY <1>1, <1>7
  <2>2. ASSUME NEW i \in 1 .. n, i - 1 \in S PROVE i \in S
    <3>1. p[i - 1] \in Nat /\ s[i] \in Nat /\ i \in 0 .. n
      BY <1>1, <2>2
    <3>2. p[i] = p[i - 1] * s[i]
      BY <1>7
    <3> QED
      BY <3>1, <3>2
  <2> HIDE DEF S
  <2> QED
    BY <1>1, <2>1, <2>2, Upward
<1>9. p \in [0 .. n -> Nat]
  BY <1>7, <1>8
<1> QED
  BY <1>7, <1>9, ProductIs DEF p

(* The product is what all the weights come to. *)
LEMMA ProductIsWeight ==
  ASSUME NEW dims \in Seq(Nat), NEW w, Weights(w, dims)
  PROVE  ProductOf(dims) = w[0]
<1> DEFINE n == Len(dims)
<1>1. n \in Nat /\ n \in 0 .. n /\ 0 \in 0 .. n /\ \A i \in 1 .. n : dims[i] \in Nat
  OBVIOUS
<1>2. PICK p \in [0 .. n -> Nat] :
        /\ p[0] = 1 /\ \A i \in 1 .. n : p[i] = p[i - 1] * dims[i]
        /\ ProductOf(dims) = p[n]
  BY ProductCounts
<1>3. /\ \A i \in 0 .. n : w[i] \in Nat
      /\ w[n] = 1 /\ \A i \in 1 .. n : w[i - 1] = w[i] * dims[i]
  BY DEF Weights
<1> DEFINE S == {i \in 0 .. n : p[i] * w[i] = p[n]}
<1>4. 0 .. n \subseteq S
  <2>1. n \in S
    BY <1>1, <1>2, <1>3
  <2>2. ASSUME NEW i \in 1 .. n, i \in S PROVE i - 1 \in S
    <3>1. /\ i \in 0 .. n /\ i - 1 \in 0 .. n
          /\ p[i] * w[i] = p[n] /\ p[i] = p[i - 1] * dims[i]
          /\ w[i - 1] = w[i] * dims[i]
      BY <1>1, <1>2, <1>3, <2>2
    <3>2. p[i - 1] \in Nat /\ w[i] \in Nat /\ dims[i] \in Nat
      BY <1>1, <1>2, <1>3, <3>1
    <3>3. \A a, b, c \in Nat : a * (b * c) = (a * c) * b
      OBVIOUS
    <3>4. p[i - 1] * w[i - 1] = p[n]
      BY <3>1, <3>2, <3>3
    <3> QED
      BY <3>1, <3>4
  <2> HIDE DEF S
  <2> QED
    BY <1>1, <2>1, <2>2, Downward
<1>5. p[0] * w[0] = p[n] /\ w[0] \in Nat
  BY <1>1, <1>3, <1>4
<1> QED
  BY <1>2, <1>5

LEMMA StridesAreWeights ==
  ASSUME NEW dims \in Seq(Nat), NEW w, Weights(w, dims)
  PROVE  /\ DOMAIN Strides(dims) = DOMAIN dims
         /\ \A i \in DOMAIN dims : Strides(dims)[i] = w[i]
<1> DEFINE n == Len(dims)
           v == [i \in DOMAIN dims |-> w[i]]
           s == CHOOSE t : Stridden(dims, t)
<1>1. n \in Nat /\ DOMAIN dims = 1 .. n
  OBVIOUS
<1>2. w[n] = 1 /\ \A i \in 1 .. n : w[i - 1] = w[i] * dims[i]
  BY DEF Weights
<1>3. Stridden(dims, v)
  <2>1. ASSUME NEW i \in DOMAIN dims
        PROVE  v[i] = IF i = n THEN 1 ELSE v[i + 1] * dims[i + 1]
    <3>1. CASE i = n
      BY <1>2, <3>1
    <3>2. CASE i # n
      <4>1. i + 1 \in 1 .. n /\ (i + 1) - 1 = i
        BY <1>1, <3>2
      <4>2. w[i] = w[i + 1] * dims[i + 1]
        BY <1>2, <4>1
      <4> QED
        BY <1>1, <3>2, <4>1, <4>2
    <3> QED
      BY <3>1, <3>2
  <2>2. v = [i \in DOMAIN dims |-> v[i]]
    OBVIOUS
  <2> HIDE DEF v
  <2> QED
    BY <2>1, <2>2 DEF Stridden
<1>4. Stridden(dims, s)
  BY <1>3
<1> HIDE DEF s
<1>5. /\ DOMAIN s = DOMAIN dims
      /\ \A i \in DOMAIN dims : s[i] = IF i = n THEN 1 ELSE s[i + 1] * dims[i + 1]
  <2>1. DOMAIN s = DOMAIN dims
    BY <1>4 DEF Stridden
  <2>2. ASSUME NEW i \in DOMAIN dims
        PROVE  s[i] = IF i = n THEN 1 ELSE s[i + 1] * dims[i + 1]
    BY <1>4 DEF Stridden
  <2> QED
    BY <2>1, <2>2
<1> DEFINE S == {i \in 0 .. n : i # 0 => s[i] = w[i]}
<1>6. 0 .. n \subseteq S
  <2>1. n \in S
    <3>1. n # 0 => n \in DOMAIN dims
      BY <1>1
    <3> QED
      BY <1>1, <1>2, <1>5, <3>1
  <2>2. ASSUME NEW i \in 1 .. n, i \in S PROVE i - 1 \in S
    <3>1. i - 1 \in 0 .. n /\ s[i] = w[i] /\ w[i - 1] = w[i] * dims[i]
      BY <1>1, <1>2, <2>2
    <3>2. ASSUME i - 1 # 0 PROVE s[i - 1] = w[i - 1]
      <4>1. i - 1 \in DOMAIN dims /\ i - 1 # n /\ (i - 1) + 1 = i
        BY <1>1, <3>2
      <4> QED
        BY <1>5, <3>1, <4>1
    <3> QED
      BY <3>1, <3>2
  <2> HIDE DEF S
  <2> QED
    BY <1>1, <2>1, <2>2, Downward
<1>7. \A i \in DOMAIN dims : s[i] = w[i]
  BY <1>1, <1>6
<1> QED
  BY <1>5, <1>7, StridesIs DEF s

(* The weight of an axis is what the axes after it multiply to. *)
LEMMA TailIsWeight ==
  ASSUME NEW dims \in Seq(Nat), NEW w, Weights(w, dims), NEW i \in DOMAIN dims
  PROVE  ProductOf(SubSeq(dims, i + 1, Len(dims))) = w[i]
<1> DEFINE n == Len(dims)
           m == n - i
           t == SubSeq(dims, i + 1, n)
           v == [j \in 0 .. m |-> w[i + j]]
<1>1. n \in Nat /\ i \in 1 .. n /\ m \in Nat /\ \A j \in 1 .. n : dims[j] \in Nat
  OBVIOUS
<1>2. t \in Seq(Nat) /\ Len(t) = m /\ \A j \in 1 .. m : t[j] = dims[i + j]
  <2>1. t = [j \in 1 .. m |-> dims[i + j]]
    <3>1. \A s \in Seq(Nat) : \A a \in 1 .. Len(s) :
            SubSeq(s, a + 1, Len(s)) = [j \in 1 .. Len(s) - a |-> s[a + j]]
      OBVIOUS
    <3> QED
      BY <1>1, <3>1
  <2>2. \A j \in 1 .. m : i + j \in 1 .. n
    BY <1>1
  <2>3. t \in [1 .. m -> Nat]
    BY <1>1, <2>1, <2>2
  <2>4. \A E : \A l \in Nat : \A f \in [1 .. l -> E] : f \in Seq(E) /\ Len(f) = l
    OBVIOUS
  <2> HIDE DEF t, m
  <2>5. t \in Seq(Nat) /\ Len(t) = m
    BY <1>1, <2>3, <2>4, Zenon
  <2> QED
    BY <2>1, <2>5
<1>3. Weights(v, t)
  <2>1. /\ \A j \in 0 .. n : w[j] \in Nat
        /\ w[n] = 1 /\ \A j \in 1 .. n : w[j - 1] = w[j] * dims[j]
    BY DEF Weights
  <2> HIDE DEF n, t
  <2>2. v \in [0 .. m -> Nat] /\ v[m] = 1
    <3>1. /\ \A j \in 0 .. m : i + j \in 0 .. n
          /\ m \in 0 .. m /\ i + m = n
      BY <1>1
    <3> QED
      BY <2>1, <3>1
  <2>3. ASSUME NEW j \in 1 .. m PROVE v[j - 1] = v[j] * t[j]
    <3>1. /\ i + j \in 1 .. n /\ (i + j) - 1 = i + (j - 1)
          /\ j \in 0 .. m /\ j - 1 \in 0 .. m
      BY <1>1
    <3>2. w[i + (j - 1)] = w[i + j] * dims[i + j]
      BY <2>1, <3>1
    <3>3. v[j - 1] = w[i + (j - 1)] /\ v[j] = w[i + j]
      BY <3>1
    <3> QED
      BY <1>2, <3>2, <3>3
  <2> HIDE DEF v, m
  <2> QED
    BY <1>2, <2>2, <2>3 DEF Weights
<1>4. ProductOf(t) = v[0]
  <2> HIDE DEF v, t
  <2> QED
    BY <1>2, <1>3, ProductIsWeight
<1>5. v[0] = w[i]
  BY <1>1
<1> QED
  BY <1>4, <1>5

(* An axis without elements leaves none. *)
LEMMA EmptyAxis ==
  ASSUME NEW dims \in Seq(Nat), NEW i \in DOMAIN dims, dims[i] = 0
  PROVE  ProductOf(dims) = 0
<1> DEFINE n == Len(dims)
<1>1. n \in Nat /\ n \in 0 .. n /\ i \in 1 .. n /\ \A j \in 1 .. n : dims[j] \in Nat
  OBVIOUS
<1>2. PICK p \in [0 .. n -> Nat] :
        /\ p[0] = 1 /\ \A j \in 1 .. n : p[j] = p[j - 1] * dims[j]
        /\ ProductOf(dims) = p[n]
  BY ProductCounts
<1> DEFINE S == {j \in 0 .. n : j >= i => p[j] = 0}
<1>3. 0 .. n \subseteq S
  <2>1. 0 \in S
    BY <1>1
  <2>2. ASSUME NEW j \in 1 .. n, j - 1 \in S PROVE j \in S
    <3>0. j \in 0 .. n /\ j - 1 \in 0 .. n
      BY <1>1
    <3>5. p[j] = p[j - 1] * dims[j]
      BY <1>2
    <3>6. p[j - 1] \in Nat
      BY <1>2, <3>0
    <3>7. dims[j] \in Nat
      BY <1>1
    <3>1. /\ j \in 0 .. n /\ j - 1 \in 0 .. n /\ p[j] = p[j - 1] * dims[j]
          /\ p[j - 1] \in Nat /\ dims[j] \in Nat
      BY <3>0, <3>5, <3>6, <3>7
    <3>2. CASE j = i
      BY <3>1, <3>2
    <3>3. CASE j - 1 >= i
      <4>1. p[j - 1] = 0
        BY <2>2, <3>3
      <4> QED
        BY <3>1, <4>1
    <3>4. CASE j < i
      BY <3>1, <3>4
    <3> QED
      BY <1>1, <3>2, <3>3, <3>4
  <2> HIDE DEF S
  <2> QED
    BY <1>1, <2>1, <2>2, Upward
<1> QED
  BY <1>1, <1>2, <1>3

LEMMA WeightsRadix ==
  ASSUME NEW dims \in Seq(Nat \ {0}), NEW w, Weights(w, dims)
  PROVE  Radix(w, dims, Len(dims))
<1>1. Len(dims) \in Nat /\ dims \in [1 .. Len(dims) -> Nat \ {0}]
  OBVIOUS
<1> QED
  BY <1>1 DEF Radix, Weights

-----------------------------------------------------------------------------
LEMMA Multiples ==
  ASSUME NEW k \in Nat, NEW cs \in Nat \ {0}
  PROVE  (k * cs) % cs = 0
  OBVIOUS

(* No product wraps below the word size. *)
LEMMA RoundUpExact ==
  ASSUME NEW stop \in Nat, NEW cs \in Nat \ {0}, stop + cs <= Word
  PROVE  \E k \in Nat : /\ RoundUp(stop, cs) = k * cs
                        /\ k * cs \in Nat
                        /\ stop <= k * cs /\ k * cs < stop + cs
<1> DEFINE k == (stop + cs - 1) \div cs
<1>1. stop + cs - 1 \in Nat
  OBVIOUS
<1>2. /\ k \in Nat /\ k * cs \in Nat
      /\ k * cs <= stop + cs - 1
      /\ stop + cs - 1 < k * cs + cs
  BY <1>1, Division
<1>3. k * cs \in 0 .. Word - 1
  BY <1>2, AlignmentAssumption
<1>4. (k * cs) % Word = k * cs
  <2> HIDE DEF k
  <2> QED
    BY <1>3, AlignmentAssumption
<1>5. RoundUp(stop, cs) = k * cs
  BY <1>4 DEF RoundUp
<1> QED
  <2> HIDE DEF k
  <2> QED
    BY <1>2, <1>5

(* The range read for a request covers it, starts and ends on a chunk      *)
(* boundary or at the end of the array, and reaches less than one chunk    *)
(* beyond the request on either side: for every chunk size, and every      *)
(* array that ends at least a chunk below 2^64.  (array.rs:291-300)        *)
THEOREM AlignedCovers ==
  ASSUME NEW start \in Nat, NEW stop \in Nat, NEW size \in Nat, NEW cs \in Nat \ {0},
         start <= stop, stop <= size, size + cs <= Word
  PROVE  LET read == Aligned(<<start, stop>>, cs, size)
         IN  /\ read[1] \in Nat /\ read[2] \in Nat
             /\ read[1] <= start /\ start < read[1] + cs
             /\ read[1] % cs = 0
             /\ stop <= read[2] /\ read[2] < stop + cs /\ read[2] <= size
             /\ read[2] % cs = 0 \/ read[2] = size
<1> DEFINE read == Aligned(<<start, stop>>, cs, size)
<1>1. read[1] = Floor(start, cs) /\ read[2] = Ceil(stop, cs, size)
  BY DEF Aligned
<1>2. PICK k \in Nat : /\ RoundUp(stop, cs) = k * cs
                       /\ k * cs \in Nat
                       /\ stop <= k * cs /\ k * cs < stop + cs
  <2>1. stop + cs <= Word
    BY AlignmentAssumption
  <2> QED
    BY <2>1, RoundUpExact
<1>3. /\ Floor(start, cs) \in Nat
      /\ Floor(start, cs) <= start /\ start < Floor(start, cs) + cs
      /\ Floor(start, cs) % cs = 0
  BY Division, Multiples DEF Floor
<1>4. Ceil(stop, cs, size) = IF k * cs <= size THEN k * cs ELSE size
  BY <1>2 DEF Ceil
<1>5. (k * cs) % cs = 0
  BY Multiples
<1>6. /\ Ceil(stop, cs, size) \in Nat
      /\ stop <= Ceil(stop, cs, size) /\ Ceil(stop, cs, size) < stop + cs
      /\ Ceil(stop, cs, size) <= size
  <2>1. CASE k * cs <= size
    BY <2>1, <1>2, <1>4
  <2>2. CASE ~(k * cs <= size)
    BY <2>2, <1>2, <1>4
  <2> QED
    BY <2>1, <2>2
<1>7. Ceil(stop, cs, size) % cs = 0 \/ Ceil(stop, cs, size) = size
  BY <1>4, <1>5
<1> QED
  BY <1>1, <1>3, <1>6, <1>7

-----------------------------------------------------------------------------
(* What a key's entry becomes. *)

LEMMA ClampBounds ==
  ASSUME NEW v \in Int, NEW size \in Nat
  PROVE  Clamp(v, size) \in 0 .. size
BY DEF Clamp

(* A range is never reversed; only an int can be out of bounds, and then   *)
(* it selects nothing.                                                     *)
LEMMA RangeBounds ==
  ASSUME NEW size \in Nat, NEW entry,
         \/ entry.kind = "int" /\ entry.at \in Int
         \/ entry.kind = "slice" /\ entry.from \in Int /\ entry.to \in Int
  PROVE  LET r == RangeOf(entry, size)
         IN  /\ r[1] \in Int /\ r[2] \in Int /\ r[1] <= r[2]
             /\ r[1] < 0 \/ r[2] > size =>
                  entry.kind = "int" /\ Selected(entry, size) = {}
<1> DEFINE r == RangeOf(entry, size)
<1>1. CASE entry.kind = "int" /\ entry.at \in Int
  <2> DEFINE at == IF entry.at < 0 THEN entry.at + size ELSE entry.at
  <2>1. r[1] = at /\ r[2] = at + 1 /\ at \in Int
    BY <1>1 DEF RangeOf
  <2>2. ASSUME at < 0 \/ at + 1 > size, NEW p \in 0 .. size - 1
        PROVE  ~(p = entry.at \/ p = entry.at + size)
    BY <1>1, <2>2
  <2>3. at < 0 \/ at + 1 > size => Selected(entry, size) = {}
    BY <1>1, <2>2 DEF Selected
  <2> HIDE DEF at
  <2> QED
    BY <1>1, <2>1, <2>3
<1>2. CASE entry.kind = "slice" /\ entry.from \in Int /\ entry.to \in Int
  <2> DEFINE from == Clamp(entry.from, size)
             to == Clamp(entry.to, size)
  <2>1. from \in 0 .. size /\ to \in 0 .. size
    BY <1>2, ClampBounds
  <2>2. r = <<from, IF from > to THEN from ELSE to>>
    BY <1>2 DEF RangeOf, Range0
  <2> HIDE DEF from, to, r
  <2> QED
    BY <2>1, <2>2 DEF r
<1> QED
  BY <1>1, <1>2

(* The first of some axes is one of them. *)
LEMMA MinIsOne ==
  ASSUME NEW S \in SUBSET Nat, S # {}
  PROVE  Min(S) \in S
<1>1. IsWellFoundedOn(OpToRel(<, Nat), Nat)
  BY NatLessThanWellFounded
<1>2. PICK x \in S : \A y \in S : <<y, x>> \notin OpToRel(<, Nat)
  BY <1>1, WFMin
<1>3. ASSUME NEW y \in S
      PROVE  x =< y
  <2>1. ~(y < x) /\ x \in Nat /\ y \in Nat
    BY <1>2 DEF OpToRel
  <2> QED
    BY <2>1
<1> QED
  BY <1>3 DEF Min

-----------------------------------------------------------------------------
(* The ranges are the key's, and none starts before the array. *)
Translated ==
  /\ ranges = [i \in Axes |-> RangeOf(request.key[i], request.shape[i])]
  /\ \A i \in Axes : ~(ranges[i][1] < 0)

(* The inductive invariant. *)
ReadInv ==
  /\ request \in Requests
  /\ pc \in {"key", "ranges", "copy", "returned"}
  /\ pc # "returned" => error = "none"
  /\ pc \in {"key", "ranges"} => elements = <<>>
  /\ pc \in {"ranges", "copy"} => Translated
  /\ RaisesForAReason
  /\ WholeTouchedChunks

(* What the assumption says of the request at hand. *)
LEMMA Requested ==
  ASSUME request \in Requests
  PROVE  /\ Axes \subseteq Nat
         /\ \A i \in Axes :
              /\ request.shape[i] \in Nat /\ request.chunk[i] \in Nat \ {0}
              /\ request.shape[i] + request.chunk[i] <= Word
              /\ \/ request.key[i].kind = "int" /\ request.key[i].at \in Int
                 \/ /\ request.key[i].kind = "slice"
                    /\ request.key[i].from \in Int /\ request.key[i].to \in Int
<1> DEFINE r == request
<1>1. /\ r.shape \in Seq(Nat) /\ r.chunk \in Seq(Nat \ {0})
      /\ DOMAIN r.chunk = DOMAIN r.shape
      /\ \A i \in DOMAIN r.shape :
           /\ r.shape[i] + r.chunk[i] <= Word
           /\ \/ r.key[i].kind = "int" /\ r.key[i].at \in Int
              \/ /\ r.key[i].kind = "slice"
                 /\ {r.key[i].from, r.key[i].to, r.key[i].step} \subseteq Int
  BY ReadSubsetAssumption DEF ReadSubsetAssumption
<1> QED
  BY <1>1 DEF Axes

LEMMA TranslatedBounds ==
  ASSUME request \in Requests, Translated, NEW i \in Axes
  PROVE  /\ ranges[i] = <<ranges[i][1], ranges[i][2]>>
         /\ ranges[i][1] \in Nat /\ ranges[i][2] \in Nat
         /\ ranges[i][1] <= ranges[i][2]
         /\ ranges[i][2] > request.shape[i] =>
              /\ request.key[i].kind = "int"
              /\ Selected(request.key[i], request.shape[i]) = {}
<1> DEFINE r == RangeOf(request.key[i], request.shape[i])
<1>1. ranges[i] = r /\ ~(r[1] < 0)
  BY DEF Translated
<1>2. r = <<r[1], r[2]>>
  BY DEF RangeOf, Range0
<1>3. /\ r[1] \in Int /\ r[2] \in Int /\ r[1] <= r[2]
      /\ r[1] < 0 \/ r[2] > request.shape[i] =>
           /\ request.key[i].kind = "int"
           /\ Selected(request.key[i], request.shape[i]) = {}
  BY Requested, RangeBounds
<1> QED
  BY <1>1, <1>2, <1>3

LEMMA InitReadInv == Init => ReadInv
BY DEF Init, ReadInv, RaisesForAReason, WholeTouchedChunks

(* Raising leaves everything else alone. *)
LEMMA RaiseInv ==
  ASSUME ReadInv, NEW exception, Raise(exception), elements = <<>>,
         exception = "IndexError" \/ exception = "OverflowError" =>
           \E i \in Axes : request.key[i].kind = "int"
                             /\ Selected(request.key[i], request.shape[i]) = {},
         exception = "NotImplementedError" =>
           \E i \in Axes : request.key[i].kind = "slice" /\ request.key[i].step # 1,
         exception = "ValueError" => ~Reversed /\ (~Empty \/ ~request.gridded)
  PROVE  ReadInv'
<1>1. /\ error' = exception /\ pc' = "returned"
      /\ UNCHANGED <<request, ranges, box, elements>>
  BY DEF Raise
<1>2. RaisesForAReason'
  BY <1>1 DEF RaisesForAReason, Axes, Empty, Reversed
<1>3. WholeTouchedChunks'
  BY <1>1 DEF WholeTouchedChunks
<1> QED
  BY <1>1, <1>2, <1>3 DEF ReadInv

LEMMA TranslateInv ==
  ASSUME ReadInv, Translate
  PROVE  ReadInv'
<1> DEFINE rs == [i \in Axes |-> RangeOf(request.key[i], request.shape[i])]
<1>1. pc = "key" /\ elements = <<>> /\ error = "none" /\ request \in Requests
  BY DEF Translate, ReadInv
<1>2. CASE \E i \in Axes : request.key[i].kind = "slice" /\ request.key[i].step # 1
  <2>1. Raise("NotImplementedError")
    BY <1>2 DEF Translate
  <2> QED
    BY <1>1, <1>2, <2>1, RaiseInv
<1>3. CASE /\ ~\E i \in Axes : request.key[i].kind = "slice" /\ request.key[i].step # 1
           /\ \E i \in Axes : rs[i][1] < 0
  <2>1. Raise("OverflowError")
    BY <1>3 DEF Translate
  <2>2. PICK i \in Axes : rs[i][1] < 0
    BY <1>3
  <2>3. RangeOf(request.key[i], request.shape[i])[1] < 0
    BY <2>2
  <2>4. /\ request.key[i].kind = "int"
        /\ Selected(request.key[i], request.shape[i]) = {}
    BY <1>1, <2>3, Requested, RangeBounds
  <2> QED
    BY <1>1, <2>1, <2>4, RaiseInv
<1>4. CASE /\ ~\E i \in Axes : request.key[i].kind = "slice" /\ request.key[i].step # 1
           /\ ~\E i \in Axes : rs[i][1] < 0
  <2>1. /\ ranges' = rs /\ pc' = "ranges"
        /\ UNCHANGED <<request, elements, error>>
    BY <1>4 DEF Translate
  <2>2. Axes' = Axes
    BY <2>1 DEF Axes
  <2>3. Translated'
    BY <1>4, <2>1, <2>2 DEF Translated
  <2>4. RaisesForAReason' /\ WholeTouchedChunks'
    BY <1>1, <2>1 DEF RaisesForAReason, WholeTouchedChunks
  <2> QED
    BY <1>1, <2>1, <2>3, <2>4 DEF ReadInv
<1> QED
  BY <1>2, <1>3, <1>4

(* Only an int past the end is rejected: no range is reversed. *)
LEMMA RejectInv ==
  ASSUME ReadInv, Reject
  PROVE  ReadInv'
<1> DEFINE S == {i \in Axes : \/ ranges[i][1] > ranges[i][2]
                              \/ ranges[i][2] > request.shape[i]}
<1>1. pc = "ranges" /\ elements = <<>> /\ request \in Requests /\ Translated
  BY DEF Reject, ReadInv
<1>2. \A i \in Axes : ~(ranges[i][1] > ranges[i][2])
  BY <1>1, TranslatedBounds
<1>3. ~Reversed /\ PastTheEnd
  BY <1>2 DEF Reject, Reversed
<1>4. S # {} /\ S \in SUBSET Nat
  BY <1>1, <1>3, Requested DEF PastTheEnd
<1>5. Min(S) \in Axes
  BY <1>4, MinIsOne
<1>6. Raise("IndexError")
  BY <1>2, <1>5 DEF Reject
<1>7. PICK i \in Axes : ranges[i][2] > request.shape[i]
  BY <1>3 DEF PastTheEnd
<1>8. /\ request.key[i].kind = "int"
      /\ Selected(request.key[i], request.shape[i]) = {}
  BY <1>1, <1>7, TranslatedBounds
<1> QED
  BY <1>1, <1>6, <1>8, RaiseInv

(* What is read is what each axis is aligned to. *)
LEMMA FetchInv ==
  ASSUME ReadInv, Fetch
  PROVE  ReadInv'
<1>1. /\ pc = "ranges" /\ request \in Requests /\ Translated
      /\ ~Reversed /\ ~PastTheEnd /\ error = "none"
  BY DEF Fetch, ReadInv
<1>2. /\ box' = AlignedBox
      /\ elements' # <<>> => ~Empty
      /\ pc' \in {"copy", "returned"}
      /\ UNCHANGED <<request, ranges, error>>
  BY DEF Fetch
<1>3. ASSUME NEW i \in Axes
      PROVE  LET cs == request.chunk[i]
                 b == AlignedBox[i]
             IN  /\ b[1] % cs = 0
                 /\ b[2] % cs = 0 \/ b[2] = request.shape[i]
                 /\ b[2] <= request.shape[i]
                 /\ ranges[i][1] - b[1] \in 0 .. cs - 1
                 /\ b[2] - ranges[i][2] \in 0 .. cs - 1
  <2> DEFINE cs == request.chunk[i]
             size == request.shape[i]
             start == ranges[i][1]
             stop == ranges[i][2]
             b == Aligned(<<start, stop>>, cs, size)
  <2>1. /\ size \in Nat /\ cs \in Nat \ {0} /\ size + cs <= Word
        /\ start \in Nat /\ stop \in Nat /\ start <= stop /\ stop <= size
        /\ ranges[i] = <<start, stop>>
    <3>1. stop \in Nat /\ size \in Nat /\ ~(stop > size)
      BY <1>1, Requested, TranslatedBounds DEF PastTheEnd
    <3> QED
      BY <1>1, <3>1, Requested, TranslatedBounds
  <2>2. AlignedBox[i] = b
    BY <2>1 DEF AlignedBox
  <2> HIDE DEF cs, size, start, stop
  <2>3. /\ b[1] \in Nat /\ b[2] \in Nat
        /\ b[1] <= start /\ start < b[1] + cs
        /\ b[1] % cs = 0
        /\ stop <= b[2] /\ b[2] < stop + cs /\ b[2] <= size
        /\ b[2] % cs = 0 \/ b[2] = size
    BY <2>1, AlignedCovers
  <2> HIDE DEF b
  <2>4. start - b[1] \in 0 .. cs - 1 /\ b[2] - stop \in 0 .. cs - 1
    BY <2>1, <2>3
  <2> QED
    BY <2>2, <2>3, <2>4 DEF cs, size, start, stop
<1>4. WholeTouchedChunks'
  BY <1>2, <1>3 DEF WholeTouchedChunks, Axes, Empty
<1>5. Translated' /\ RaisesForAReason'
  BY <1>1, <1>2 DEF Translated, Axes, RaisesForAReason
<1> QED
  BY <1>1, <1>2, <1>4, <1>5 DEF ReadInv

LEMMA LookUpFailsInv ==
  ASSUME ReadInv, LookUpFails
  PROVE  ReadInv'
<1>1. elements = <<>> /\ ~Reversed /\ ~request.gridded /\ Raise("ValueError")
  BY DEF LookUpFails, ReadInv
<1> QED
  BY <1>1, RaiseInv

LEMMA FetchFailsInv ==
  ASSUME ReadInv, FetchFails
  PROVE  ReadInv'
<1>1. elements = <<>> /\ ~Empty /\ ~Reversed /\ Raise("ValueError")
  BY DEF FetchFails, ReadInv
<1> QED
  BY <1>1, RaiseInv

(* Copying out of the buffer, and finishing, change nothing of that. *)
LEMMA QuietInv ==
  ASSUME ReadInv, UNCHANGED <<request, ranges, box, elements, error>>,
         pc' = pc \/ (pc = "copy" /\ pc' = "returned")
  PROVE  ReadInv'
<1>1. Translated' = Translated
  BY DEF Translated, Axes
<1>2. RaisesForAReason' /\ WholeTouchedChunks'
  BY DEF ReadInv, RaisesForAReason, WholeTouchedChunks, Axes, Empty, Reversed
<1> QED
  BY <1>1, <1>2 DEF ReadInv

LEMMA StepReadInv == ReadInv /\ [Next]_vars => ReadInv'
<1> SUFFICES ASSUME ReadInv, [Next]_vars PROVE ReadInv'
  OBVIOUS
<1>1. CASE Copy \/ Finish \/ UNCHANGED vars
  BY <1>1, QuietInv DEF Copy, Finish, vars
<1> QED
  BY <1>1, TranslateInv, RejectInv, LookUpFailsInv, FetchInv, FetchFailsInv
     DEF Next, Read, Returned

LEMMA ReadInvariance == Spec => []ReadInv
BY InitReadInv, StepReadInv, PTL DEF Spec

(* What is read is whole chunks, none that the request does not touch, and *)
(* nothing for an empty request: array.rs:258-308.                         *)
THEOREM OnlyTouchedChunks == Spec => []WholeTouchedChunks
<1>1. ReadInv => WholeTouchedChunks
  BY DEF ReadInv
<1> QED
  BY <1>1, ReadInvariance, PTL

(* An exception has a cause of its own: _array.py:77-108, array.rs:236-285. *)
THEOREM ExceptionsHaveReasons == Spec => []RaisesForAReason
<1>1. ReadInv => RaisesForAReason
  BY DEF ReadInv
<1> QED
  BY <1>1, ReadInvariance, PTL


-----------------------------------------------------------------------------
(***************************************************************************)
(* The rows of a hyperrectangle, in the order of a row-major buffer.       *)
(***************************************************************************)
Rect(rs, n) ==
  /\ n \in Nat /\ DOMAIN rs = 1 .. n
  /\ \A i \in 1 .. n : rs[i][1] \in Nat /\ Extent(rs[i]) \in Nat

LEMMA ExtentsType ==
  ASSUME NEW rs, NEW n, Rect(rs, n)
  PROVE  /\ Extents(rs) \in Seq(Nat) /\ Len(Extents(rs)) = n
         /\ DOMAIN Extents(rs) = 1 .. n
         /\ \A i \in 1 .. n : Extents(rs)[i] = Extent(rs[i])
<1>1. n \in Nat /\ DOMAIN rs = 1 .. n /\ \A i \in 1 .. n : Extent(rs[i]) \in Nat
  BY DEF Rect
<1>2. Extents(rs) = [i \in 1 .. n |-> Extent(rs[i])]
  BY <1>1 DEF Extents
<1>3. Extents(rs) \in [1 .. n -> Nat]
  BY <1>1, <1>2
<1>4. \A E : \A m \in Nat : \A f \in [1 .. m -> E] : f \in Seq(E) /\ Len(f) = m
  OBVIOUS
<1>5. Extents(rs) \in Seq(Nat) /\ Len(Extents(rs)) = n
  BY <1>1, <1>3, <1>4, Zenon
<1> QED
  BY <1>2, <1>5

LEMMA RowMajorIs ==
  ASSUME NEW rs, NEW n, Rect(rs, n), NEW w, Weights(w, Extents(rs))
  PROVE  /\ ProductOf(Extents(rs)) = w[0] /\ w[0] \in Nat
         /\ DOMAIN RowMajor(rs) = 1 .. w[0]
         /\ \A k \in 1 .. w[0] :
              RowMajor(rs)[k] =
                [i \in 1 .. n |-> rs[i][1] + Digit(k - 1, w, Extents(rs), i)]
<1> DEFINE d == Extents(rs)
           coords(k) == [i \in 1 .. n |-> rs[i][1] + Digit(k - 1, w, d, i)]
<1>1. /\ n \in Nat /\ DOMAIN rs = 1 .. n /\ d \in Seq(Nat) /\ Len(d) = n
      /\ DOMAIN d = 1 .. n
  BY ExtentsType DEF Rect
<1>2. ProductOf(d) = w[0]
  BY <1>1, ProductIsWeight
<1>3. w[0] \in Nat
  <2>1. 0 \in 0 .. n
    BY <1>1
  <2> QED
    BY <1>1, <2>1 DEF Weights
<1> DEFINE tail(i) == ProductOf(SubSeq(d, i + 1, Len(d)))
<1>4. \A i \in 1 .. n : tail(i) = w[i]
  BY <1>1, TailIsWeight
<1>5. RowMajor(rs) =
        [k \in 1 .. ProductOf(d) |->
          [i \in DOMAIN rs |-> rs[i][1] + (((k - 1) \div tail(i)) % d[i])]]
  BY DEF RowMajor
<1> HIDE DEF d, tail
<1>6. ASSUME NEW k \in 1 .. w[0]
      PROVE  [i \in DOMAIN rs |-> rs[i][1] + (((k - 1) \div tail(i)) % d[i])]
               = coords(k)
  BY <1>1, <1>4 DEF Digit
<1> QED
  BY <1>2, <1>3, <1>5, <1>6 DEF d

LEMMA RowMajorType ==
  ASSUME NEW rs, NEW n, Rect(rs, n)
  PROVE  /\ RowMajor(rs) \in Seq([1 .. n -> Nat])
         /\ Len(RowMajor(rs)) = ProductOf(Extents(rs))
         /\ ProductOf(Extents(rs)) \in Nat
<1> DEFINE d == Extents(rs)
<1>1. d \in Seq(Nat) /\ Len(d) = n /\ DOMAIN d = 1 .. n /\ n \in Nat
  BY ExtentsType DEF Rect
<1>2. PICK w : Weights(w, d)
  BY <1>1, WeightsExist
<1>3. /\ ProductOf(d) = w[0] /\ w[0] \in Nat
      /\ DOMAIN RowMajor(rs) = 1 .. w[0]
      /\ \A k \in 1 .. w[0] :
           RowMajor(rs)[k] = [i \in 1 .. n |-> rs[i][1] + Digit(k - 1, w, d, i)]
  BY <1>2, RowMajorIs
<1>4. ASSUME NEW k \in 1 .. w[0]
      PROVE  RowMajor(rs)[k] \in [1 .. n -> Nat]
  <2>1. \A i \in 1 .. n : d[i] # 0
    <3>1. ASSUME NEW i \in 1 .. n, d[i] = 0 PROVE FALSE
      <4>1. ProductOf(d) = 0
        BY <1>1, <3>1, EmptyAxis
      <4> QED
        BY <1>3, <4>1
    <3> QED
      BY <3>1
  <2>2. d \in Seq(Nat \ {0})
    <3>1. d \in [1 .. n -> Nat \ {0}]
      BY <1>1, <2>1
    <3> HIDE DEF d
    <3> QED
      BY <1>1, <3>1
  <2>3. Radix(w, d, n)
    BY <1>1, <1>2, <2>2, WeightsRadix
  <2>4. k - 1 \in Nat
    BY <1>3
  <2>5. ASSUME NEW i \in 1 .. n
        PROVE  rs[i][1] + Digit(k - 1, w, d, i) \in Nat
    <3>1. rs[i][1] \in Nat
      BY DEF Rect
    <3>2. d[i] \in Nat
      BY <1>1
    <3> HIDE DEF d
    <3>3. Digit(k - 1, w, d, i) \in 0 .. d[i] - 1
      BY <2>3, <2>4, DigitType, Zenon
    <3> QED
      BY <3>1, <3>2, <3>3
  <2> QED
    BY <1>3, <2>5
<1> DEFINE C == [1 .. n -> Nat]
<1>5. RowMajor(rs) \in [1 .. w[0] -> C]
  <2>1. RowMajor(rs) = [k \in 1 .. w[0] |-> RowMajor(rs)[k]]
    BY <1>3 DEF RowMajor
  <2> HIDE DEF C
  <2> QED
    BY <1>4, <2>1 DEF C
<1>6. \A E : \A m \in Nat : \A f \in [1 .. m -> E] : f \in Seq(E) /\ Len(f) = m
  OBVIOUS
<1> HIDE DEF C
<1>7. RowMajor(rs) \in Seq(C) /\ Len(RowMajor(rs)) = w[0]
  BY <1>3, <1>5, <1>6, Zenon
<1> QED
  BY <1>3, <1>7 DEF C

LEMMA RectRadix ==
  ASSUME NEW rs, NEW n, Rect(rs, n), \A i \in 1 .. n : Extent(rs[i]) # 0,
         NEW w, Weights(w, Extents(rs))
  PROVE  Radix(w, Extents(rs), n)
<1> DEFINE d == Extents(rs)
<1>1. /\ d \in Seq(Nat) /\ Len(d) = n /\ DOMAIN d = 1 .. n
      /\ \A i \in 1 .. n : d[i] # 0
  BY ExtentsType
<1>2. d \in [1 .. n -> Nat \ {0}] /\ n \in Nat
  BY <1>1 DEF Rect
<1> HIDE DEF d
<1>3. d \in Seq(Nat \ {0})
  BY <1>1, <1>2
<1>4. Radix(w, d, n)
  BY <1>1, <1>3, WeightsRadix DEF d
<1> QED
  BY <1>4 DEF d

Inside(c, rs, n) ==
  \A i \in 1 .. n : c[i] \in rs[i][1] .. rs[i][1] + Extent(rs[i]) - 1

(* No element is left out, none is from elsewhere, and each comes before   *)
(* the next.                                                               *)
Enumeration(o, rs, n) ==
  /\ \A k \in DOMAIN o : Inside(o[k], rs, n)
  /\ \A c \in [1 .. n -> Nat] : Inside(c, rs, n) => \E k \in DOMAIN o : o[k] = c
  /\ \A k \in 1 .. Len(o) - 1 :
       \E i \in 1 .. n : /\ o[k][i] < o[k + 1][i]
                        /\ \A j \in 1 .. i - 1 : o[k][j] = o[k + 1][j]

LEMMA Enumerates ==
  ASSUME NEW rs, NEW n, Rect(rs, n)
  PROVE  Enumeration(RowMajor(rs), rs, n)
<1> DEFINE d == Extents(rs)
           o == RowMajor(rs)
           In(c) == Inside(c, rs, n)
<1>1. /\ d \in Seq(Nat) /\ Len(d) = n /\ DOMAIN d = 1 .. n /\ n \in Nat
      /\ \A i \in 1 .. n : d[i] = Extent(rs[i]) /\ d[i] \in Nat /\ rs[i][1] \in Nat
  BY ExtentsType DEF Rect
<1>2. PICK w : Weights(w, d)
  BY <1>1, WeightsExist
<1>3. /\ ProductOf(d) = w[0] /\ w[0] \in Nat
      /\ DOMAIN o = 1 .. w[0] /\ Len(o) = w[0]
      /\ \A k \in 1 .. w[0] :
           o[k] = [i \in 1 .. n |-> rs[i][1] + Digit(k - 1, w, d, i)]
  BY <1>2, RowMajorIs, RowMajorType
<1>4. CASE \E i \in 1 .. n : d[i] = 0
  <2>1. PICK i \in 1 .. n : d[i] = 0
    BY <1>4
  <2>2. w[0] = 0
    BY <1>1, <1>3, <2>1, EmptyAxis
  <2>3. DOMAIN o = {} /\ 1 .. Len(o) - 1 = {}
    BY <1>3, <2>2
  <2>4. \A c : ~In(c)
    <3>1. rs[i][1] .. rs[i][1] + Extent(rs[i]) - 1 = {}
      BY <1>1, <2>1
    <3> QED
      BY <3>1 DEF Inside
  <2> HIDE DEF o, In
  <2>5. Enumeration(o, rs, n)
    BY <2>3, <2>4 DEF Enumeration, In
  <2> QED
    BY <2>5 DEF o
<1>5. CASE \A i \in 1 .. n : d[i] # 0
  <2>1. Radix(w, d, n)
    BY <1>1, <1>2, <1>5, RectRadix
  <2> HIDE DEF o, d
  <2>2. ASSUME NEW k \in DOMAIN o PROVE In(o[k])
    <3>1. k \in 1 .. w[0] /\ k - 1 \in Nat
      BY <1>3
    <3>2. ASSUME NEW i \in 1 .. n
          PROVE  o[k][i] \in rs[i][1] .. rs[i][1] + Extent(rs[i]) - 1
      <4>1. o[k][i] = rs[i][1] + Digit(k - 1, w, d, i)
        BY <1>3, <3>1
      <4>2. Digit(k - 1, w, d, i) \in 0 .. d[i] - 1
        BY <2>1, <3>1, DigitType
      <4> QED
        BY <1>1, <4>1, <4>2
    <3> QED
      BY <3>2 DEF Inside
  <2>3. ASSUME NEW c \in [1 .. n -> Nat], In(c) PROVE \E k \in DOMAIN o : o[k] = c
    <3> DEFINE x == [i \in 1 .. n |-> c[i] - rs[i][1]]
               step == [y \in (1 .. n) \X Nat |-> y[2] + x[y[1]] * w[y[1]]]
    <3>1. ASSUME NEW i \in 1 .. n
          PROVE  /\ x[i] \in 0 .. d[i] - 1 /\ x[i] \in Nat /\ w[i] \in Nat
                 /\ c[i] = rs[i][1] + x[i]
      <4>1. c[i] \in rs[i][1] .. rs[i][1] + d[i] - 1 /\ c[i] \in Nat
        BY <1>1, <2>3 DEF Inside
      <4>2. w[i] \in Nat
        BY <2>1, RadixAt
      <4> QED
        BY <1>1, <4>1, <4>2
    <3> HIDE DEF x
    <3>2. step \in [(1 .. n) \X Nat -> Nat]
      <4>1. ASSUME NEW y \in (1 .. n) \X Nat PROVE y[2] + x[y[1]] * w[y[1]] \in Nat
        <5>1. y[1] \in 1 .. n /\ y[2] \in Nat
          OBVIOUS
        <5>2. x[y[1]] \in Nat /\ w[y[1]] \in Nat
          BY <3>1, <5>1
        <5> QED
          BY <5>1, <5>2
      <4> QED
        BY <4>1
    <3>3. PICK f \in [0 .. n -> Nat] :
            f[0] = 0 /\ \A i \in 1 .. n : f[i] = step[<<i, f[i - 1]>>]
      <4>1. 0 \in Nat /\ n \in Nat
        BY <1>1
      <4> HIDE DEF step
      <4> QED
        BY <3>2, <4>1, Recursion, Zenon
    <3>4. ASSUME NEW i \in 1 .. n PROVE f[i] = f[i - 1] + x[i] * w[i]
      <4>1. f[i - 1] \in Nat
        BY <1>1, <3>3
      <4>2. <<i, f[i - 1]>> \in (1 .. n) \X Nat
        BY <4>1
      <4> QED
        BY <3>3, <4>2
    <3> HIDE DEF step
    <3>5. Place(f, x, w, d, n)
      BY <3>1, <3>3, <3>4 DEF Place
    <3> DEFINE k == f[n] + 1
    <3>6. f[n] \in Nat /\ f[n] < w[0]
      <4>1. n \in 0 .. n
        BY <1>1
      <4>2. f[n] \in Nat /\ f[n] + w[n] <= w[0]
        BY <2>1, <3>5, <4>1, PlaceBounds
      <4>3. w[n] = 1
        BY <2>1 DEF Radix
      <4> QED
        BY <1>3, <4>2, <4>3
    <3>7. k \in 1 .. w[0] /\ k - 1 = f[n]
      BY <1>3, <3>6
    <3>8. o[k] = [i \in 1 .. n |-> rs[i][1] + Digit(f[n], w, d, i)]
      BY <1>3, <3>7
    <3>9. ASSUME NEW i \in 1 .. n PROVE Digit(f[n], w, d, i) = x[i]
      <4> HIDE DEF k
      <4>1. \A g, y : Place(g, y, w, d, n) => Digit(g[n], w, d, i) = y[i]
        BY <2>1, PlaceDigits
      <4> QED
        BY <3>5, <4>1
    <3>10. o[k] = [i \in 1 .. n |-> c[i]]
      BY <3>1, <3>8, <3>9
    <3>11. c = [i \in 1 .. n |-> c[i]]
      OBVIOUS
    <3> QED
      BY <1>3, <3>7, <3>10, <3>11
  <2>4. ASSUME NEW k \in 1 .. Len(o) - 1
        PROVE  \E i \in 1 .. n :
                 /\ o[k][i] < o[k + 1][i]
                 /\ \A j \in 1 .. i - 1 : o[k][j] = o[k + 1][j]
    <3> DEFINE l == k - 1
    <3>1. /\ l \in Nat /\ l + 1 < w[0] /\ k \in 1 .. w[0] /\ k + 1 \in 1 .. w[0]
          /\ k = l + 1 /\ (k + 1) - 1 = l + 1
      BY <1>3
    <3>2. PICK i \in 1 .. n :
            /\ Digit(l + 1, w, d, i) = Digit(l, w, d, i) + 1
            /\ \A j \in 1 .. i - 1 : Digit(l + 1, w, d, j) = Digit(l, w, d, j)
      <4> HIDE DEF l
      <4> QED
        BY <2>1, <3>1, SomeAxisTurns
    <3> HIDE DEF l
    <3>3. ASSUME NEW j \in 1 .. n
          PROVE  /\ o[k][j] = rs[j][1] + Digit(l, w, d, j)
                 /\ o[k + 1][j] = rs[j][1] + Digit(l + 1, w, d, j)
      <4>1. o[k] = [i_ \in 1 .. n |-> rs[i_][1] + Digit(k - 1, w, d, i_)]
        BY <1>3, <3>1
      <4>2. o[k + 1] = [i_ \in 1 .. n |-> rs[i_][1] + Digit((k + 1) - 1, w, d, i_)]
        BY <1>3, <3>1
      <4>3. k - 1 = l /\ (k + 1) - 1 = l + 1
        BY <3>1
      <4> QED
        BY <4>1, <4>2, <4>3
    <3>4. Digit(l, w, d, i) \in 0 .. d[i] - 1
      BY <2>1, <3>1, DigitType
    <3>5. o[k][i] < o[k + 1][i]
      <4>1. rs[i][1] \in Nat /\ Digit(l, w, d, i) \in Nat
        BY <1>1, <3>4
      <4>2. Digit(l + 1, w, d, i) = Digit(l, w, d, i) + 1
        BY <3>2
      <4> QED
        BY <3>3, <4>1, <4>2
    <3>6. \A j \in 1 .. i - 1 : j \in 1 .. n
      BY <1>1
    <3>7. \A j \in 1 .. i - 1 : o[k][j] = o[k + 1][j]
      BY <3>2, <3>3, <3>6
    <3> QED
      BY <3>5, <3>7
  <2> HIDE DEF In
  <2>5. Enumeration(o, rs, n)
    BY <2>2, <2>3, <2>4 DEF Enumeration, In
  <2> QED
    BY <2>5 DEF o
<1> QED
  BY <1>4, <1>5


-----------------------------------------------------------------------------
(***************************************************************************)
(* The copy out of the buffer.                                             *)
(***************************************************************************)
Rank == Len(request.shape)

LEMMA AxesAre ==
  ASSUME request \in Requests
  PROVE  Rank \in Nat /\ Axes = 1 .. Rank
<1>1. request.shape \in Seq(Nat)
  BY ReadSubsetAssumption DEF ReadSubsetAssumption
<1> QED
  BY <1>1 DEF Rank, Axes

(* The box read holds the range asked for, and no extent wraps. *)
LEMMA BoxBounds ==
  ASSUME request \in Requests, Translated, ~PastTheEnd, NEW i \in Axes
  PROVE  LET r == ranges[i]
             b == AlignedBox[i]
         IN  /\ r[1] \in Nat /\ r[2] \in Nat /\ b[1] \in Nat /\ b[2] \in Nat
             /\ b[1] <= r[1] /\ r[1] <= r[2] /\ r[2] <= b[2]
             /\ r[2] <= request.shape[i]
             /\ Extent(r) = r[2] - r[1] /\ Extent(b) = b[2] - b[1]
<1> DEFINE cs == request.chunk[i]
           size == request.shape[i]
           start == ranges[i][1]
           stop == ranges[i][2]
           b == Aligned(<<start, stop>>, cs, size)
<1>1. /\ size \in Nat /\ cs \in Nat \ {0} /\ size + cs <= Word
      /\ start \in Nat /\ stop \in Nat /\ start <= stop /\ stop <= size
      /\ ranges[i] = <<start, stop>>
  <2>1. stop \in Nat /\ size \in Nat /\ ~(stop > size)
    BY Requested, TranslatedBounds DEF PastTheEnd
  <2> QED
    BY <2>1, Requested, TranslatedBounds
<1>2. AlignedBox[i] = b
  BY <1>1 DEF AlignedBox
<1> HIDE DEF cs, size, start, stop
<1>3. /\ b[1] \in Nat /\ b[2] \in Nat
      /\ b[1] <= start /\ stop <= b[2] /\ b[2] <= size
  BY <1>1, AlignedCovers
<1> HIDE DEF b
<1>4. size < Word /\ Word \in Nat \ {0}
  BY <1>1, AlignmentAssumption
<1>5. \A m \in 0 .. Word - 1 : (m % Word) = m
  BY <1>4
<1>6. (stop - start) % Word = stop - start
  <2>1. stop - start \in 0 .. Word - 1
    BY <1>1, <1>4
  <2> QED
    BY <1>5, <2>1
<1>7. (b[2] - b[1]) % Word = b[2] - b[1]
  <2>1. b[2] - b[1] \in 0 .. Word - 1
    BY <1>1, <1>3, <1>4
  <2> QED
    BY <1>5, <2>1
<1>8. Extent(ranges[i]) = stop - start /\ Extent(AlignedBox[i]) = b[2] - b[1]
  BY <1>2, <1>6, <1>7 DEF Extent, start, stop
<1> QED
  BY <1>1, <1>2, <1>3, <1>8 DEF cs, size, start, stop

LEMMA Rects ==
  ASSUME request \in Requests, Translated, ~PastTheEnd
  PROVE  Rect(ranges, Rank) /\ Rect(AlignedBox, Rank)
<1>1. Rank \in Nat /\ Axes = 1 .. Rank
  BY AxesAre
<1>2. DOMAIN ranges = Axes /\ DOMAIN AlignedBox = Axes
  BY DEF Translated, AlignedBox
<1>3. ASSUME NEW i \in Axes
      PROVE  /\ ranges[i][1] \in Nat /\ Extent(ranges[i]) \in Nat
             /\ AlignedBox[i][1] \in Nat /\ Extent(AlignedBox[i]) \in Nat
  <2> DEFINE r == ranges[i]
             b == AlignedBox[i]
  <2>1. /\ r[1] \in Nat /\ r[2] \in Nat /\ b[1] \in Nat /\ b[2] \in Nat
        /\ b[1] <= r[1] /\ r[1] <= r[2] /\ r[2] <= b[2]
        /\ Extent(r) = r[2] - r[1] /\ Extent(b) = b[2] - b[1]
    BY BoxBounds
  <2> HIDE DEF r, b
  <2>2. Extent(r) \in Nat /\ Extent(b) \in Nat
    BY <2>1
  <2> QED
    BY <2>1, <2>2 DEF r, b
<1> QED
  BY <1>1, <1>2, <1>3 DEF Rect

(* An empty range empties the result; any other reads something of every   *)
(* axis.                                                                   *)
LEMMA EmptyMeans ==
  ASSUME request \in Requests, Translated, ~PastTheEnd
  PROVE  /\ Empty => ProductOf(Extents(ranges)) = 0
         /\ ~Empty => \A i \in 1 .. Rank : /\ Extent(ranges[i]) # 0
                                           /\ Extent(AlignedBox[i]) # 0
                                           /\ AlignedBox[i][1] < AlignedBox[i][2]
<1>1. Rank \in Nat /\ Axes = 1 .. Rank
  BY AxesAre
<1>2. /\ Extents(ranges) \in Seq(Nat) /\ DOMAIN Extents(ranges) = 1 .. Rank
      /\ \A i \in 1 .. Rank : Extents(ranges)[i] = Extent(ranges[i])
  BY Rects, ExtentsType
<1>3. ASSUME Empty
      PROVE  ProductOf(Extents(ranges)) = 0
  <2>1. PICK i \in Axes : ranges[i][1] = ranges[i][2]
    BY <1>3 DEF Empty
  <2>2. Extent(ranges[i]) = 0
    <3>1. /\ Extent(ranges[i]) = ranges[i][2] - ranges[i][1]
          /\ ranges[i][1] \in Nat
      BY BoxBounds
    <3> QED
      BY <2>1, <3>1
  <2> QED
    BY <1>1, <1>2, <2>2, EmptyAxis
<1>4. ASSUME ~Empty, NEW i \in 1 .. Rank
      PROVE  /\ Extent(ranges[i]) # 0 /\ Extent(AlignedBox[i]) # 0
             /\ AlignedBox[i][1] < AlignedBox[i][2]
  <2> DEFINE r == ranges[i]
             b == AlignedBox[i]
  <2>1. /\ r[1] \in Nat /\ r[2] \in Nat /\ b[1] \in Nat /\ b[2] \in Nat
        /\ b[1] <= r[1] /\ r[1] <= r[2] /\ r[2] <= b[2]
        /\ Extent(r) = r[2] - r[1] /\ Extent(b) = b[2] - b[1]
    BY <1>1, BoxBounds
  <2>2. r[1] # r[2]
    BY <1>1, <1>4 DEF Empty
  <2> HIDE DEF r, b
  <2>3. Extent(r) # 0 /\ Extent(b) # 0 /\ b[1] < b[2]
    BY <2>1, <2>2
  <2> QED
    BY <2>3 DEF r, b
<1> QED
  BY <1>3, <1>4

(* The recursive function inside Source. *)
Sourcing(f) ==
  f = [n \in 0 .. Len(box) |->
        IF n = 0 THEN 0 ELSE f[n - 1] + (Offset(n) + idx[n]) * Strides(Extents(box))[n]]

LEMMA SourceIs == Source = (CHOOSE f : Sourcing(f))[Len(box)]
BY DEF Source, Sourcing

LEMMA SourcePlace ==
  ASSUME NEW n, Rect(box, n), Len(box) = n, NEW w, Weights(w, Extents(box)),
         \A i \in 1 .. n : Offset(i) + idx[i] \in 0 .. Extents(box)[i] - 1
  PROVE  \E f : /\ Source = f[n]
                /\ Place(f, [i \in 1 .. n |-> Offset(i) + idx[i]], w, Extents(box), n)
<1> DEFINE d == Extents(box)
           x == [i \in 1 .. n |-> Offset(i) + idx[i]]
           step == [y \in (1 .. n) \X Nat |-> y[2] + x[y[1]] * w[y[1]]]
           s == CHOOSE f : Sourcing(f)
<1>1. d \in Seq(Nat) /\ Len(d) = n /\ DOMAIN d = 1 .. n /\ n \in Nat
  BY ExtentsType DEF Rect
<1>2. \A i \in 1 .. n : Strides(d)[i] = w[i] /\ w[i] \in Nat
  <2>1. \A i \in 1 .. n : Strides(d)[i] = w[i]
    BY <1>1, StridesAreWeights
  <2>2. \A i \in 1 .. n : i \in 0 .. n
    BY <1>1
  <2> QED
    BY <1>1, <2>1, <2>2 DEF Weights
<1>3. ASSUME NEW i \in 1 .. n
      PROVE  x[i] \in 0 .. d[i] - 1 /\ x[i] \in Nat /\ x[i] = Offset(i) + idx[i]
  OBVIOUS
<1> HIDE DEF x
<1>4. step \in [(1 .. n) \X Nat -> Nat]
  <2>1. ASSUME NEW y \in (1 .. n) \X Nat PROVE y[2] + x[y[1]] * w[y[1]] \in Nat
    <3>1. y[1] \in 1 .. n /\ y[2] \in Nat
      OBVIOUS
    <3>2. x[y[1]] \in Nat /\ w[y[1]] \in Nat
      BY <1>2, <1>3, <3>1
    <3> QED
      BY <3>1, <3>2
  <2> QED
    BY <2>1
<1>5. PICK g \in [0 .. n -> Nat] :
        g[0] = 0 /\ \A i \in 1 .. n : g[i] = step[<<i, g[i - 1]>>]
  <2>1. 0 \in Nat /\ n \in Nat
    BY <1>1
  <2> HIDE DEF step
  <2> QED
    BY <1>4, <2>1, Recursion, Zenon
<1>6. ASSUME NEW i \in 1 .. n PROVE g[i] = g[i - 1] + x[i] * w[i]
  <2>1. i - 1 \in 0 .. n
    BY <1>1
  <2>2. <<i, g[i - 1]>> \in (1 .. n) \X Nat
    BY <1>5, <2>1
  <2> QED
    BY <1>5, <2>2
<1> HIDE DEF step
<1>7. Sourcing(g)
  <2>1. ASSUME NEW i \in 0 .. n
        PROVE  g[i] = IF i = 0 THEN 0
                      ELSE g[i - 1] + (Offset(i) + idx[i]) * Strides(d)[i]
    <3>1. i # 0 => i \in 1 .. n
      BY <1>1
    <3> HIDE DEF d
    <3> QED
      BY <1>2, <1>3, <1>5, <1>6, <3>1
  <2>2. g = [i \in 0 .. n |-> g[i]]
    BY <1>5
  <2> QED
    BY <2>1, <2>2 DEF Sourcing
<1>8. Sourcing(s)
  BY <1>7
<1> HIDE DEF s
<1>9. s[0] = 0 /\ \A i \in 1 .. n : s[i] = s[i - 1] + x[i] * w[i]
  <2>1. ASSUME NEW i \in 0 .. n
        PROVE  s[i] = IF i = 0 THEN 0
                      ELSE s[i - 1] + (Offset(i) + idx[i]) * Strides(d)[i]
    BY <1>8 DEF Sourcing
  <2>2. 0 \in 0 .. n /\ \A i \in 1 .. n : i \in 0 .. n /\ i # 0
    BY <1>1
  <2> HIDE DEF d
  <2> QED
    BY <1>2, <1>3, <2>1, <2>2
<1>10. Place(s, x, w, d, n)
  BY <1>3, <1>9 DEF Place
<1>11. Source = s[n]
  BY SourceIs DEF s
<1> QED
  BY <1>10, <1>11 DEF x


(* slice_nd's index counts in the result's radix. *)
Counted(k, i) == Digit(k, Strides(Extents(ranges)), Extents(ranges), i)

(* What has been copied is the beginning of the answer. *)
Copied ==
  pc = "copy" =>
    /\ ~PastTheEnd /\ box = AlignedBox
    /\ ~Empty => elements = RowMajor(box)
    /\ out \in Seq([Axes -> Nat])
    /\ Len(out) <= ProductOf(Extents(ranges))
    /\ \A k \in 1 .. Len(out) : out[k] = RowMajor(ranges)[k]
    /\ ~Empty => \A i \in Axes : idx[i] = Counted(Len(out), i)

Answered ==
  pc = "returned" /\ error = "none" =>
    Translated /\ ~PastTheEnd /\ out = RowMajor(ranges)

CopyInv == ReadInv /\ Copied /\ Answered

LEMMA NextElement ==
  ASSUME request \in Requests, Translated, Copied, pc = "copy",
         Len(out) < ProductOf(Extents(ranges))
  PROVE  /\ ~Empty
         /\ Source \in 0 .. Len(elements) - 1
         /\ elements[Source + 1] = RowMajor(ranges)[Len(out) + 1]
         /\ \A i \in Axes :
              Increment(idx, Extents(ranges))[i] = Counted(Len(out) + 1, i)
<1> DEFINE n == Rank
           k == Len(out)
           d == Extents(ranges)
           e == Extents(box)
           x == [i \in 1 .. n |-> Offset(i) + idx[i]]
<1>1. /\ ~PastTheEnd /\ box = AlignedBox /\ out \in Seq([Axes -> Nat])
      /\ n \in Nat /\ Axes = 1 .. n /\ k \in Nat
  <2>1. ~PastTheEnd /\ box = AlignedBox /\ out \in Seq([Axes -> Nat])
    BY DEF Copied
  <2>2. n \in Nat /\ Axes = 1 .. n
    BY AxesAre
  <2> QED
    BY <2>1, <2>2
<1>2. Rect(ranges, n) /\ Rect(box, n)
  BY <1>1, Rects
<1>3. /\ d \in Seq(Nat) /\ Len(d) = n /\ DOMAIN d = 1 .. n
      /\ \A i \in 1 .. n : d[i] = Extent(ranges[i])
  BY <1>2, ExtentsType
<1>4. /\ e \in Seq(Nat) /\ Len(e) = n /\ DOMAIN e = 1 .. n
      /\ \A i \in 1 .. n : e[i] = Extent(box[i])
  BY <1>2, ExtentsType
<1>5. ~Empty
  <2>1. Empty => ProductOf(d) = 0
    BY <1>1, EmptyMeans
  <2> HIDE DEF k, d
  <2>2. k < ProductOf(d)
    BY DEF k, d
  <2> QED
    BY <1>1, <2>1, <2>2
<1>6. /\ elements = RowMajor(box)
      /\ \A i \in 1 .. n : idx[i] = Counted(k, i)
  BY <1>1, <1>5 DEF Copied
<1>7. /\ \A i \in 1 .. n : Extent(ranges[i]) # 0
      /\ \A i \in 1 .. n : Extent(box[i]) # 0
  BY <1>1, <1>5, EmptyMeans
<1>8. PICK w : Weights(w, d)
  BY <1>3, WeightsExist
<1>9. PICK v : Weights(v, e)
  BY <1>4, WeightsExist
<1>10. Radix(w, d, n) /\ Radix(v, e, n)
  BY <1>2, <1>7, <1>8, <1>9, RectRadix
<1>11. \A m : \A i \in 1 .. n : Counted(m, i) = Digit(m, w, d, i)
  <2>1. \A i \in 1 .. n : Strides(d)[i] = w[i]
    BY <1>3, <1>8, StridesAreWeights
  <2> QED
    BY <2>1 DEF Counted, Digit
<1>12. k \in 0 .. w[0] - 1 /\ w[0] \in Nat
  <2>1. ProductOf(d) = w[0] /\ w[0] \in Nat
    BY <1>2, <1>8, RowMajorIs
  <2> HIDE DEF k, d
  <2>2. k < ProductOf(d)
    BY DEF k, d
  <2> QED
    BY <1>1, <2>1, <2>2
<1>13. RowMajor(ranges)[k + 1] = [i \in 1 .. n |-> ranges[i][1] + Digit(k, w, d, i)]
  <2>1. /\ DOMAIN RowMajor(ranges) = 1 .. w[0]
        /\ \A l \in 1 .. w[0] :
             RowMajor(ranges)[l] = [i \in 1 .. n |-> ranges[i][1] + Digit(l - 1, w, d, i)]
    BY <1>2, <1>8, RowMajorIs
  <2> HIDE DEF k, d
  <2>2. k + 1 \in 1 .. w[0] /\ (k + 1) - 1 = k
    BY <1>12
  <2>3. RowMajor(ranges)[k + 1] =
          [i \in 1 .. n |-> ranges[i][1] + Digit((k + 1) - 1, w, d, i)]
    BY <2>1, <2>2
  <2> QED
    BY <2>2, <2>3
<1>14. /\ Len(elements) = v[0] /\ v[0] \in Nat
       /\ \A l \in 1 .. v[0] :
            elements[l] = [i \in 1 .. n |-> box[i][1] + Digit(l - 1, v, e, i)]
  <2>1. /\ ProductOf(e) = v[0] /\ v[0] \in Nat
        /\ \A l \in 1 .. v[0] :
             RowMajor(box)[l] = [i \in 1 .. n |-> box[i][1] + Digit(l - 1, v, e, i)]
    BY <1>2, <1>9, RowMajorIs
  <2>2. Len(RowMajor(box)) = ProductOf(e)
    BY <1>2, RowMajorType
  <2> QED
    BY <1>6, <2>1, <2>2
<1> HIDE DEF d, e, k
<1>15. ASSUME NEW i \in 1 .. n
       PROVE  /\ Offset(i) + idx[i] \in 0 .. e[i] - 1
              /\ box[i][1] + (Offset(i) + idx[i]) = ranges[i][1] + Digit(k, w, d, i)
  <2> DEFINE r == ranges[i]
             b == box[i]
             y == Digit(k, w, d, i)
  <2>1. /\ r[1] \in Nat /\ r[2] \in Nat /\ b[1] \in Nat /\ b[2] \in Nat
        /\ b[1] <= r[1] /\ r[1] <= r[2] /\ r[2] <= b[2]
        /\ Extent(r) = r[2] - r[1] /\ Extent(b) = b[2] - b[1]
    BY <1>1, BoxBounds
  <2>2. y \in 0 .. d[i] - 1
    BY <1>1, <1>10, DigitType
  <2>3. idx[i] = y /\ Offset(i) = r[1] - b[1]
    BY <1>6, <1>11 DEF Offset
  <2>4. d[i] = Extent(r) /\ e[i] = Extent(b)
    BY <1>3, <1>4
  <2> HIDE DEF r, b, y
  <2>5. e[i] = b[2] - b[1] /\ y \in 0 .. (r[2] - r[1]) - 1 /\ y \in Nat
    BY <2>1, <2>2, <2>4
  <2> DEFINE p == b[1]
             q == r[1]
             s == r[2]
             t == b[2]
  <2>6. /\ p \in Nat /\ q \in Nat /\ s \in Nat /\ t \in Nat
        /\ p <= q /\ q <= s /\ s <= t /\ y \in 0 .. (s - q) - 1 /\ y \in Nat
    BY <2>1, <2>5
  <2> HIDE DEF p, q, s, t
  <2>7. (q - p) + y \in 0 .. (t - p) - 1 /\ p + ((q - p) + y) = q + y
    BY <2>6
  <2> QED
    BY <2>3, <2>5, <2>7 DEF p, q, t, r, b, y
<1>16. PICK f : Source = f[n] /\ Place(f, x, v, e, n)
  <2>1. Len(box) = n
    <3>1. DOMAIN box = 1 .. n
      BY <1>2 DEF Rect
    <3>2. box = [i \in 1 .. n |-> Aligned(ranges[i], request.chunk[i], request.shape[i])]
      BY <1>1 DEF AlignedBox
    <3> QED
      BY <1>1, <3>2
  <2> HIDE DEF n
  <2> QED
    BY <1>2, <1>9, <1>15, <2>1, SourcePlace DEF e
<1>17. x = [i \in 1 .. n |-> Offset(i) + idx[i]]
  OBVIOUS
<1> HIDE DEF x, n
<1>18. Source \in 0 .. v[0] - 1
  <2>1. n \in 0 .. n
    BY <1>1
  <2>2. f[n] \in Nat /\ f[n] + v[n] <= v[0]
    BY <1>10, <1>16, <2>1, PlaceBounds
  <2>3. v[n] = 1
    BY <1>10 DEF Radix
  <2> QED
    BY <1>14, <1>16, <2>2, <2>3
<1>19. elements[Source + 1] = RowMajor(ranges)[k + 1]
  <2>1. Source + 1 \in 1 .. v[0] /\ (Source + 1) - 1 = Source
    BY <1>14, <1>18
  <2>2. elements[Source + 1] =
          [i \in 1 .. n |-> box[i][1] + Digit((Source + 1) - 1, v, e, i)]
    BY <1>14, <2>1
  <2>3. ASSUME NEW i \in 1 .. n
        PROVE  box[i][1] + Digit((Source + 1) - 1, v, e, i)
                 = ranges[i][1] + Digit(k, w, d, i)
    <3>1. \A g, y : Place(g, y, v, e, n) => Digit(g[n], v, e, i) = y[i]
      BY <1>10, PlaceDigits
    <3>2. Digit(f[n], v, e, i) = x[i]
      BY <1>16, <3>1
    <3>3. x[i] = Offset(i) + idx[i]
      BY <1>17
    <3>4. (Source + 1) - 1 = f[n]
      BY <1>16, <2>1
    <3> QED
      BY <1>15, <3>2, <3>3, <3>4
  <2>4. elements[Source + 1] = [i \in 1 .. n |-> ranges[i][1] + Digit(k, w, d, i)]
    BY <2>2, <2>3
  <2> QED
    BY <1>13, <2>4
<1>20. ASSUME NEW i \in Axes
       PROVE  Increment(idx, d)[i] = Counted(k + 1, i)
  <2> DEFINE y == Digit(k, w, d, i)
  <2>1. /\ i \in 1 .. n /\ Counted(k + 1, i) = Digit(k + 1, w, d, i)
        /\ idx[i] = y
    BY <1>1, <1>6, <1>11
  <2>2. Digit(k + 1, w, d, i) =
          IF ~Full(k, w, d, n, i) THEN y ELSE IF y + 1 < d[i] THEN y + 1 ELSE 0
    BY <1>1, <1>10, <2>1, Carry
  <2>3. Full(k, w, d, n, i) <=> \A j \in i + 1 .. Len(d) : idx[j] + 1 = d[j]
    <3>1. Len(d) = n /\ \A j \in i + 1 .. n : j \in 1 .. n
      BY <1>1, <1>3, <2>1
    <3>2. \A j \in i + 1 .. n : idx[j] = Digit(k, w, d, j)
      BY <1>6, <1>11, <3>1
    <3> QED
      BY <3>1, <3>2 DEF Full
  <2>4. Increment(idx, d)[i] =
          IF ~(\A j \in i + 1 .. Len(d) : idx[j] + 1 = d[j]) THEN idx[i]
          ELSE IF idx[i] + 1 < d[i] THEN idx[i] + 1 ELSE 0
    BY <1>3, <2>1 DEF Increment
  <2> HIDE DEF y
  <2> QED
    BY <2>1, <2>2, <2>3, <2>4
<1> QED
  BY <1>5, <1>14, <1>18, <1>19, <1>20 DEF d, k


LEMMA InitCopyInv == Init => Copied /\ Answered
BY DEF Init, Copied, Answered

LEMMA RaiseCopies ==
  ASSUME NEW exception, Raise(exception), exception # "none"
  PROVE  Copied' /\ Answered'
BY DEF Raise, Copied, Answered

LEMMA TranslateCopies ==
  ASSUME Translate
  PROVE  Copied' /\ Answered'
<1>1. \/ Raise("NotImplementedError") \/ Raise("OverflowError")
      \/ pc' = "ranges"
  BY DEF Translate
<1>2. CASE pc' = "ranges"
  BY <1>2 DEF Copied, Answered
<1> QED
  BY <1>1, <1>2, RaiseCopies

LEMMA RejectCopies ==
  ASSUME Reject
  PROVE  Copied' /\ Answered'
<1>1. Raise("ValueError") \/ Raise("IndexError")
  BY DEF Reject
<1> QED
  BY <1>1, RaiseCopies

LEMMA LookUpFailsCopies ==
  ASSUME LookUpFails
  PROVE  Copied' /\ Answered'
<1>1. Raise("ValueError")
  BY DEF LookUpFails
<1> QED
  BY <1>1, RaiseCopies

LEMMA FetchFailsCopies ==
  ASSUME FetchFails
  PROVE  Copied' /\ Answered'
<1>1. Raise("ValueError")
  BY DEF FetchFails
<1> QED
  BY <1>1, RaiseCopies

(* A read of exactly what was asked for is the answer; any other starts    *)
(* the copy at its first element.                                          *)
LEMMA FetchCopies ==
  ASSUME ReadInv, Fetch
  PROVE  Copied' /\ Answered'
<1>1. /\ pc = "ranges" /\ request \in Requests /\ Translated /\ ~PastTheEnd
      /\ error = "none"
  BY DEF Fetch, ReadInv
<1>2. /\ box' = AlignedBox /\ idx' = Zeros(Rank)
      /\ UNCHANGED <<request, ranges, error>>
      /\ \/ AlignedBox = ranges /\ out' = elements' /\ pc' = "returned"
         \/ out' = <<>> /\ pc' = "copy"
  BY DEF Fetch, Rank
<1>3. /\ Axes' = Axes /\ AlignedBox' = AlignedBox /\ Translated' /\ ~PastTheEnd'
      /\ Empty' = Empty
      /\ \A m, i : Counted(m, i)' = Counted(m, i)
  BY <1>1, <1>2 DEF Axes, AlignedBox, Translated, PastTheEnd, Empty, Counted
<1>4. Rank \in Nat /\ Axes = 1 .. Rank
  BY <1>1, AxesAre
<1>5. /\ ~Empty => elements' = RowMajor(AlignedBox)
      /\ Empty => elements' = <<>>
  <2>1. ASSUME ~Empty, NEW i \in Axes PROVE ~(box'[i][1] >= box'[i][2])
    <3>1. /\ AlignedBox[i][1] < AlignedBox[i][2]
          /\ AlignedBox[i][1] \in Nat /\ AlignedBox[i][2] \in Nat
      BY <1>1, <1>4, <2>1, EmptyMeans, BoxBounds
    <3> QED
      BY <1>2, <3>1
  <2>2. elements' = IF Empty \/ \E i \in Axes : box'[i][1] >= box'[i][2]
                    THEN <<>> ELSE RowMajor(AlignedBox)
    BY DEF Fetch
  <2> QED
    BY <2>1, <2>2
<1>6. CASE AlignedBox = ranges /\ out' = elements' /\ pc' = "returned"
  <2>1. elements' = RowMajor(ranges)
    <3>1. CASE Empty
      <4>1. ProductOf(Extents(ranges)) = 0
        BY <1>1, <3>1, EmptyMeans
      <4>2. /\ RowMajor(ranges) \in Seq([1 .. Rank -> Nat])
            /\ Len(RowMajor(ranges)) = 0
        BY <1>1, <4>1, Rects, RowMajorType
      <4>3. RowMajor(ranges) = <<>>
        BY <4>2
      <4> QED
        BY <1>5, <3>1, <4>3
    <3> QED
      BY <1>5, <1>6, <3>1
  <2>2. RowMajor(ranges)' = RowMajor(ranges)
    BY <1>2
  <2> QED
    BY <1>3, <1>6, <2>1, <2>2 DEF Copied, Answered
<1>7. CASE out' = <<>> /\ pc' = "copy"
  <2>1. Len(out') = 0 /\ out' \in Seq([Axes -> Nat]) /\ 1 .. Len(out') = {}
    BY <1>7
  <2>2. Len(out') <= ProductOf(Extents(ranges))
    <3>1. ProductOf(Extents(ranges)) \in Nat
      BY <1>1, Rects, RowMajorType
    <3> QED
      BY <2>1, <3>1
  <2>3. ASSUME ~Empty, NEW i \in Axes PROVE idx'[i] = Counted(0, i)
    <3> DEFINE d == Extents(ranges)
    <3>1. d \in Seq(Nat) /\ Len(d) = Rank /\ DOMAIN d = 1 .. Rank
      BY <1>1, Rects, ExtentsType
    <3>2. PICK w : Weights(w, d)
      BY <3>1, WeightsExist
    <3>3. Radix(w, d, Rank)
      BY <1>1, <2>3, <3>2, Rects, EmptyMeans, RectRadix
    <3>4. w[i] \in Nat \ {0} /\ d[i] \in Nat \ {0}
      BY <1>4, <3>3, RadixAt
    <3>5. Strides(d)[i] = w[i]
      BY <1>4, <3>1, <3>2, StridesAreWeights
    <3> HIDE DEF d
    <3>6. Digit(0, w, d, i) = 0
      <4>1. \A a, b \in Nat \ {0} : (0 \div a) % b = 0
        <5> TAKE a, b \in Nat \ {0}
        <5>1. 0 \div a = 0
          OBVIOUS
        <5>2. 0 % b = 0
          OBVIOUS
        <5> QED
          BY <5>1, <5>2
      <4> QED
        BY <3>4, <4>1 DEF Digit
    <3>7. Counted(0, i) = Digit(0, w, d, i)
      BY <3>5 DEF Counted, Digit, d
    <3> QED
      BY <1>2, <1>4, <3>6, <3>7 DEF Zeros
  <2>4. ~Empty => elements' = RowMajor(box')
    BY <1>2, <1>5
  <2>5. ASSUME ~Empty' PROVE \A i \in Axes' : idx'[i] = Counted(Len(out), i)'
    <3>1. ~Empty
      BY <1>3, <2>5
    <3>2. ASSUME NEW i \in Axes PROVE Counted(Len(out), i)' = Counted(0, i)
      BY <1>2, <2>1 DEF Counted
    <3> QED
      BY <1>3, <2>3, <3>1, <3>2
  <2>6. /\ ~PastTheEnd' /\ box' = AlignedBox' /\ (~Empty' => elements' = RowMajor(box)')
        /\ out' \in Seq([Axes' -> Nat])
        /\ Len(out') <= ProductOf(Extents(ranges'))
    BY <1>2, <1>3, <2>1, <2>2, <2>4
  <2>7. Copied'
    BY <2>1, <2>5, <2>6 DEF Copied
  <2> QED
    BY <1>7, <2>7 DEF Answered
<1> QED
  BY <1>2, <1>6, <1>7

(* An element is copied: the next one of the answer. *)
LEMMA CopyCopies ==
  ASSUME CopyInv, Copy
  PROVE  Copied' /\ Answered'
<1> DEFINE k == Len(out)
           P == ProductOf(Extents(ranges))
           C == [Axes -> Nat]
           next == elements[Source + 1]
<1>1. /\ pc = "copy" /\ k < P /\ out' = Append(out, next)
      /\ idx' = Increment(idx, Extents(ranges))
      /\ UNCHANGED <<request, pc, ranges, box, elements, error>>
  BY DEF Copy
<1>2. request \in Requests /\ Translated /\ Copied
  BY <1>1 DEF CopyInv, ReadInv
<1>3. /\ ~PastTheEnd /\ box = AlignedBox /\ out \in Seq(C) /\ k <= P
      /\ ~Empty => elements = RowMajor(box)
      /\ \A l \in 1 .. k : out[l] = RowMajor(ranges)[l]
  BY <1>1, <1>2 DEF Copied
<1>4. /\ next = RowMajor(ranges)[k + 1]
      /\ \A i \in Axes : idx'[i] = Counted(k + 1, i)
  BY <1>1, <1>2, NextElement
<1>5. P \in Nat /\ k \in Nat /\ k + 1 \in 1 .. P
  <2>1. P \in Nat
    BY <1>2, <1>3, Rects, RowMajorType
  <2>2. k \in Nat
    BY <1>3
  <2> HIDE DEF P, k
  <2> QED
    BY <1>1, <2>1, <2>2
<1>6. next \in C
  <2>1. /\ RowMajor(ranges) \in Seq([1 .. Rank -> Nat])
        /\ Len(RowMajor(ranges)) = P
    BY <1>2, <1>3, Rects, RowMajorType
  <2>2. Axes = 1 .. Rank
    BY <1>2, AxesAre
  <2> HIDE DEF P, k, next
  <2>3. RowMajor(ranges)[k + 1] \in [1 .. Rank -> Nat]
    BY <1>5, <2>1
  <2> QED
    BY <1>4, <2>2, <2>3
<1> HIDE DEF next, P, C
<1>7. /\ out' \in Seq(C) /\ Len(out') = k + 1
      /\ \A l \in 1 .. k : out'[l] = out[l]
      /\ out'[k + 1] = next
  BY <1>1, <1>3, <1>6
<1> HIDE DEF k
<1>8. \A l \in 1 .. k + 1 : out'[l] = RowMajor(ranges)[l]
  <2> TAKE l \in 1 .. k + 1
  <2>1. l \in 1 .. k \/ l = k + 1
    BY <1>5
  <2> QED
    BY <1>3, <1>4, <1>7, <2>1
<1>9. /\ Axes' = Axes /\ AlignedBox' = AlignedBox /\ ~PastTheEnd' /\ Empty' = Empty
      /\ \A i : Counted(Len(out), i)' = Counted(k + 1, i)
  <2>1. UNCHANGED <<request, ranges>>
    BY <1>1
  <2> QED
    BY <1>3, <1>7, <2>1 DEF Axes, AlignedBox, PastTheEnd, Empty, Counted
<1>10. /\ \A l \in 1 .. Len(out') : out'[l] = RowMajor(ranges')[l]
       /\ Len(out') <= ProductOf(Extents(ranges'))
       /\ out' \in Seq([Axes' -> Nat])
       /\ box' = AlignedBox'
       /\ ~Empty' => elements' = RowMajor(box')
  <2>1. UNCHANGED <<ranges, box, elements>>
    BY <1>1
  <2>2. Len(out') <= P
    BY <1>5, <1>7
  <2> QED
    BY <1>3, <1>7, <1>8, <1>9, <2>1, <2>2 DEF P, C
<1>11. \A i \in Axes' : idx'[i] = Counted(Len(out), i)'
  BY <1>4, <1>9
<1>12. Copied'
  BY <1>9, <1>10, <1>11 DEF Copied
<1> QED
  BY <1>1, <1>12 DEF Answered

LEMMA FinishCopies ==
  ASSUME CopyInv, Finish
  PROVE  Copied' /\ Answered'
<1> DEFINE C == [1 .. Rank -> Nat]
           o == RowMajor(ranges)
<1>1. /\ pc = "copy" /\ pc' = "returned" /\ Len(out) = ProductOf(Extents(ranges))
      /\ UNCHANGED <<request, ranges, out>>
  BY DEF Finish
<1>2. request \in Requests /\ Translated /\ Copied
  BY <1>1 DEF CopyInv, ReadInv
<1>3. /\ ~PastTheEnd /\ out \in Seq(C)
      /\ \A k \in 1 .. Len(out) : out[k] = o[k]
  BY <1>1, <1>2, AxesAre DEF Copied
<1>4. o \in Seq(C) /\ Len(o) = Len(out)
  BY <1>1, <1>2, <1>3, Rects, RowMajorType
<1> HIDE DEF C, o
<1>5. out = o
  BY <1>3, <1>4
<1>6. Translated' /\ ~PastTheEnd' /\ RowMajor(ranges)' = RowMajor(ranges)
  BY <1>1, <1>2, <1>3 DEF Translated, PastTheEnd, Axes
<1> QED
  BY <1>1, <1>5, <1>6 DEF Copied, Answered, o

LEMMA StepCopyInv == CopyInv /\ [Next]_vars => CopyInv'
<1> SUFFICES ASSUME CopyInv, [Next]_vars PROVE CopyInv'
  OBVIOUS
<1>1. ReadInv'
  BY StepReadInv DEF CopyInv
<1>2. CASE UNCHANGED vars
  BY <1>1, <1>2 DEF CopyInv, Copied, Answered, Translated, PastTheEnd, Empty, Axes,
                    AlignedBox, Counted, vars
<1>3. CASE Translate \/ Reject \/ LookUpFails \/ Fetch \/ FetchFails \/ Copy \/ Finish
  <2>1. Copied' /\ Answered'
    BY <1>3, TranslateCopies, RejectCopies, LookUpFailsCopies, FetchCopies, FetchFailsCopies, CopyCopies,
       FinishCopies DEF CopyInv
  <2> QED
    BY <1>1, <2>1 DEF CopyInv
<1> QED
  BY <1>2, <1>3 DEF Next, Read, Returned

LEMMA CopyInvariance == Spec => []CopyInv
<1>1. Init => CopyInv
  BY InitReadInv, InitCopyInv DEF CopyInv
<1> QED
  BY <1>1, StepCopyInv, PTL DEF Spec

(* The buffer is never indexed past its end: array.rs:405-434. *)
THEOREM NeverPastTheBuffer == Spec => []InBounds
<1>1. CopyInv => InBounds
  <2> SUFFICES ASSUME CopyInv, pc = "copy", Len(out) < ProductOf(Extents(ranges))
               PROVE  Source \in 0 .. Len(elements) - 1
    BY DEF InBounds
  <2>1. request \in Requests /\ Translated /\ Copied
    BY DEF CopyInv, ReadInv
  <2> QED
    BY <2>1, NextElement
<1> QED
  BY <1>1, CopyInvariance, PTL

-----------------------------------------------------------------------------
(* The range a key's entry becomes is what the entry selects. *)
LEMMA RangeSelects ==
  ASSUME NEW size \in Nat, NEW entry,
         \/ entry.kind = "int" /\ entry.at \in Int
         \/ entry.kind = "slice" /\ entry.from \in Int /\ entry.to \in Int,
         LET r == RangeOf(entry, size) IN r[1] >= 0 /\ r[2] <= size
  PROVE  LET r == RangeOf(entry, size)
         IN  /\ Selected(entry, size) = r[1] .. r[2] - 1
             /\ entry.kind = "int" => Selected(entry, size) # {}
<1> DEFINE r == RangeOf(entry, size)
<1>1. CASE entry.kind = "int" /\ entry.at \in Int
  <2> DEFINE at == IF entry.at < 0 THEN entry.at + size ELSE entry.at
  <2>1. r[1] = at /\ r[2] = at + 1 /\ at \in Int /\ at >= 0 /\ at + 1 <= size
    BY <1>1 DEF RangeOf
  <2>2. Selected(entry, size) = {p \in 0 .. size - 1 : p = entry.at \/ p = entry.at + size}
    BY <1>1 DEF Selected
  <2>3. \A p \in 0 .. size - 1 : p = entry.at \/ p = entry.at + size <=> p = at
    BY <1>1
  <2> HIDE DEF at
  <2>4. at \in 0 .. size - 1 /\ at .. (at + 1) - 1 = {at}
    BY <2>1
  <2>5. Selected(entry, size) = {at}
    BY <2>2, <2>3, <2>4
  <2> QED
    BY <2>1, <2>4, <2>5
<1>2. CASE entry.kind = "slice" /\ entry.from \in Int /\ entry.to \in Int
  <2> DEFINE from == Clamp(entry.from, size)
             to == Clamp(entry.to, size)
             f == IF entry.from < 0 THEN entry.from + size ELSE entry.from
             t == IF entry.to < 0 THEN entry.to + size ELSE entry.to
  <2>1. from \in 0 .. size /\ to \in 0 .. size
    BY <1>2, ClampBounds
  <2>2. r = <<from, IF from > to THEN from ELSE to>>
    BY <1>2 DEF RangeOf, Range0
  <2>3. Selected(entry, size) = {p \in 0 .. size - 1 : f <= p /\ p < t}
    BY <1>2 DEF Selected
  <2>4. ASSUME NEW p \in 0 .. size - 1
        PROVE  f <= p /\ p < t <=> from <= p /\ p < to
    BY <1>2, <2>4 DEF Clamp
  <2> HIDE DEF from, to, f, t
  <2>5. Selected(entry, size) = {p \in 0 .. size - 1 : from <= p /\ p < to}
    BY <2>3, <2>4
  <2>6. {p \in 0 .. size - 1 : from <= p /\ p < to}
          = from .. (IF from > to THEN from ELSE to) - 1
    BY <2>1
  <2> QED
    BY <1>2, <2>2, <2>5, <2>6
<1> QED
  BY <1>1, <1>2

(* A read that raises nothing returns what the key selects, in row-major   *)
(* order: _array.py:65-108, array.rs:236-435.                              *)
THEOREM ReadsTheSelection == Spec => []ReadsWhatIsSelected
<1>1. CopyInv => ReadsWhatIsSelected
  <2> DEFINE n == Rank
             sel == [i \in Axes |-> Selected(request.key[i], request.shape[i])]
             counts == [i \in Axes |-> Cardinality(sel[i])]
             In(c) == Inside(c, ranges, n)
  <2> SUFFICES ASSUME CopyInv, pc = "returned", error = "none"
               PROVE  /\ Len(out) = ProductOf(counts)
                      /\ \A i \in Axes : request.key[i].kind = "int" => sel[i] # {}
                      /\ {out[k] : k \in DOMAIN out} =
                           {c \in [Axes -> UNION {sel[i] : i \in Axes}] :
                              \A i \in Axes : c[i] \in sel[i]}
                      /\ \A k \in 1 .. ProductOf(counts) - 1 :
                           \E i \in Axes :
                             /\ out[k][i] < out[k + 1][i]
                             /\ \A j \in 1 .. i - 1 : out[k][j] = out[k + 1][j]
    BY DEF ReadsWhatIsSelected
  <2>1. /\ request \in Requests /\ Translated /\ ~PastTheEnd
        /\ out = RowMajor(ranges)
    BY DEF CopyInv, ReadInv, Answered
  <2>2. n \in Nat /\ Axes = 1 .. n
    BY <2>1, AxesAre
  <2>3. Rect(ranges, n)
    BY <2>1, Rects
  <2>4. ASSUME NEW i \in Axes
        PROVE  LET r == ranges[i]
               IN  /\ sel[i] = r[1] .. r[1] + Extent(r) - 1
                   /\ r[1] \in Nat /\ Extent(r) \in Nat
                   /\ request.key[i].kind = "int" => sel[i] # {}
    <3> DEFINE r == ranges[i]
               entry == request.key[i]
               size == request.shape[i]
    <3>1. /\ size \in Nat
          /\ \/ entry.kind = "int" /\ entry.at \in Int
             \/ entry.kind = "slice" /\ entry.from \in Int /\ entry.to \in Int
      BY <2>1, Requested
    <3>2. r = RangeOf(entry, size)
      BY <2>1 DEF Translated
    <3>3. /\ r[1] \in Nat /\ r[2] \in Nat /\ r[1] <= r[2] /\ r[2] <= size
          /\ Extent(r) = r[2] - r[1]
      BY <2>1, BoxBounds
    <3> HIDE DEF r, entry, size
    <3>4. r[1] >= 0
      BY <3>3
    <3>5. /\ Selected(entry, size) = r[1] .. r[2] - 1
          /\ entry.kind = "int" => Selected(entry, size) # {}
      BY <3>1, <3>2, <3>3, <3>4, RangeSelects
    <3>6. Extent(r) \in Nat /\ r[1] + Extent(r) - 1 = r[2] - 1
      BY <3>3
    <3> QED
      BY <3>3, <3>5, <3>6 DEF r, entry, size
  <2> HIDE DEF sel, n
  <2>5. counts = Extents(ranges)
    <3>1. ASSUME NEW i \in Axes PROVE Cardinality(sel[i]) = Extent(ranges[i])
      <4> DEFINE a == ranges[i][1]
                 b == ranges[i][1] + Extent(ranges[i]) - 1
      <4>1. sel[i] = a .. b /\ a \in Nat /\ Extent(ranges[i]) \in Nat
        BY <2>4
      <4>2. a \in Int /\ b \in Int /\ (IF a > b THEN 0 ELSE b - a + 1) = Extent(ranges[i])
        BY <4>1
      <4> HIDE DEF a, b
      <4>3. Cardinality(a .. b) = IF a > b THEN 0 ELSE b - a + 1
        BY <4>2, FS_Interval
      <4> QED
        BY <4>1, <4>2, <4>3
    <3>2. DOMAIN ranges = Axes
      BY <2>1 DEF Translated
    <3> QED
      BY <3>1, <3>2 DEF Extents
  <2>6. Len(out) = ProductOf(counts) /\ out \in Seq([1 .. n -> Nat])
    BY <2>1, <2>3, <2>5, RowMajorType
  <2>7. /\ \A k \in DOMAIN out : In(out[k])
        /\ \A c \in [1 .. n -> Nat] : In(c) => \E k \in DOMAIN out : out[k] = c
        /\ \A k \in 1 .. Len(out) - 1 :
             \E i \in 1 .. n :
               /\ out[k][i] < out[k + 1][i]
               /\ \A j \in 1 .. i - 1 : out[k][j] = out[k + 1][j]
    <3>1. Enumeration(out, ranges, n)
      BY <2>1, <2>3, Enumerates
    <3> QED
      BY <3>1 DEF Enumeration
  <2>8. \A c : In(c) <=> \A i \in Axes : c[i] \in sel[i]
    BY <2>2, <2>4 DEF Inside
  <2> HIDE DEF In, counts
  <2>9. ASSUME NEW k \in DOMAIN out
        PROVE  /\ out[k] \in [Axes -> UNION {sel[i] : i \in Axes}]
               /\ \A i \in Axes : out[k][i] \in sel[i]
    <3>1. out[k] \in [Axes -> Nat] /\ \A i \in Axes : out[k][i] \in sel[i]
      BY <2>2, <2>6, <2>7, <2>8
    <3>2. \A i \in Axes : out[k][i] \in UNION {sel[j] : j \in Axes}
      BY <3>1
    <3> QED
      BY <3>1, <3>2
  <2>10. ASSUME NEW c \in [Axes -> UNION {sel[i] : i \in Axes}],
                \A i \in Axes : c[i] \in sel[i]
         PROVE  \E k \in DOMAIN out : out[k] = c
    <3>1. \A i \in Axes : sel[i] \subseteq Nat
      <4> TAKE i \in Axes
      <4> DEFINE a == ranges[i][1]
                 b == ranges[i][1] + Extent(ranges[i]) - 1
      <4>1. sel[i] = a .. b /\ a \in Nat /\ b \in Int
        BY <2>4
      <4> HIDE DEF a, b
      <4> QED
        BY <4>1
    <3>2. c \in [1 .. n -> Nat]
      BY <2>2, <2>10, <3>1
    <3>3. In(c)
      BY <2>8, <2>10
    <3> QED
      BY <2>7, <3>2, <3>3
  <2>11. {out[k] : k \in DOMAIN out} =
           {c \in [Axes -> UNION {sel[i] : i \in Axes}] : \A i \in Axes : c[i] \in sel[i]}
    <3> DEFINE L == {out[k] : k \in DOMAIN out}
               W == [Axes -> UNION {sel[i] : i \in Axes}]
               R == {c \in W : \A i \in Axes : c[i] \in sel[i]}
    <3>1. \A c : c \in L <=> \E k \in DOMAIN out : c = out[k]
      OBVIOUS
    <3>2. \A c : c \in R <=> c \in W /\ \A i \in Axes : c[i] \in sel[i]
      OBVIOUS
    <3>3. ASSUME NEW c \in L PROVE c \in R
      <4>1. PICK k \in DOMAIN out : c = out[k]
        BY <3>1
      <4> HIDE DEF W, L, R
      <4> QED
        BY <2>9, <3>2, <4>1 DEF W
    <3>4. ASSUME NEW c \in R PROVE c \in L
      <4>1. c \in W /\ \A i \in Axes : c[i] \in sel[i]
        BY <3>2
      <4>2. \E k \in DOMAIN out : out[k] = c
        BY <2>10, <4>1
      <4> HIDE DEF W, L, R
      <4> QED
        BY <3>1, <4>2
    <3>5. L = R
      <4> HIDE DEF L, R
      <4> QED
        BY <3>3, <3>4
    <3> QED
      BY <3>5
  <2>12. \A i \in Axes : request.key[i].kind = "int" => sel[i] # {}
    BY <2>4
  <2>13. \A k \in 1 .. ProductOf(counts) - 1 :
           \E i \in Axes : /\ out[k][i] < out[k + 1][i]
                           /\ \A j \in 1 .. i - 1 : out[k][j] = out[k + 1][j]
    BY <2>2, <2>6, <2>7
  <2> QED
    BY <2>6, <2>11, <2>12, <2>13
<1> QED
  BY <1>1, CopyInvariance, PTL

=============================================================================
