------------------------ MODULE ReportBuilder_proofs ------------------------
(***************************************************************************)
(* What a report says of its transactions, proved for tables of every      *)
(* length.  Sums and counts are proved about by induction on how many rows *)
(* were gone through; the induction itself is derived from the             *)
(* well-foundedness of < on the natural numbers.                           *)
(***************************************************************************)
EXTENDS ReportBuilder, RuleEngine_proofs, FiniteSetTheorems

-----------------------------------------------------------------------------
(* Induction.                                                              *)

(* A set of natural numbers that is not empty has a least element.         *)
LEMMA Least ==
    ASSUME NEW T \in SUBSET Nat, T # {}
    PROVE  \E n \in T : \A m \in T : n <= m
<1>1. PICK R : IsWellFoundedOn(R, Nat) /\ \A m, n \in Nat : m < n => <<m, n>> \in R
  <2>1. IsWellFoundedOn(OpToRel(<, Nat), Nat)
    BY NatLessThanWellFounded
  <2>2. \A m, n \in Nat : m < n => <<m, n>> \in OpToRel(<, Nat)
    BY DEF OpToRel
  <2> QED
    BY <2>1, <2>2, Zenon
<1>2. IsWellFoundedOn(R, Nat) /\ T \subseteq Nat
  BY <1>1
<1>3. PICK n \in T : \A m \in T : ~ (<<m, n>> \in R)
  BY ONLY <1>2, WFMin, T # {}, Zenon
<1>4. \A m \in T : ~ (m < n)
  BY <1>1, <1>3
<1> QED
  BY ONLY <1>3, <1>4, T \in SUBSET Nat

(* A set of natural numbers that is closed under successors is all of them.*)
LEMMA NatSetInduction ==
    ASSUME NEW T \in SUBSET Nat, 0 \in T, \A n \in T : n + 1 \in T
    PROVE  T = Nat
<1> SUFFICES ASSUME Nat \ T # {} PROVE FALSE
  OBVIOUS
<1>1. PICK n \in Nat \ T : \A m \in Nat \ T : n <= m
  BY Least
<1>2. n # 0 /\ n - 1 \in Nat
  BY <1>1
<1>3. n - 1 \in T
  BY <1>1, <1>2
<1>4. (n - 1) + 1 \in T
  BY <1>3
<1> QED
  BY <1>1, <1>2, <1>4

(* What holds before the first of N steps and is kept by each of them holds*)
(* after every one of them.                                                *)
LEMMA Induction ==
    ASSUME NEW N \in Nat, NEW T,
           0 \in T, \A n \in 0 .. N - 1 : n \in T => n + 1 \in T
    PROVE  \A n \in 0 .. N : n \in T
<1> DEFINE U == {n \in Nat : n <= N => n \in T}
<1>1. U \in SUBSET Nat /\ 0 \in U
  OBVIOUS
<1>2. ASSUME NEW n \in U PROVE n + 1 \in U
  OBVIOUS
<1>3. U = Nat
  <2> HIDE DEF U
  <2> QED
    BY <1>1, <1>2, NatSetInduction
<1> QED
  BY <1>3

-----------------------------------------------------------------------------
(* Sums.                                                                   *)

(* f adds up the weights of some rows, one row after the other.            *)
AddsUp(f, w, rows) ==
    /\ f \in [0 .. Len(w) -> Int]
    /\ f[0] = 0
    /\ \A n \in 1 .. Len(w) : f[n] = f[n - 1] + (IF n \in rows THEN w[n] ELSE 0)

(* Prefixes of a sum exist; the next one takes one more row.               *)
LEMMA PartialSums ==
    ASSUME NEW w \in Seq(Int), NEW rows
    PROVE  \E f : AddsUp(f, w, rows)
<1> DEFINE step(n) == IF n \in rows THEN w[n] ELSE 0
           P(f, N) == /\ f \in [0 .. N -> Int]
                      /\ f[0] = 0
                      /\ \A n \in 1 .. N : f[n] = f[n - 1] + step(n)
           T == {N \in Nat : \E f : P(f, N)}
<1>1. Len(w) \in Nat /\ \A n \in 1 .. Len(w) : step(n) \in Int
  OBVIOUS
<1> HIDE DEF step
<1>2. 0 \in T
  <2>1. P([n \in 0 .. 0 |-> 0], 0)
    OBVIOUS
  <2> QED
    BY <2>1
<1>3. ASSUME NEW N \in 0 .. Len(w) - 1, N \in T PROVE N + 1 \in T
  <2>1. N \in Nat /\ N + 1 \in 1 .. Len(w)
    BY <1>1
  <2>2. PICK f : P(f, N)
    BY <1>3
  <2> DEFINE last == f[N] + step(N + 1)
             h == [n \in 0 .. N + 1 |-> IF n = N + 1 THEN last ELSE f[n]]
  <2>3. last \in Int
    BY <1>1, <2>1, <2>2
  <2>4. h \in [0 .. N + 1 -> Int] /\ h[0] = 0
    BY <2>1, <2>2, <2>3
  <2>5. ASSUME NEW n \in 1 .. N + 1 PROVE h[n] = h[n - 1] + step(n)
    <3>1. n - 1 \in 0 .. N /\ h[n - 1] = f[n - 1]
      BY <2>1
    <3>2. CASE n = N + 1
      BY <2>1, <3>1, <3>2
    <3>3. CASE n # N + 1
      <4>1. n \in 1 .. N /\ h[n] = f[n]
        BY <2>1, <3>3
      <4> QED
        BY <2>2, <3>1, <4>1
    <3> QED
      BY <3>2, <3>3
  <2> HIDE DEF h
  <2>6. \E g : P(g, N + 1)
    BY <2>4, <2>5
  <2> HIDE DEF P
  <2>7. N + 1 \in Nat
    BY <2>1
  <2> QED
    BY <2>6, <2>7
<1>4. Len(w) \in T
  <2> HIDE DEF T
  <2>1. \A n \in 0 .. Len(w) : n \in T
    BY <1>1, <1>2, <1>3, Induction
  <2> QED
    BY <1>1, <2>1
<1>5. PICK f : P(f, Len(w))
  BY <1>4
<1> QED
  BY <1>5 DEF AddsUp, step

(* What SumOver returns: the last of the prefix sums.                      *)
LEMMA SumIsLast ==
    ASSUME NEW w \in Seq(Int), NEW rows, NEW f, AddsUp(f, w, rows)
    PROVE  SumOver(w, rows) = f[Len(w)]
<1> DEFINE Eq(g) == g = [n \in 0 .. Len(w) |->
                IF n = 0 THEN 0 ELSE g[n - 1] + (IF n \in rows THEN w[n] ELSE 0)]
           sum == CHOOSE g : Eq(g)
<1>1. Len(w) \in Nat
  OBVIOUS
<1>2. Eq(f)
  BY <1>1, SMT DEF AddsUp
<1>3. Eq(sum)
  BY <1>2, Zenon
<1>4. SumOver(w, rows) = sum[Len(w)]
  BY Zenon DEF SumOver
<1> DEFINE T == {n \in 0 .. Len(w) : sum[n] = f[n]}
<1> HIDE DEF sum
<1>5. 0 \in T
  BY <1>1, <1>2, <1>3
<1>6. ASSUME NEW n \in 0 .. Len(w) - 1, n \in T PROVE n + 1 \in T
  <2>1. n + 1 \in 0 .. Len(w) /\ n + 1 # 0 /\ (n + 1) - 1 = n
    BY <1>1
  <2>2. sum[n + 1] = sum[n] + (IF n + 1 \in rows THEN w[n + 1] ELSE 0)
    BY <1>3, <2>1
  <2>3. f[n + 1] = f[n] + (IF n + 1 \in rows THEN w[n + 1] ELSE 0)
    BY <1>2, <2>1
  <2> QED
    BY <1>6, <2>1, <2>2, <2>3
<1>7. Len(w) \in T
  <2> HIDE DEF T
  <2>1. \A n \in 0 .. Len(w) : n \in T
    BY <1>1, <1>5, <1>6, Induction
  <2> QED
    BY <1>1, <2>1
<1> QED
  BY <1>4, <1>7

LEMMA SumPrefixes ==
    ASSUME NEW w \in Seq(Int), NEW rows
    PROVE  \E f : AddsUp(f, w, rows) /\ SumOver(w, rows) = f[Len(w)]
BY PartialSums, SumIsLast

LEMMA SumType ==
    ASSUME NEW w \in Seq(Int), NEW rows
    PROVE  SumOver(w, rows) \in Int
<1>1. PICK f : AddsUp(f, w, rows) /\ SumOver(w, rows) = f[Len(w)]
  BY SumPrefixes
<1>2. f \in [0 .. Len(w) -> Int] /\ Len(w) \in 0 .. Len(w)
  BY <1>1 DEF AddsUp
<1> QED
  BY <1>1, <1>2

(* Only the rows of the sequence and their weights count.                  *)
LEMMA SumOfNothing ==
    ASSUME NEW w \in Seq(Int), NEW rows, \A n \in 1 .. Len(w) : n \in rows => w[n] = 0
    PROVE  SumOver(w, rows) = 0
<1>1. PICK f : AddsUp(f, w, rows) /\ SumOver(w, rows) = f[Len(w)]
  BY SumPrefixes
<1> DEFINE T == {n \in 0 .. Len(w) : f[n] = 0}
<1>2. Len(w) \in Nat /\ 0 \in T
  BY <1>1 DEF AddsUp
<1>3. ASSUME NEW n \in 0 .. Len(w) - 1, n \in T PROVE n + 1 \in T
  <2>1. n + 1 \in 1 .. Len(w) /\ (n + 1) - 1 = n
    BY <1>2
  <2>2. f[n + 1] = f[n] + (IF n + 1 \in rows THEN w[n + 1] ELSE 0)
    BY <1>1, <2>1 DEF AddsUp
  <2> QED
    BY <1>3, <2>1, <2>2
<1>4. Len(w) \in T
  <2> HIDE DEF T
  <2>1. \A n \in 0 .. Len(w) : n \in T
    BY <1>2, <1>3, Induction
  <2> QED
    BY <1>2, <2>1
<1> QED
  BY <1>1, <1>4

(* Sums of disjoint sets of rows add up.                                   *)
LEMMA SumOfUnion ==
    ASSUME NEW w \in Seq(Int), NEW A, NEW B, A \cap B = {}
    PROVE  SumOver(w, A \cup B) = SumOver(w, A) + SumOver(w, B)
<1>1. PICK a : AddsUp(a, w, A) /\ SumOver(w, A) = a[Len(w)]
  BY SumPrefixes
<1>2. PICK b : AddsUp(b, w, B) /\ SumOver(w, B) = b[Len(w)]
  BY SumPrefixes
<1>3. PICK c : AddsUp(c, w, A \cup B) /\ SumOver(w, A \cup B) = c[Len(w)]
  BY SumPrefixes
<1> DEFINE T == {n \in 0 .. Len(w) : c[n] = a[n] + b[n]}
<1>4. Len(w) \in Nat /\ 0 \in T
  BY <1>1, <1>2, <1>3 DEF AddsUp
<1>5. ASSUME NEW n \in 0 .. Len(w) - 1, n \in T PROVE n + 1 \in T
  <2> DEFINE step(rows) == IF n + 1 \in rows THEN w[n + 1] ELSE 0
  <2>1. n + 1 \in 1 .. Len(w) /\ (n + 1) - 1 = n /\ w[n + 1] \in Int
    BY <1>4
  <2>2. a[n + 1] = a[n] + step(A)
    BY <1>1, <2>1 DEF AddsUp
  <2>3. b[n + 1] = b[n] + step(B)
    BY <1>2, <2>1 DEF AddsUp
  <2>4. c[n + 1] = c[n] + step(A \cup B)
    BY <1>3, <2>1 DEF AddsUp
  <2>5. step(A \cup B) = step(A) + step(B) /\ step(A) \in Int /\ step(B) \in Int
    BY <2>1
  <2>6. a[n] \in Int /\ b[n] \in Int
    <3>1. n \in 0 .. Len(w)
      BY <1>4
    <3> QED
      BY <1>1, <1>2, <3>1 DEF AddsUp
  <2> HIDE DEF step
  <2>7. c[n] = a[n] + b[n]
    BY <1>5
  <2>8. c[n + 1] = a[n + 1] + b[n + 1]
    BY <2>2, <2>3, <2>4, <2>5, <2>6, <2>7
  <2>9. n + 1 \in 0 .. Len(w)
    BY <2>1
  <2> QED
    BY <2>8, <2>9
<1>6. Len(w) \in T
  <2> HIDE DEF T
  <2>1. \A n \in 0 .. Len(w) : n \in T
    BY <1>4, <1>5, Induction
  <2> QED
    BY <1>4, <2>1
<1> QED
  BY <1>1, <1>2, <1>3, <1>6

(* The sum of one row is its weight.                                       *)
LEMMA SumOfOne ==
    ASSUME NEW w \in Seq(Int), NEW i \in 1 .. Len(w)
    PROVE  SumOver(w, {i}) = w[i]
<1>1. PICK f : AddsUp(f, w, {i}) /\ SumOver(w, {i}) = f[Len(w)]
  BY SumPrefixes
<1> DEFINE T == {n \in 0 .. Len(w) : f[n] = IF n < i THEN 0 ELSE w[i]}
<1>2. Len(w) \in Nat /\ 0 \in T /\ w[i] \in Int
  BY <1>1 DEF AddsUp
<1>3. ASSUME NEW n \in 0 .. Len(w) - 1, n \in T PROVE n + 1 \in T
  <2>1. n + 1 \in 1 .. Len(w) /\ (n + 1) - 1 = n
    BY <1>2
  <2>2. f[n + 1] = f[n] + (IF n + 1 = i THEN w[n + 1] ELSE 0)
    BY <1>1, <2>1 DEF AddsUp
  <2> QED
    BY <1>2, <1>3, <2>1, <2>2
<1>4. Len(w) \in T
  <2> HIDE DEF T
  <2>1. \A n \in 0 .. Len(w) : n \in T
    BY <1>2, <1>3, Induction
  <2> QED
    BY <1>2, <2>1
<1> QED
  BY <1>1, <1>2, <1>4

LEMMA SumOfOneMore ==
    ASSUME NEW w \in Seq(Int), NEW A, NEW i \in 1 .. Len(w), i \notin A
    PROVE  SumOver(w, A \cup {i}) = SumOver(w, A) + w[i]
<1>1. A \cap {i} = {}
  OBVIOUS
<1>2. SumOver(w, A \cup {i}) = SumOver(w, A) + SumOver(w, {i})
  BY <1>1, SumOfUnion
<1> QED
  BY <1>2, SumOfOne

(* The order in which weights are added up does not matter.                *)
LEMMA SumReordered ==
    ASSUME NEW v \in Seq(Int), NEW w \in Seq(Int), NEW rows \in SUBSET (1 .. Len(v)),
           NEW image \in SUBSET (1 .. Len(w)), NEW p \in Bijection(rows, image),
           \A n \in rows : v[n] = w[p[n]]
    PROVE  SumOver(v, rows) = SumOver(w, image)
<1>a. \A n \in rows : p[n] \in image
  BY DEF Bijection, Injection
<1>b. \A m, n \in rows : p[m] = p[n] => m = n
  BY DEF Bijection, Injection, IsInjective
<1>c. \A j \in image : \E n \in rows : p[n] = j
  BY DEF Bijection, Surjection
<1>1. PICK f : AddsUp(f, v, rows) /\ SumOver(v, rows) = f[Len(v)]
  BY SumPrefixes
<1> DEFINE upto(n) == {p[k] : k \in {m \in rows : m <= n}}
           T == {n \in 0 .. Len(v) : f[n] = SumOver(w, upto(n))}
<1>2. Len(v) \in Nat /\ f[0] = 0
  BY <1>1 DEF AddsUp
<1>3. upto(0) = {}
  BY <1>2
<1>4. upto(Len(v)) = image
  <2>1. \A m \in rows : m <= Len(v)
    BY <1>2
  <2>2. {m \in rows : m <= Len(v)} = rows
    BY ONLY <2>1
  <2>3. {p[n] : n \in rows} = image
    BY ONLY <1>a, <1>c
  <2> QED
    BY <2>2, <2>3, Zenon
<1>5. ASSUME NEW n \in 0 .. Len(v) - 1, n + 1 \in rows
      PROVE  upto(n + 1) = upto(n) \cup {p[n + 1]} /\ p[n + 1] \notin upto(n)
  <2>1. \A m \in rows : m \in Nat
    BY <1>2
  <2>2. \A m \in rows : m <= n + 1 <=> m <= n \/ m = n + 1
    BY <1>2, <2>1
  <2>3. ~ (n + 1 <= n)
    BY <1>2
  <2>4. p[n + 1] \notin upto(n)
    BY ONLY <1>b, <1>5, <2>3
  <2>5. upto(n + 1) = upto(n) \cup {p[n + 1]}
    BY ONLY <1>5, <2>2
  <2> QED
    BY <2>4, <2>5, Zenon
<1>6. ASSUME NEW n \in 0 .. Len(v) - 1, n + 1 \notin rows
      PROVE  upto(n + 1) = upto(n)
  <2>1. \A m \in rows : m \in Nat /\ m # n + 1
    BY <1>2, <1>6
  <2>2. \A m \in rows : m <= n + 1 <=> m <= n
    BY <1>2, <2>1
  <2>3. {m \in rows : m <= n + 1} = {m \in rows : m <= n}
    BY <2>2
  <2> QED
    BY <2>3
<1> HIDE DEF upto
<1>7. 0 \in T
  <2>1. SumOver(w, {}) = 0
    BY SumOfNothing
  <2>2. SumOver(w, upto(0)) = 0
    BY <1>3, <2>1, Zenon
  <2> QED
    BY <1>2, <2>2
<1>8. ASSUME NEW n \in 0 .. Len(v) - 1, n \in T PROVE n + 1 \in T
  <2>1. n \in 0 .. Len(v) /\ n + 1 \in 1 .. Len(v) /\ (n + 1) - 1 = n
    BY <1>2
  <2>2. f[n + 1] = f[n] + (IF n + 1 \in rows THEN v[n + 1] ELSE 0)
    BY <1>1, <2>1 DEF AddsUp
  <2>3. f[n] = SumOver(w, upto(n)) /\ f[n] \in Int
    BY <1>1, <1>8, <2>1 DEF AddsUp
  <2>4. f[n + 1] = SumOver(w, upto(n + 1))
    <3>1. CASE n + 1 \in rows
      <4>1. p[n + 1] \in 1 .. Len(w) /\ v[n + 1] = w[p[n + 1]]
        BY <1>a, <3>1
      <4>2. p[n + 1] \notin upto(n)
        BY <1>5, <3>1
      <4>3. SumOver(w, upto(n) \cup {p[n + 1]}) = SumOver(w, upto(n)) + w[p[n + 1]]
        BY <4>1, <4>2, SumOfOneMore
      <4> QED
        BY <1>5, <2>2, <2>3, <3>1, <4>1, <4>3
    <3>2. CASE n + 1 \notin rows
      <4>1. upto(n + 1) = upto(n)
        BY <1>6, <3>2, Zenon
      <4>2. SumOver(w, upto(n + 1)) = f[n]
        BY <2>3, <4>1, Zenon
      <4>3. f[n + 1] = f[n]
        BY <2>2, <2>3, <3>2
      <4> QED
        BY <4>2, <4>3, Zenon
    <3> QED
      BY <3>1, <3>2
  <2> QED
    BY <2>1, <2>4
<1> HIDE DEF T
<1>9. \A n \in 0 .. Len(v) : n \in T
  BY <1>2, <1>7, <1>8, Induction
<1>10. f[Len(v)] = SumOver(w, upto(Len(v)))
  BY <1>2, <1>9 DEF T
<1> QED
  BY <1>1, <1>4, <1>10

(* Adding up a one for every marked row counts the marked rows.            *)
LEMMA SumCounts ==
    ASSUME NEW w \in Seq(Int), NEW rows \in SUBSET (1 .. Len(w)), NEW marked,
           \A n \in rows : w[n] = IF n \in marked THEN 1 ELSE 0
    PROVE  SumOver(w, rows) = Cardinality(rows \cap marked)
<1>1. PICK f : AddsUp(f, w, rows) /\ SumOver(w, rows) = f[Len(w)]
  BY SumPrefixes
<1> DEFINE upto(n) == {m \in rows \cap marked : m <= n}
           T == {n \in 0 .. Len(w) : f[n] = Cardinality(upto(n))}
<1>2. Len(w) \in Nat /\ f[0] = 0
  BY <1>1 DEF AddsUp
<1> DEFINE S == rows \cap marked
<1>3. \A m \in S : m \in Nat /\ ~ (m <= 0) /\ m <= Len(w)
  BY <1>2
<1> HIDE DEF S
<1>4. upto(0) = {} /\ upto(Len(w)) = S
  BY <1>3 DEF S
<1>5. ASSUME NEW n \in 0 .. Len(w) - 1
      PROVE  IF n + 1 \in S THEN upto(n + 1) = upto(n) \cup {n + 1} /\ n + 1 \notin upto(n)
                             ELSE upto(n + 1) = upto(n)
  <2>1. \A m \in S : m <= n + 1 <=> m <= n \/ m = n + 1
    BY <1>2, <1>3
  <2>2. ~ (n + 1 <= n)
    BY <1>2
  <2> QED
    BY <2>1, <2>2 DEF S
<1>6. ASSUME NEW n PROVE IsFiniteSet(upto(n)) /\ Cardinality(upto(n)) \in Nat
  <2>1. upto(n) \in SUBSET (1 .. Len(w))
    OBVIOUS
  <2> HIDE DEF upto
  <2>2. IsFiniteSet(1 .. Len(w))
    BY <1>2, FS_Interval
  <2> QED
    BY <2>1, <2>2, FS_Subset, FS_CardinalityType
<1> HIDE DEF upto
<1>7. 0 \in T
  <2>1. Cardinality(upto(0)) = 0
    BY <1>4, FS_EmptySet, Zenon
  <2> QED
    BY <1>2, <2>1
<1>8. ASSUME NEW n \in 0 .. Len(w) - 1, n \in T PROVE n + 1 \in T
  <2>1. n \in 0 .. Len(w) /\ n + 1 \in 1 .. Len(w) /\ (n + 1) - 1 = n
    BY <1>2
  <2>2. f[n + 1] = f[n] + (IF n + 1 \in rows THEN w[n + 1] ELSE 0)
    BY <1>1, <2>1 DEF AddsUp
  <2>3. f[n] = Cardinality(upto(n)) /\ f[n] \in Nat
    BY <1>6, <1>8
  <2>4. f[n + 1] = Cardinality(upto(n + 1))
    <3>1. f[n + 1] = f[n] + (IF n + 1 \in S THEN 1 ELSE 0)
      BY <2>2, <2>3 DEF S
    <3>2. CASE n + 1 \in S
      <4>1. Cardinality(upto(n) \cup {n + 1}) = Cardinality(upto(n)) + 1
        BY <1>5, <1>6, <3>2, FS_AddElement
      <4> QED
        BY <1>5, <2>3, <3>1, <3>2, <4>1
    <3>3. CASE n + 1 \notin S
      BY <1>5, <2>3, <3>1, <3>3
    <3> QED
      BY <3>2, <3>3
  <2> QED
    BY <2>1, <2>4
<1> HIDE DEF T
<1>9. \A n \in 0 .. Len(w) : n \in T
  BY <1>2, <1>7, <1>8, Induction
<1>10. f[Len(w)] = Cardinality(upto(Len(w)))
  BY <1>2, <1>9 DEF T
<1> QED
  BY <1>1, <1>4, <1>10 DEF S

(* K parts that have nothing in common and make up the whole.              *)
Partition(part, K, whole) ==
    /\ \A k, l \in 1 .. K : k # l => part[k] \cap part[l] = {}
    /\ UNION {part[k] : k \in 1 .. K} = whole

SumsOf(v, w, part) ==
    v \in Seq(Int) /\ \A k \in 1 .. Len(v) : v[k] = SumOver(w, part[k])

(* The sums of the parts of a partition add up to the sum of the whole.    *)
LEMMA SumOfParts ==
    ASSUME NEW w \in Seq(Int), NEW v, NEW part, NEW whole,
           SumsOf(v, w, part), Partition(part, Len(v), whole)
    PROVE  SumOver(v, 1 .. Len(v)) = SumOver(w, whole)
<1>0. v \in Seq(Int)
  BY DEF SumsOf
<1>1. PICK f : AddsUp(f, v, 1 .. Len(v)) /\ SumOver(v, 1 .. Len(v)) = f[Len(v)]
  BY <1>0, SumPrefixes
<1> DEFINE upto(n) == UNION {part[k] : k \in 1 .. n}
           T == {n \in 0 .. Len(v) : f[n] = SumOver(w, upto(n))}
<1>2. Len(v) \in Nat /\ f[0] = 0
  BY <1>0, <1>1 DEF AddsUp
<1>3. upto(0) = {}
  OBVIOUS
<1>4. ASSUME NEW n \in 0 .. Len(v) - 1
      PROVE  upto(n + 1) = upto(n) \cup part[n + 1] /\ upto(n) \cap part[n + 1] = {}
  <2>1. 1 .. n + 1 = (1 .. n) \cup {n + 1}
    BY <1>2
  <2>2. n + 1 \in 1 .. Len(v) /\ \A k \in 1 .. n : k \in 1 .. Len(v) /\ k # n + 1
    BY <1>2
  <2>3. \A k \in 1 .. n : part[k] \cap part[n + 1] = {}
    BY <2>2 DEF Partition
  <2>4. upto(n) \cap part[n + 1] = {}
    BY <2>3
  <2>5. upto(n + 1) = upto(n) \cup part[n + 1]
    BY <2>1
  <2> QED
    BY <2>4, <2>5
<1>5. upto(Len(v)) = whole
  BY DEF Partition
<1> HIDE DEF upto
<1>6. 0 \in T
  <2>1. SumOver(w, {}) = 0
    BY SumOfNothing
  <2>2. SumOver(w, upto(0)) = 0
    BY <1>3, <2>1, Zenon
  <2> QED
    BY <1>2, <2>2
<1>7. ASSUME NEW n \in 0 .. Len(v) - 1, n \in T PROVE n + 1 \in T
  <2>1. n + 1 \in 1 .. Len(v) /\ (n + 1) - 1 = n /\ n + 1 \in 0 .. Len(v)
    BY <1>2
  <2>2. f[n + 1] = f[n] + v[n + 1]
    BY <1>0, <1>1, <2>1 DEF AddsUp
  <2>3. f[n] = SumOver(w, upto(n)) /\ v[n + 1] = SumOver(w, part[n + 1])
    BY <1>7, <2>1 DEF SumsOf
  <2>4. upto(n) \cap part[n + 1] = {} /\ upto(n + 1) = upto(n) \cup part[n + 1]
    BY <1>4
  <2>5. SumOver(w, upto(n) \cup part[n + 1]) = SumOver(w, upto(n)) + SumOver(w, part[n + 1])
    BY <2>4, SumOfUnion
  <2> QED
    BY <2>1, <2>2, <2>3, <2>4, <2>5
<1> HIDE DEF T
<1>8. \A n \in 0 .. Len(v) : n \in T
  BY <1>2, <1>6, <1>7, Induction
<1>9. f[Len(v)] = SumOver(w, upto(Len(v)))
  BY <1>2, <1>8 DEF T
<1> QED
  BY <1>1, <1>5, <1>9

CountsOf(v, part, marked) ==
    v \in Seq(Int) /\ \A k \in 1 .. Len(v) : v[k] = Cardinality(part[k] \cap marked)

(* The marked rows of the parts are the marked rows of the whole.          *)
LEMMA CountOfParts ==
    ASSUME NEW N \in Nat, NEW v, NEW part, NEW whole \in SUBSET (1 .. N), NEW marked,
           CountsOf(v, part, marked), Partition(part, Len(v), whole)
    PROVE  SumOver(v, 1 .. Len(v)) = Cardinality(whole \cap marked)
<1> DEFINE w == [i \in 1 .. N |-> IF i \in marked THEN 1 ELSE 0]
<1>1. /\ w \in Seq(Int) /\ Len(w) = N
      /\ \A i \in 1 .. N : w[i] = IF i \in marked THEN 1 ELSE 0
  OBVIOUS
<1> HIDE DEF w
<1>2. ASSUME NEW rows \in SUBSET (1 .. N)
      PROVE  SumOver(w, rows) = Cardinality(rows \cap marked)
  <2>1. rows \in SUBSET (1 .. Len(w)) /\ \A i \in rows : w[i] = IF i \in marked THEN 1 ELSE 0
    BY <1>1
  <2> QED
    BY <1>1, <2>1, SumCounts
<1>3. ASSUME NEW k \in 1 .. Len(v) PROVE v[k] = SumOver(w, part[k])
  <2>1. part[k] \in SUBSET (1 .. N)
    BY DEF Partition
  <2> QED
    BY <1>2, <2>1 DEF CountsOf
<1>4. SumsOf(v, w, part)
  BY <1>3 DEF SumsOf, CountsOf
<1> QED
  BY <1>1, <1>2, <1>4, SumOfParts

-----------------------------------------------------------------------------
(* Ranks.                                                                  *)

StrictOrder(R, S) ==
    /\ \A i \in S : <<i, i>> \notin R
    /\ \A i, j, k \in S : <<i, j>> \in R /\ <<j, k>> \in R => <<i, k>> \in R
    /\ \A i, j \in S : i = j \/ <<i, j>> \in R \/ <<j, i>> \in R

Before(R, S, i) == {j \in S : <<j, i>> \in R}

(* Counting what comes before it gives every element of a finite ordered   *)
(* set a place of its own, and every place is taken.                       *)
LEMMA Ranking ==
    ASSUME NEW S, IsFiniteSet(S), NEW R, StrictOrder(R, S),
           NEW rank, rank = [i \in S |-> Cardinality(Before(R, S, i)) + 1]
    PROVE  /\ rank \in Bijection(S, 1 .. Cardinality(S))
           /\ \A i, j \in S : <<i, j>> \in R <=> rank[i] < rank[j]
<1> DEFINE N == Cardinality(S)
<1>1. N \in Nat
  BY FS_CardinalityType
<1>2. ASSUME NEW i \in S
      PROVE  /\ rank[i] \in 1 .. N
             /\ Before(R, S, i) \cup {i} \in SUBSET S
             /\ Cardinality(Before(R, S, i) \cup {i}) = rank[i]
  <2>1. Before(R, S, i) \in SUBSET S /\ i \notin Before(R, S, i)
    BY DEF Before, StrictOrder
  <2>2. IsFiniteSet(Before(R, S, i)) /\ Cardinality(Before(R, S, i)) \in Nat
    BY <2>1, FS_Subset, FS_CardinalityType
  <2>3. Cardinality(Before(R, S, i) \cup {i}) = Cardinality(Before(R, S, i)) + 1
    BY <2>1, <2>2, FS_AddElement
  <2>4. Before(R, S, i) \cup {i} \in SUBSET S
    BY <2>1
  <2>5. Cardinality(Before(R, S, i) \cup {i}) <= N
    BY <2>4, FS_Subset
  <2>6. rank[i] = Cardinality(Before(R, S, i)) + 1
    OBVIOUS
  <2> QED
    BY <1>1, <2>2, <2>3, <2>4, <2>5, <2>6
<1>r. \A i \in S : rank[i] \in Int
  <2> SUFFICES ASSUME NEW i \in S PROVE rank[i] \in Int
    OBVIOUS
  <2>1. rank[i] \in 1 .. N
    BY <1>2
  <2> QED
    BY ONLY <1>1, <2>1
<1>3. ASSUME NEW i \in S, NEW j \in S, <<i, j>> \in R PROVE rank[i] < rank[j]
  <2>1. Before(R, S, i) \cup {i} \in SUBSET Before(R, S, j)
    BY <1>3 DEF Before, StrictOrder
  <2>2. IsFiniteSet(Before(R, S, j)) /\ Cardinality(Before(R, S, j)) \in Nat
    <3>1. Before(R, S, j) \in SUBSET S
      BY DEF Before
    <3> QED
      BY <3>1, FS_Subset, FS_CardinalityType
  <2>3. Cardinality(Before(R, S, i) \cup {i}) <= Cardinality(Before(R, S, j))
    BY <2>1, <2>2, FS_Subset
  <2>4. rank[j] = Cardinality(Before(R, S, j)) + 1
    OBVIOUS
  <2>5. Cardinality(Before(R, S, i) \cup {i}) = rank[i] /\ rank[i] \in 1 .. N
    BY <1>2
  <2> QED
    BY <1>1, <2>2, <2>3, <2>4, <2>5
<1>4. ASSUME NEW i \in S, NEW j \in S, rank[i] < rank[j] PROVE <<i, j>> \in R
  <2>1. rank[i] \in Int /\ rank[j] \in Int
    BY <1>r
  <2>2. i # j /\ <<j, i>> \notin R
    BY <1>3, <1>4, <2>1
  <2> QED
    BY <2>2 DEF StrictOrder
<1>5. \A i, j \in S : rank[i] = rank[j] => i = j
  <2> SUFFICES ASSUME NEW i \in S, NEW j \in S, rank[i] = rank[j] PROVE i = j
    OBVIOUS
  <2>1. rank[i] \in Int /\ rank[j] \in Int
    BY <1>r
  <2>2. <<i, j>> \notin R /\ <<j, i>> \notin R
    BY <1>3, <2>1
  <2> QED
    BY <2>2 DEF StrictOrder
<1>6. rank \in [S -> 1 .. N]
  BY <1>2
<1>7. rank \in Injection(S, 1 .. N)
  BY <1>5, <1>6 DEF Injection, IsInjective
<1>8. IsFiniteSet(1 .. N) /\ Cardinality(1 .. N) = N
  BY <1>1, FS_Interval
<1>9. rank \in Surjection(S, 1 .. N)
  BY <1>7, <1>8, FS_Injection
<1> QED
  BY <1>3, <1>4, <1>7, <1>9 DEF Bijection

-----------------------------------------------------------------------------
(* Scans.                                                                  *)

TableOK == table \in Seq(Transactions)

(* Only transactions are ever inserted.                                    *)
LEMMA TableIsOK == Spec => []TableOK
<1>1. Init => TableOK
  BY DEF Init, TableOK
<1>2. TableOK /\ [Next]_table => TableOK'
  BY BuilderAssumption DEF TableOK, Next, Insert
<1> QED
  BY <1>1, <1>2, PTL DEF Spec

(* The rows of a scan are transactions of the period, read through a       *)
(* one-to-one correspondence with the rows of the table that are in it.    *)
LEMMA Scans ==
    ASSUME TableOK
    PROVE  \E rows, N :
             /\ N \in Nat
             /\ \A s \in ListForPeriod : \E p \in Bijection(1 .. N, rows) :
                  /\ s \in Seq(Transactions)
                  /\ Len(s) = N
                  /\ \A n \in 1 .. N : InPeriod(s[n]) /\ s[n] = table[p[n]]
<1> DEFINE rows == {i \in DOMAIN table : InPeriod(table[i])}
           N == Cardinality(rows)
<1>1. N \in Nat
  <2>1. IsFiniteSet(1 .. Len(table)) /\ DOMAIN table = 1 .. Len(table)
    BY FS_Interval DEF TableOK
  <2>2. rows \in SUBSET (1 .. Len(table))
    BY <2>1
  <2> HIDE DEF rows
  <2> QED
    BY <2>1, <2>2, FS_Subset, FS_CardinalityType
<1>2. ASSUME NEW s \in ListForPeriod
      PROVE  \E p \in Bijection(1 .. N, rows) :
                  /\ s \in Seq(Transactions)
                  /\ Len(s) = N
                  /\ \A n \in 1 .. N : InPeriod(s[n]) /\ s[n] = table[p[n]]
  <2>1. PICK p \in Bijection(1 .. N, rows) : s = [n \in 1 .. N |-> table[p[n]]]
    BY DEF ListForPeriod
  <2>2. \A n \in 1 .. N : p[n] \in rows
    BY <2>1 DEF Bijection, Injection
  <2>3. \A n \in 1 .. N : table[p[n]] \in Transactions /\ InPeriod(table[p[n]])
    BY <2>2 DEF TableOK
  <2> HIDE DEF rows, N
  <2>4. s \in Seq(Transactions) /\ Len(s) = N
    BY <1>1, <2>1, <2>3
  <2> QED
    BY <2>1, <2>3, <2>4
<1> HIDE DEF rows, N
<1> WITNESS rows, N
<1> QED
  BY <1>1, <1>2

(* A scan exists whatever is in the table: sorted by timestamp, ties in    *)
(* the order of insertion (TransactionRepository.list_for_period).         *)
THEOREM ScansAlwaysExist == Spec => [](ListForPeriod # {})
<1>1. TableOK => ListForPeriod # {}
  <2> SUFFICES ASSUME TableOK PROVE ListForPeriod # {}
    OBVIOUS
  <2> DEFINE rows == {i \in DOMAIN table : InPeriod(table[i])}
             N == Cardinality(rows)
             time(i) == table[i].timestamp
             R == {r \in rows \X rows : \/ time(r[1]) < time(r[2])
                                        \/ time(r[1]) = time(r[2]) /\ r[1] < r[2]}
             rank == [i \in rows |-> Cardinality(Before(R, rows, i)) + 1]
  <2>1. \A i \in rows : i \in Nat /\ time(i) \in Int
    <3>1. \A t \in Transactions : t.timestamp \in Int
      BY EngineAssumption DEF Transactions
    <3> QED
      BY <3>1 DEF TableOK
  <2>2. IsFiniteSet(rows)
    <3>1. IsFiniteSet(1 .. Len(table)) /\ rows \in SUBSET (1 .. Len(table))
      BY FS_Interval DEF TableOK
    <3> HIDE DEF rows
    <3> QED
      BY <3>1, FS_Subset
  <2> HIDE DEF rows
  <2>3. StrictOrder(R, rows)
    <3> HIDE DEF time
    <3> QED
      BY <2>1 DEF StrictOrder
  <2> DEFINE f == rank
  <2>4. f = [i \in rows |-> Cardinality(Before(R, rows, i)) + 1]
    OBVIOUS
  <2>5. \A i, j \in rows : <<i, j>> \in R => time(i) <= time(j)
    <3> HIDE DEF time
    <3> QED
      BY <2>1
  <2>6. \A i \in rows : <<i, i>> \notin R
    BY <2>3 DEF StrictOrder
  <2> HIDE DEF R, f
  <2>7. /\ f \in Bijection(rows, 1 .. N)
        /\ \A i, j \in rows : <<i, j>> \in R <=> f[i] < f[j]
    BY <2>2, <2>3, <2>4, Ranking
  <2>8. /\ \A i \in rows : f[i] \in 1 .. N
        /\ \A i, j \in rows : f[i] = f[j] => i = j
        /\ \A n \in 1 .. N : \E i \in rows : f[i] = n
    BY <2>7 DEF Bijection, Injection, Surjection, IsInjective
  <2> DEFINE p == [n \in 1 .. N |-> CHOOSE i \in rows : f[i] = n]
  <2>9. \A n \in 1 .. N : p[n] \in rows /\ f[p[n]] = n
    BY <2>8
  <2>10. p \in [1 .. N -> rows]
    BY <2>9
  <2> HIDE DEF p
  <2>11. p \in Bijection(1 .. N, rows)
    <3>1. \A m, n \in 1 .. N : p[m] = p[n] => m = n
      BY <2>9
    <3>2. \A i \in rows : \E n \in 1 .. N : p[n] = i
      BY <2>8, <2>9
    <3> QED
      BY <2>10, <3>1, <3>2 DEF Bijection, Injection, Surjection, IsInjective
  <2> DEFINE s == [n \in 1 .. N |-> table[p[n]]]
  <2>12. \A m, n \in DOMAIN s : m < n => s[m].timestamp <= s[n].timestamp
    <3> SUFFICES ASSUME NEW m \in 1 .. N, NEW n \in 1 .. N, m < n
                 PROVE  time(p[m]) <= time(p[n])
      OBVIOUS
    <3> HIDE DEF time
    <3>1. p[m] \in rows /\ p[n] \in rows /\ f[p[m]] < f[p[n]]
      BY <2>9
    <3> QED
      BY <2>5, <2>7, <3>1
  <2>13. s \in ListForPeriod
    BY <2>11, <2>12 DEF ListForPeriod, rows
  <2> QED
    BY <2>13
<1> QED
  BY <1>1, TableIsOK, PTL

LEMMA ScansAreOfThePeriod ==
    ASSUME TableOK, NEW s \in ListForPeriod
    PROVE  /\ s \in Seq(Transactions)
           /\ \A i \in 1 .. Len(s) : InPeriod(s[i]) /\ s[i] \in Transactions
BY Scans

(* u has the rows of s in another order: p tells which row of s a row of u *)
(* is.                                                                     *)
Reorders(p, s, u) ==
    /\ s \in Seq(Transactions) /\ u \in Seq(Transactions) /\ Len(u) = Len(s)
    /\ p \in [1 .. Len(s) -> 1 .. Len(s)]
    /\ \A i, j \in 1 .. Len(s) : p[i] = p[j] => i = j
    /\ \A j \in 1 .. Len(s) : \E i \in 1 .. Len(s) : p[i] = j
    /\ \A i \in 1 .. Len(s) : u[i] = s[p[i]]

LEMMA ScansReorderEachOther ==
    ASSUME TableOK, NEW s \in ListForPeriod, NEW u \in ListForPeriod
    PROVE  \E p : Reorders(p, s, u)
<1>1. PICK rows, N :
             /\ N \in Nat
             /\ \A t \in ListForPeriod : \E p \in Bijection(1 .. N, rows) :
                  /\ t \in Seq(Transactions)
                  /\ Len(t) = N
                  /\ \A n \in 1 .. N : InPeriod(t[n]) /\ t[n] = table[p[n]]
  BY Scans
<1>2. PICK a \in Bijection(1 .. N, rows) :
                  s \in Seq(Transactions) /\ Len(s) = N /\ \A n \in 1 .. N : s[n] = table[a[n]]
  BY <1>1
<1>3. PICK b \in Bijection(1 .. N, rows) :
                  u \in Seq(Transactions) /\ Len(u) = N /\ \A n \in 1 .. N : u[n] = table[b[n]]
  BY <1>1
<1>4. /\ \A i \in 1 .. N : a[i] \in rows /\ b[i] \in rows
      /\ \A i, j \in 1 .. N : (a[i] = a[j] => i = j) /\ (b[i] = b[j] => i = j)
      /\ \A r \in rows : (\E i \in 1 .. N : a[i] = r) /\ (\E i \in 1 .. N : b[i] = r)
  BY DEF Bijection, Injection, Surjection, IsInjective
<1> DEFINE p == [i \in 1 .. N |-> CHOOSE j \in 1 .. N : a[j] = b[i]]
<1>5. \A i \in 1 .. N : p[i] \in 1 .. N /\ a[p[i]] = b[i]
  BY <1>4
<1>6. p \in [1 .. N -> 1 .. N]
  BY <1>5
<1> HIDE DEF p
<1>7. \A i, j \in 1 .. N : p[i] = p[j] => i = j
  BY <1>4, <1>5
<1>8. \A j \in 1 .. N : \E i \in 1 .. N : p[i] = j
  BY <1>4, <1>5
<1>9. \A i \in 1 .. N : u[i] = s[p[i]]
  BY <1>2, <1>3, <1>5
<1>10. Reorders(p, s, u)
  BY <1>2, <1>3, <1>6, <1>7, <1>8, <1>9 DEF Reorders
<1> QED
  BY <1>10

(* p takes the rows in B to the rows in A, and no others.                  *)
Relates(p, s, A, B) ==
    /\ A \in SUBSET (1 .. Len(s)) /\ B \in SUBSET (1 .. Len(s))
    /\ \A i \in 1 .. Len(s) : i \in B <=> p[i] \in A

(* Related sets of rows are equally many.                                  *)
LEMMA Corresponding ==
    ASSUME NEW s, NEW u, NEW p, Reorders(p, s, u),
           NEW A, NEW B, Relates(p, s, A, B)
    PROVE  /\ A = {p[i] : i \in B}
           /\ Cardinality(A) = Cardinality(B)
           /\ \E f \in Bijection(B, A) : \A i \in B : f[i] = p[i]
<1>1. A = {p[i] : i \in B}
  <2>1. \A a \in A : \E i \in B : p[i] = a
    BY DEF Reorders, Relates
  <2>2. \A i \in B : p[i] \in A
    BY DEF Relates
  <2> QED
    BY <2>1, <2>2
<1> DEFINE f == [i \in B |-> p[i]]
<1>2. f \in Bijection(B, A)
  <2>1. f \in [B -> A]
    BY DEF Relates
  <2>2. \A i, j \in B : f[i] = f[j] => i = j
    BY DEF Reorders, Relates
  <2>3. \A a \in A : \E i \in B : f[i] = a
    BY <1>1
  <2> HIDE DEF f
  <2> QED
    BY <2>1, <2>2, <2>3 DEF Bijection, Injection, Surjection, IsInjective
<1>3. IsFiniteSet(B)
  <2>1. IsFiniteSet(1 .. Len(s))
    BY FS_Interval DEF Reorders
  <2> QED
    BY <2>1, FS_Subset DEF Relates
<1>4. ExistsBijection(B, A)
  BY <1>2 DEF ExistsBijection
<1> QED
  BY <1>1, <1>2, <1>3, <1>4, FS_Bijection

-----------------------------------------------------------------------------
(* Figures.                                                                *)

Amount(s) == [i \in DOMAIN s |-> s[i].amount]

LEMMA AmountsAreIntegers ==
    ASSUME NEW s \in Seq(Transactions)
    PROVE  /\ Amount(s) \in Seq(Int) /\ Len(Amount(s)) = Len(s)
           /\ \A i \in 1 .. Len(s) : Amount(s)[i] = s[i].amount /\ s[i].amount \in Int
           /\ \A rows : Total(s, rows) = SumOver(Amount(s), rows)
<1>1. \A t \in Transactions : t.amount \in Int
  BY EngineAssumption DEF Transactions
<1>2. Len(s) \in Nat /\ DOMAIN s = 1 .. Len(s)
  OBVIOUS
<1>3. \A i \in 1 .. Len(s) : s[i].amount \in Int
  BY <1>1
<1>4. Amount(s) = [i \in 1 .. Len(s) |-> s[i].amount]
  BY <1>2 DEF Amount
<1>5. Amount(s) \in Seq(Int) /\ Len(Amount(s)) = Len(s)
  BY <1>2, <1>3, <1>4
<1> QED
  BY <1>3, <1>4, <1>5 DEF Total, Amount

LEMMA GroupsReordered ==
    ASSUME NEW s, NEW u, NEW p, Reorders(p, s, u)
    PROVE  Groups(s) = Groups(u)
<1>1. DOMAIN s = 1 .. Len(s) /\ DOMAIN u = 1 .. Len(s)
  BY DEF Reorders
<1>2. \A i \in 1 .. Len(s) : \E j \in 1 .. Len(s) : s[i] = u[j]
  BY DEF Reorders
<1>3. \A j \in 1 .. Len(s) : \E i \in 1 .. Len(s) : u[j] = s[i]
  BY DEF Reorders
<1> QED
  BY <1>1, <1>2, <1>3 DEF Groups

LEMMA MembersReordered ==
    ASSUME NEW s, NEW u, NEW p, Reorders(p, s, u), NEW g
    PROVE  Relates(p, s, Members(s, g), Members(u, g))
<1>1. DOMAIN s = 1 .. Len(s) /\ DOMAIN u = 1 .. Len(s)
  BY DEF Reorders
<1>2. \A i \in 1 .. Len(s) : p[i] \in 1 .. Len(s) /\ u[i] = s[p[i]]
  BY DEF Reorders
<1> QED
  BY <1>1, <1>2 DEF Members, Relates

LEMMA TotalReordered ==
    ASSUME NEW s, NEW u, NEW p, Reorders(p, s, u),
           NEW A, NEW B, Relates(p, s, A, B)
    PROVE  Total(u, B) = Total(s, A)
<1> DEFINE v == Amount(u)
           w == Amount(s)
<1>1. /\ s \in Seq(Transactions) /\ u \in Seq(Transactions) /\ Len(u) = Len(s)
      /\ \A i \in B : i \in 1 .. Len(s) /\ p[i] \in 1 .. Len(s) /\ u[i] = s[p[i]]
  BY DEF Reorders, Relates
<1>2. v \in Seq(Int) /\ Len(v) = Len(s) /\ Total(u, B) = SumOver(v, B)
  BY <1>1, AmountsAreIntegers
<1>3. w \in Seq(Int) /\ Len(w) = Len(s) /\ Total(s, A) = SumOver(w, A)
  BY <1>1, AmountsAreIntegers
<1>4. \A i \in B : v[i] = u[i].amount /\ w[p[i]] = s[p[i]].amount
  BY <1>1, AmountsAreIntegers
<1> HIDE DEF v, w
<1>5. PICK f \in Bijection(B, A) : \A i \in B : f[i] = p[i]
  BY Corresponding
<1>6. \A i \in B : v[i] = w[f[i]]
  BY <1>1, <1>4, <1>5
<1>7. B \in SUBSET (1 .. Len(v)) /\ A \in SUBSET (1 .. Len(w))
  BY <1>2, <1>3 DEF Relates
<1>8. SumOver(v, B) = SumOver(w, A)
  BY <1>2, <1>3, <1>6, <1>7, SumReordered
<1> QED
  BY <1>2, <1>3, <1>8

LEMMA LineItemReordered ==
    ASSUME NEW s, NEW u, NEW p, Reorders(p, s, u), NEW g
    PROVE  LET a == LineItem(s, g)
               b == LineItem(u, g)
           IN  /\ a.total = b.total /\ a.average = b.average /\ a.count = b.count
               /\ a.min = b.min /\ a.max = b.max
<1> DEFINE m == Members(s, g)
           n == Members(u, g)
           amounts == {s[i].amount : i \in m}
<1>0. Relates(p, s, m, n)
  BY MembersReordered
<1> HIDE DEF m, n
<1>1. m = {p[i] : i \in n} /\ Cardinality(m) = Cardinality(n)
  BY <1>0, Corresponding
<1>2. Total(s, m) = Total(u, n)
  BY <1>0, TotalReordered
<1>3. amounts = {u[i].amount : i \in n}
  <2>1. \A i \in n : u[i] = s[p[i]]
    BY <1>0 DEF Reorders, Relates
  <2> QED
    BY <1>1, <2>1
<1>4. LineItem(s, g) =
        [total |-> Total(s, m), average |-> <<Total(s, m), Cardinality(m)>>,
         min |-> Min(amounts), max |-> Max(amounts), count |-> Cardinality(m),
         source_transaction_ids |-> [i \in m |-> s[i].external_id]]
  BY DEF LineItem, m
<1> HIDE DEF amounts
<1>5. LineItem(u, g) =
        [total |-> Total(u, n), average |-> <<Total(u, n), Cardinality(n)>>,
         min |-> Min(amounts), max |-> Max(amounts), count |-> Cardinality(n),
         source_transaction_ids |-> [i \in n |-> u[i].external_id]]
  BY <1>3, Zenon DEF LineItem, n
<1> QED
  BY <1>1, <1>2, <1>4, <1>5

LEMMA FiguresReordered ==
    ASSUME NEW s, NEW u, NEW p, Reorders(p, s, u)
    PROVE  Figures(s) = Figures(u)
<1>1. Groups(s) = Groups(u)
  BY GroupsReordered
<1> DEFINE row(t, g) == <<LineItem(t, g).total, LineItem(t, g).average, LineItem(t, g).min,
                          LineItem(t, g).max, LineItem(t, g).count>>
<1>2. ASSUME NEW g PROVE row(s, g) = row(u, g)
  BY LineItemReordered
<1>3. Figures(s) = [g \in Groups(s) |-> row(s, g)]
  BY DEF Figures
<1>4. Figures(u) = [g \in Groups(u) |-> row(u, g)]
  BY DEF Figures
<1> HIDE DEF row
<1> QED
  BY <1>1, <1>2, <1>3, <1>4

(* FiguresIgnoreLoadOrder, for tables of every length and whatever order   *)
(* rows with equal timestamps come in (list_for_period,                    *)
(* aggregate_line_items).                                                  *)
THEOREM FiguresNeverDependOnLoadOrder == Spec => []FiguresIgnoreLoadOrder
<1>1. TableOK => FiguresIgnoreLoadOrder
  BY ScansReorderEachOther, FiguresReordered DEF FiguresIgnoreLoadOrder
<1> QED
  BY <1>1, TableIsOK, PTL

-----------------------------------------------------------------------------
(* Extremes.                                                               *)

LEMMA AtMostIsTransitive == \A a, b, c \in Int : a <= b /\ b <= c => a <= c
OBVIOUS

(* Some rows hold the least and the greatest of their weights.             *)
LEMMA ExtremesExist ==
    ASSUME NEW w \in Seq(Int), NEW rows \in SUBSET (1 .. Len(w)), rows # {}
    PROVE  \E lo, hi \in rows : \A j \in rows : w[lo] <= w[j] /\ w[j] <= w[hi]
<1> DEFINE upto(n) == {m \in rows : m <= n}
           Extremes(R, lo, hi) == \A j \in R : w[lo] <= w[j] /\ w[j] <= w[hi]
           T == {n \in 0 .. Len(w) : upto(n) # {} => \E lo, hi \in upto(n) : Extremes(upto(n), lo, hi)}
<1>1. Len(w) \in Nat /\ \A m \in rows : m \in 1 .. Len(w) /\ w[m] \in Int
  OBVIOUS
<1>2. upto(0) = {}
  <2>1. \A m \in rows : ~ (m <= 0)
    BY <1>1
  <2> QED
    BY ONLY <2>1
<1>3. upto(Len(w)) = rows
  <2>1. \A m \in rows : m <= Len(w)
    BY <1>1
  <2> QED
    BY ONLY <2>1
<1>4. ASSUME NEW n \in 0 .. Len(w) - 1
      PROVE  IF n + 1 \in rows THEN upto(n + 1) = upto(n) \cup {n + 1}
                                ELSE upto(n + 1) = upto(n)
  <2>1. \A m \in rows : m <= n + 1 <=> m <= n \/ m = n + 1
    BY <1>1
  <2> QED
    BY <2>1
<1>5. \A n : upto(n) \subseteq rows
  OBVIOUS
<1> HIDE DEF upto
<1>6. 0 \in T
  BY <1>1, <1>2
<1>7. ASSUME NEW n \in 0 .. Len(w) - 1, n \in T PROVE n + 1 \in T
  <2>1. n + 1 \in 0 .. Len(w)
    BY <1>1
  <2>2. CASE n + 1 \notin rows
    <3>1. upto(n + 1) = upto(n)
      BY <1>4, <2>2
    <3> QED
      BY <1>7, <2>1, <3>1
  <2>3. CASE n + 1 \in rows /\ upto(n) = {}
    <3>1. upto(n + 1) = {n + 1}
      BY <1>4, <2>3
    <3>2. Extremes(upto(n + 1), n + 1, n + 1)
      BY <1>1, <2>3, <3>1
    <3> QED
      BY <2>1, <3>1, <3>2
  <2>4. CASE n + 1 \in rows /\ upto(n) # {}
    <3>1. PICK lo, hi \in upto(n) : Extremes(upto(n), lo, hi)
      BY <1>7, <2>4
    <3> DEFINE l == IF w[n + 1] < w[lo] THEN n + 1 ELSE lo
               h == IF w[hi] < w[n + 1] THEN n + 1 ELSE hi
    <3>2. upto(n + 1) = upto(n) \cup {n + 1}
      BY <1>4, <2>4
    <3>3. l \in upto(n + 1) /\ h \in upto(n + 1)
      BY <3>2
    <3>4. /\ w[lo] \in Int /\ w[hi] \in Int /\ w[n + 1] \in Int
          /\ \A j \in upto(n) : w[j] \in Int /\ w[lo] <= w[j] /\ w[j] <= w[hi]
      BY <1>1, <1>5, <2>4, <3>1
    <3>5. w[lo] <= w[hi]
      BY <3>4
    <3>6. w[l] \in Int /\ w[h] \in Int
      BY <3>4
    <3>a. w[l] <= w[lo] /\ w[l] <= w[n + 1]
      <4>1. CASE w[n + 1] < w[lo]
        BY <3>4, <4>1
      <4>2. CASE ~ (w[n + 1] < w[lo])
        BY <3>4, <4>2
      <4> QED
        BY <4>1, <4>2
    <3>b. w[hi] <= w[h] /\ w[n + 1] <= w[h]
      <4>1. CASE w[hi] < w[n + 1]
        BY <3>4, <4>1
      <4>2. CASE ~ (w[hi] < w[n + 1])
        BY <3>4, <4>2
      <4> QED
        BY <4>1, <4>2
    <3>7. /\ w[l] <= w[lo] /\ w[hi] <= w[h]
          /\ w[l] <= w[n + 1] /\ w[n + 1] <= w[h]
      BY <3>a, <3>b
    <3> HIDE DEF l, h
    <3>8. ASSUME NEW j \in upto(n) PROVE w[l] <= w[j] /\ w[j] <= w[h]
      <4>1. w[j] \in Int /\ w[lo] <= w[j] /\ w[j] <= w[hi]
        BY <3>4
      <4>2. w[lo] \in Int /\ w[hi] \in Int
        BY <3>4
      <4>3. w[l] <= w[lo] /\ w[hi] <= w[h]
        BY <3>7
      <4> QED
        BY ONLY <3>6, <4>1, <4>2, <4>3, AtMostIsTransitive, Zenon
    <3>9. Extremes(upto(n + 1), l, h)
      BY <3>2, <3>7, <3>8
    <3> HIDE DEF Extremes
    <3> QED
      BY <2>1, <3>3, <3>9
  <2> QED
    BY <2>2, <2>3, <2>4
<1> HIDE DEF T
<1>8. \A n \in 0 .. Len(w) : n \in T
  BY <1>1, <1>6, <1>7, Induction
<1>9. Len(w) \in T
  BY <1>1, <1>8
<1>10. \E lo, hi \in upto(Len(w)) : Extremes(upto(Len(w)), lo, hi)
  BY <1>3, <1>9 DEF T
<1> QED
  BY <1>3, <1>10

(* The minimum and the maximum of a group are amounts of its transactions. *)
LEMMA ExtremesAreOfTheGroup ==
    ASSUME NEW s \in Seq(Transactions), NEW g \in Groups(s)
    PROVE  /\ \E i \in Members(s, g) : s[i].amount = LineItem(s, g).min
           /\ \E i \in Members(s, g) : s[i].amount = LineItem(s, g).max
<1> DEFINE m == Members(s, g)
           w == Amount(s)
           amounts == {s[i].amount : i \in m}
<1>1. m # {} /\ m \in SUBSET (1 .. Len(s))
  BY DEF Groups, Members
<1>2. /\ w \in Seq(Int) /\ Len(w) = Len(s)
      /\ \A i \in 1 .. Len(s) : w[i] = s[i].amount /\ s[i].amount \in Int
  BY AmountsAreIntegers
<1>3. LineItem(s, g).min = Min(amounts) /\ LineItem(s, g).max = Max(amounts)
  BY DEF LineItem
<1> HIDE DEF m, w
<1>4. m \in SUBSET (1 .. Len(w))
  BY <1>1, <1>2
<1>5. PICK lo, hi \in m : \A j \in m : w[lo] <= w[j] /\ w[j] <= w[hi]
  BY <1>1, <1>2, <1>4, ExtremesExist
<1>6. /\ \E x \in amounts : \A y \in amounts : x <= y
      /\ \E x \in amounts : \A y \in amounts : x >= y
  <2>1. s[lo].amount \in amounts /\ s[hi].amount \in amounts
    OBVIOUS
  <2>2. ASSUME NEW y \in amounts PROVE s[lo].amount <= y /\ s[hi].amount >= y
    <3>1. PICK j \in m : y = s[j].amount
      OBVIOUS
    <3>2. w[lo] <= w[j] /\ w[j] <= w[hi]
      BY <1>5
    <3>3. /\ w[lo] = s[lo].amount /\ w[j] = s[j].amount /\ w[hi] = s[hi].amount
          /\ s[j].amount \in Int /\ s[hi].amount \in Int
      BY <1>1, <1>2
    <3> QED
      BY <3>1, <3>2, <3>3
  <2> HIDE DEF amounts
  <2> QED
    BY <2>1, <2>2
<1> HIDE DEF amounts
<1>7. Min(amounts) \in amounts
  BY <1>6, Zenon DEF Min
<1>8. Max(amounts) \in amounts
  BY <1>6, Zenon DEF Max
<1> QED
  BY <1>3, <1>7, <1>8 DEF amounts, m

(* LargeAmountsStandOut, for every table: the maximum of a group of generic*)
(* wires or retail payments is the amount of one of them, which is then not*)
(* large (HighValueRule, HighValueCounterpartyRule, aggregate_line_items). *)
THEOREM LargeAmountsAlwaysStandOut == Spec => []LargeAmountsStandOut
<1>1. TableOK => LargeAmountsStandOut
  <2> SUFFICES ASSUME TableOK, NEW s \in ListForPeriod
               PROVE  /\ \A g \in Groups(s) : g[1] \in {"wire_transfer", "retail_payment"} =>
                            LineItem(s, g).max < Threshold
                      /\ \A i \in DOMAIN s, now \in Times : LargeNeedsCounterparty(s[i], now)
    BY DEF LargeAmountsStandOut
  <2>1. /\ s \in Seq(Transactions) /\ DOMAIN s = 1 .. Len(s)
        /\ \A i \in 1 .. Len(s) : s[i] \in Transactions
    BY ScansAreOfThePeriod
  <2>2. ASSUME NEW g \in Groups(s), g[1] \in {"wire_transfer", "retail_payment"}
        PROVE  LineItem(s, g).max < Threshold
    <3>1. PICK i \in Members(s, g) : s[i].amount = LineItem(s, g).max
      BY <2>1, ExtremesAreOfTheGroup
    <3>2. i \in 1 .. Len(s) /\ Category(s[i]) = g[1]
      BY <2>1 DEF Members
    <3>3. s[i] \in Transactions /\ s[i].amount \in Int
      BY <2>1, <3>2, AmountsAreIntegers
    <3>4. ~ IsLarge(s[i])
      BY <2>2, <3>2, <3>3, LargeTransactionsAreNotGeneric DEF LargeIsNotGeneric
    <3> QED
      BY <3>1, <3>3, <3>4, EngineAssumption DEF IsLarge
  <2>3. ASSUME NEW i \in DOMAIN s, NEW now \in Times
        PROVE  LargeNeedsCounterparty(s[i], now)
    BY <2>1, LargeTransactionsNameTheirCounterparty, EngineAssumption
  <2> QED
    BY <2>2, <2>3
<1> QED
  BY <1>1, TableIsOK, PTL

(* NegativesAreAccountedFor, for every table: a negative minimum is the    *)
(* amount of a transaction that is a refund or flagged                     *)
(* (NonRefundPositiveAmountRule, aggregate_line_items).                    *)
THEOREM NegativesAreAlwaysAccountedFor == Spec => []NegativesAreAccountedFor
<1>1. TableOK => NegativesAreAccountedFor
  <2> SUFFICES ASSUME TableOK, NEW s \in ListForPeriod, NEW g \in Groups(s),
                      g[1] # "refund", LineItem(s, g).min < 0, NEW now \in Times
               PROVE  \E i \in Members(s, g) :
                        s[i].amount = LineItem(s, g).min /\ Violations(s[i], now) # {}
    BY DEF NegativesAreAccountedFor
  <2>1. /\ s \in Seq(Transactions) /\ DOMAIN s = 1 .. Len(s)
        /\ \A i \in 1 .. Len(s) : s[i] \in Transactions
    BY ScansAreOfThePeriod
  <2>2. PICK i \in Members(s, g) : s[i].amount = LineItem(s, g).min
    BY <2>1, ExtremesAreOfTheGroup
  <2>3. i \in 1 .. Len(s) /\ Category(s[i]) = g[1]
    BY <2>1 DEF Members
  <2>4. s[i] \in Transactions /\ now \in Int
    BY <2>1, <2>3, EngineAssumption
  <2>5. NegativeIsAccountedFor(s[i], now)
    BY <2>4, NegativeAmountsAreAccountedFor
  <2>6. Violations(s[i], now) # {}
    BY <2>2, <2>3, <2>5 DEF NegativeIsAccountedFor
  <2> QED
    BY <2>2, <2>6
<1> QED
  BY <1>1, TableIsOK, PTL

-----------------------------------------------------------------------------
(* Violations.                                                             *)

(* Once a period has ended, which rules its transactions violate does not  *)
(* depend on the clock any more.                                           *)
LEMMA ViolationsSettle ==
    ASSUME NEW t \in Transactions, InPeriod(t), NEW now \in Int, now > PeriodEnd,
           NEW later \in Int, later > PeriodEnd
    PROVE  Violations(t, now) = Violations(t, later)
<1>1. t.timestamp \in Int /\ PeriodEnd \in Int
  BY EngineAssumption, BuilderAssumption DEF Transactions
<1>2. ~ (t.timestamp > now) /\ ~ (t.timestamp > later)
  BY <1>1 DEF InPeriod
<1>3. \A rule : Raises(rule, t, now) <=> Raises(rule, t, later)
  BY <1>2 DEF Raises
<1> QED
  BY <1>3 DEF Violations

LEMMA FlagsReordered ==
    ASSUME NEW s, NEW u, NEW p, Reorders(p, s, u), NEW now, NEW later,
           \A i \in 1 .. Len(s) : Violations(s[i], now) = Violations(s[i], later)
    PROVE  Flags(u, later) = Flags(s, now)
<1> DEFINE Cited(v, c, time) == {i \in DOMAIN v : /\ v[i].external_id = c[1]
                                                 /\ c[2] \in Violations(v[i], time)}
<1>1. ASSUME NEW c PROVE Cardinality(Cited(s, c, now)) = Cardinality(Cited(u, c, later))
  <2>1. DOMAIN s = 1 .. Len(s) /\ DOMAIN u = 1 .. Len(s)
    BY DEF Reorders
  <2>2. \A i \in 1 .. Len(s) : p[i] \in 1 .. Len(s) /\ u[i] = s[p[i]]
    BY DEF Reorders
  <2>3. Relates(p, s, Cited(s, c, now), Cited(u, c, later))
    BY <2>1, <2>2 DEF Relates
  <2> HIDE DEF Cited
  <2> QED
    BY <2>3, Corresponding
<1>2. Flags(s, now) = [c \in ExternalIds \X ValidationRules |-> Cardinality(Cited(s, c, now))]
  BY DEF Flags
<1>3. Flags(u, later) = [c \in ExternalIds \X ValidationRules |-> Cardinality(Cited(u, c, later))]
  BY DEF Flags
<1> HIDE DEF Cited
<1> QED
  BY <1>1, <1>2, <1>3

(* EndedPeriodsAreReproducible, for every table and all later times: the   *)
(* only rule that looks at the clock, no_future_dated_transaction, is      *)
(* silent about a period that is over (build_report, rules/v1).            *)
THEOREM EndedPeriodsAreAlwaysReproducible == Spec => []EndedPeriodsAreReproducible
<1>1. TableOK => EndedPeriodsAreReproducible
  <2> SUFFICES ASSUME TableOK, NEW s \in ListForPeriod,
                      NEW now \in Times, now > PeriodEnd, NEW later \in Times, later > PeriodEnd
               PROVE  /\ BuildReport(s, later) = BuildReport(s, now)
                      /\ \A u \in ListForPeriod : Flags(u, later) = BuildReport(s, now).violations
    BY DEF EndedPeriodsAreReproducible
  <2>1. now \in Int /\ later \in Int
    BY EngineAssumption
  <2>2. \A i \in 1 .. Len(s) : Violations(s[i], now) = Violations(s[i], later)
    BY <2>1, ScansAreOfThePeriod, ViolationsSettle
  <2>3. ASSUME NEW u \in ListForPeriod PROVE Flags(u, later) = Flags(s, now)
    BY <2>2, ScansReorderEachOther, FlagsReordered
  <2>4. BuildReport(s, now).violations = Flags(s, now)
    BY DEF BuildReport
  <2>5. BuildReport(s, later) = BuildReport(s, now)
    BY <2>3 DEF BuildReport
  <2> QED
    BY <2>3, <2>4, <2>5
<1> QED
  BY <1>1, TableIsOK, PTL

-----------------------------------------------------------------------------
(* The fingerprint.                                                        *)

Distinct(s) == \A i, j \in DOMAIN s : s[i].external_id = s[j].external_id => i = j

Smaller(s, i) == {j \in DOMAIN s : s[j].external_id < s[i].external_id}

(* The place of a row once the rows are sorted by their ids.               *)
Place(s, i) == Cardinality(Smaller(s, i))
               + Cardinality({j \in 1 .. i : s[j].external_id = s[i].external_id})

LEMMA HashByPlace ==
    ASSUME NEW s
    PROVE  InputDataHash(s) =
             [n \in DOMAIN s |-> Hashed(s[CHOOSE i \in DOMAIN s : Place(s, i) = n])]
BY DEF InputDataHash, Place, Smaller

(* Distinct ids have one place each, and every place is taken.             *)
LEMMA PlacesAreAPermutation ==
    ASSUME NEW s \in Seq(Transactions), Distinct(s)
    PROVE  /\ \A i \in 1 .. Len(s) : Place(s, i) = Cardinality(Smaller(s, i)) + 1
           /\ \A i, j \in 1 .. Len(s) : Place(s, i) = Place(s, j) => i = j
           /\ \A n \in 1 .. Len(s) : \E i \in 1 .. Len(s) : Place(s, i) = n
<1>1. Len(s) \in Nat /\ DOMAIN s = 1 .. Len(s)
  OBVIOUS
<1>2. \A i \in 1 .. Len(s) : s[i].external_id \in Int
  <2>1. \A t \in Transactions : t.external_id \in Int
    BY EngineAssumption DEF Transactions
  <2> QED
    BY <2>1
<1> DEFINE S == 1 .. Len(s)
           R == {r \in S \X S : s[r[1]].external_id < s[r[2]].external_id}
           rank == [i \in S |-> Cardinality(Before(R, S, i)) + 1]
<1>3. IsFiniteSet(S) /\ Cardinality(S) = Len(s)
  <2>1. 1 \in Int /\ Len(s) \in Int
    BY <1>1
  <2>2. /\ IsFiniteSet(1 .. Len(s))
        /\ Cardinality(1 .. Len(s)) = IF 1 > Len(s) THEN 0 ELSE Len(s) - 1 + 1
    BY <2>1, FS_Interval, Zenon
  <2> QED
    BY <1>1, <2>2
<1>4. StrictOrder(R, S)
  BY <1>1, <1>2 DEF StrictOrder, Distinct
<1>5. ASSUME NEW i \in S PROVE Before(R, S, i) = Smaller(s, i)
  BY <1>1 DEF Before, Smaller
<1>6. ASSUME NEW i \in S PROVE Place(s, i) = Cardinality(Smaller(s, i)) + 1
  <2>1. {j \in 1 .. i : s[j].external_id = s[i].external_id} = {i}
    BY <1>1 DEF Distinct
  <2>2. Cardinality({j \in 1 .. i : s[j].external_id = s[i].external_id}) = 1
    BY <2>1, FS_Singleton, Zenon
  <2> QED
    BY <2>2 DEF Place
<1>7. ASSUME NEW i \in S PROVE rank[i] = Place(s, i)
  <2> HIDE DEF R
  <2>1. rank[i] = Cardinality(Before(R, S, i)) + 1
    OBVIOUS
  <2>2. Cardinality(Before(R, S, i)) = Cardinality(Smaller(s, i))
    BY <1>5, Zenon
  <2> QED
    BY <1>6, <2>1, <2>2
<1> HIDE DEF R
<1>8. rank \in Bijection(S, 1 .. Cardinality(S))
  <2> DEFINE r == rank
  <2>1. r = [i \in S |-> Cardinality(Before(R, S, i)) + 1]
    OBVIOUS
  <2> HIDE DEF r, S
  <2>2. r \in Bijection(S, 1 .. Cardinality(S))
    BY <1>3, <1>4, <2>1, Ranking
  <2> QED
    BY <2>2 DEF r
<1> HIDE DEF rank
<1>9. \A i, j \in S : rank[i] = rank[j] => i = j
  BY <1>8 DEF Bijection, Injection, IsInjective
<1>10. \A n \in S : \E i \in S : rank[i] = n
  BY <1>3, <1>8 DEF Bijection, Surjection
<1>11. \A i, j \in S : Place(s, i) = Place(s, j) => i = j
  BY <1>7, <1>9
<1>12. \A n \in S : \E i \in S : Place(s, i) = n
  BY <1>7, <1>10
<1> QED
  BY <1>6, <1>11, <1>12

LEMMA HashReordered ==
    ASSUME NEW s, NEW u, NEW p, Reorders(p, s, u), Distinct(s)
    PROVE  InputDataHash(s) = InputDataHash(u)
<1>1. /\ s \in Seq(Transactions) /\ u \in Seq(Transactions)
      /\ DOMAIN s = 1 .. Len(s) /\ DOMAIN u = 1 .. Len(s) /\ Len(u) = Len(s)
  BY DEF Reorders
<1>2. \A i \in 1 .. Len(s) : p[i] \in 1 .. Len(s) /\ u[i] = s[p[i]]
  BY DEF Reorders
<1>3. Distinct(u)
  <2>1. \A i, j \in 1 .. Len(s) : p[i] = p[j] => i = j
    BY DEF Reorders
  <2> QED
    BY <1>1, <1>2, <2>1 DEF Distinct
<1>4. ASSUME NEW i \in 1 .. Len(s) PROVE Place(u, i) = Place(s, p[i])
  <2>1. Relates(p, s, Smaller(s, p[i]), Smaller(u, i))
    BY <1>1, <1>2 DEF Relates, Smaller
  <2>2. Cardinality(Smaller(s, p[i])) = Cardinality(Smaller(u, i))
    BY <2>1, Corresponding
  <2>3. Place(u, i) = Cardinality(Smaller(u, i)) + 1
    BY <1>1, <1>3, PlacesAreAPermutation
  <2>4. Place(s, p[i]) = Cardinality(Smaller(s, p[i])) + 1
    BY <1>1, <1>2, PlacesAreAPermutation
  <2> QED
    BY <2>2, <2>3, <2>4
<1> DEFINE at(v, n) == CHOOSE i \in DOMAIN v : Place(v, i) = n
<1>5. ASSUME NEW n \in 1 .. Len(s) PROVE s[at(s, n)] = u[at(u, n)]
  <2>1. at(s, n) \in 1 .. Len(s) /\ Place(s, at(s, n)) = n
    BY <1>1, PlacesAreAPermutation
  <2>2. at(u, n) \in 1 .. Len(s) /\ Place(u, at(u, n)) = n
    BY <1>1, <1>3, PlacesAreAPermutation
  <2> HIDE DEF at
  <2>3. Place(s, p[at(u, n)]) = n
    BY <1>4, <2>2
  <2>4. \A i, j \in 1 .. Len(s) : Place(s, i) = Place(s, j) => i = j
    BY <1>1, PlacesAreAPermutation
  <2>5. p[at(u, n)] = at(s, n)
    BY <1>2, <2>1, <2>2, <2>3, <2>4
  <2> QED
    BY <1>2, <2>2, <2>5
<1>6. /\ InputDataHash(s) = [n \in DOMAIN s |-> Hashed(s[at(s, n)])]
      /\ InputDataHash(u) = [n \in DOMAIN u |-> Hashed(u[at(u, n)])]
  BY HashByPlace
<1> HIDE DEF at
<1> QED
  BY <1>1, <1>5, <1>6

(* HashIgnoresOrderOfDistinctIds, for every table: sorting by an id that   *)
(* occurs once undoes every load order (compute_input_data_hash).          *)
THEOREM HashNeverDependsOnOrderOfDistinctIds == Spec => []HashIgnoresOrderOfDistinctIds
<1>1. TableOK => HashIgnoresOrderOfDistinctIds
  BY ScansReorderEachOther, HashReordered DEF HashIgnoresOrderOfDistinctIds, Distinct
<1> QED
  BY <1>1, TableIsOK, PTL

-----------------------------------------------------------------------------
(* Reconciliation.                                                         *)

InCurrency(s, c) == {i \in DOMAIN s : s[i].currency = c}
GroupsOf(s, c) == {g \in Groups(s) : g[2] = c}

LEMMA GroupsAreFinite ==
    ASSUME NEW s \in Seq(Transactions), NEW c
    PROVE  Cardinality(GroupsOf(s, c)) \in Nat
<1> DEFINE f == [i \in 1 .. Len(s) |-> <<Category(s[i]), s[i].currency>>]
<1>1. Len(s) \in Nat /\ DOMAIN s = 1 .. Len(s)
  OBVIOUS
<1>2. Groups(s) = {<<Category(s[i]), s[i].currency>> : i \in 1 .. Len(s)}
  BY <1>1 DEF Groups
<1>3. f \in Surjection(1 .. Len(s), Groups(s))
  BY <1>2 DEF Surjection
<1>4. IsFiniteSet(1 .. Len(s))
  BY <1>1, FS_Interval
<1>5. IsFiniteSet(Groups(s))
  BY <1>3, <1>4, FS_Surjection
<1>6. GroupsOf(s, c) \in SUBSET Groups(s)
  BY DEF GroupsOf
<1> QED
  BY <1>5, <1>6, FS_Subset, FS_CardinalityType

(* The rows of the groups that e enumerates.                               *)
Parts(s, e) == [k \in DOMAIN e |-> Members(s, e[k])]

(* In whatever order the groups of a currency are gone through, their      *)
(* members are a partition of the rows in that currency.                   *)
LEMMA GroupsPartitionTheRows ==
    ASSUME NEW s \in Seq(Transactions), NEW c, NEW K \in Nat,
           NEW e \in Bijection(1 .. K, GroupsOf(s, c))
    PROVE  /\ DOMAIN e = 1 .. K
           /\ \A k \in 1 .. K : Members(s, e[k]) \in SUBSET (1 .. Len(s))
           /\ InCurrency(s, c) \in SUBSET (1 .. Len(s))
           /\ Partition(Parts(s, e), K, InCurrency(s, c))
<1>1. /\ DOMAIN e = 1 .. K
      /\ \A k \in 1 .. K : e[k] \in GroupsOf(s, c)
      /\ \A k, l \in 1 .. K : e[k] = e[l] => k = l
      /\ \A g \in GroupsOf(s, c) : \E k \in 1 .. K : e[k] = g
  BY DEF Bijection, Injection, Surjection, IsInjective
<1>2. DOMAIN s = 1 .. Len(s)
  OBVIOUS
<1>3. \A k \in 1 .. K : Members(s, e[k]) \in SUBSET (1 .. Len(s))
  BY <1>2 DEF Members
<1>4. \A k, l \in 1 .. K : k # l => Members(s, e[k]) \cap Members(s, e[l]) = {}
  BY <1>1 DEF Members
<1>5. InCurrency(s, c) \in SUBSET (1 .. Len(s))
  BY <1>2 DEF InCurrency
<1>6. ASSUME NEW k \in 1 .. K, NEW i \in Members(s, e[k]) PROVE i \in InCurrency(s, c)
  <2>1. e[k][2] = c
    BY <1>1 DEF GroupsOf
  <2>2. i \in DOMAIN s /\ <<Category(s[i]), s[i].currency>> = e[k]
    BY DEF Members
  <2> QED
    BY <2>1, <2>2 DEF InCurrency
<1>7. ASSUME NEW i \in InCurrency(s, c) PROVE \E k \in 1 .. K : i \in Members(s, e[k])
  <2> DEFINE g == <<Category(s[i]), s[i].currency>>
  <2>1. i \in DOMAIN s /\ s[i].currency = c
    BY DEF InCurrency
  <2>2. g \in Groups(s) /\ g[2] = c
    BY <2>1 DEF Groups
  <2>3. PICK k \in 1 .. K : e[k] = g
    BY <1>1, <2>2 DEF GroupsOf
  <2>4. i \in Members(s, e[k])
    BY <2>1, <2>3 DEF Members
  <2> QED
    BY <2>4
<1> DEFINE part == Parts(s, e)
<1>8. \A k \in 1 .. K : part[k] = Members(s, e[k])
  BY <1>1 DEF Parts
<1> HIDE DEF part
<1>9. \A k, l \in 1 .. K : k # l => part[k] \cap part[l] = {}
  BY <1>4, <1>8
<1>10. UNION {part[k] : k \in 1 .. K} = InCurrency(s, c)
  BY <1>6, <1>7, <1>8
<1>11. Partition(Parts(s, e), K, InCurrency(s, c))
  BY <1>9, <1>10 DEF Partition, part
<1> QED
  BY <1>1, <1>3, <1>5, <1>11

(* ReconcilesWithInput, for every table: the groups of a currency are a    *)
(* partition of its rows, so what is published of them adds up             *)
(* (aggregate_line_items).                                                 *)
THEOREM ReportsAlwaysReconcile == Spec => []ReconcilesWithInput
<1>1. TableOK => ReconcilesWithInput
  <2> SUFFICES ASSUME TableOK, NEW s \in ListForPeriod, NEW c \in Currencies,
                      NEW e \in Bijection(1 .. Cardinality(GroupsOf(s, c)), GroupsOf(s, c))
               PROVE
         LET Citations(ids, x) == Cardinality({i \in DOMAIN ids : ids[i] = x})
             Sum(w) == SumOver(w, DOMAIN w)
         IN
         /\ Sum([k \in DOMAIN e |-> LineItem(s, e[k]).total]) = Total(s, InCurrency(s, c))
         /\ Sum([k \in DOMAIN e |-> LineItem(s, e[k]).count]) = Cardinality(InCurrency(s, c))
         /\ \A x \in ExternalIds :
              Sum([k \in DOMAIN e |-> Citations(LineItem(s, e[k]).source_transaction_ids, x)])
                = Cardinality({i \in InCurrency(s, c) : s[i].external_id = x})
    BY DEF ReconcilesWithInput, InCurrency, GroupsOf
  <2> DEFINE K == Cardinality(GroupsOf(s, c))
             part == Parts(s, e)
             total == [k \in 1 .. K |-> LineItem(s, e[k]).total]
             count == [k \in 1 .. K |-> LineItem(s, e[k]).count]
             Citations(ids, x) == Cardinality({i \in DOMAIN ids : ids[i] = x})
             cited(x) == [k \in 1 .. K |-> Citations(LineItem(s, e[k]).source_transaction_ids, x)]
  <2>1. s \in Seq(Transactions) /\ K \in Nat /\ e \in Bijection(1 .. K, GroupsOf(s, c))
    BY ScansAreOfThePeriod, GroupsAreFinite
  <2>2. /\ DOMAIN e = 1 .. K
        /\ \A k \in 1 .. K : Members(s, e[k]) \in SUBSET (1 .. Len(s))
        /\ InCurrency(s, c) \in SUBSET (1 .. Len(s))
        /\ Partition(part, K, InCurrency(s, c))
    BY <2>1, GroupsPartitionTheRows
  <2>3. \A k \in 1 .. K : part[k] = Members(s, e[k])
    BY <2>2 DEF Parts
  <2> HIDE DEF K, part
  <2>4. ASSUME NEW k \in 1 .. K
        PROVE  /\ LineItem(s, e[k]).total = Total(s, part[k])
               /\ LineItem(s, e[k]).count = Cardinality(part[k])
               /\ LineItem(s, e[k]).source_transaction_ids = [i \in part[k] |-> s[i].external_id]
    BY <2>3 DEF LineItem
  <2>5. Len(s) \in Nat /\ \A k \in 1 .. K : part[k] \in SUBSET (1 .. Len(s))
    BY <2>1, <2>2, <2>3
  <2>6. ASSUME NEW marked, NEW v, v = [k \in 1 .. K |-> Cardinality(part[k] \cap marked)]
        PROVE  SumOver(v, 1 .. K) = Cardinality(InCurrency(s, c) \cap marked)
    <3>1. \A k \in 1 .. K : Cardinality(part[k] \cap marked) \in Int
      <4> SUFFICES ASSUME NEW k \in 1 .. K PROVE Cardinality(part[k] \cap marked) \in Int
        OBVIOUS
      <4>1. part[k] \cap marked \in SUBSET (1 .. Len(s))
        BY <2>5
      <4>2. IsFiniteSet(1 .. Len(s))
        BY <2>5, FS_Interval
      <4> QED
        BY <4>1, <4>2, FS_Subset, FS_CardinalityType
    <3>2. v \in Seq(Int) /\ Len(v) = K /\ \A k \in 1 .. K : v[k] = Cardinality(part[k] \cap marked)
      BY <2>1, <2>6, <3>1
    <3>3. CountsOf(v, part, marked)
      BY <3>2 DEF CountsOf
    <3>4. Len(s) \in Nat /\ InCurrency(s, c) \in SUBSET (1 .. Len(s))
      BY <2>2, <2>5
    <3>5. Partition(part, Len(v), InCurrency(s, c))
      BY <2>2, <3>2
    <3>6. SumOver(v, 1 .. Len(v)) = Cardinality(InCurrency(s, c) \cap marked)
      BY <3>3, <3>4, <3>5, CountOfParts
    <3> QED
      BY <3>2, <3>6
  <2>7. SumOver(total, 1 .. K) = Total(s, InCurrency(s, c))
    <3> DEFINE w == Amount(s)
    <3>1. w \in Seq(Int) /\ \A rows : Total(s, rows) = SumOver(w, rows)
      BY <2>1, AmountsAreIntegers
    <3> HIDE DEF w
    <3>2. ASSUME NEW k \in 1 .. K PROVE total[k] = SumOver(w, part[k]) /\ total[k] \in Int
      <4>1. total[k] = SumOver(w, part[k])
        BY <2>4, <3>1
      <4>2. SumOver(w, part[k]) \in Int
        BY <3>1, SumType
      <4> QED
        BY <4>1, <4>2
    <3>3. total \in Seq(Int) /\ Len(total) = K
      BY <2>1, <3>2
    <3> HIDE DEF total
    <3>4. SumsOf(total, w, part)
      BY <3>2, <3>3 DEF SumsOf
    <3>5. SumOver(total, 1 .. K) = SumOver(w, InCurrency(s, c))
      BY <2>2, <3>1, <3>3, <3>4, SumOfParts
    <3> QED
      BY <3>1, <3>5
  <2>8. SumOver(count, 1 .. K) = Cardinality(InCurrency(s, c))
    <3> DEFINE all == 1 .. Len(s)
    <3>1. \A k \in 1 .. K : part[k] \cap all = part[k]
      BY <2>5
    <3>2. InCurrency(s, c) \cap all = InCurrency(s, c)
      BY <2>2
    <3> HIDE DEF all
    <3>3. count = [k \in 1 .. K |-> Cardinality(part[k] \cap all)]
      BY <2>4, <3>1
    <3> HIDE DEF count
    <3>4. SumOver(count, 1 .. K) = Cardinality(InCurrency(s, c) \cap all)
      BY <2>6, <3>3
    <3> QED
      BY <3>2, <3>4
  <2>9. ASSUME NEW x
        PROVE  SumOver(cited(x), 1 .. K) = Cardinality({i \in InCurrency(s, c) : s[i].external_id = x})
    <3> DEFINE marked == {i \in 1 .. Len(s) : s[i].external_id = x}
               v == cited(x)
    <3>1. \A k \in 1 .. K : {i \in part[k] : s[i].external_id = x} = part[k] \cap marked
      BY <2>5
    <3>2. {i \in InCurrency(s, c) : s[i].external_id = x} = InCurrency(s, c) \cap marked
      BY <2>2
    <3>3. ASSUME NEW k \in 1 .. K
          PROVE  Citations(LineItem(s, e[k]).source_transaction_ids, x) = Cardinality(part[k] \cap marked)
      <4> DEFINE ids == LineItem(s, e[k]).source_transaction_ids
      <4>1. ids = [i \in part[k] |-> s[i].external_id]
        BY <2>4
      <4> HIDE DEF ids
      <4>2. {i \in DOMAIN ids : ids[i] = x} = part[k] \cap marked
        BY <3>1, <4>1
      <4> QED
        BY <4>2 DEF ids
    <3> HIDE DEF marked
    <3>4. v = [k \in 1 .. K |-> Cardinality(part[k] \cap marked)]
      BY <3>3
    <3> HIDE DEF v
    <3>5. SumOver(v, 1 .. K) = Cardinality(InCurrency(s, c) \cap marked)
      BY <2>6, <3>4
    <3> QED
      BY <3>2, <3>5 DEF v
  <2> HIDE DEF Citations
  <2>10. DOMAIN total = 1 .. K /\ DOMAIN count = 1 .. K /\ \A x : DOMAIN cited(x) = 1 .. K
    OBVIOUS
  <2>11. SumOver(total, DOMAIN total) = Total(s, InCurrency(s, c))
    BY <2>7, <2>10, Zenon
  <2>12. SumOver(count, DOMAIN count) = Cardinality(InCurrency(s, c))
    BY <2>8, <2>10, Zenon
  <2>13. ASSUME NEW x \in ExternalIds
         PROVE  SumOver(cited(x), DOMAIN cited(x))
                  = Cardinality({i \in InCurrency(s, c) : s[i].external_id = x})
    BY <2>9, <2>10, Zenon
  <2> QED
    BY <2>2, <2>11, <2>12, <2>13, Zenon DEF Citations
<1> QED
  BY <1>1, TableIsOK, PTL
=============================================================================
