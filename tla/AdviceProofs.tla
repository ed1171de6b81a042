---------------------------- MODULE AdviceProofs ----------------------------
(***************************************************************************)
(* Proofs about Advice, for every customer, every planner and any number   *)
(* of threads that overlap.                                                *)
(*                                                                         *)
(* Totals are sums over holdings of any number.  What is said of a sum is  *)
(* proved by looking for the first prefix for which it fails               *)
(* (LeastNumber).                                                          *)
(*                                                                         *)
(* IInv says what a thread carries from one step to the next (a snapshot,  *)
(* offers, what a handler has read) and how far that is still true of the  *)
(* customer's rows, which other threads rewrite in the meantime.           *)
(***************************************************************************)
EXTENDS Advice, FiniteSetTheorems, WellFoundedInduction, TLAPS

-----------------------------------------------------------------------------
(* Sums.                                                                    *)

\* A non-empty set of numbers has a least one.
LEMMA LeastNumber ==
  ASSUME NEW T, T \subseteq Nat, T # {}
  PROVE  \E n \in T : \A m \in T : n <= m
<1> DEFINE R == OpToRel(<, Nat)
<1>1. IsWellFoundedOn(R, Nat)
  BY NatLessThanWellFounded
<1>2. \A m, n \in Nat : m < n => <<m, n>> \in R
  BY DEF OpToRel
<1> HIDE DEF R
<1>3. PICK n \in T : \A m \in T : ~(<<m, n>> \in R)
  BY <1>1, WFMin
<1>4. n \in Nat /\ \A m \in T : m \in Nat /\ ~(m < n)
  BY <1>2, <1>3
<1>5. \A m \in T : n <= m
  BY <1>4
<1> QED  BY <1>3, <1>5

\* What holds of 0 and is handed on holds up to N.
LEMMA UpTo ==
  ASSUME NEW N \in Nat, NEW T, 0 \in T, \A n \in 1..N : n - 1 \in T => n \in T
  PROVE  \A n \in 0..N : n \in T
<1> DEFINE Missed == (0..N) \ T
<1> SUFFICES ASSUME Missed # {} PROVE FALSE
  OBVIOUS
<1>1. Missed \subseteq Nat
  OBVIOUS
<1> HIDE DEF Missed
<1>2. PICK n \in Missed : \A m \in Missed : n <= m
  BY <1>1, LeastNumber
<1>3. n \in 1..N /\ n - 1 \in 0..N /\ ~(n <= n - 1)
  BY <1>2 DEF Missed
<1>4. n - 1 \in T
  BY <1>2, <1>3 DEF Missed
<1> QED  BY <1>2, <1>3, <1>4 DEF Missed

\* The sums of the prefixes of s.
PartialSums(u, s) ==
  /\ u \in [0..Len(s) -> Int]
  /\ u[0] = 0
  /\ \A n \in 1..Len(s) : u[n] = u[n - 1] + s[n]

LEMMA SumOfPartialSums ==
  ASSUME NEW s \in Seq(Int)
  PROVE  \E u : PartialSums(u, s) /\ SumOf(s) = u[Len(s)]
<1> DEFINE N == Len(s)
           Reached == {n \in 0..N : \E u \in [0..n -> Int] :
                         u[0] = 0 /\ \A i \in 1..n : u[i] = u[i - 1] + s[i]}
<1>0. N \in Nat /\ \A i \in 1..N : s[i] \in Int
  OBVIOUS
<1>1. 0 \in Reached
  <2> DEFINE u == [i \in 0..0 |-> 0]
  <2>1. u \in [0..0 -> Int] /\ u[0] = 0 /\ \A i \in 1..0 : u[i] = u[i - 1] + s[i]
    OBVIOUS
  <2> HIDE DEF u
  <2> QED  BY <1>0, <2>1
<1>2. ASSUME NEW n \in 1..N, n - 1 \in Reached PROVE n \in Reached
  <2>1. PICK u \in [0..n-1 -> Int] : u[0] = 0 /\ \A i \in 1..(n - 1) : u[i] = u[i - 1] + s[i]
    BY <1>2
  <2> DEFINE v == [i \in 0..n |-> IF i = n THEN u[n - 1] + s[n] ELSE u[i]]
  <2>2. v \in [0..n -> Int] /\ v[0] = 0 /\ \A i \in 1..n : v[i] = v[i - 1] + s[i]
    BY <1>0, <2>1
  <2> HIDE DEF v
  <2>3. n \in 0..N
    OBVIOUS
  <2> QED  BY <2>2, <2>3
<1>3. N \in Reached
  <2> HIDE DEF Reached
  <2>1. \A n \in 1..N : n - 1 \in Reached => n \in Reached
    BY <1>2
  <2>2. \A n \in 0..N : n \in Reached
    BY <1>0, <1>1, <2>1, UpTo
  <2> QED  BY <1>0, <2>2
<1>4. PICK u \in [0..N -> Int] : u[0] = 0 /\ \A i \in 1..N : u[i] = u[i - 1] + s[i]
  BY <1>3
<1> DEFINE Rec(f) == f = [n \in 0..N |-> IF n = 0 THEN 0 ELSE f[n - 1] + s[n]]
           c == CHOOSE f : Rec(f)
<1>5. Rec(u)
  BY <1>0, <1>4
<1>6. Rec(c)
  BY <1>5
<1>7. SumOf(s) = c[N]
  BY DEF SumOf
<1> HIDE DEF c
<1>8. c[0] = 0 /\ \A i \in 1..N : c[i] = c[i - 1] + s[i]
  BY <1>0, <1>6
<1> HIDE DEF Rec
<1> DEFINE Same == {n \in 0..N : c[n] = u[n]}
<1>9. 0 \in Same /\ \A n \in 1..N : n - 1 \in Same => n \in Same
  BY <1>0, <1>4, <1>8
<1>10. c[N] = u[N]
  <2>1. \A n \in 0..N : n \in Same
    <3> HIDE DEF Same
    <3> QED  BY <1>0, <1>9, UpTo
  <2> QED  BY <1>0, <2>1
<1> QED  BY <1>0, <1>4, <1>7, <1>10 DEF PartialSums

LEMMA SumIsNumber ==
  ASSUME NEW s \in Seq(Int)
  PROVE  SumOf(s) \in Int
<1>1. PICK u : PartialSums(u, s) /\ SumOf(s) = u[Len(s)]
  BY SumOfPartialSums
<1>2. Len(s) \in 0..Len(s)
  OBVIOUS
<1> QED  BY <1>1, <1>2 DEF PartialSums

\* A sum of two values, each as often as it occurs.
LEMMA SumOfTwo ==
  ASSUME NEW N \in Nat, NEW A \in SUBSET (1..N), NEW x \in Int, NEW y \in Int
  PROVE  SumOf([i \in 1..N |-> IF i \in A THEN x ELSE y])
           = x * Cardinality(A) + y * Cardinality((1..N) \ A)
<1> DEFINE s == [i \in 1..N |-> IF i \in A THEN x ELSE y]
           in(n) == Cardinality(A \cap (1..n))
           out(n) == Cardinality((1..n) \ A)
<1>1. s \in Seq(Int) /\ Len(s) = N
  OBVIOUS
<1>2. PICK u : PartialSums(u, s) /\ SumOf(s) = u[N]
  BY <1>1, SumOfPartialSums
<1>3. /\ \A n \in 0..N : in(n) \in Nat /\ out(n) \in Nat
      /\ in(0) = 0 /\ out(0) = 0
      /\ \A n \in 1..N : /\ n \in A => in(n) = in(n - 1) + 1 /\ out(n) = out(n - 1)
                         /\ n \notin A => in(n) = in(n - 1) /\ out(n) = out(n - 1) + 1
  <2>1. ASSUME NEW n \in 0..N
        PROVE  IsFiniteSet(A \cap (1..n)) /\ IsFiniteSet((1..n) \ A)
    <3>1. IsFiniteSet(1..n)
      BY FS_Interval
    <3> QED  BY <3>1, FS_Subset
  <2>2. \A n \in 0..N : in(n) \in Nat /\ out(n) \in Nat
    BY <2>1, FS_CardinalityType
  <2>3. in(0) = 0 /\ out(0) = 0
    <3>1. A \cap (1..0) = {} /\ (1..0) \ A = {}
      OBVIOUS
    <3> QED  BY <3>1, FS_EmptySet
  <2>4. ASSUME NEW n \in 1..N, n \in A
        PROVE  in(n) = in(n - 1) + 1 /\ out(n) = out(n - 1)
    <3>1. /\ A \cap (1..n) = (A \cap (1..(n - 1))) \cup {n}
          /\ n \notin A \cap (1..(n - 1))
          /\ (1..n) \ A = (1..(n - 1)) \ A
      BY <2>4
    <3>2. n - 1 \in 0..N
      OBVIOUS
    <3>3. IsFiniteSet(A \cap (1..(n - 1)))
      BY <2>1, <3>2
    <3> QED  BY <3>1, <3>3, FS_AddElement
  <2>5. ASSUME NEW n \in 1..N, n \notin A
        PROVE  in(n) = in(n - 1) /\ out(n) = out(n - 1) + 1
    <3>1. /\ (1..n) \ A = ((1..(n - 1)) \ A) \cup {n}
          /\ n \notin (1..(n - 1)) \ A
          /\ A \cap (1..n) = A \cap (1..(n - 1))
      BY <2>5
    <3>2. n - 1 \in 0..N
      OBVIOUS
    <3>3. IsFiniteSet((1..(n - 1)) \ A)
      BY <2>1, <3>2
    <3> QED  BY <3>1, <3>3, FS_AddElement
  <2> QED  BY <2>2, <2>3, <2>4, <2>5
<1>4. A \cap (1..N) = A
  OBVIOUS
<1>5. \A n \in 1..N : s[n] = IF n \in A THEN x ELSE y
  OBVIOUS
<1> HIDE DEF s, in, out
<1> DEFINE Right == {n \in 0..N : u[n] = x * in(n) + y * out(n)}
<1>6. 0 \in Right
  BY <1>1, <1>2, <1>3 DEF PartialSums
<1>7. ASSUME NEW n \in 1..N, n - 1 \in Right PROVE n \in Right
  <2>1. u[n] = u[n - 1] + s[n] /\ u[n - 1] = x * in(n - 1) + y * out(n - 1)
        /\ in(n - 1) \in Nat /\ out(n - 1) \in Nat
    BY <1>1, <1>2, <1>3, <1>7 DEF PartialSums
  <2>2. CASE n \in A
    <3>1. x * (in(n - 1) + 1) = x * in(n - 1) + x
      BY <2>1
    <3> QED  BY <1>3, <1>5, <2>1, <2>2, <3>1
  <2>3. CASE n \notin A
    <3>1. y * (out(n - 1) + 1) = y * out(n - 1) + y
      BY <2>1
    <3> QED  BY <1>3, <1>5, <2>1, <2>3, <3>1
  <2> QED  BY <2>2, <2>3
<1>8. u[N] = x * in(N) + y * out(N)
  <2>1. \A n \in 0..N : n \in Right
    <3> HIDE DEF Right
    <3> QED  BY <1>6, <1>7, UpTo
  <2> QED  BY <2>1
<1> QED  BY <1>2, <1>4, <1>8 DEF s, in, out

\* Dividing evenly: all there is is shared out where nothing is left over, and no
\* more than there is in any case.
LEMMA Shares ==
  ASSUME NEW m \in Int, NEW n \in Nat \ {0}
  PROVE  /\ m \div n \in Int /\ m % n \in 0..(n - 1) /\ m = n * (m \div n) + (m % n)
         /\ m % n = 0 => (m \div n) * n = m
         /\ m >= 0 => m \div n >= 0 /\ (m \div n) * n <= m
<1>1. m \div n \in Int /\ m % n \in 0..(n - 1) /\ m = n * (m \div n) + (m % n)
  OBVIOUS
<1>2. n * (m \div n) = (m \div n) * n
  BY <1>1
<1>3. m >= 0 => m \div n >= 0
  OBVIOUS
<1> QED  BY <1>1, <1>2, <1>3

-----------------------------------------------------------------------------
(* Shares of a portfolio.                                                   *)

LEMMA Unit ==
  /\ Whole \in Nat \ {0} /\ Percent(100) = Whole
  /\ \A p \in Int : /\ Percent(p) \in Int /\ 100 * Percent(p) = Whole * p
                    /\ Percent(p) + Percent(100 - p) = Whole
                    /\ p >= 0 => Percent(p) >= 0
  /\ 0 < Percent(45) /\ Percent(45) < Percent(55)
<1> DEFINE u == Whole \div 100
<1>1. Whole \in Nat \ {0} /\ u \in Nat /\ Whole = 100 * u /\ u > 0
  BY UnitAssumption
<1>2. \A p : Percent(p) = u * p
  BY DEF Percent
<1> HIDE DEF u
<1>3. \A p \in Int : u * p \in Int /\ 100 * (u * p) = (100 * u) * p
  BY <1>1
<1>4. \A p \in Int : p >= 0 => u * p >= 0
  BY <1>1
<1>5. \A p \in Int : u * p + u * (100 - p) = u * 100
  BY <1>1
<1>6. Percent(100) = Whole /\ 0 < Percent(45) /\ Percent(45) < Percent(55)
  BY <1>1, <1>2
<1> QED  BY <1>1, <1>2, <1>3, <1>4, <1>5, <1>6

\* A quotient is the only number with its remainder.
LEMMA Quotient ==
  ASSUME NEW a \in Int, NEW b \in Nat \ {0}, NEW q \in Int, NEW r \in 0..(b - 1),
         a = b * q + r
  PROVE  a \div b = q
  OBVIOUS

\* A part of Whole for one of n holdings is its percentage divided by n.
LEMMA PartOfWhole ==
  ASSUME NEW p \in Int, NEW n \in Nat \ {0}
  PROVE  (Whole * p) \div (100 * n) = Percent(p) \div n
<1> DEFINE m == Percent(p)
           q == m \div n
           r == m % n
<1>1. m \in Int /\ Whole * p = 100 * m
  BY Unit
<1>2. q \in Int /\ r \in 0..(n - 1) /\ m = n * q + r
  BY <1>1, Shares
<1> HIDE DEF m, q, r
<1>3. 100 * m = (100 * n) * q + 100 * r
  BY <1>1, <1>2
<1>4. 100 * m \in Int /\ 100 * n \in Nat \ {0} /\ 100 * r \in 0..(100 * n - 1)
  BY <1>1, <1>2
<1>5. (100 * m) \div (100 * n) = q
  BY <1>2, <1>3, <1>4, Quotient
<1> QED  BY <1>1, <1>5 DEF m, q

LEMMA Product ==
  ASSUME NEW m \in Int, NEW n \in Int
  PROVE  m * n \in Int
  OBVIOUS

LEMMA TargetsTyped ==
  ASSUME NEW t \in Int
  PROVE  /\ TargetHigh(t) \in Int /\ TargetLow(t) \in Int
         /\ TargetHigh(t) <= 100 => TargetLow(t) = 100 - TargetHigh(t)
         /\ \A h : SideTarget(h, t) \in Int
         /\ TargetHigh(t) \in 0..100 => \A h : SideTarget(h, t) >= 0
  BY DEF TargetHigh, TargetLow, SideTarget

\* The holdings on h's side.
Side(h, hs) == {i \in DOMAIN hs : IsHigh(hs[i]) = IsHigh(h)}

LEMMA SharersPositive ==
  ASSUME NEW hs \in Seq(HoldingRow), NEW i \in DOMAIN hs
  PROVE  Sharers(hs[i], hs) \in Nat \ {0}
<1>1. Sharers(hs[i], hs) = Cardinality(Side(hs[i], hs)) /\ i \in Side(hs[i], hs)
  BY DEF Sharers, Side
<1>2. IsFiniteSet(Side(hs[i], hs))
  <2>1. IsFiniteSet(1..Len(hs)) /\ Side(hs[i], hs) \subseteq 1..Len(hs)
    BY FS_Interval DEF Side
  <2> QED  BY <2>1, FS_Subset
<1> QED  BY <1>1, <1>2, FS_CardinalityType, FS_EmptySet

SameGrades(hs, gs) ==
  DOMAIN hs = DOMAIN gs /\ \A i \in DOMAIN hs : hs[i].grade = gs[i].grade

\* Who shares with whom, and what for, depends on the grades alone.
LEMMA GradesDecide ==
  ASSUME NEW hs, NEW gs, SameGrades(hs, gs)
  PROVE  /\ \A i \in DOMAIN hs : IsHigh(hs[i]) = IsHigh(gs[i])
         /\ \A i \in DOMAIN hs : Sharers(hs[i], hs) = Sharers(gs[i], gs)
         /\ \A i \in DOMAIN hs : \A t : SideTarget(hs[i], t) = SideTarget(gs[i], t)
         /\ \A t : Divides(hs, t) <=> Divides(gs, t)
<1>1. \A i \in DOMAIN hs : IsHigh(hs[i]) = IsHigh(gs[i])
  BY DEF SameGrades, IsHigh
<1>2. ASSUME NEW i \in DOMAIN hs
      PROVE  Sharers(hs[i], hs) = Sharers(gs[i], gs)
  <2>1. {k \in DOMAIN hs : IsHigh(hs[k]) = IsHigh(hs[i])}
          = {k \in DOMAIN gs : IsHigh(gs[k]) = IsHigh(gs[i])}
    BY <1>1 DEF SameGrades
  <2> QED  BY <2>1 DEF Sharers
<1>3. \A i \in DOMAIN hs : \A t : SideTarget(hs[i], t) = SideTarget(gs[i], t)
  BY <1>1 DEF SideTarget
<1>4. \A t : Divides(hs, t) <=> Divides(gs, t)
  BY <1>2, <1>3 DEF Divides, SameGrades
<1> QED  BY <1>1, <1>2, <1>3, <1>4

\* What a holding is given.
LEMMA RebalancedRows ==
  ASSUME NEW hs \in Seq(HoldingRow), NEW t \in Int, Total(hs) \in Int
  PROVE  /\ Rebalanced(hs, t) \in Seq(HoldingRow)
         /\ SameGrades(Rebalanced(hs, t), hs)
         /\ \A i \in DOMAIN hs :
              /\ Rebalanced(hs, t)[i].amount
                   = (Total(hs) * SideTarget(hs[i], t)) \div (100 * Sharers(hs[i], hs))
              /\ Rebalanced(hs, t)[i].weight
                   = Percent(SideTarget(hs[i], t)) \div Sharers(hs[i], hs)
              /\ TargetHigh(t) \in 0..100 => Rebalanced(hs, t)[i].weight >= 0
<1> DEFINE amount(i) == (Total(hs) * SideTarget(hs[i], t)) \div (100 * Sharers(hs[i], hs))
           weight(i) == Percent(SideTarget(hs[i], t)) \div Sharers(hs[i], hs)
           row(i) == [hs[i] EXCEPT !.amount = amount(i), !.weight = weight(i)]
<1>1. ASSUME NEW i \in DOMAIN hs
      PROVE  /\ amount(i) \in Int /\ weight(i) \in Int
             /\ TargetHigh(t) \in 0..100 => weight(i) >= 0
  <2> DEFINE n == Sharers(hs[i], hs)
             p == SideTarget(hs[i], t)
  <2>1. n \in Nat \ {0} /\ p \in Int /\ (TargetHigh(t) \in 0..100 => p >= 0)
    BY SharersPositive, TargetsTyped
  <2> HIDE DEF n, p
  <2>2. Total(hs) * p \in Int /\ 100 * n \in Nat \ {0} /\ Percent(p) \in Int
    <3>1. Total(hs) * p \in Int
      BY <2>1, Product
    <3>2. 100 * n \in Nat \ {0}
      BY <2>1
    <3>3. Percent(p) \in Int
      BY <2>1, Unit
    <3> QED  BY <3>1, <3>2, <3>3
  <2>3. (Total(hs) * p) \div (100 * n) \in Int
    BY <2>2, Shares
  <2>4. Percent(p) \div n \in Int /\ (Percent(p) >= 0 => Percent(p) \div n >= 0)
    BY <2>1, <2>2, Shares
  <2>5. TargetHigh(t) \in 0..100 => Percent(p) >= 0
    BY <2>1, Unit
  <2> QED  BY <2>3, <2>4, <2>5 DEF n, p
<1> HIDE DEF amount, weight
<1>2. ASSUME NEW i \in DOMAIN hs
      PROVE  /\ row(i) \in HoldingRow /\ row(i).grade = hs[i].grade
             /\ row(i).amount = amount(i) /\ row(i).weight = weight(i)
  <2>1. /\ hs[i] \in [grade : {"high", "mid", "low"}, amount : Int, weight : Int]
        /\ amount(i) \in Int /\ weight(i) \in Int
    <3>1. hs[i] \in HoldingRow
      BY <1>2
    <3>2. amount(i) \in Int /\ weight(i) \in Int
      BY <1>1
    <3> QED  BY <3>1, <3>2 DEF HoldingRow
  <2> QED  BY <2>1 DEF HoldingRow
<1>3. Rebalanced(hs, t) = [i \in DOMAIN hs |-> row(i)]
  BY DEF Rebalanced, amount, weight
<1> HIDE DEF row
<1>4. Rebalanced(hs, t) \in Seq(HoldingRow)
  BY <1>2, <1>3
<1>5. SameGrades(Rebalanced(hs, t), hs)
  BY <1>2, <1>3 DEF SameGrades
<1>6. \A i \in DOMAIN hs :
        /\ Rebalanced(hs, t)[i].amount = amount(i) /\ Rebalanced(hs, t)[i].weight = weight(i)
        /\ TargetHigh(t) \in 0..100 => weight(i) >= 0
  BY <1>1, <1>2, <1>3
<1> QED  BY <1>4, <1>5, <1>6 DEF amount, weight

LEMMA TotalsTyped ==
  ASSUME NEW hs \in Seq(HoldingRow)
  PROVE  /\ Total(hs) \in Int /\ HighAmount(hs) \in Int /\ HighWeight(hs) \in Int
         /\ Balanced(hs) => HighWeight(hs) = HighAmount(hs)
         /\ hs = <<>> => HighWeight(hs) = 0 /\ Total(hs) = 0
<1> DEFINE N == Len(hs)
           all == [i \in 1..N |-> hs[i].amount]
           high == [i \in 1..N |-> IF IsHigh(hs[i]) THEN hs[i].amount ELSE 0]
           weights == [i \in 1..N |-> IF IsHigh(hs[i]) THEN hs[i].weight ELSE 0]
<1>1. N \in Nat /\ DOMAIN hs = 1..N
  OBVIOUS
<1>2. \A i \in 1..N : hs[i].amount \in Int /\ hs[i].weight \in Int
  <2>1. \A i \in 1..N : hs[i] \in HoldingRow
    OBVIOUS
  <2> QED  BY <2>1 DEF HoldingRow
<1>3. all \in Seq(Int) /\ high \in Seq(Int) /\ weights \in Seq(Int)
  BY <1>1, <1>2
<1>4. Total(hs) = SumOf(all) /\ HighAmount(hs) = SumOf(high) /\ HighWeight(hs) = SumOf(weights)
  BY <1>1 DEF Total, HighAmount, HighWeight
<1>5. Balanced(hs) => weights = high
  BY <1>1 DEF Balanced
<1>6. N = 0 => Len(all) = 0 /\ Len(weights) = 0
  OBVIOUS
<1> HIDE DEF all, high, weights
<1>7. SumOf(high) \in Int /\ SumOf(all) \in Int /\ SumOf(weights) \in Int
  BY <1>3, SumIsNumber
<1>8. N = 0 => SumOf(all) = 0 /\ SumOf(weights) = 0
  BY <1>3, <1>6, SumOfPartialSums DEF PartialSums
<1>9. hs = <<>> => N = 0
  OBVIOUS
<1> QED  BY <1>4, <1>5, <1>7, <1>8, <1>9

\* The two sides, and how many holdings each has.
High(hs) == {i \in DOMAIN hs : IsHigh(hs[i])}
Low(hs) == {i \in DOMAIN hs : ~IsHigh(hs[i])}

LEMMA Sides ==
  ASSUME NEW hs \in Seq(HoldingRow)
  PROVE  /\ High(hs) \in SUBSET (1..Len(hs)) /\ Low(hs) = (1..Len(hs)) \ High(hs)
         /\ IsFiniteSet(High(hs)) /\ IsFiniteSet(Low(hs))
         /\ Cardinality(High(hs)) \in Nat /\ Cardinality(Low(hs)) \in Nat
         /\ \A i \in DOMAIN hs : Sharers(hs[i], hs) = IF IsHigh(hs[i]) THEN Cardinality(High(hs))
                                                      ELSE Cardinality(Low(hs))
<1>1. DOMAIN hs = 1..Len(hs)
  OBVIOUS
<1>2. High(hs) \subseteq 1..Len(hs) /\ Low(hs) = (1..Len(hs)) \ High(hs)
  BY <1>1 DEF High, Low
<1>3. IsFiniteSet(High(hs)) /\ IsFiniteSet(Low(hs))
  <2>1. IsFiniteSet(1..Len(hs)) /\ Low(hs) \subseteq 1..Len(hs)
    BY <1>2, FS_Interval
  <2> QED  BY <1>2, <2>1, FS_Subset
<1>4. ASSUME NEW i \in DOMAIN hs
      PROVE  Sharers(hs[i], hs) = IF IsHigh(hs[i]) THEN Cardinality(High(hs))
                                  ELSE Cardinality(Low(hs))
  <2>1. IsHigh(hs[i]) \in BOOLEAN /\ \A k \in DOMAIN hs : IsHigh(hs[k]) \in BOOLEAN
    BY DEF IsHigh
  <2>2. CASE IsHigh(hs[i])
    <3>1. {k \in DOMAIN hs : IsHigh(hs[k]) = IsHigh(hs[i])} = High(hs)
      BY <2>1, <2>2 DEF High
    <3> QED  BY <2>2, <3>1 DEF Sharers
  <2>3. CASE ~IsHigh(hs[i])
    <3>1. {k \in DOMAIN hs : IsHigh(hs[k]) = IsHigh(hs[i])} = Low(hs)
      BY <2>1, <2>3 DEF Low
    <3> QED  BY <2>3, <3>1 DEF Sharers
  <2> QED  BY <2>2, <2>3
<1> QED  BY <1>2, <1>3, <1>4, FS_CardinalityType

\* Where the weights are those of the stub's target, the high-risk weight is at
\* most 45%, whether or not the share divides evenly.
AtRest(hs) ==
  \A i \in DOMAIN hs :
    hs[i].weight = Percent(SideTarget(hs[i], 45)) \div Sharers(hs[i], hs)

LEMMA RestIsLow ==
  ASSUME NEW hs \in Seq(HoldingRow), AtRest(hs)
  PROVE  HighWeight(hs) <= Percent(45)
<1> DEFINE N == Len(hs)
           A == High(hs)
           n == Cardinality(A)
           x == Percent(45) \div n
<1>1. N \in Nat /\ A \in SUBSET (1..N) /\ n \in Nat /\ DOMAIN hs = 1..N
  BY Sides
<1>2. Percent(45) \in Int /\ Percent(45) >= 0
  BY Unit
<1>3. \A i \in A : hs[i].weight = x
  BY Sides DEF AtRest, High, SideTarget, TargetHigh
<1>4. CASE n = 0
  <2>1. A = {}
    <3>1. IsFiniteSet(A)
      BY Sides
    <3> QED  BY <1>4, <3>1, FS_EmptySet
  <2>2. [i \in DOMAIN hs |-> IF IsHigh(hs[i]) THEN hs[i].weight ELSE 0]
          = [i \in 1..N |-> IF i \in {} THEN 0 ELSE 0]
    BY <1>1, <2>1 DEF High
  <2>3. SumOf([i \in 1..N |-> IF i \in {} THEN 0 ELSE 0])
          = 0 * Cardinality({}) + 0 * Cardinality((1..N) \ {})
    BY <1>1, SumOfTwo
  <2>4. Cardinality({}) \in Nat /\ Cardinality((1..N) \ {}) \in Nat
    <3>1. IsFiniteSet(1..N) /\ (1..N) \ {} = 1..N
      BY <1>1, FS_Interval
    <3> QED  BY <3>1, FS_CardinalityType, FS_EmptySet
  <2> QED  BY <1>2, <2>2, <2>3, <2>4 DEF HighWeight
<1>5. CASE n # 0
  <2>1. x \in Int /\ x * n <= Percent(45)
    BY <1>1, <1>2, <1>5, Shares
  <2>2. [i \in DOMAIN hs |-> IF IsHigh(hs[i]) THEN hs[i].weight ELSE 0]
          = [i \in 1..N |-> IF i \in A THEN x ELSE 0]
    BY <1>1, <1>3 DEF High
  <2>3. HighWeight(hs) = SumOf([i \in 1..N |-> IF i \in A THEN x ELSE 0])
    BY <2>2 DEF HighWeight
  <2>4. Cardinality((1..N) \ A) \in Nat
    BY Sides
  <2> HIDE DEF x, A
  <2>5. SumOf([i \in 1..N |-> IF i \in A THEN x ELSE 0])
          = x * n + 0 * Cardinality((1..N) \ A)
    BY <1>1, <2>1, SumOfTwo
  <2>6. 0 * Cardinality((1..N) \ A) = 0 /\ x * n \in Int
    BY <1>1, <2>1, <2>4, Product
  <2> QED  BY <2>1, <2>3, <2>5, <2>6
<1> QED  BY <1>4, <1>5

\* A rebalance of a balanced portfolio that holds something on either side leaves it
\* balanced, with the share asked for on the high side, unless that is more than all.
LEMMA BalancedAgain ==
  ASSUME NEW hs \in Seq(HoldingRow), Balanced(hs), High(hs) # {}, Low(hs) # {},
         hs # <<>>, NEW t \in Int, TargetHigh(t) <= 100, Divides(hs, t)
  PROVE  Balanced(Rebalanced(hs, t)) /\ HighAmount(Rebalanced(hs, t)) = Percent(TargetHigh(t))
<1>0. PICK N \in Nat : N = Len(hs)
  OBVIOUS
<1>1. PICK A \in SUBSET (1..N) : A = High(hs) /\ Low(hs) = (1..N) \ A /\ DOMAIN hs = 1..N
  BY <1>0, Sides
<1>2. PICK n \in Nat, m \in Nat : n = Cardinality(A) /\ m = Cardinality((1..N) \ A)
  BY <1>0, <1>1, Sides
<1>3. n # 0 /\ m # 0
  <2>1. IsFiniteSet(A) /\ IsFiniteSet((1..N) \ A) /\ A # {} /\ (1..N) \ A # {}
    BY <1>0, <1>1, Sides
  <2> QED  BY <1>2, <2>1, FS_EmptySet
<1>4. PICK T \in Int : T = TargetHigh(t)
  BY TargetsTyped
<1>5. PICK D \in Int : D = 100 - T /\ D = TargetLow(t)
  BY <1>4, TargetsTyped
<1>6. PICK p \in Int, q \in Int : p = Percent(T) /\ q = Percent(D) /\ p + q = Whole
  <2>1. Percent(T) \in Int /\ Percent(D) \in Int
    BY Unit
  <2>2. Percent(T) + Percent(D) = Whole
    BY <1>5, Unit
  <2> QED  BY <2>1, <2>2
<1>7. \A i \in 1..N : /\ i \in A => SideTarget(hs[i], t) = T /\ Sharers(hs[i], hs) = n
                      /\ i \notin A => SideTarget(hs[i], t) = D /\ Sharers(hs[i], hs) = m
  BY <1>1, <1>2, <1>4, <1>5, Sides DEF SideTarget, High
<1>8. p % n = 0 /\ q % m = 0
  <2>1. PICK i \in 1..N, k \in 1..N : i \in A /\ k \notin A
    BY <1>1
  <2> QED  BY <1>1, <1>6, <1>7, <2>1 DEF Divides
<1>9. Total(hs) = Whole /\ Whole \in Nat
  BY Unit DEF Balanced
<1>10. /\ (Whole * T) \div (100 * n) = p \div n
       /\ (Whole * D) \div (100 * m) = q \div m
  <2>1. T \in Int /\ D \in Int /\ n \in Nat \ {0} /\ m \in Nat \ {0}
    BY <1>3
  <2>2. (Whole * T) \div (100 * n) = Percent(T) \div n
    BY <2>1, PartOfWhole
  <2>3. (Whole * D) \div (100 * m) = Percent(D) \div m
    BY <2>1, PartOfWhole
  <2> QED  BY <1>6, <2>2, <2>3
<1>11. PICK new : new = Rebalanced(hs, t)
  OBVIOUS
<1>12. /\ new \in Seq(HoldingRow) /\ SameGrades(new, hs) /\ DOMAIN new = 1..N
       /\ \A i \in 1..N :
            /\ new[i].amount = (Whole * SideTarget(hs[i], t)) \div (100 * Sharers(hs[i], hs))
            /\ new[i].weight = Percent(SideTarget(hs[i], t)) \div Sharers(hs[i], hs)
  <2>1. Total(hs) \in Int
    BY <1>9
  <2>2. new \in Seq(HoldingRow) /\ SameGrades(new, hs)
    BY <1>11, <2>1, RebalancedRows
  <2>3. DOMAIN new = 1..N
    BY <1>1, <2>2 DEF SameGrades
  <2>4. \A i \in DOMAIN hs :
            /\ new[i].amount = (Total(hs) * SideTarget(hs[i], t)) \div (100 * Sharers(hs[i], hs))
            /\ new[i].weight = Percent(SideTarget(hs[i], t)) \div Sharers(hs[i], hs)
    BY <1>11, <2>1, RebalancedRows
  <2> QED  BY <1>1, <1>9, <2>2, <2>3, <2>4
<1>13. \A i \in 1..N : /\ new[i].amount = IF i \in A THEN p \div n ELSE q \div m
                       /\ new[i].weight = new[i].amount
  <2> SUFFICES ASSUME NEW i \in 1..N
               PROVE  /\ new[i].amount = IF i \in A THEN p \div n ELSE q \div m
                      /\ new[i].weight = new[i].amount
    OBVIOUS
  <2>1. CASE i \in A
    <3>1. SideTarget(hs[i], t) = T /\ Sharers(hs[i], hs) = n
      BY <1>7, <2>1
    <3> QED  BY <1>6, <1>10, <1>12, <2>1, <3>1
  <2>2. CASE i \notin A
    <3>1. SideTarget(hs[i], t) = D /\ Sharers(hs[i], hs) = m
      BY <1>7, <2>2
    <3> QED  BY <1>6, <1>10, <1>12, <2>2, <3>1
  <2> QED  BY <2>1, <2>2
<1>14. /\ Total(new) = SumOf([i \in 1..N |-> IF i \in A THEN p \div n ELSE q \div m])
       /\ HighAmount(new) = SumOf([i \in 1..N |-> IF i \in A THEN p \div n ELSE 0])
  <2>1. \A i \in 1..N : IsHigh(new[i]) <=> i \in A
    BY <1>1, <1>12 DEF SameGrades, IsHigh, High
  <2>2. [i \in DOMAIN new |-> new[i].amount]
          = [i \in 1..N |-> IF i \in A THEN p \div n ELSE q \div m]
    BY <1>12, <1>13
  <2>3. [i \in DOMAIN new |-> IF IsHigh(new[i]) THEN new[i].amount ELSE 0]
          = [i \in 1..N |-> IF i \in A THEN p \div n ELSE 0]
    BY <1>12, <1>13, <2>1
  <2> QED  BY <2>2, <2>3 DEF Total, HighAmount
<1>15. Total(new) = p + q /\ HighAmount(new) = p
  <2>1. PICK x \in Int, y \in Int : /\ x = p \div n /\ y = q \div m
                                    /\ x * n = p /\ y * m = q
    BY <1>3, <1>8, Shares
  <2>2. x * Cardinality(A) = p
    BY <1>2, <2>1
  <2>3. y * Cardinality((1..N) \ A) = q /\ Cardinality((1..N) \ A) \in Nat
    BY <1>2, <2>1
  <2>4. SumOf([i \in 1..N |-> IF i \in A THEN x ELSE y])
          = x * Cardinality(A) + y * Cardinality((1..N) \ A)
    BY SumOfTwo
  <2>5. SumOf([i \in 1..N |-> IF i \in A THEN x ELSE 0])
          = x * Cardinality(A) + 0 * Cardinality((1..N) \ A)
    <3>1. 0 \in Int
      OBVIOUS
    <3> QED  BY <3>1, SumOfTwo
  <2>6. 0 * Cardinality((1..N) \ A) = 0
    BY <2>3
  <2>7. /\ Total(new) = SumOf([i \in 1..N |-> IF i \in A THEN x ELSE y])
        /\ HighAmount(new) = SumOf([i \in 1..N |-> IF i \in A THEN x ELSE 0])
    BY <1>14, <2>1
  <2> QED  BY <2>2, <2>3, <2>4, <2>5, <2>6, <2>7
<1>16. \A i \in DOMAIN new : new[i].amount = new[i].weight
  BY <1>12, <1>13
<1> QED  BY <1>4, <1>6, <1>11, <1>15, <1>16 DEF Balanced

\* What the UPDATE stores of a row is what was stored or what the handler computed.
LEMMA UpdatedRows ==
  ASSUME NEW stored \in Seq(HoldingRow), NEW read \in Seq(HoldingRow),
         NEW new \in Seq(HoldingRow), SameGrades(read, stored), SameGrades(new, read)
  PROVE  LET after == Updated(stored, read, new)
         IN  /\ after \in Seq(HoldingRow) /\ SameGrades(after, stored)
             /\ read = stored => after = new
             /\ new = stored => after = stored
<1> DEFINE amount(i) == IF new[i].amount = read[i].amount THEN stored[i].amount ELSE new[i].amount
           weight(i) == IF new[i].weight = read[i].weight THEN stored[i].weight ELSE new[i].weight
           row(i) == [stored[i] EXCEPT !.amount = amount(i), !.weight = weight(i)]
           after == Updated(stored, read, new)
<1>1. DOMAIN stored = 1..Len(stored) /\ DOMAIN new = DOMAIN stored /\ DOMAIN read = DOMAIN stored
  BY DEF SameGrades
<1>2. \A i \in DOMAIN stored :
        stored[i] \in HoldingRow /\ new[i] \in HoldingRow /\ read[i] \in HoldingRow
  BY <1>1
<1>3. \A i \in DOMAIN stored : stored[i].grade = new[i].grade
  BY <1>1 DEF SameGrades
<1>4. after = [i \in DOMAIN stored |-> row(i)]
  BY DEF Updated
<1>5. \A i \in DOMAIN stored : amount(i) \in Int /\ weight(i) \in Int
  BY <1>2 DEF HoldingRow
<1>6. read = stored \/ new = stored =>
        \A i \in DOMAIN stored : amount(i) = new[i].amount /\ weight(i) = new[i].weight
  OBVIOUS
<1> HIDE DEF amount, weight
<1>7. ASSUME NEW i \in DOMAIN stored
      PROVE  /\ row(i) \in HoldingRow /\ row(i).grade = stored[i].grade
             /\ read = stored \/ new = stored => row(i) = new[i]
  <2>1. stored[i] \in HoldingRow /\ new[i] \in HoldingRow /\ stored[i].grade = new[i].grade
    BY <1>2, <1>3
  <2>2. amount(i) \in Int /\ weight(i) \in Int
    BY <1>5
  <2> QED  BY <1>6, <2>1, <2>2 DEF HoldingRow
<1> HIDE DEF row, after
<1>8. after \in Seq(HoldingRow) /\ SameGrades(after, stored)
  BY <1>1, <1>4, <1>7 DEF SameGrades
<1>9. read = stored \/ new = stored => after = new
  BY <1>1, <1>4, <1>7
<1> QED  BY <1>8, <1>9 DEF after

LEMMA SameRow ==
  ASSUME NEW h \in HoldingRow, NEW g \in HoldingRow,
         h.grade = g.grade, h.amount = g.amount, h.weight = g.weight
  PROVE  h = g
  BY DEF HoldingRow

LEMMA SameRows ==
  ASSUME NEW hs \in Seq(HoldingRow), NEW gs \in Seq(HoldingRow), SameGrades(hs, gs),
         \A i \in DOMAIN hs : hs[i].amount = gs[i].amount /\ hs[i].weight = gs[i].weight
  PROVE  hs = gs
<1>1. DOMAIN hs = DOMAIN gs
  BY DEF SameGrades
<1>2. ASSUME NEW i \in DOMAIN hs PROVE hs[i] = gs[i]
  <2>1. hs[i] \in HoldingRow
    OBVIOUS
  <2>2. gs[i] \in HoldingRow
    BY <1>1
  <2>3. hs[i].grade = gs[i].grade
    BY DEF SameGrades
  <2> QED  BY <2>1, <2>2, <2>3, SameRow
<1> QED  BY <1>1, <1>2

\* Two balanced portfolios of the same grades that are at rest are the same.
LEMMA RestIsOne ==
  ASSUME NEW hs \in Seq(HoldingRow), NEW gs \in Seq(HoldingRow), SameGrades(hs, gs),
         AtRest(hs), AtRest(gs), Balanced(hs), Balanced(gs)
  PROVE  hs = gs
<1>1. DOMAIN hs = DOMAIN gs
  BY DEF SameGrades
<1>2. \A i \in DOMAIN hs : hs[i].weight = gs[i].weight
  BY <1>1, GradesDecide DEF AtRest
<1>3. \A i \in DOMAIN hs : hs[i].amount = gs[i].amount
  BY <1>1, <1>2 DEF Balanced
<1> QED  BY <1>2, <1>3, SameRows

-----------------------------------------------------------------------------
(* The invariant: what there is, and what every thread carries.            *)

\* Rebalancing moves amounts; who is high, and how many are, stays as seeded.
Shape == \E c \in Customers : SameGrades(customer.holdings, c.holdings)

Untouched == rebalances = 0 => shares = {} /\ Balanced(customer.holdings)

\* The stub's rebalance is always the same: once one was written, all rows are where
\* it puts them, whatever it overlaps.
Resting ==
  planner = "local_stub" =>
    /\ Balanced(customer.holdings)
    /\ rebalances > 0 => AtRest(customer.holdings)

\* A review finds one policy at most, and riders go to that one only.
RidersOnFirst ==
  "policies" \notin torn =>
    /\ \A i, k \in FirstPolicies(customer.policies) : i = k
    /\ \A i \in DOMAIN customer.policies :
         /\ customer.policies[i].riders <= 1
         /\ customer.policies[i].riders > 0 => i \in FirstPolicies(customer.policies)

DataInv ==
  /\ planner \in Planners
  /\ customer \in Profiles
  /\ checks \in 0..MaxChecks
  /\ faults \in 0..MaxFaults
  /\ {rebalances, reviews} \subseteq Nat /\ shares \subseteq Int
  /\ torn \subseteq {"holdings", "policies"}
  /\ Shape /\ Untouched /\ Conserved /\ Resting
  /\ RidersOnFirst /\ GapClosed

ThreadTyped(t) ==
  /\ pc[t] \in Places
  /\ input[t] \in Inputs \cup {NoInput}
  /\ signal[t] \in IF At(t, "spawn") THEN SignalKinds ELSE {"none"}
  /\ todo[t] \in Seq(Offers) /\ open[t] \in Seq(Offers)
  /\ held[t] \in BOOLEAN
  /\ work[t] \in Nat
  /\ seen[t] \in Readings

\* A snapshot of a portfolio nobody touched shows what is stored; one taken after a
\* rebalance of the stub's shows nothing to sell.
SnapshotTrue(s) ==
  /\ s.high \in Int /\ s.total \in Int /\ s.rebalances \in Nat /\ s.gap \in BOOLEAN
  /\ s.rebalances <= rebalances
  /\ s.rebalances = 0 => s.total = Whole \/ s.high = 0
  /\ s.rebalances = 0 /\ rebalances = 0 => s.high = HighAmount(customer.holdings)
  /\ s.rebalances > 0 /\ planner = "local_stub" => s.high <= Percent(45)

\* What an offered rebalance asks for, and what it announces.
OfferTrue(o) ==
  o.item.kind = "rebalance_portfolio" =>
    /\ o.item.target \in Targets
    /\ planner = "local_stub" =>
         /\ o.after = 0 /\ o.item.target = 45
         /\ rebalances = 0 => o.item.amount = HighAmount(customer.holdings) - Percent(45)

AllTrue(offers) == \A i \in DOMAIN offers : OfferTrue(offers[i])

OffersTrue(t) == AllTrue(todo[t]) /\ AllTrue(open[t])

InHandler == {"holdings", "rebalance", "review", "newpolicy", "coverage", "insert", "record"}

\* A handler runs for a proposal that is there.
InHand(t) ==
  /\ pc[t] \notin InHandler => work[t] = 0
  /\ pc[t] \in InHandler =>
       /\ IF work[t] = 0 THEN todo[t] # <<>> ELSE work[t] \in DOMAIN open[t]
       /\ pc[t] \in {"holdings", "rebalance"} => Offer(t).item.kind = "rebalance_portfolio"

\* What a handler has read of the holdings is of the same portfolio, and is what is
\* stored as long as no rebalance was written.
ReadTrue(hs) ==
  /\ hs # <<>>
  /\ SameGrades(hs, customer.holdings)
  /\ rebalances = 0 => hs = customer.holdings
  /\ planner = "local_stub" => Balanced(hs)

\* The policy a handler has found is active, and the one the next one finds.
Found(i) ==
  /\ i \in ActivePolicies(customer.policies)
  /\ "policies" \notin torn => i \in FirstPolicies(customer.policies)

\* A handler that found the rider there adds none; it does not go away.
Looked(r) == r.missing \/ customer.policies[r.policy].riders > 0

ThreadInv(t) ==
  /\ ThreadTyped(t)
  /\ pc[t] \in {"detect", "spawn"} => SnapshotTrue(snapshot[t])
  /\ OffersTrue(t)
  /\ InHand(t)
  /\ pc[t] = "rebalance" => ReadTrue(seen[t].holdings)
  /\ pc[t] \in {"coverage", "insert"} => Found(seen[t].policy)
  /\ pc[t] = "insert" => Looked(seen[t])

PerThread ==
  /\ DOMAIN pc = Threads /\ DOMAIN input = Threads /\ DOMAIN snapshot = Threads
  /\ DOMAIN signal = Threads /\ DOMAIN todo = Threads /\ DOMAIN open = Threads
  /\ DOMAIN held = Threads /\ DOMAIN work = Threads /\ DOMAIN seen = Threads

IInv == DataInv /\ PerThread /\ \A t \in Threads : ThreadInv(t)

-----------------------------------------------------------------------------
(* Steps.                                                                   *)

SameThread(u) ==
  /\ pc'[u] = pc[u] /\ input'[u] = input[u] /\ snapshot'[u] = snapshot[u]
  /\ signal'[u] = signal[u] /\ todo'[u] = todo[u] /\ open'[u] = open[u]
  /\ held'[u] = held[u] /\ work'[u] = work[u] /\ seen'[u] = seen[u]

LEMMA TypesKept ==
  ASSUME NEW u, ThreadTyped(u), SameThread(u)
  PROVE  ThreadTyped(u)'
  BY DEF ThreadTyped, SameThread, At

LEMMA HandKept ==
  ASSUME NEW u, InHand(u), SameThread(u)
  PROVE  InHand(u)'
  BY DEF InHand, SameThread, Offer

\* What a thread carries depends on its own variables and on the customer's data.
LEMMA OthersKept ==
  ASSUME NEW u, ThreadInv(u), SameThread(u), UNCHANGED <<planner, customer, rebalances, torn>>
  PROVE  ThreadInv(u)'
<1>1. ThreadTyped(u)' /\ InHand(u)'
  BY TypesKept, HandKept DEF ThreadInv
<1>2. (pc[u] \in {"detect", "spawn"} => SnapshotTrue(snapshot[u]))'
  BY DEF ThreadInv, SnapshotTrue, SameThread
<1>3. OffersTrue(u)'
  BY DEF ThreadInv, OffersTrue, AllTrue, OfferTrue, SameThread
<1>4. (pc[u] = "rebalance" => ReadTrue(seen[u].holdings))'
  BY DEF ThreadInv, ReadTrue, SameThread
<1>5. /\ (pc[u] \in {"coverage", "insert"} => Found(seen[u].policy))'
      /\ (pc[u] = "insert" => Looked(seen[u]))'
  BY DEF ThreadInv, Found, Looked, SameThread
<1> QED  BY <1>1, <1>2, <1>3, <1>4, <1>5 DEF ThreadInv

\* A step of one thread that writes no data.
LEMMA OneThread ==
  ASSUME IInv, NEW t \in Threads, PerThread', ThreadInv(t)',
         \A u \in Threads \ {t} : SameThread(u),
         UNCHANGED <<planner, customer, rebalances, shares, reviews, torn>>,
         checks' \in 0..MaxChecks, faults' \in 0..MaxFaults
  PROVE  IInv'
<1>1. DataInv'
  BY DEF IInv, DataInv, Shape, Untouched, Conserved, Resting, RidersOnFirst, GapClosed
<1>2. ASSUME NEW u \in Threads PROVE ThreadInv(u)'
  BY <1>2, OthersKept DEF IInv
<1> QED  BY <1>1, <1>2 DEF IInv

\* What is left of a sequence is still a part of it.
LEMMA Removed ==
  ASSUME NEW S, NEW s \in Seq(S), NEW i \in DOMAIN s
  PROVE  /\ RemoveAt(s, i) \in Seq(S)
         /\ \A k \in DOMAIN RemoveAt(s, i) : \E j \in DOMAIN s : RemoveAt(s, i)[k] = s[j]
<1> DEFINE a == SubSeq(s, 1, i - 1)
           b == SubSeq(s, i + 1, Len(s))
<1>1. i \in 1..Len(s) /\ Len(s) \in Nat
  OBVIOUS
<1>2. a \in Seq(S) /\ Len(a) = i - 1 /\ \A k \in 1..Len(a) : a[k] = s[k]
  BY <1>1
<1>3. b \in Seq(S) /\ Len(b) = Len(s) - i /\ \A k \in 1..Len(b) : b[k] = s[k + i]
  BY <1>1
<1>4. RemoveAt(s, i) = a \o b
  BY DEF RemoveAt
<1> HIDE DEF a, b
<1>5. ASSUME NEW k \in DOMAIN (a \o b) PROVE \E j \in DOMAIN s : (a \o b)[k] = s[j]
  <2>1. k \in 1..(Len(s) - 1)
    BY <1>1, <1>2, <1>3
  <2>2. CASE k <= Len(a)
    BY <1>1, <1>2, <1>3, <2>1, <2>2
  <2>3. CASE k > Len(a)
    <3>0. k - Len(a) \in 1..Len(b) /\ (a \o b)[k] = b[k - Len(a)]
      BY <1>1, <1>2, <1>3, <2>1, <2>3
    <3>1. PICK m \in 1..Len(b) : (a \o b)[k] = b[m]
      BY <3>0
    <3>2. b[m] = s[m + i] /\ m + i \in 1..Len(s)
      BY <1>1, <1>3
    <3> QED  BY <1>1, <3>1, <3>2
  <2> QED  BY <1>1, <1>2, <2>1, <2>2, <2>3
<1> QED  BY <1>2, <1>3, <1>4, <1>5

LEMMA TailOf ==
  ASSUME NEW S, NEW s \in Seq(S), s # <<>>
  PROVE  /\ Head(s) \in S /\ Head(s) = s[1] /\ 1 \in DOMAIN s
         /\ Tail(s) \in Seq(S)
         /\ \A k \in DOMAIN Tail(s) : \E j \in DOMAIN s : Tail(s)[k] = s[j]
<1>1. Head(s) \in S /\ Head(s) = s[1] /\ 1 \in DOMAIN s /\ Tail(s) \in Seq(S)
  OBVIOUS
<1>2. ASSUME NEW k \in DOMAIN Tail(s) PROVE \E j \in DOMAIN s : Tail(s)[k] = s[j]
  <2>1. k + 1 \in DOMAIN s /\ Tail(s)[k] = s[k + 1]
    OBVIOUS
  <2> QED  BY <2>1
<1> QED  BY <1>1, <1>2

\* Every input is a signal of a known kind, or gives one.
LEMMA DetectTyped ==
  ASSUME NEW in \in Inputs \cup {NoInput}, NEW ctx, ctx.high \in Int
  PROVE  Detect(in, ctx) \in SignalKinds
<1>1. ExplicitKind(in) \in SignalKinds \cup {"none"}
  BY InputsAssumption
     DEF NoInput, ExplicitKind, KindOfText, TopicKind, SignalKinds, AssetKinds
<1>2. CASE ExplicitKind(in) # "none"
  BY <1>1, <1>2 DEF Detect
<1>3. CASE ExplicitKind(in) = "none"
  <2>1. Percent(65) \in Int
    BY Unit
  <2>2. ctx.high >= Percent(65) \/ ctx.high < Percent(65)
    BY <2>1
  <2>3. CASE ctx.high >= Percent(65)
    <3>1. ~(ctx.high < Percent(65))
      BY <2>1, <2>3
    <3>2. Detect(in, ctx) = "portfolio_loss"
      BY <1>3, <2>3, <3>1 DEF Detect
    <3> QED  BY <3>2 DEF SignalKinds, AssetKinds
  <2>4. CASE ctx.high < Percent(65)
    <3>1. ~(ctx.high >= Percent(65))
      BY <2>1, <2>4
    <3>2. Detect(in, ctx) = IF CashPressure(ctx) THEN "upcoming_card_payment_pressure"
                            ELSE "routine_check"
      BY <1>3, <2>4, <3>1 DEF Detect
    <3> QED  BY <3>2 DEF SignalKinds, AssetKinds
  <2> QED  BY <2>2, <2>3, <2>4
<1> QED  BY <1>2, <1>3

\* What the stub announces for a snapshot of all the customer owns.
LEMMA Announced ==
  ASSUME NEW ctx, ctx.total = Whole, ctx.high \in Int
  PROVE  Rebalance(ctx).amount = ctx.high - Percent(45) /\ Rebalance(ctx) \in PlanItems
<1>1. (Whole * ctx.high) \div Whole = ctx.high
  <2>1. Whole \in Nat \ {0} /\ Whole * ctx.high = Whole * ctx.high + 0 /\ 0 \in 0..(Whole - 1)
    BY UnitAssumption
  <2>2. Whole * ctx.high \in Int
    BY <2>1
  <2> QED  BY <2>1, <2>2, Quotient
<1>2. (Whole * 45) \div 100 = Percent(45)
  <2>1. Percent(45) \in Int /\ Whole * 45 = 100 * Percent(45) + 0 /\ Whole * 45 \in Int
    BY Unit
  <2>2. 100 \in Nat \ {0} /\ 0 \in 0..(100 - 1)
    OBVIOUS
  <2> QED  BY <2>1, <2>2, Quotient
<1>3. Rebalance(ctx).amount = ctx.high - Percent(45)
  BY <1>1, <1>2 DEF Rebalance
<1>4. ctx.high - Percent(45) \in Int
  <2>1. Percent(45) \in Int
    BY Unit
  <2> QED  BY <2>1
<1> QED  BY <1>1, <1>2, <1>3, <1>4 DEF Rebalance, PlanItems, ActionKinds

\* What the stub proposes.
LEMMA StubPlanned ==
  ASSUME NEW ctx, ctx.gap \in BOOLEAN, ctx.high \in Int, NEW kind,
         ctx.high >= Percent(55) => ctx.total = Whole
  PROVE  /\ StubPlan(kind, ctx) \in Seq(PlanItems)
         /\ \A i \in DOMAIN StubPlan(kind, ctx) :
              StubPlan(kind, ctx)[i].kind = "rebalance_portfolio" =>
                ctx.high >= Percent(55) /\ StubPlan(kind, ctx)[i] = Rebalance(ctx)
<1> DEFINE Fine(plan) == /\ plan \in Seq(PlanItems)
                         /\ \A i \in DOMAIN plan : plan[i].kind = "rebalance_portfolio" =>
                              ctx.high >= Percent(55) /\ plan[i] = Rebalance(ctx)
<1>1. /\ Report \in PlanItems /\ CashflowPlan \in PlanItems /\ Review \in PlanItems
      /\ Report.kind # "rebalance_portfolio" /\ CashflowPlan.kind # "rebalance_portfolio"
      /\ Review.kind # "rebalance_portfolio"
  BY DEF Report, CashflowPlan, Review, Item, PlanItems, ActionKinds
<1>2. ctx.high >= Percent(55) => Rebalance(ctx) \in PlanItems
  BY Announced
<1>3. Fine(AssetPlan(ctx))
  <2> DEFINE sell == IF ctx.high >= Percent(55) THEN <<Rebalance(ctx)>> ELSE <<>>
             cover == IF ctx.gap THEN <<Review>> ELSE <<>>
             start == <<Report, CashflowPlan>>
  <2>1. Fine(start) /\ Fine(sell) /\ Fine(cover)
    BY <1>1, <1>2
  <2>2. \A a, b : Fine(a) /\ Fine(b) => Fine(a \o b)
    <3> SUFFICES ASSUME NEW a, NEW b, Fine(a), Fine(b) PROVE Fine(a \o b)
      OBVIOUS
    <3>1. a \o b \in Seq(PlanItems) /\ Len(a) \in Nat /\ Len(b) \in Nat
          /\ DOMAIN (a \o b) = 1..(Len(a) + Len(b))
      OBVIOUS
    <3>2. ASSUME NEW i \in DOMAIN (a \o b)
          PROVE  \/ \E k \in DOMAIN a : (a \o b)[i] = a[k]
                 \/ \E k \in DOMAIN b : (a \o b)[i] = b[k]
      <4>1. CASE i <= Len(a)
        BY <3>1, <4>1
      <4>2. CASE i > Len(a)
        BY <3>1, <4>2
      <4> QED  BY <3>1, <4>1, <4>2
    <3> QED  BY <3>1, <3>2
  <2> HIDE DEF Fine, sell, cover, start
  <2>3. Fine(start \o sell \o cover)
    BY <2>1, <2>2
  <2> QED  BY <2>3 DEF AssetPlan, sell, cover, start
<1>4. Fine(InsurancePlan) /\ Fine(<<>>)
  BY <1>1 DEF InsurancePlan
<1>5. StubPlan(kind, ctx) \in {AssetPlan(ctx), InsurancePlan, <<>>}
  <2>1. "insurance_gap" \notin AssetKinds
    BY DEF AssetKinds
  <2>2. CASE kind \in AssetKinds
    BY <2>1, <2>2 DEF StubPlan
  <2>3. CASE kind \notin AssetKinds /\ (kind = "insurance_gap" \/ ctx.gap)
    BY <2>3 DEF StubPlan
  <2>4. CASE kind \notin AssetKinds /\ kind # "insurance_gap" /\ ~ctx.gap
    BY <2>4 DEF StubPlan
  <2> QED  BY <2>2, <2>3, <2>4
<1>6. Fine(StubPlan(kind, ctx))
  <2> HIDE DEF Fine
  <2> QED  BY <1>3, <1>4, <1>5
<1> QED  BY <1>6

-----------------------------------------------------------------------------
(* Steps that write no data, and what their thread carries after.          *)

LEMMA InitInv ==
  ASSUME Init
  PROVE  IInv
<1>1. customer \in Customers /\ planner \in Planners /\ rebalances = 0 /\ reviews = 0
      /\ shares = {} /\ torn = {}
  BY DEF Init
<1>2. /\ customer \in Profiles /\ Balanced(customer.holdings)
      /\ \A i \in DOMAIN customer.holdings : customer.holdings[i].amount >= 0
      /\ \A i, k \in DOMAIN customer.policies :
           customer.policies[i].name = customer.policies[k].name => i = k
      /\ \A i \in DOMAIN customer.policies : customer.policies[i].riders = 0
  BY <1>1, CustomersAssumption
<1>3. DataInv
  <2>1. Shape
    BY <1>1 DEF Shape, SameGrades
  <2>2. checks \in 0..MaxChecks /\ faults \in 0..MaxFaults
    BY BoundsAssumption DEF Init
  <2>3. RidersOnFirst
    <3>1. ASSUME NEW i \in FirstPolicies(customer.policies),
                 NEW k \in FirstPolicies(customer.policies)
          PROVE  i = k
      <4>1. /\ i \in DOMAIN customer.policies /\ k \in DOMAIN customer.policies
            /\ customer.policies[i].name <= customer.policies[k].name
            /\ customer.policies[k].name <= customer.policies[i].name
        BY DEF FirstPolicies, ActivePolicies
      <4>2. customer.policies \in Seq(PolicyRow)
        BY <1>2 DEF Profiles
      <4>3. customer.policies[i] \in PolicyRow /\ customer.policies[k] \in PolicyRow
        BY <4>1, <4>2
      <4>4. customer.policies[i].name \in Nat /\ customer.policies[k].name \in Nat
        BY <4>3 DEF PolicyRow
      <4> QED  BY <1>2, <4>1, <4>4
    <3> QED  BY <1>2, <3>1 DEF RidersOnFirst
  <2> QED  BY <1>1, <1>2, <2>1, <2>2, <2>3
           DEF DataInv, Untouched, Conserved, Resting, GapClosed
<1>4. PerThread
  BY DEF Init, PerThread
<1>5. ASSUME NEW t \in Threads PROVE ThreadInv(t)
  BY DEF Init, ThreadInv, ThreadTyped, At, Places, OffersTrue, AllTrue, InHand, InHandler,
         Unread, Readings
<1> QED  BY <1>3, <1>4, <1>5 DEF IInv

\* The snapshot of what is stored is a true one.
LEMMA ContextTrue ==
  ASSUME DataInv
  PROVE  SnapshotTrue(Context(customer))
<1> DEFINE hs == customer.holdings
<1>1. hs \in Seq(HoldingRow) /\ rebalances \in Nat
  BY DEF DataInv, Profiles
<1>2. /\ HighWeight(hs) \in Int /\ Total(hs) \in Int
      /\ Balanced(hs) => HighWeight(hs) = HighAmount(hs)
      /\ hs = <<>> => HighWeight(hs) = 0
  BY <1>1, TotalsTyped
<1>3. HasCardio(customer.policies) \in BOOLEAN
  BY DEF HasCardio
<1>4. rebalances = 0 => Balanced(hs) /\ (Total(hs) = Whole \/ HighWeight(hs) = 0)
  BY <1>2 DEF DataInv, Untouched, Balanced
<1>5. rebalances > 0 /\ planner = "local_stub" => HighWeight(hs) <= Percent(45)
  BY <1>1, RestIsLow DEF DataInv, Resting
<1>6. /\ Context(customer).high = HighWeight(hs) /\ Context(customer).total = Total(hs)
      /\ Context(customer).gap = ~HasCardio(customer.policies)
      /\ Context(customer).rebalances = rebalances
  BY DEF Context
<1>7. Context(customer).gap \in BOOLEAN
  BY <1>3, <1>6
<1> HIDE DEF hs
<1>8. /\ Context(customer).rebalances <= rebalances
      /\ Context(customer).high \in Int /\ Context(customer).total \in Int
  BY <1>1, <1>2, <1>6
<1> QED  BY <1>1, <1>2, <1>4, <1>5, <1>6, <1>7, <1>8 DEF SnapshotTrue, hs

LEMMA RefreshKeeps ==
  ASSUME IInv, NEW t \in Threads, Refresh(t), UNCHANGED planner
  PROVE  IInv'
<1>1. PICK in \in Inputs : input' = [input EXCEPT ![t] = in]
  BY DEF Refresh
<1>2. /\ At(t, "idle") /\ pc' = [pc EXCEPT ![t] = "detect"]
      /\ snapshot' = [snapshot EXCEPT ![t] = Context(customer)]
      /\ checks < MaxChecks /\ checks' = checks + 1
      /\ UNCHANGED <<planner, customer, signal, todo, held, open, work, seen, faults,
                     rebalances, shares, reviews, torn>>
  BY DEF Refresh, Goto
<1>3. PerThread /\ PerThread'
  BY <1>1, <1>2 DEF IInv, PerThread
<1>4. /\ pc'[t] = "detect" /\ input'[t] = in /\ snapshot'[t] = Context(customer)
      /\ \A u \in Threads \ {t} : SameThread(u)
  BY <1>1, <1>2, <1>3 DEF PerThread, SameThread
<1>5. checks' \in 0..MaxChecks /\ faults' \in 0..MaxFaults
  BY <1>2, BoundsAssumption DEF IInv, DataInv
<1>6. SnapshotTrue(snapshot[t])'
  BY <1>2, <1>4, ContextTrue DEF IInv, SnapshotTrue, Context
<1>7. ThreadTyped(t)'
  BY <1>2, <1>4 DEF IInv, ThreadInv, ThreadTyped, At, Places
<1>8. OffersTrue(t)'
  BY <1>2 DEF IInv, ThreadInv, OffersTrue, AllTrue, OfferTrue
<1>9. InHand(t)'
  BY <1>2, <1>4 DEF IInv, ThreadInv, InHand, InHandler, At
<1>10. ThreadInv(t)'
  BY <1>4, <1>6, <1>7, <1>8, <1>9 DEF ThreadInv
<1> QED  BY <1>2, <1>3, <1>4, <1>5, <1>10, OneThread

LEMMA DetectKeeps ==
  ASSUME IInv, NEW t \in Threads, DetectSignal(t), UNCHANGED planner
  PROVE  IInv'
<1>1. /\ At(t, "detect") /\ pc' = [pc EXCEPT ![t] = "spawn"]
      /\ signal' = [signal EXCEPT ![t] = Detect(input[t], snapshot[t])]
      /\ input' = [input EXCEPT ![t] = NoInput]
      /\ UNCHANGED <<planner, customer, snapshot, todo, held, open, work, seen, checks, faults,
                     rebalances, shares, reviews, torn>>
  BY DEF DetectSignal, Goto
<1>2. PerThread /\ PerThread'
  BY <1>1 DEF IInv, PerThread
<1>3. /\ pc'[t] = "spawn" /\ input'[t] = NoInput /\ signal'[t] = Detect(input[t], snapshot[t])
      /\ \A u \in Threads \ {t} : SameThread(u)
  BY <1>1, <1>2 DEF PerThread, SameThread
<1>4. SnapshotTrue(snapshot[t]) /\ input[t] \in Inputs \cup {NoInput}
  BY <1>1 DEF IInv, ThreadInv, ThreadTyped, At
<1>5. Detect(input[t], snapshot[t]) \in SignalKinds
  BY <1>4, DetectTyped DEF SnapshotTrue
<1>6. SnapshotTrue(snapshot[t])'
  BY <1>1, <1>4 DEF SnapshotTrue
<1>7. ThreadTyped(t)'
  BY <1>1, <1>3, <1>5 DEF IInv, ThreadInv, ThreadTyped, At, Places
<1>8. OffersTrue(t)'
  BY <1>1 DEF IInv, ThreadInv, OffersTrue, AllTrue, OfferTrue
<1>9. InHand(t)'
  BY <1>1, <1>3 DEF IInv, ThreadInv, InHand, InHandler, At
<1>10. ThreadInv(t)'
  BY <1>3, <1>6, <1>7, <1>8, <1>9 DEF ThreadInv
<1> QED  BY <1>1, <1>2, <1>3, <1>10, OneThread DEF IInv, DataInv

\* A plan made on a true snapshot is one that may be offered.
LEMMA PlanTrue ==
  ASSUME IInv, NEW ctx, SnapshotTrue(ctx), NEW kind, NEW plan \in PlansFor(kind, ctx)
  PROVE  /\ plan \in Seq(PlanItems)
         /\ \A i \in DOMAIN plan : OfferTrue([item |-> plan[i], after |-> ctx.rebalances])
<1>1. CASE planner = "local_stub"
  <2>1. plan = StubPlan(kind, ctx)
    BY <1>1 DEF PlansFor
  <2>2. Percent(45) \in Int /\ Percent(55) \in Int /\ 0 < Percent(45) /\ Percent(45) < Percent(55)
    BY Unit
  <2>3. ctx.high \in Int /\ ctx.gap \in BOOLEAN /\ ctx.rebalances \in Nat
    BY DEF SnapshotTrue
  <2>4. ctx.high >= Percent(55) => ctx.rebalances = 0
    BY <1>1, <2>2, <2>3 DEF SnapshotTrue
  <2>5. ctx.high >= Percent(55) => ctx.total = Whole
    BY <2>2, <2>3, <2>4 DEF SnapshotTrue
  <2>6. /\ plan \in Seq(PlanItems)
        /\ \A i \in DOMAIN plan : plan[i].kind = "rebalance_portfolio" =>
             ctx.high >= Percent(55) /\ plan[i] = Rebalance(ctx)
    BY <2>1, <2>3, <2>5, StubPlanned
  <2>7. ASSUME NEW i \in DOMAIN plan, plan[i].kind = "rebalance_portfolio"
        PROVE  /\ plan[i].target = 45 /\ ctx.rebalances = 0
               /\ plan[i].amount = ctx.high - Percent(45)
    <3>1. plan[i] = Rebalance(ctx) /\ ctx.high >= Percent(55)
      BY <2>6, <2>7
    <3>2. Rebalance(ctx).amount = ctx.high - Percent(45)
      BY <2>3, <2>5, <3>1, Announced
    <3> QED  BY <2>4, <3>1, <3>2 DEF Rebalance
  <2>8. rebalances = 0 /\ ctx.rebalances = 0 => ctx.high = HighAmount(customer.holdings)
    BY DEF SnapshotTrue
  <2>9. 45 \in Targets
    BY DEF Targets
  <2> QED  BY <2>6, <2>7, <2>8, <2>9 DEF OfferTrue
<1>2. CASE planner # "local_stub"
  <2>1. plan \in CodexPlans
    BY <1>2 DEF PlansFor
  <2>2. plan \in Seq(PlanItems) /\ \A i \in DOMAIN plan : plan[i].target \in Targets
    BY <2>1, PlansAssumption DEF Targets
  <2> QED  BY <1>2, <2>2 DEF OfferTrue
<1> QED  BY <1>1, <1>2

LEMMA SpawnKeeps ==
  ASSUME IInv, NEW t \in Threads, SpawnAgent(t), UNCHANGED planner
  PROVE  IInv'
<1>1. PICK plan \in PlansFor(signal[t], snapshot[t]) :
        todo' = [todo EXCEPT ![t] = [i \in DOMAIN plan |->
                  [item |-> plan[i], after |-> snapshot[t].rebalances]]]
  BY DEF SpawnAgent
<1>2. /\ At(t, "spawn") /\ pc' = [pc EXCEPT ![t] = "policy"]
      /\ signal' = [signal EXCEPT ![t] = "none"]
      /\ snapshot' = [snapshot EXCEPT ![t] = Nothing]
      /\ UNCHANGED <<planner, customer, input, held, open, work, seen, checks, faults,
                     rebalances, shares, reviews, torn>>
  BY DEF SpawnAgent, Goto
<1> DEFINE offers == [i \in DOMAIN plan |-> [item |-> plan[i], after |-> snapshot[t].rebalances]]
<1>3. PerThread /\ PerThread'
  BY <1>1, <1>2 DEF IInv, PerThread
<1>4. /\ pc'[t] = "policy" /\ signal'[t] = "none" /\ todo'[t] = offers
      /\ \A u \in Threads \ {t} : SameThread(u)
  BY <1>1, <1>2, <1>3 DEF PerThread, SameThread
<1>5. SnapshotTrue(snapshot[t])
  BY <1>2 DEF IInv, ThreadInv, At
<1>6. /\ plan \in Seq(PlanItems)
      /\ \A i \in DOMAIN plan : OfferTrue([item |-> plan[i], after |-> snapshot[t].rebalances])
  BY <1>5, PlanTrue
<1>7. offers \in Seq(Offers) /\ AllTrue(offers)
  <2>1. snapshot[t].rebalances \in Nat
    BY <1>5 DEF SnapshotTrue
  <2>2. \A i \in DOMAIN plan : [item |-> plan[i], after |-> snapshot[t].rebalances] \in Offers
    BY <1>6, <2>1 DEF Offers
  <2> QED  BY <1>6, <2>2 DEF AllTrue
<1> HIDE DEF offers
<1>8. ThreadTyped(t)'
  BY <1>2, <1>4, <1>7 DEF IInv, ThreadInv, ThreadTyped, At, Places
<1>9. OffersTrue(t)'
  <2>1. AllTrue(todo[t])'
    BY <1>2, <1>4, <1>7 DEF AllTrue, OfferTrue
  <2>2. AllTrue(open[t])'
    BY <1>2 DEF IInv, ThreadInv, OffersTrue, AllTrue, OfferTrue
  <2> QED  BY <2>1, <2>2 DEF OffersTrue
<1>10. InHand(t)'
  BY <1>2, <1>4 DEF IInv, ThreadInv, InHand, InHandler, At
<1>11. ThreadInv(t)'
  BY <1>4, <1>8, <1>9, <1>10 DEF ThreadInv
<1> QED  BY <1>2, <1>3, <1>4, <1>11, OneThread DEF IInv, DataInv

\* A step that leaves the data alone and takes the thread to a place where it relies
\* on nothing it has read.
LEMMA MovesOn ==
  ASSUME IInv, NEW t \in Threads,
         pc'[t] \in Places \ {"detect", "spawn", "rebalance", "coverage", "insert"},
         PerThread', \A u \in Threads \ {t} : SameThread(u),
         UNCHANGED <<planner, customer, rebalances, shares, reviews, torn>>,
         checks' \in 0..MaxChecks, faults' \in 0..MaxFaults,
         ThreadTyped(t)', InHand(t)', AllTrue(todo'[t]), AllTrue(open'[t])
  PROVE  IInv'
<1>1. OffersTrue(t)'
  BY DEF OffersTrue, AllTrue, OfferTrue
<1>2. ThreadInv(t)'
  BY <1>1 DEF ThreadInv
<1> QED  BY <1>2, OneThread

\* What is a part of true offers is true.
LEMMA StillTrue ==
  ASSUME NEW s, NEW r, AllTrue(s), \A k \in DOMAIN r : \E j \in DOMAIN s : r[k] = s[j]
  PROVE  AllTrue(r)
  BY DEF AllTrue

\* The proposals of a thread, with and without one of them.
LEMMA OpenWithout ==
  ASSUME IInv, NEW t \in Threads, NEW i \in DOMAIN open[t]
  PROVE  RemoveAt(open[t], i) \in Seq(Offers) /\ AllTrue(RemoveAt(open[t], i))
<1>1. open[t] \in Seq(Offers) /\ AllTrue(open[t])
  BY DEF IInv, ThreadInv, ThreadTyped, OffersTrue
<1> QED  BY <1>1, Removed, StillTrue

LEMMA TodoWithout ==
  ASSUME IInv, NEW t \in Threads, todo[t] # <<>>
  PROVE  /\ Tail(todo[t]) \in Seq(Offers) /\ AllTrue(Tail(todo[t]))
         /\ Head(todo[t]) \in Offers /\ OfferTrue(Head(todo[t]))
<1>1. todo[t] \in Seq(Offers) /\ AllTrue(todo[t])
  BY DEF IInv, ThreadInv, ThreadTyped, OffersTrue
<1>2. AllTrue(Tail(todo[t]))
  <2>1. \A k \in DOMAIN Tail(todo[t]) : \E j \in DOMAIN todo[t] : Tail(todo[t])[k] = todo[t][j]
    BY <1>1, TailOf
  <2> QED  BY <1>1, <2>1, StillTrue
<1> QED  BY <1>1, <1>2, TailOf DEF AllTrue

LEMMA Joined ==
  ASSUME NEW s \in Seq(Offers), NEW r \in Seq(Offers), AllTrue(s), AllTrue(r)
  PROVE  s \o r \in Seq(Offers) /\ AllTrue(s \o r)
<1>1. s \o r \in Seq(Offers) /\ Len(s) \in Nat /\ Len(r) \in Nat
      /\ DOMAIN (s \o r) = 1..(Len(s) + Len(r))
  OBVIOUS
<1>2. ASSUME NEW i \in DOMAIN (s \o r)
      PROVE  \/ \E k \in DOMAIN s : (s \o r)[i] = s[k]
             \/ \E k \in DOMAIN r : (s \o r)[i] = r[k]
  <2>1. CASE i <= Len(s)
    BY <1>1, <2>1
  <2>2. CASE i > Len(s)
    BY <1>1, <2>2
  <2> QED  BY <1>1, <2>1, <2>2
<1> QED  BY <1>1, <1>2 DEF AllTrue

LEMMA KeepKeeps ==
  ASSUME IInv, NEW t \in Threads, KeepForApproval(t), UNCHANGED planner
  PROVE  IInv'
<1>1. /\ At(t, "policy") /\ todo[t] # <<>>
      /\ open' = [open EXCEPT ![t] = Append(open[t], Head(todo[t]))]
      /\ todo' = [todo EXCEPT ![t] = Tail(todo[t])]
      /\ held' = [held EXCEPT ![t] = TRUE]
      /\ UNCHANGED <<planner, customer, pc, input, snapshot, signal, work, seen, checks, faults,
                     rebalances, shares, reviews, torn>>
  BY DEF KeepForApproval
<1>2. PerThread /\ PerThread'
  BY <1>1 DEF IInv, PerThread
<1>3. /\ pc'[t] = "policy" /\ todo'[t] = Tail(todo[t]) /\ held'[t] = TRUE
      /\ open'[t] = Append(open[t], Head(todo[t]))
      /\ \A u \in Threads \ {t} : SameThread(u)
  BY <1>1, <1>2 DEF PerThread, SameThread, At
<1>4. open[t] \in Seq(Offers) /\ AllTrue(open[t])
  BY DEF IInv, ThreadInv, ThreadTyped, OffersTrue
<1>5. /\ Head(todo[t]) \in Offers /\ OfferTrue(Head(todo[t]))
      /\ Tail(todo[t]) \in Seq(Offers) /\ AllTrue(Tail(todo[t]))
  BY <1>1, TodoWithout
<1>6. open'[t] \in Seq(Offers) /\ AllTrue(open'[t])
  BY <1>3, <1>4, <1>5 DEF AllTrue
<1>7. ThreadTyped(t)'
  BY <1>1, <1>3, <1>5, <1>6 DEF IInv, ThreadInv, ThreadTyped, At
<1>8. InHand(t)'
  BY <1>1, <1>3 DEF IInv, ThreadInv, InHand, InHandler, At
<1>9. pc'[t] \in Places \ {"detect", "spawn", "rebalance", "coverage", "insert"}
  BY <1>3 DEF Places
<1> QED  BY <1>1, <1>2, <1>3, <1>5, <1>6, <1>7, <1>8, <1>9, MovesOn DEF IInv, DataInv

\* Which handler runs for what.
LEMMA HandlerIs ==
  ASSUME NEW item
  PROVE  /\ HandlerOf(item) \in {"holdings", "review", "record"}
         /\ HandlerOf(item) = "holdings" => item.kind = "rebalance_portfolio"
<1>1. CASE item.kind = "rebalance_portfolio"
  BY <1>1 DEF HandlerOf
<1>2. CASE item.kind = "review_insurance"
  BY <1>2 DEF HandlerOf
<1>3. CASE item.kind \notin {"rebalance_portfolio", "review_insurance"}
  BY <1>3 DEF HandlerOf
<1> QED  BY <1>1, <1>2, <1>3

LEMMA AutoKeeps ==
  ASSUME IInv, NEW t \in Threads, AutoExecute(t), UNCHANGED planner
  PROVE  IInv'
<1> DEFINE place == HandlerOf(Head(todo[t]).item)
<1>1. /\ At(t, "policy") /\ todo[t] # <<>> /\ pc' = [pc EXCEPT ![t] = place]
      /\ UNCHANGED <<planner, customer, input, snapshot, signal, todo, held, open, work, seen,
                     checks, faults, rebalances, shares, reviews, torn>>
  BY DEF AutoExecute, Goto
<1>2. /\ place \in {"holdings", "review", "record"}
      /\ place = "holdings" => Head(todo[t]).item.kind = "rebalance_portfolio"
  BY HandlerIs
<1> HIDE DEF place
<1>3. PerThread /\ PerThread' /\ work[t] = 0 /\ AllTrue(todo[t]) /\ AllTrue(open[t])
  BY <1>1 DEF IInv, PerThread, ThreadInv, OffersTrue, InHand, InHandler, At
<1>4. pc'[t] = place /\ \A u \in Threads \ {t} : SameThread(u)
  BY <1>1, <1>3 DEF PerThread, SameThread
<1>5. InHand(t)'
  BY <1>1, <1>2, <1>3, <1>4 DEF InHand, InHandler, Offer
<1>6. pc'[t] \in Places \ {"detect", "spawn", "rebalance", "coverage", "insert"}
  BY <1>2, <1>4 DEF Places
<1>7. ThreadTyped(t)'
  BY <1>1, <1>4, <1>6 DEF IInv, ThreadInv, ThreadTyped, At
<1> QED  BY <1>1, <1>3, <1>4, <1>5, <1>6, <1>7, MovesOn DEF IInv, DataInv

LEMMA PolicyDoneKeeps ==
  ASSUME IInv, NEW t \in Threads, PolicyDone(t), UNCHANGED planner
  PROVE  IInv'
<1> DEFINE place == IF held[t] THEN "approval" ELSE "idle"
<1>1. /\ At(t, "policy") /\ pc' = [pc EXCEPT ![t] = place]
      /\ held' = [held EXCEPT ![t] = FALSE]
      /\ UNCHANGED <<planner, customer, input, snapshot, signal, todo, open, work, seen, checks,
                     faults, rebalances, shares, reviews, torn>>
  BY DEF PolicyDone, Goto
<1>2. place \in {"idle", "approval"}
  OBVIOUS
<1> HIDE DEF place
<1>3. PerThread /\ PerThread' /\ work[t] = 0 /\ AllTrue(todo[t]) /\ AllTrue(open[t])
  BY <1>1 DEF IInv, PerThread, ThreadInv, OffersTrue, InHand, InHandler, At
<1>4. pc'[t] = place /\ held'[t] = FALSE /\ \A u \in Threads \ {t} : SameThread(u)
  BY <1>1, <1>3 DEF PerThread, SameThread
<1>5. InHand(t)'
  BY <1>1, <1>2, <1>3, <1>4 DEF InHand, InHandler
<1>6. pc'[t] \in Places \ {"detect", "spawn", "rebalance", "coverage", "insert"}
  BY <1>2, <1>4 DEF Places
<1>7. ThreadTyped(t)'
  BY <1>1, <1>4, <1>6 DEF IInv, ThreadInv, ThreadTyped, At
<1> QED  BY <1>1, <1>3, <1>4, <1>5, <1>6, <1>7, MovesOn DEF IInv, DataInv

LEMMA ApproveKeeps ==
  ASSUME IInv, NEW t \in Threads, Approve(t), UNCHANGED planner
  PROVE  IInv'
<1>1. PICK i \in DOMAIN open[t] : /\ work' = [work EXCEPT ![t] = i]
                                  /\ pc' = [pc EXCEPT ![t] = HandlerOf(open[t][i].item)]
  BY DEF Approve, Goto
<1> DEFINE place == HandlerOf(open[t][i].item)
<1>2. /\ At(t, "approval") /\ pc' = [pc EXCEPT ![t] = place]
      /\ UNCHANGED <<planner, customer, input, snapshot, signal, todo, held, open, seen, checks,
                     faults, rebalances, shares, reviews, torn>>
  BY <1>1 DEF Approve
<1>3. /\ place \in {"holdings", "review", "record"}
      /\ place = "holdings" => open[t][i].item.kind = "rebalance_portfolio"
  BY HandlerIs
<1> HIDE DEF place
<1>4. PerThread /\ PerThread' /\ AllTrue(todo[t]) /\ AllTrue(open[t]) /\ i \in Nat \ {0}
  BY <1>1, <1>2 DEF IInv, PerThread, ThreadInv, ThreadTyped, OffersTrue
<1>5. pc'[t] = place /\ work'[t] = i /\ \A u \in Threads \ {t} : SameThread(u)
  BY <1>1, <1>2, <1>4 DEF PerThread, SameThread
<1>6. InHand(t)'
  BY <1>2, <1>3, <1>4, <1>5 DEF InHand, InHandler, Offer
<1>7. pc'[t] \in Places \ {"detect", "spawn", "rebalance", "coverage", "insert"}
  BY <1>3, <1>5 DEF Places
<1>8. ThreadTyped(t)'
  BY <1>2, <1>4, <1>5, <1>7 DEF IInv, ThreadInv, ThreadTyped, At
<1> QED  BY <1>2, <1>4, <1>5, <1>6, <1>7, <1>8, MovesOn DEF IInv, DataInv

\* A proposal is closed, and the thread waits for the next one or for a signal.
LEMMA ClosedIs ==
  ASSUME IInv, NEW t \in Threads, NEW i \in DOMAIN open[t], Closed(t, i)
  PROVE  /\ pc'[t] \in {"approval", "idle"}
         /\ open'[t] \in Seq(Offers) /\ AllTrue(open'[t])
         /\ DOMAIN pc' = Threads /\ DOMAIN open' = Threads
         /\ \A u \in Threads \ {t} : pc'[u] = pc[u] /\ open'[u] = open[u]
<1>1. DOMAIN pc = Threads /\ DOMAIN open = Threads
  BY DEF IInv, PerThread
<1>2. open' = [open EXCEPT ![t] = RemoveAt(open[t], i)]
  BY DEF Closed
<1>3. \E place \in {"approval", "idle"} : pc' = [pc EXCEPT ![t] = place]
  BY DEF Closed, Goto
<1>4. open'[t] = RemoveAt(open[t], i)
  BY <1>1, <1>2
<1> QED  BY <1>1, <1>2, <1>3, <1>4, OpenWithout

LEMMA DeclineKeeps ==
  ASSUME IInv, NEW t \in Threads, Decline(t), UNCHANGED planner
  PROVE  IInv'
<1>1. PICK i \in DOMAIN open[t] : Closed(t, i)
  BY DEF Decline
<1>2. /\ At(t, "approval")
      /\ UNCHANGED <<planner, customer, input, snapshot, signal, todo, held, work, seen, checks,
                     faults, rebalances, shares, reviews, torn>>
  BY DEF Decline
<1>3. /\ pc'[t] \in {"approval", "idle"}
      /\ open'[t] \in Seq(Offers) /\ AllTrue(open'[t])
      /\ DOMAIN pc' = Threads /\ DOMAIN open' = Threads
      /\ \A u \in Threads \ {t} : pc'[u] = pc[u] /\ open'[u] = open[u]
  BY <1>1, ClosedIs
<1>4. PerThread' /\ \A u \in Threads \ {t} : SameThread(u)
  BY <1>2, <1>3 DEF IInv, PerThread, SameThread
<1>5. work[t] = 0 /\ AllTrue(todo[t])
  BY <1>2 DEF IInv, ThreadInv, OffersTrue, InHand, InHandler, At
<1>6. pc'[t] \in Places \ {"detect", "spawn", "rebalance", "coverage", "insert"}
  BY <1>3 DEF Places
<1>7. ThreadTyped(t)'
  BY <1>2, <1>3, <1>6 DEF IInv, ThreadInv, ThreadTyped, At
<1>8. InHand(t)'
  BY <1>2, <1>3, <1>5 DEF InHand, InHandler
<1> QED  BY <1>2, <1>3, <1>4, <1>5, <1>6, <1>7, <1>8, MovesOn DEF IInv, DataInv

LEMMA RecordKeeps ==
  ASSUME IInv, NEW t \in Threads, Record(t), UNCHANGED planner
  PROVE  IInv'
<1>1. /\ At(t, "record") /\ work' = [work EXCEPT ![t] = 0]
      /\ UNCHANGED <<planner, customer, input, snapshot, signal, held, seen, checks, faults,
                     rebalances, shares, reviews, torn>>
  BY DEF Record
<1>2. /\ PerThread /\ todo[t] \in Seq(Offers) /\ open[t] \in Seq(Offers)
      /\ AllTrue(todo[t]) /\ AllTrue(open[t])
      /\ IF work[t] = 0 THEN todo[t] # <<>> ELSE work[t] \in DOMAIN open[t]
  BY <1>1 DEF IInv, ThreadInv, ThreadTyped, OffersTrue, InHand, InHandler, At
<1>3. /\ pc'[t] \in {"policy", "approval", "idle"}
      /\ todo'[t] \in Seq(Offers) /\ open'[t] \in Seq(Offers)
      /\ AllTrue(todo'[t]) /\ AllTrue(open'[t])
      /\ DOMAIN pc' = Threads /\ DOMAIN todo' = Threads /\ DOMAIN open' = Threads
      /\ \A u \in Threads \ {t} : pc'[u] = pc[u] /\ todo'[u] = todo[u] /\ open'[u] = open[u]
  <2>1. CASE work[t] = 0
    <3>1. /\ todo' = [todo EXCEPT ![t] = Tail(todo[t])] /\ open' = open
          /\ pc' = [pc EXCEPT ![t] = "policy"]
      BY <2>1 DEF Record, Goto
    <3>2. Tail(todo[t]) \in Seq(Offers) /\ AllTrue(Tail(todo[t]))
      BY <1>2, <2>1, TodoWithout
    <3> QED  BY <1>2, <3>1, <3>2 DEF PerThread
  <2>2. CASE work[t] # 0
    <3>1. Closed(t, work[t]) /\ todo' = todo
      BY <2>2 DEF Record
    <3>2. work[t] \in DOMAIN open[t]
      BY <1>2, <2>2
    <3> QED  BY <1>2, <3>1, <3>2, ClosedIs DEF PerThread
  <2> QED  BY <2>1, <2>2
<1>4. PerThread' /\ work'[t] = 0 /\ \A u \in Threads \ {t} : SameThread(u)
  BY <1>1, <1>2, <1>3 DEF PerThread, SameThread
<1>5. pc'[t] \in Places \ {"detect", "spawn", "rebalance", "coverage", "insert"}
  BY <1>3 DEF Places
<1>6. ThreadTyped(t)'
  BY <1>1, <1>3, <1>4, <1>5 DEF IInv, ThreadInv, ThreadTyped, At
<1>7. InHand(t)'
  BY <1>3, <1>4 DEF InHand, InHandler
<1> QED  BY <1>1, <1>3, <1>4, <1>5, <1>6, <1>7, MovesOn DEF IInv, DataInv

\* What the plan left is offered later.
LEMMA BreakOffKeeps ==
  ASSUME IInv, NEW t \in Threads, BreakOff(t), UNCHANGED planner
  PROVE  IInv'
<1> DEFINE place == IF work[t] = 0 THEN "idle" ELSE "approval"
<1>1. /\ pc' = [pc EXCEPT ![t] = place]
      /\ faults < MaxFaults /\ faults' = faults + 1
      /\ input' = [input EXCEPT ![t] = NoInput]
      /\ snapshot' = [snapshot EXCEPT ![t] = Nothing]
      /\ signal' = [signal EXCEPT ![t] = "none"]
      /\ open' = [open EXCEPT ![t] = open[t] \o todo[t]]
      /\ todo' = [todo EXCEPT ![t] = <<>>]
      /\ held' = [held EXCEPT ![t] = FALSE]
      /\ work' = [work EXCEPT ![t] = 0]
      /\ seen' = [seen EXCEPT ![t] = Unread]
      /\ UNCHANGED <<planner, customer, checks, rebalances, shares, reviews, torn>>
  BY DEF BreakOff, Goto
<1>2. place \in {"idle", "approval"}
  OBVIOUS
<1> HIDE DEF place
<1>3. PerThread /\ PerThread'
  BY <1>1 DEF IInv, PerThread
<1>4. /\ pc'[t] = place /\ input'[t] = NoInput /\ signal'[t] = "none"
      /\ open'[t] = open[t] \o todo[t] /\ todo'[t] = <<>> /\ held'[t] = FALSE
      /\ work'[t] = 0 /\ seen'[t] = Unread
      /\ \A u \in Threads \ {t} : SameThread(u)
  BY <1>1, <1>3 DEF PerThread, SameThread
<1>5. open'[t] \in Seq(Offers) /\ AllTrue(open'[t])
  <2>1. open[t] \in Seq(Offers) /\ todo[t] \in Seq(Offers) /\ AllTrue(open[t]) /\ AllTrue(todo[t])
    BY DEF IInv, ThreadInv, ThreadTyped, OffersTrue
  <2> QED  BY <1>4, <2>1, Joined
<1>6. AllTrue(todo'[t])
  BY <1>4 DEF AllTrue
<1>7. pc'[t] \in Places \ {"detect", "spawn", "rebalance", "coverage", "insert"}
  BY <1>2, <1>4 DEF Places
<1>8. ThreadTyped(t)'
  <2>1. Unread \in Readings
    BY DEF Unread, Readings
  <2>2. todo'[t] \in Seq(Offers) /\ pc'[t] # "spawn" /\ 0 \in Nat
    BY <1>2, <1>4
  <2> QED  BY <1>4, <1>5, <1>7, <2>1, <2>2 DEF ThreadTyped, At
<1>9. InHand(t)'
  BY <1>2, <1>4 DEF InHand, InHandler
<1>10. checks' \in 0..MaxChecks /\ faults' \in 0..MaxFaults
  BY <1>1, BoundsAssumption DEF IInv, DataInv
<1> QED  BY <1>1, <1>3, <1>4, <1>5, <1>6, <1>7, <1>8, <1>9, <1>10, MovesOn

LEMMA ReadKeeps ==
  ASSUME IInv, NEW t \in Threads, ReadHoldings(t), UNCHANGED planner
  PROVE  IInv'
<1>1. /\ At(t, "holdings") /\ pc' = [pc EXCEPT ![t] = "rebalance"]
      /\ Total(customer.holdings) > 0
      /\ seen' = [seen EXCEPT ![t].holdings = customer.holdings]
      /\ UNCHANGED <<planner, customer, input, snapshot, signal, todo, held, open, work, checks,
                     faults, rebalances, shares, reviews, torn>>
  BY DEF ReadHoldings, Goto
<1>2. PerThread /\ PerThread'
  BY <1>1 DEF IInv, PerThread
<1>3. customer.holdings \in Seq(HoldingRow) /\ seen[t] \in Readings
  BY DEF IInv, DataInv, Profiles, ThreadInv, ThreadTyped
<1>4. /\ pc'[t] = "rebalance" /\ seen'[t] = [seen[t] EXCEPT !.holdings = customer.holdings]
      /\ \A u \in Threads \ {t} : SameThread(u)
  BY <1>1, <1>2 DEF PerThread, SameThread
<1>5. seen'[t] \in Readings /\ seen'[t].holdings = customer.holdings
  BY <1>3, <1>4 DEF Readings
<1>6. ThreadTyped(t)'
  BY <1>1, <1>4, <1>5 DEF IInv, ThreadInv, ThreadTyped, At, Places
<1>7. OffersTrue(t)'
  BY <1>1 DEF IInv, ThreadInv, OffersTrue, AllTrue, OfferTrue
<1>8. InHand(t)'
  BY <1>1, <1>4 DEF IInv, ThreadInv, InHand, InHandler, At, Offer
<1>9. ReadTrue(seen[t].holdings)'
  <2>1. customer.holdings # <<>>
    BY <1>1, <1>3, TotalsTyped
  <2> QED  BY <1>1, <1>5, <2>1 DEF IInv, DataInv, Resting, ReadTrue, SameGrades
<1>10. ThreadInv(t)'
  BY <1>4, <1>6, <1>7, <1>8, <1>9 DEF ThreadInv
<1> QED  BY <1>1, <1>2, <1>4, <1>10, OneThread DEF IInv, DataInv

\* The steps of a handler that find nothing.
LEMMA NothingKeeps ==
  ASSUME IInv, NEW t \in Threads, ReadNothing(t) \/ LookInVain(t), UNCHANGED planner
  PROVE  IInv'
<1>1. PICK place \in {"record", "newpolicy"} :
        /\ pc' = [pc EXCEPT ![t] = place]
        /\ seen' = seen \/ seen' = [seen EXCEPT ![t] = Unread]
  BY DEF ReadNothing, LookInVain, Handled, Goto
<1>2. /\ At(t, "holdings") \/ At(t, "review")
      /\ UNCHANGED <<planner, customer, input, snapshot, signal, todo, held, open, work, checks,
                     faults, rebalances, shares, reviews, torn>>
  BY DEF ReadNothing, LookInVain, Handled
<1>3. PerThread /\ PerThread'
  BY <1>1, <1>2 DEF IInv, PerThread
<1>4. /\ pc'[t] = place /\ seen'[t] \in {seen[t], Unread}
      /\ \A u \in Threads \ {t} : SameThread(u)
  BY <1>1, <1>2, <1>3 DEF PerThread, SameThread
<1>5. seen'[t] \in Readings
  <2>1. seen[t] \in Readings
    BY DEF IInv, ThreadInv, ThreadTyped
  <2>2. Unread \in Readings
    BY DEF Unread, Readings
  <2> QED  BY <1>4, <2>1, <2>2
<1>6. pc'[t] \in Places \ {"detect", "spawn", "rebalance", "coverage", "insert"}
  BY <1>4 DEF Places
<1>7. ThreadTyped(t)'
  BY <1>2, <1>4, <1>5, <1>6 DEF IInv, ThreadInv, ThreadTyped, At
<1>8. InHand(t)'
  BY <1>2, <1>4 DEF IInv, ThreadInv, InHand, InHandler, At
<1>9. AllTrue(todo'[t]) /\ AllTrue(open'[t])
  BY <1>2 DEF IInv, ThreadInv, OffersTrue
<1> QED  BY <1>2, <1>3, <1>4, <1>6, <1>7, <1>8, <1>9, MovesOn DEF IInv, DataInv

-----------------------------------------------------------------------------
(* Steps that write holdings.                                               *)

LEMMA TargetsAreNumbers ==
  ASSUME NEW t \in Targets
  PROVE  t \in Int
<1>1. CASE t = 45
  BY <1>1
<1>2. CASE t # 45
  <2>1. PICK plan \in CodexPlans : \E i \in DOMAIN plan : t = plan[i].target
    BY <1>2 DEF Targets
  <2>2. plan \in Seq(PlanItems)
    BY PlansAssumption
  <2>3. PICK item \in PlanItems : t = item.target
    BY <2>1, <2>2
  <2> QED  BY <2>3 DEF PlanItems
<1> QED  BY <1>1, <1>2

\* What a handler makes of balanced holdings it has read.
LEMMA RebalanceComputes ==
  ASSUME NEW read \in Seq(HoldingRow), read # <<>>, Balanced(read),
         NEW c \in Customers, SameGrades(read, c.holdings),
         NEW tg \in Targets, TargetHigh(tg) <= 100
  PROVE  LET new == Rebalanced(read, tg)
         IN  /\ Balanced(new) /\ HighAmount(new) = Percent(TargetHigh(tg))
             /\ TargetHigh(tg) \in 0..100 => \A i \in DOMAIN new : new[i].amount >= 0
             /\ tg = 45 => AtRest(new)
<1> DEFINE new == Rebalanced(read, tg)
<1>1. tg \in Int /\ Total(read) \in Int
  BY TargetsAreNumbers, TotalsTyped
<1>2. /\ new \in Seq(HoldingRow) /\ SameGrades(new, read)
      /\ \A i \in DOMAIN read :
           /\ new[i].weight = Percent(SideTarget(read[i], tg)) \div Sharers(read[i], read)
           /\ TargetHigh(tg) \in 0..100 => new[i].weight >= 0
  BY <1>1, RebalancedRows
<1>3. c.holdings # <<>>
  <2>1. Len(read) # 0 /\ Len(read) \in Nat /\ DOMAIN read = 1..Len(read)
    OBVIOUS
  <2>2. 1 \in DOMAIN read
    BY <2>1
  <2>3. 1 \in DOMAIN c.holdings
    BY <2>2 DEF SameGrades
  <2> QED  BY <2>3
<1>4. PICK i \in DOMAIN c.holdings, k \in DOMAIN c.holdings :
        IsHigh(c.holdings[i]) /\ ~IsHigh(c.holdings[k])
  BY <1>3, CustomersAssumption
<1>5. High(read) # {} /\ Low(read) # {}
  BY <1>4 DEF High, Low, IsHigh, SameGrades
<1>6. Divides(read, tg)
  BY SharesAssumption, GradesDecide
<1>7. Balanced(new) /\ HighAmount(new) = Percent(TargetHigh(tg))
  BY <1>1, <1>5, <1>6, BalancedAgain
<1> HIDE DEF new
<1>8. ASSUME TargetHigh(tg) \in 0..100
      PROVE  \A j \in DOMAIN new : new[j].amount >= 0
  BY <1>2, <1>7, <1>8 DEF Balanced, SameGrades
<1>9. ASSUME tg = 45
      PROVE  AtRest(new)
  <2>1. DOMAIN new = DOMAIN read
    BY <1>2 DEF SameGrades
  <2>2. /\ \A j \in DOMAIN new : SideTarget(new[j], 45) = SideTarget(read[j], 45)
        /\ \A j \in DOMAIN new : Sharers(new[j], new) = Sharers(read[j], read)
    BY <1>2, GradesDecide
  <2> QED  BY <1>2, <1>9, <2>1, <2>2 DEF AtRest
<1> QED  BY <1>7, <1>8, <1>9 DEF new

LEMMA GradesOfGrades ==
  ASSUME NEW hs, NEW gs, NEW fs, SameGrades(hs, gs), SameGrades(gs, fs)
  PROVE  SameGrades(hs, fs) /\ SameGrades(gs, hs)
  BY DEF SameGrades

\* The handler that runs has something to run for, and asks for a known share.
LEMMA RunsForRebalance ==
  ASSUME IInv, NEW t \in Threads, At(t, "rebalance")
  PROVE  OfferTrue(Offer(t)) /\ Offer(t).item.kind = "rebalance_portfolio"
<1>1. /\ IF work[t] = 0 THEN todo[t] # <<>> ELSE work[t] \in DOMAIN open[t]
      /\ Offer(t).item.kind = "rebalance_portfolio"
      /\ todo[t] \in Seq(Offers) /\ AllTrue(todo[t]) /\ AllTrue(open[t])
  BY DEF IInv, ThreadInv, ThreadTyped, InHand, InHandler, OffersTrue, At
<1>2. CASE work[t] = 0
  <2>1. Head(todo[t]) = todo[t][1] /\ 1 \in DOMAIN todo[t]
    BY <1>1, <1>2, TailOf
  <2> QED  BY <1>1, <1>2, <2>1 DEF Offer, AllTrue
<1>3. CASE work[t] # 0
  BY <1>1, <1>3 DEF Offer, AllTrue
<1> QED  BY <1>2, <1>3, <1>1

\* What a committed rebalance has done to the data: where nothing was written since it
\* was read, what the handler computed; under the stub, nothing where another rebalance
\* came first.
LEMMA RebalanceCommitted ==
  ASSUME IInv, NEW t \in Threads, CommitRebalance(t)
  PROVE  LET old == customer.holdings
             new == customer'.holdings
             tg == Offer(t).item.target
         IN  /\ customer' = [customer EXCEPT !.holdings = new]
             /\ new \in Seq(HoldingRow) /\ SameGrades(new, old)
             /\ rebalances' = rebalances + 1
             /\ tg \in Targets /\ TargetHigh(tg) \in Int
             /\ shares' = shares \cup {TargetHigh(tg)}
             /\ torn' = IF seen[t].holdings = old THEN torn ELSE torn \cup {"holdings"}
             /\ seen[t].holdings = old /\ Balanced(old) /\ TargetHigh(tg) <= 100
                  => /\ Balanced(new) /\ HighAmount(new) = Percent(TargetHigh(tg))
                     /\ TargetHigh(tg) \in 0..100 => \A i \in DOMAIN new : new[i].amount >= 0
                     /\ tg = 45 => AtRest(new)
             /\ planner = "local_stub" => tg = 45 /\ (rebalances > 0 => new = old)
<1> DEFINE old == customer.holdings
           read == seen[t].holdings
           tg == Offer(t).item.target
           made == Rebalanced(read, tg)
           new == Updated(old, read, made)
<1>1. /\ At(t, "rebalance") /\ rebalances' = rebalances + 1
      /\ shares' = shares \cup {TargetHigh(tg)}
      /\ torn' = IF read = old THEN torn ELSE torn \cup {"holdings"}
      /\ customer' = [customer EXCEPT !.holdings = new]
  BY DEF CommitRebalance
<1>2. customer \in Profiles /\ old \in Seq(HoldingRow)
  BY DEF IInv, DataInv, Profiles
<1>3. customer'.holdings = new /\ customer' = [customer EXCEPT !.holdings = customer'.holdings]
  BY <1>1, <1>2 DEF Profiles
<1>4. ReadTrue(read) /\ read \in Seq(HoldingRow)
  BY <1>1 DEF IInv, ThreadInv, ThreadTyped, Readings, At
<1>5. tg \in Targets /\ (planner = "local_stub" => tg = 45)
  BY <1>1, RunsForRebalance DEF OfferTrue
<1>6. TargetHigh(tg) \in Int
  BY <1>5, TargetsAreNumbers, TargetsTyped
<1>7. PICK c \in Customers : SameGrades(old, c.holdings)
  BY DEF IInv, DataInv, Shape
<1>8. read # <<>> /\ SameGrades(read, old) /\ (planner = "local_stub" => Balanced(read))
  BY <1>4 DEF ReadTrue
<1>9. planner = "local_stub" => Balanced(old) /\ (rebalances > 0 => AtRest(old))
  BY DEF IInv, DataInv, Resting
<1> HIDE DEF old, read, tg
<1>10. SameGrades(read, c.holdings)
  BY <1>7, <1>8, GradesOfGrades
<1>11. made \in Seq(HoldingRow) /\ SameGrades(made, read)
  <2>1. tg \in Int /\ Total(read) \in Int
    BY <1>4, <1>5, TargetsAreNumbers, TotalsTyped
  <2> QED  BY <1>4, <2>1, RebalancedRows
<1>12. Balanced(read) /\ TargetHigh(tg) <= 100
         => /\ Balanced(made) /\ HighAmount(made) = Percent(TargetHigh(tg))
            /\ TargetHigh(tg) \in 0..100 => \A i \in DOMAIN made : made[i].amount >= 0
            /\ tg = 45 => AtRest(made)
  BY <1>4, <1>5, <1>8, <1>10, RebalanceComputes
<1> HIDE DEF made
<1>13. /\ new \in Seq(HoldingRow) /\ SameGrades(new, old)
       /\ read = old => new = made
       /\ made = old => new = old
  BY <1>2, <1>4, <1>8, <1>11, UpdatedRows
<1>14. ASSUME planner = "local_stub", rebalances > 0 PROVE new = old
  <2>1. TargetHigh(tg) <= 100
    BY <1>5, <1>14 DEF TargetHigh
  <2>2. Balanced(made) /\ AtRest(made) /\ Balanced(old) /\ AtRest(old)
    BY <1>5, <1>8, <1>9, <1>12, <1>14, <2>1
  <2>3. SameGrades(made, old)
    BY <1>8, <1>11, GradesOfGrades
  <2>4. made = old
    BY <1>2, <1>11, <2>2, <2>3, RestIsOne
  <2> QED  BY <1>13, <2>4
<1> HIDE DEF new
<1>15. read = old /\ Balanced(old) /\ TargetHigh(tg) <= 100
         => /\ Balanced(new) /\ HighAmount(new) = Percent(TargetHigh(tg))
            /\ TargetHigh(tg) \in 0..100 => \A i \in DOMAIN new : new[i].amount >= 0
            /\ tg = 45 => AtRest(new)
  BY <1>12, <1>13
<1> QED  BY <1>1, <1>3, <1>5, <1>6, <1>13, <1>14, <1>15 DEF old, read, tg

\* The rows of every other thread are as true as before.
LEMMA CommitRebalanceKeeps ==
  ASSUME IInv, NEW t \in Threads, CommitRebalance(t), UNCHANGED planner
  PROVE  IInv'
<1> DEFINE hs == customer.holdings
           new == customer'.holdings
           tg == Offer(t).item.target
<1>1. /\ customer' = [customer EXCEPT !.holdings = new]
      /\ new \in Seq(HoldingRow) /\ SameGrades(new, hs)
      /\ rebalances' = rebalances + 1
      /\ TargetHigh(tg) \in Int
      /\ shares' = shares \cup {TargetHigh(tg)}
      /\ torn' = IF seen[t].holdings = hs THEN torn ELSE torn \cup {"holdings"}
      /\ seen[t].holdings = hs /\ Balanced(hs) /\ TargetHigh(tg) <= 100
           => /\ Balanced(new)
              /\ TargetHigh(tg) \in 0..100 => \A i \in DOMAIN new : new[i].amount >= 0
              /\ tg = 45 => AtRest(new)
      /\ planner = "local_stub" => tg = 45 /\ (rebalances > 0 => new = hs)
  BY RebalanceCommitted
<1>2. /\ At(t, "rebalance") /\ pc' = [pc EXCEPT ![t] = "record"]
      /\ seen' = [seen EXCEPT ![t] = Unread]
      /\ UNCHANGED <<planner, input, snapshot, signal, todo, held, open, work, checks, faults,
                     reviews>>
  BY DEF CommitRebalance, Handled, Goto
<1>3. PerThread /\ PerThread'
  BY <1>2 DEF IInv, PerThread
<1>4. /\ pc'[t] = "record" /\ seen'[t] = Unread
      /\ \A u \in Threads \ {t} : SameThread(u)
  BY <1>2, <1>3 DEF PerThread, SameThread
<1>5. /\ customer \in Profiles /\ customer' \in Profiles
      /\ customer'.policies = customer.policies
      /\ rebalances \in Nat /\ rebalances' \in Nat /\ rebalances' > 0
      /\ shares \subseteq Int /\ torn \subseteq {"holdings", "policies"}
  <2>1. customer \in Profiles /\ rebalances \in Nat
        /\ shares \subseteq Int /\ torn \subseteq {"holdings", "policies"}
    BY DEF IInv, DataInv
  <2>2. customer' = [customer EXCEPT !.holdings = new] /\ new \in Seq(HoldingRow)
        /\ rebalances' = rebalances + 1
    BY <1>1
  <2> HIDE DEF new, tg, hs
  <2>3. customer' \in Profiles /\ customer'.policies = customer.policies
    BY <2>1, <2>2 DEF Profiles
  <2> QED  BY <2>1, <2>2, <2>3
<1>6. ReadTrue(seen[t].holdings)
  BY <1>2 DEF IInv, ThreadInv, At
<1>7. tg = 45 => TargetHigh(tg) = 45
  BY DEF TargetHigh
<1> HIDE DEF new, hs, tg
<1>8. planner = "local_stub" =>
        /\ Balanced(new) /\ AtRest(new)
        /\ shares' \subseteq 0..100 => \A i \in DOMAIN new : new[i].amount >= 0
  <2> SUFFICES ASSUME planner = "local_stub"
               PROVE  /\ Balanced(new) /\ AtRest(new)
                      /\ shares' \subseteq 0..100 => \A i \in DOMAIN new : new[i].amount >= 0
    OBVIOUS
  <2>1. Balanced(hs) /\ (rebalances > 0 => AtRest(hs))
        /\ (shares \subseteq 0..100 => \A i \in DOMAIN hs : hs[i].amount >= 0)
    BY DEF IInv, DataInv, Resting, Conserved, hs
  <2>2. CASE rebalances = 0
    <3>1. seen[t].holdings = hs
      BY <1>6, <2>2 DEF ReadTrue, hs
    <3> QED  BY <1>1, <1>7, <2>1, <3>1
  <2>3. CASE rebalances > 0
    BY <1>1, <2>1, <2>3
  <2> QED  BY <1>5, <2>2, <2>3
<1>9. Conserved'
  <2>1. CASE planner = "local_stub"
    BY <1>2, <1>8, <2>1 DEF Conserved, new
  <2>2. CASE planner # "local_stub" /\ "holdings" \in torn'
    BY <1>2, <2>2 DEF Conserved
  <2>3. CASE planner # "local_stub" /\ "holdings" \notin torn'
    <3>1. seen[t].holdings = hs /\ "holdings" \notin torn
      BY <1>1, <2>3
    <3>2. (\A share \in shares : share <= 100) => Balanced(hs)
      BY <3>1 DEF IInv, DataInv, Conserved, hs
    <3>3. ASSUME \A share \in shares' : share <= 100
          PROVE  /\ Balanced(new)
                 /\ TargetHigh(tg) \in 0..100 => \A i \in DOMAIN new : new[i].amount >= 0
      <4>1. TargetHigh(tg) <= 100 /\ \A share \in shares : share <= 100
        BY <1>1, <3>3
      <4> QED  BY <1>1, <3>1, <3>2, <4>1
    <3>4. ASSUME shares' \subseteq 0..100
          PROVE  TargetHigh(tg) \in 0..100 /\ \A share \in shares' : share <= 100
      <4>1. TargetHigh(tg) \in shares'
        BY <1>1
      <4>2. \A share \in 0..100 : share <= 100
        OBVIOUS
      <4> QED  BY <3>4, <4>1, <4>2
    <3> QED  BY <3>3, <3>4 DEF Conserved, new
  <2> QED  BY <2>1, <2>2, <2>3
<1>10. DataInv'
  <2>1. Shape'
    BY <1>1 DEF IInv, DataInv, Shape, SameGrades, hs, new
  <2>2. Untouched' /\ Resting'
    BY <1>2, <1>5, <1>8 DEF Untouched, Resting, new
  <2>3. RidersOnFirst' /\ GapClosed'
    BY <1>1, <1>2, <1>5 DEF IInv, DataInv, RidersOnFirst, GapClosed
  <2>4. torn' \subseteq {"holdings", "policies"} /\ shares' \subseteq Int
    BY <1>1, <1>5
  <2> QED  BY <1>2, <1>5, <1>9, <2>1, <2>2, <2>3, <2>4 DEF IInv, DataInv
<1>11. ASSUME NEW u \in Threads PROVE OffersTrue(u)'
  <2>1. OffersTrue(u)
    BY DEF IInv, ThreadInv
  <2> QED  BY <1>2, <1>5, <2>1 DEF OffersTrue, AllTrue, OfferTrue
<1>12. ASSUME NEW u \in Threads \ {t} PROVE ThreadInv(u)'
  <2>1. ThreadInv(u) /\ SameThread(u)
    BY <1>4 DEF IInv
  <2>2. ThreadTyped(u)' /\ InHand(u)'
    BY <2>1, TypesKept, HandKept DEF ThreadInv
  <2>3. (pc[u] \in {"detect", "spawn"} => SnapshotTrue(snapshot[u]))'
    <3>1. SUFFICES ASSUME pc[u] \in {"detect", "spawn"} PROVE SnapshotTrue(snapshot[u])'
      BY <2>1 DEF SameThread
    <3>2. SnapshotTrue(snapshot[u]) /\ snapshot'[u] = snapshot[u]
      BY <2>1, <3>1 DEF ThreadInv, SameThread
    <3>3. snapshot[u].rebalances <= rebalances'
      BY <1>1, <1>5, <3>2 DEF SnapshotTrue
    <3>4. rebalances' # 0 /\ planner' = planner
      BY <1>2, <1>5
    <3> QED  BY <3>2, <3>3, <3>4 DEF SnapshotTrue
  <2>4. (pc[u] = "rebalance" => ReadTrue(seen[u].holdings))'
    <3>1. SUFFICES ASSUME pc[u] = "rebalance" PROVE ReadTrue(seen[u].holdings)'
      BY <2>1 DEF SameThread
    <3>2. ReadTrue(seen[u].holdings) /\ seen'[u] = seen[u]
      BY <2>1, <3>1 DEF ThreadInv, SameThread
    <3>3. SameGrades(seen[u].holdings, new)
      BY <1>1, <3>2 DEF ReadTrue, SameGrades, hs
    <3> QED  BY <1>2, <1>5, <3>2, <3>3 DEF ReadTrue, new
  <2>5. /\ (pc[u] \in {"coverage", "insert"} => Found(seen[u].policy))'
        /\ (pc[u] = "insert" => Looked(seen[u]))'
    BY <1>1, <1>5, <2>1 DEF ThreadInv, Found, Looked, SameThread
  <2> QED  BY <1>11, <2>2, <2>3, <2>4, <2>5 DEF ThreadInv
<1>13. ThreadInv(t)'
  <2>1. ThreadTyped(t)'
    <3>1. Unread \in Readings
      BY DEF Unread, Readings
    <3> QED  BY <1>2, <1>4, <3>1 DEF IInv, ThreadInv, ThreadTyped, At, Places
  <2>2. InHand(t)'
    BY <1>2, <1>4 DEF IInv, ThreadInv, InHand, InHandler, At, Offer
  <2> QED  BY <1>4, <1>11, <2>1, <2>2 DEF ThreadInv
<1> QED  BY <1>3, <1>10, <1>12, <1>13 DEF IInv

-----------------------------------------------------------------------------
(* Steps of a review.                                                       *)

LEMMA PolicyRows ==
  ASSUME NEW ps \in Seq(PolicyRow), NEW i \in DOMAIN ps
  PROVE  /\ ps[i] \in PolicyRow /\ ps[i].riders \in Nat /\ ps[i].name \in Nat
         /\ ps[i].active \in BOOLEAN
<1>1. ps[i] \in PolicyRow
  OBVIOUS
<1> QED  BY <1>1 DEF PolicyRow

LEMMA FoundRow ==
  ASSUME NEW ps \in Seq(PolicyRow), NEW i \in ActivePolicies(ps)
  PROVE  i \in DOMAIN ps /\ i \in Nat /\ ps[i].riders \in Nat /\ ps[i].active
<1>1. i \in DOMAIN ps /\ ps[i].active /\ DOMAIN ps \subseteq Nat
  BY DEF ActivePolicies
<1> QED  BY <1>1, PolicyRows

\* The data as a change of the policies leaves it.
LEMMA PoliciesChanged ==
  ASSUME IInv, NEW ps \in Seq(PolicyRow),
         customer' = [customer EXCEPT !.policies = ps],
         UNCHANGED <<planner, rebalances, shares, checks, faults>>,
         "holdings" \in torn' <=> "holdings" \in torn
  PROVE  /\ customer' \in Profiles /\ customer'.policies = ps
         /\ customer'.holdings = customer.holdings
         /\ Shape' /\ Untouched' /\ Conserved' /\ Resting'
<1>1. customer \in Profiles
  BY DEF IInv, DataInv
<1>2. customer' \in Profiles /\ customer'.policies = ps /\ customer'.holdings = customer.holdings
  BY <1>1 DEF Profiles
<1> QED  BY <1>2 DEF IInv, DataInv, Shape, Untouched, Conserved, Resting

\* Threads that have no part in it, as long as what they found is still found and no
\* rider goes away.
LEMMA OthersReview ==
  ASSUME IInv, NEW t \in Threads,
         customer'.holdings = customer.holdings,
         ActivePolicies(customer.policies) \subseteq ActivePolicies(customer'.policies),
         "policies" \notin torn' =>
           /\ "policies" \notin torn
           /\ FirstPolicies(customer.policies) \subseteq FirstPolicies(customer'.policies),
         \A i \in DOMAIN customer.policies :
           customer.policies[i].riders > 0 => customer'.policies[i].riders > 0,
         \A u \in Threads \ {t} : SameThread(u),
         UNCHANGED <<planner, rebalances>>
  PROVE  \A u \in Threads \ {t} : ThreadInv(u)'
<1> SUFFICES ASSUME NEW u \in Threads \ {t} PROVE ThreadInv(u)'
  OBVIOUS
<1>1. ThreadInv(u) /\ SameThread(u)
  BY DEF IInv
<1>2. ThreadTyped(u)' /\ InHand(u)'
  BY <1>1, TypesKept, HandKept DEF ThreadInv
<1>3. (pc[u] \in {"detect", "spawn"} => SnapshotTrue(snapshot[u]))'
  BY <1>1 DEF ThreadInv, SnapshotTrue, SameThread
<1>4. OffersTrue(u)'
  BY <1>1 DEF ThreadInv, OffersTrue, AllTrue, OfferTrue, SameThread
<1>5. (pc[u] = "rebalance" => ReadTrue(seen[u].holdings))'
  BY <1>1 DEF ThreadInv, ReadTrue, SameThread
<1>6. (pc[u] \in {"coverage", "insert"} => Found(seen[u].policy))'
  BY <1>1 DEF ThreadInv, Found, SameThread
<1>7. (pc[u] = "insert" => Looked(seen[u]))'
  <2>1. SUFFICES ASSUME pc[u] = "insert" PROVE Looked(seen[u])'
    BY <1>1 DEF SameThread
  <2>2. Looked(seen[u]) /\ Found(seen[u].policy) /\ seen'[u] = seen[u]
    BY <1>1, <2>1 DEF ThreadInv, SameThread
  <2>3. seen[u].policy \in DOMAIN customer.policies
    BY <2>2 DEF Found, ActivePolicies
  <2> QED  BY <2>2, <2>3 DEF Looked
<1> QED  BY <1>2, <1>3, <1>4, <1>5, <1>6, <1>7 DEF ThreadInv

LEMMA LookForPolicyKeeps ==
  ASSUME IInv, NEW t \in Threads, LookForPolicy(t), UNCHANGED planner
  PROVE  IInv'
<1>1. PICK i \in FirstPolicies(customer.policies) : seen' = [seen EXCEPT ![t].policy = i]
  BY DEF LookForPolicy
<1>2. /\ At(t, "review") /\ pc' = [pc EXCEPT ![t] = "coverage"]
      /\ UNCHANGED <<planner, customer, input, snapshot, signal, todo, held, open, work, checks,
                     faults, rebalances, shares, reviews, torn>>
  BY DEF LookForPolicy, Goto
<1>3. PerThread /\ PerThread'
  BY <1>1, <1>2 DEF IInv, PerThread
<1>4. /\ pc'[t] = "coverage" /\ seen'[t] = [seen[t] EXCEPT !.policy = i]
      /\ \A u \in Threads \ {t} : SameThread(u)
  BY <1>1, <1>2, <1>3 DEF PerThread, SameThread
<1>5. customer.policies \in Seq(PolicyRow) /\ seen[t] \in Readings
  BY DEF IInv, DataInv, Profiles, ThreadInv, ThreadTyped
<1>6. i \in ActivePolicies(customer.policies) /\ i \in Nat
  <2>1. i \in ActivePolicies(customer.policies)
    BY <1>1 DEF FirstPolicies
  <2> QED  BY <1>5, <2>1, FoundRow
<1>7. seen'[t] \in Readings /\ seen'[t].policy = i
  BY <1>4, <1>5, <1>6 DEF Readings
<1>8. Found(seen[t].policy)'
  BY <1>1, <1>2, <1>6, <1>7 DEF Found
<1>9. ThreadTyped(t)'
  BY <1>2, <1>4, <1>7 DEF IInv, ThreadInv, ThreadTyped, At, Places
<1>10. OffersTrue(t)' /\ InHand(t)'
  BY <1>2, <1>4 DEF IInv, ThreadInv, OffersTrue, AllTrue, OfferTrue, InHand, InHandler, At
<1>11. ThreadInv(t)'
  BY <1>4, <1>8, <1>9, <1>10 DEF ThreadInv
<1> QED  BY <1>2, <1>3, <1>4, <1>11, OneThread DEF IInv, DataInv

LEMMA LookForCoverageKeeps ==
  ASSUME IInv, NEW t \in Threads, LookForCoverage(t), UNCHANGED planner
  PROVE  IInv'
<1> DEFINE i == seen[t].policy
           none == customer.policies[i].riders = 0
<1>1. /\ At(t, "coverage") /\ pc' = [pc EXCEPT ![t] = "insert"]
      /\ seen' = [seen EXCEPT ![t].missing = none]
      /\ UNCHANGED <<planner, customer, input, snapshot, signal, todo, held, open, work, checks,
                     faults, rebalances, shares, reviews, torn>>
  BY DEF LookForCoverage, Goto
<1>2. PerThread /\ PerThread'
  BY <1>1 DEF IInv, PerThread
<1>3. /\ pc'[t] = "insert" /\ seen'[t] = [seen[t] EXCEPT !.missing = none]
      /\ \A u \in Threads \ {t} : SameThread(u)
  BY <1>1, <1>2 DEF PerThread, SameThread
<1>4. /\ customer.policies \in Seq(PolicyRow) /\ seen[t] \in Readings
      /\ Found(i)
  BY <1>1 DEF IInv, DataInv, Profiles, ThreadInv, ThreadTyped, At
<1>5. none \in BOOLEAN /\ (none \/ customer.policies[i].riders > 0)
  <2>1. customer.policies[i].riders \in Nat
    BY <1>4, FoundRow DEF Found
  <2> QED  BY <2>1
<1> HIDE DEF none
<1>6. seen'[t] \in Readings /\ seen'[t].policy = i /\ seen'[t].missing = none
  BY <1>3, <1>4, <1>5 DEF Readings
<1>7. Found(seen[t].policy)' /\ Looked(seen[t])'
  BY <1>1, <1>4, <1>5, <1>6 DEF Found, Looked
<1>8. ThreadTyped(t)'
  BY <1>1, <1>3, <1>6 DEF IInv, ThreadInv, ThreadTyped, At, Places
<1>9. OffersTrue(t)' /\ InHand(t)'
  BY <1>1, <1>3 DEF IInv, ThreadInv, OffersTrue, AllTrue, OfferTrue, InHand, InHandler, At
<1>10. ThreadInv(t)'
  BY <1>3, <1>7, <1>8, <1>9 DEF ThreadInv
<1> QED  BY <1>1, <1>2, <1>3, <1>10, OneThread DEF IInv, DataInv

\* A second policy is made only where two handlers looked before either did.
LEMMA InsertPolicyKeeps ==
  ASSUME IInv, NEW t \in Threads, InsertPolicy(t), UNCHANGED planner
  PROVE  IInv'
<1> DEFINE ps == customer.policies
           qs == Append(ps, ReviewPolicy)
           n == Len(ps) + 1
<1>1. /\ At(t, "newpolicy") /\ pc' = [pc EXCEPT ![t] = "coverage"]
      /\ customer' = [customer EXCEPT !.policies = qs]
      /\ torn' = IF ActivePolicies(ps) = {} THEN torn ELSE torn \cup {"policies"}
      /\ seen' = [seen EXCEPT ![t].policy = n]
      /\ UNCHANGED <<planner, input, snapshot, signal, todo, held, open, work, checks, faults,
                     rebalances, shares, reviews>>
  BY DEF InsertPolicy, Goto
<1>2. PerThread /\ PerThread'
  BY <1>1 DEF IInv, PerThread
<1>3. /\ pc'[t] = "coverage" /\ seen'[t] = [seen[t] EXCEPT !.policy = n]
      /\ \A u \in Threads \ {t} : SameThread(u)
  BY <1>1, <1>2 DEF PerThread, SameThread
<1>4. ps \in Seq(PolicyRow) /\ seen[t] \in Readings /\ torn \subseteq {"holdings", "policies"}
  BY DEF IInv, DataInv, Profiles, ThreadInv, ThreadTyped
<1>5. ReviewPolicy \in PolicyRow
  BY DEF ReviewPolicy, PolicyRow
<1>6. /\ qs \in Seq(PolicyRow) /\ n \in Nat /\ n \notin DOMAIN ps
      /\ DOMAIN qs = DOMAIN ps \cup {n} /\ qs[n] = ReviewPolicy
      /\ \A i \in DOMAIN ps : qs[i] = ps[i]
  BY <1>4, <1>5
<1> HIDE DEF ps, qs, n
<1>7. ActivePolicies(qs) = ActivePolicies(ps) \cup {n}
  BY <1>6 DEF ActivePolicies, ReviewPolicy
<1>8. ActivePolicies(ps) = {} => FirstPolicies(qs) = {n} /\ FirstPolicies(ps) = {}
  <2>1. qs[n].name <= qs[n].name
    BY <1>6 DEF ReviewPolicy
  <2> QED  BY <1>7, <2>1 DEF FirstPolicies
<1>9. "holdings" \in torn' <=> "holdings" \in torn
  BY <1>1
<1>10. /\ customer' \in Profiles /\ customer'.policies = qs
       /\ customer'.holdings = customer.holdings
       /\ Shape' /\ Untouched' /\ Conserved' /\ Resting'
  BY <1>1, <1>6, <1>9, PoliciesChanged
<1>11. "policies" \notin torn' => ActivePolicies(ps) = {} /\ "policies" \notin torn
  BY <1>1
<1>12. RidersOnFirst'
  <2> SUFFICES ASSUME "policies" \notin torn'
               PROVE  /\ \A i, k \in FirstPolicies(qs) : i = k
                      /\ \A i \in DOMAIN qs : /\ qs[i].riders <= 1
                                              /\ qs[i].riders > 0 => i \in FirstPolicies(qs)
    BY <1>10 DEF RidersOnFirst
  <2>1. \A i \in DOMAIN ps : ps[i].riders <= 1 /\ ~(ps[i].riders > 0)
    BY <1>8, <1>11 DEF IInv, DataInv, RidersOnFirst, ps
  <2>2. qs[n].riders = 0
    BY <1>6 DEF ReviewPolicy
  <2> QED  BY <1>6, <1>8, <1>11, <2>1, <2>2
<1>13. GapClosed'
  <2>1. HasCardio(ps) => HasCardio(qs)
    BY <1>6 DEF HasCardio
  <2> QED  BY <1>1, <1>10, <2>1 DEF IInv, DataInv, GapClosed, ps
<1>14. DataInv'
  <2>1. torn' \subseteq {"holdings", "policies"}
    BY <1>1, <1>4
  <2> QED  BY <1>1, <1>10, <1>12, <1>13, <2>1 DEF IInv, DataInv
<1>15. \A u \in Threads \ {t} : ThreadInv(u)'
  <2>1. ActivePolicies(ps) \subseteq ActivePolicies(qs)
    BY <1>7
  <2>2. \A i \in DOMAIN ps : ps[i].riders > 0 => qs[i].riders > 0
    BY <1>6
  <2> QED  BY <1>1, <1>3, <1>8, <1>10, <1>11, <2>1, <2>2, OthersReview DEF ps
<1>16. ThreadInv(t)'
  <2>1. seen'[t] \in Readings /\ seen'[t].policy = n
    BY <1>3, <1>4, <1>6 DEF Readings
  <2>2. ThreadTyped(t)'
    BY <1>1, <1>3, <2>1 DEF IInv, ThreadInv, ThreadTyped, At, Places
  <2>3. OffersTrue(t)'
    BY <1>1, <1>10 DEF IInv, ThreadInv, OffersTrue, AllTrue, OfferTrue
  <2>4. InHand(t)'
    BY <1>1, <1>3 DEF IInv, ThreadInv, InHand, InHandler, At
  <2>5. Found(seen[t].policy)'
    BY <1>7, <1>8, <1>10, <1>11, <2>1 DEF Found
  <2> QED  BY <1>3, <2>2, <2>3, <2>4, <2>5 DEF ThreadInv
<1> QED  BY <1>2, <1>14, <1>15, <1>16 DEF IInv

LEMMA InsertCoverageKeeps ==
  ASSUME IInv, NEW t \in Threads, InsertCoverage(t), UNCHANGED planner
  PROVE  IInv'
<1> DEFINE ps == customer.policies
           i == seen[t].policy
           missing == seen[t].missing
           qs == [ps EXCEPT ![i].riders = IF missing THEN @ + 1 ELSE @]
<1>1. /\ At(t, "insert") /\ pc' = [pc EXCEPT ![t] = "record"]
      /\ customer' = [customer EXCEPT !.policies[i].riders = IF missing THEN @ + 1 ELSE @]
      /\ torn' = IF missing /\ ps[i].riders > 0 THEN torn \cup {"policies"} ELSE torn
      /\ reviews' = reviews + 1
      /\ seen' = [seen EXCEPT ![t] = Unread]
      /\ UNCHANGED <<planner, input, snapshot, signal, todo, held, open, work, checks, faults,
                     rebalances, shares>>
  BY DEF InsertCoverage, Handled, Goto
<1>2. PerThread /\ PerThread'
  BY <1>1 DEF IInv, PerThread
<1>3. /\ pc'[t] = "record" /\ seen'[t] = Unread
      /\ \A u \in Threads \ {t} : SameThread(u)
  BY <1>1, <1>2 DEF PerThread, SameThread
<1>4. customer \in Profiles /\ ps \in Seq(PolicyRow) /\ torn \subseteq {"holdings", "policies"}
      /\ reviews \in Nat /\ seen[t] \in Readings
  BY DEF IInv, DataInv, Profiles, ThreadInv, ThreadTyped
<1>5. customer' = [customer EXCEPT !.policies = qs]
  BY <1>1, <1>4 DEF Profiles
<1>6. /\ i \in ActivePolicies(ps) /\ ("policies" \notin torn => i \in FirstPolicies(ps))
      /\ missing \/ ps[i].riders > 0
  BY <1>1 DEF IInv, ThreadInv, Found, Looked, At
<1>7. missing \in BOOLEAN
  BY <1>4 DEF Readings
<1> HIDE DEF ps, i, missing
<1>8. i \in DOMAIN ps /\ ps[i].riders \in Nat
  BY <1>4, <1>6, FoundRow
<1>9. /\ qs \in Seq(PolicyRow) /\ DOMAIN qs = DOMAIN ps
      /\ \A k \in DOMAIN ps : /\ qs[k].active = ps[k].active /\ qs[k].cardio = ps[k].cardio
                              /\ qs[k].name = ps[k].name
      /\ \A k \in DOMAIN ps \ {i} : qs[k].riders = ps[k].riders
      /\ qs[i].riders = IF missing THEN ps[i].riders + 1 ELSE ps[i].riders
  <2>1. ps[i] \in PolicyRow
    BY <1>4, <1>8
  <2>2. [ps[i] EXCEPT !.riders = IF missing THEN @ + 1 ELSE @] \in PolicyRow
    BY <1>7, <2>1 DEF PolicyRow
  <2> QED  BY <1>4, <1>8, <2>1, <2>2 DEF PolicyRow
<1> HIDE DEF qs
<1>10. ActivePolicies(qs) = ActivePolicies(ps)
  BY <1>9 DEF ActivePolicies
<1>11. FirstPolicies(qs) = FirstPolicies(ps)
  <2>1. \A k \in ActivePolicies(ps) : qs[k].name = ps[k].name
    BY <1>9 DEF ActivePolicies
  <2> QED  BY <1>10, <2>1 DEF FirstPolicies
<1>12. qs[i].riders > 0
  BY <1>6, <1>7, <1>8, <1>9
<1>13. "holdings" \in torn' <=> "holdings" \in torn
  BY <1>1
<1>14. /\ customer' \in Profiles /\ customer'.policies = qs
       /\ customer'.holdings = customer.holdings
       /\ Shape' /\ Untouched' /\ Conserved' /\ Resting'
  BY <1>1, <1>5, <1>9, <1>13, PoliciesChanged
<1>15. GapClosed'
  <2>1. HasCardio(qs)
    BY <1>8, <1>9, <1>12 DEF HasCardio
  <2> QED  BY <1>14, <2>1 DEF GapClosed
<1>16. RidersOnFirst'
  <2> SUFFICES ASSUME "policies" \notin torn'
               PROVE  /\ \A j, k \in FirstPolicies(qs) : j = k
                      /\ \A k \in DOMAIN qs : /\ qs[k].riders <= 1
                                              /\ qs[k].riders > 0 => k \in FirstPolicies(qs)
    BY <1>14 DEF RidersOnFirst
  <2>1. ~(missing /\ ps[i].riders > 0) /\ "policies" \notin torn
    BY <1>1
  <2>2. /\ \A j, k \in FirstPolicies(ps) : j = k
        /\ \A k \in DOMAIN ps : /\ ps[k].riders <= 1
                                /\ ps[k].riders > 0 => k \in FirstPolicies(ps)
    BY <2>1 DEF IInv, DataInv, RidersOnFirst, ps
  <2>3. qs[i].riders <= 1
    BY <1>7, <1>8, <1>9, <2>1, <2>2
  <2>4. i \in FirstPolicies(ps)
    BY <1>6, <2>1
  <2> QED  BY <1>9, <1>11, <2>2, <2>3, <2>4
<1>17. DataInv'
  <2>1. reviews' \in Nat /\ torn' \subseteq {"holdings", "policies"}
    BY <1>1, <1>4
  <2> QED  BY <1>1, <1>14, <1>15, <1>16, <2>1 DEF IInv, DataInv
<1>18. \A u \in Threads \ {t} : ThreadInv(u)'
  <2>1. \A k \in DOMAIN ps : ps[k].riders > 0 => qs[k].riders > 0
    BY <1>9, <1>12
  <2>2. "policies" \notin torn' => "policies" \notin torn
    BY <1>1
  <2> QED  BY <1>1, <1>3, <1>10, <1>11, <1>14, <2>1, <2>2, OthersReview DEF ps
<1>19. ThreadInv(t)'
  <2>1. ThreadTyped(t)'
    <3>1. Unread \in Readings
      BY DEF Unread, Readings
    <3> QED  BY <1>1, <1>3, <3>1 DEF IInv, ThreadInv, ThreadTyped, At, Places
  <2>2. OffersTrue(t)'
    BY <1>1, <1>14 DEF IInv, ThreadInv, OffersTrue, AllTrue, OfferTrue
  <2>3. InHand(t)'
    BY <1>1, <1>3 DEF IInv, ThreadInv, InHand, InHandler, At
  <2> QED  BY <1>3, <2>1, <2>2, <2>3 DEF ThreadInv
<1> QED  BY <1>2, <1>17, <1>18, <1>19 DEF IInv

-----------------------------------------------------------------------------
(* Theorems.                                                                *)

LEMMA NextKeeps ==
  ASSUME IInv, [Next]_vars
  PROVE  IInv'
<1>1. CASE UNCHANGED vars
  <2>1. UNCHANGED <<planner, customer, rebalances, shares, reviews, torn, checks, faults>>
        /\ (\A u \in Threads : SameThread(u))
    BY <1>1 DEF vars, SameThread
  <2>2. DataInv'
    BY <2>1 DEF IInv, DataInv, Shape, Untouched, Conserved, Resting, RidersOnFirst, GapClosed
  <2>3. PerThread'
    BY <1>1 DEF vars, IInv, PerThread
  <2>4. ASSUME NEW u \in Threads PROVE ThreadInv(u)'
    BY <2>1, OthersKept DEF IInv
  <2> QED  BY <2>2, <2>3, <2>4 DEF IInv
<1>2. CASE Next
  <2>1. PICK t \in Threads : ThreadStep(t)
    BY <1>2 DEF Next
  <2>2. UNCHANGED planner
    BY <1>2 DEF Next
  <2>3. CASE Refresh(t)            BY <2>2, <2>3, RefreshKeeps
  <2>4. CASE DetectSignal(t)       BY <2>2, <2>4, DetectKeeps
  <2>5. CASE SpawnAgent(t)         BY <2>2, <2>5, SpawnKeeps
  <2>6. CASE KeepForApproval(t)    BY <2>2, <2>6, KeepKeeps
  <2>7. CASE AutoExecute(t)        BY <2>2, <2>7, AutoKeeps
  <2>8. CASE PolicyDone(t)         BY <2>2, <2>8, PolicyDoneKeeps
  <2>9. CASE Approve(t)            BY <2>2, <2>9, ApproveKeeps
  <2>10. CASE Decline(t)           BY <2>2, <2>10, DeclineKeeps
  <2>11. CASE ReadHoldings(t)      BY <2>2, <2>11, ReadKeeps
  <2>12. CASE ReadNothing(t)       BY <2>2, <2>12, NothingKeeps
  <2>13. CASE CommitRebalance(t)   BY <2>2, <2>13, CommitRebalanceKeeps
  <2>14. CASE LookForPolicy(t)     BY <2>2, <2>14, LookForPolicyKeeps
  <2>15. CASE LookInVain(t)        BY <2>2, <2>15, NothingKeeps
  <2>16. CASE InsertPolicy(t)      BY <2>2, <2>16, InsertPolicyKeeps
  <2>17. CASE LookForCoverage(t)   BY <2>2, <2>17, LookForCoverageKeeps
  <2>18. CASE InsertCoverage(t)    BY <2>2, <2>18, InsertCoverageKeeps
  <2>19. CASE Record(t)            BY <2>2, <2>19, RecordKeeps
  <2>20. CASE BreakOff(t)          BY <2>2, <2>20, BreakOffKeeps
  <2> QED  BY <2>1, <2>3, <2>4, <2>5, <2>6, <2>7, <2>8, <2>9, <2>10, <2>11, <2>12, <2>13,
              <2>14, <2>15, <2>16, <2>17, <2>18, <2>19, <2>20 DEF ThreadStep
<1> QED  BY <1>1, <1>2

LEMMA Invariance == Spec => []IInv
<1>1. Init => IInv
  BY InitInv
<1>2. IInv /\ [Next]_vars => IInv'
  BY NextKeeps
<1> QED  BY <1>1, <1>2, PTL DEF Spec

\* What a thread's step leaves of the variables indexed by thread.
Indexed == /\ pc = [t \in Threads |-> pc[t]]
           /\ input = [t \in Threads |-> input[t]]
           /\ held = [t \in Threads |-> held[t]]
           /\ work = [t \in Threads |-> work[t]]
           /\ seen = [t \in Threads |-> seen[t]]

LEMMA StayIndexed == Spec => []Indexed
<1>1. Init => Indexed
  BY DEF Init, Indexed
<1>2. ASSUME Indexed, [Next]_vars PROVE Indexed'
  <2>1. CASE UNCHANGED vars
    BY <1>2, <2>1 DEF Indexed, vars
  <2>2. CASE Next
    <3>1. PICK t \in Threads : ThreadStep(t)
      BY <2>2 DEF Next
    <3>2. \A f, x : f = [u \in Threads |-> f[u]]
            => [f EXCEPT ![t] = x] = [u \in Threads |-> [f EXCEPT ![t] = x][u]]
      OBVIOUS
    <3>3. pc' = pc \/ \E x : pc' = [pc EXCEPT ![t] = x]
      BY <3>1 DEF ThreadStep, Refresh, DetectSignal, SpawnAgent, KeepForApproval, AutoExecute,
         PolicyDone, Approve, Decline, Closed, ReadHoldings, ReadNothing, CommitRebalance,
         LookForPolicy, LookInVain, InsertPolicy, LookForCoverage, InsertCoverage, Record,
         BreakOff, Handled, Goto
    <3>4. /\ input' = input \/ \E x : input' = [input EXCEPT ![t] = x]
          /\ held' = held \/ \E x : held' = [held EXCEPT ![t] = x]
      BY <3>1 DEF ThreadStep, Refresh, DetectSignal, SpawnAgent, KeepForApproval, AutoExecute,
         PolicyDone, Approve, Decline, ReadHoldings, ReadNothing, CommitRebalance,
         LookForPolicy, LookInVain, InsertPolicy, LookForCoverage, InsertCoverage, Record,
         BreakOff, Handled
    <3>5. /\ work' = work \/ \E x : work' = [work EXCEPT ![t] = x]
          /\ seen' = seen \/ \E x : seen' = [seen EXCEPT ![t] = x]
      BY <3>1 DEF ThreadStep, Refresh, DetectSignal, SpawnAgent, KeepForApproval, AutoExecute,
         PolicyDone, Approve, Decline, ReadHoldings, ReadNothing, CommitRebalance,
         LookForPolicy, LookInVain, InsertPolicy, LookForCoverage, InsertCoverage, Record,
         BreakOff, Handled
    <3> QED  BY <1>2, <3>2, <3>3, <3>4, <3>5 DEF Indexed
  <2> QED  BY <1>2, <2>1, <2>2
<1> QED  BY <1>1, <1>2, PTL DEF Spec

\* Rows, proposals, snapshots and what handlers have read have their types: every input
\* gives a signal of a known kind and every plan offers of known kinds, however handlers
\* overlapped (signals/detectors.py, planning/schemas.py, executor/handlers.py).
THEOREM AdviceTyped == Spec => []TypeOK
<1>1. IInv /\ Indexed => TypeOK
  <2> SUFFICES ASSUME IInv, Indexed PROVE TypeOK
    OBVIOUS
  <2>1. /\ \A t \in Threads : /\ pc[t] \in Places /\ input[t] \in Inputs \cup {NoInput}
                              /\ held[t] \in BOOLEAN
                              /\ work[t] \in Nat /\ seen[t] \in Readings
                              /\ signal[t] \in IF At(t, "spawn") THEN SignalKinds ELSE {"none"}
                              /\ todo[t] \in Seq(Offers) /\ open[t] \in Seq(Offers)
    BY DEF IInv, ThreadInv, ThreadTyped
  <2>2. /\ pc = [t \in Threads |-> pc[t]] /\ input = [t \in Threads |-> input[t]]
        /\ held = [t \in Threads |-> held[t]]
        /\ work = [t \in Threads |-> work[t]] /\ seen = [t \in Threads |-> seen[t]]
    BY DEF Indexed
  <2> QED  BY <2>1, <2>2 DEF TypeOK, IInv, DataInv
<1> QED  BY <1>1, Invariance, StayIndexed, PTL

\* Whichever numbers a plan asks for, and however often: as long as no share above all
\* there is was given, nothing is lost or made up and the weights say what the amounts
\* say, and with no share below nothing either no holding is in the red.  Under codex_cli
\* overlapping handlers are left out; under the stub they are not (handlers.py
\* _apply_mock_rebalance).
THEOREM NothingIsLost == Spec => []Conserved
<1>1. IInv => Conserved
  BY DEF IInv, DataInv
<1> QED  BY <1>1, Invariance, PTL

\* With the local stub no plan offers a rebalance once one was written before its
\* snapshot, also where handlers overlapped (detectors.py, local_stub.py, handlers.py).
THEOREM AdviceIsNotRepeated == Spec => []NoRepeat
<1>1. IInv => NoRepeat
  <2> SUFFICES ASSUME IInv, planner = "local_stub", NEW t \in Threads, NEW o \in Offered(t),
                      o.item.kind = "rebalance_portfolio"
               PROVE  o.after = 0
    BY DEF NoRepeat
  <2>1. /\ todo[t] \in Seq(Offers) /\ open[t] \in Seq(Offers)
        /\ \A i \in DOMAIN todo[t] : OfferTrue(todo[t][i])
        /\ \A i \in DOMAIN open[t] : OfferTrue(open[t][i])
    BY DEF IInv, ThreadInv, ThreadTyped, OffersTrue, AllTrue
  <2>2. OfferTrue(o)
    BY <2>1 DEF Offered, ToSet
  <2> QED  BY <2>2 DEF OfferTrue
<1> QED  BY <1>1, Invariance, PTL

\* Once a review was carried out, no snapshot shows the gap again, whichever handlers
\* looked before (data_tools.get_insurance_summary, handlers.py
\* _apply_mock_insurance_review).
THEOREM GapStaysClosed == Spec => []GapClosed
<1>1. IInv => GapClosed
  BY DEF IInv, DataInv
<1> QED  BY <1>1, Invariance, PTL

\* As long as no handler inserted a policy or a rider another had inserted since it
\* looked, the customer has one rider at most, and it is on one policy, also where he had
\* no policy at all (handlers.py _apply_mock_insurance_review).
THEOREM CoveredOnce == Spec => []CoverOnce
<1>1. IInv => CoverOnce
  <2> SUFFICES ASSUME IInv, "policies" \notin torn,
                      NEW i \in DOMAIN customer.policies, NEW k \in DOMAIN customer.policies
               PROVE  /\ customer.policies[i].riders <= 1
                      /\ customer.policies[i].riders > 0 /\ customer.policies[k].riders > 0 => i = k
    BY DEF CoverOnce
  <2> QED  BY DEF IInv, DataInv, RidersOnFirst
<1> QED  BY <1>1, Invariance, PTL

\* What the stub announced to the customer is what the approved rebalance sells; and
\* nothing where another was written since the snapshot (local_stub.py _asset_plan,
\* handlers.py _apply_mock_rebalance).
THEOREM SalesAreAnnounced == Spec => SoldAsAnnounced
<1> DEFINE AsAnnounced ==
      \A t \in Threads :
        /\ planner = "local_stub"
        /\ At(t, "rebalance") /\ rebalances' = rebalances + 1 /\ pc'[t] = "record"
        => HighAmount(customer.holdings) - HighAmount(customer'.holdings)
             = IF Offer(t).after = rebalances THEN Offer(t).item.amount ELSE 0
<1>1. IInv /\ [Next]_vars => [AsAnnounced]_vars
  <2> SUFFICES ASSUME IInv, Next, NEW t \in Threads, planner = "local_stub", At(t, "rebalance"),
                      rebalances' = rebalances + 1, pc'[t] = "record"
               PROVE  HighAmount(customer.holdings) - HighAmount(customer'.holdings)
                        = IF Offer(t).after = rebalances THEN Offer(t).item.amount ELSE 0
    OBVIOUS
  <2>1. CommitRebalance(t)
    <3>1. PICK u \in Threads : ThreadStep(u)
      BY DEF Next
    <3>2. rebalances \in Nat /\ PerThread
      BY DEF IInv, DataInv
    <3>3. rebalances' # rebalances
      BY <3>2
    <3>4. CommitRebalance(u)
      BY <3>1, <3>3 DEF ThreadStep, Refresh, DetectSignal, SpawnAgent, KeepForApproval, AutoExecute,
         PolicyDone, Approve, Decline, ReadHoldings, ReadNothing, LookForPolicy, LookInVain,
         InsertPolicy, LookForCoverage, InsertCoverage, Record, BreakOff
    <3>5. u # t => pc'[t] = pc[t]
      BY <3>2, <3>4 DEF CommitRebalance, Handled, Goto, PerThread
    <3>6. u = t
      BY <3>5 DEF At
    <3> QED  BY <3>4, <3>6
  <2>2. /\ Offer(t).after = 0 /\ Offer(t).item.target = 45 /\ rebalances \in Nat
        /\ rebalances = 0 => Offer(t).item.amount = HighAmount(customer.holdings) - Percent(45)
    BY RunsForRebalance DEF OfferTrue, IInv, DataInv
  <2>3. CASE rebalances = 0
    <3>1. seen[t].holdings = customer.holdings /\ Balanced(customer.holdings)
      BY <2>3 DEF IInv, DataInv, ThreadInv, ReadTrue, Untouched, At
    <3>2. HighAmount(customer'.holdings) = Percent(45)
      <4>1. TargetHigh(45) = 45 /\ 45 <= 100
        BY DEF TargetHigh
      <4> QED  BY <2>1, <2>2, <3>1, <4>1, RebalanceCommitted
    <3> QED  BY <2>2, <2>3, <3>2
  <2>4. CASE rebalances > 0
    <3>1. customer'.holdings = customer.holdings
      BY <2>1, <2>4, RebalanceCommitted
    <3>2. HighAmount(customer.holdings) \in Int
      BY TotalsTyped DEF IInv, DataInv, Profiles
    <3> QED  BY <2>2, <2>4, <3>1, <3>2
  <2> QED  BY <2>2, <2>3, <2>4
<1>2. Spec => [][AsAnnounced]_vars
  <2> HIDE DEF AsAnnounced
  <2> QED  BY <1>1, Invariance, PTL DEF Spec
<1> QED  BY <1>2 DEF SoldAsAnnounced

=============================================================================
