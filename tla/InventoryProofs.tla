--------------------------- MODULE InventoryProofs ---------------------------
(***************************************************************************)
(* Theorems about Inventory, for every value of its constants.             *)
(***************************************************************************)
EXTENDS Inventory, SequenceTheorems, FiniteSetTheorems, WellFoundedInduction, TLAPS

USE InventoryAssumption

(***************************************************************************)
(* Induction and sums.                                                     *)
(***************************************************************************)
\* Every set of natural numbers that is not empty has a least element.
LEMMA LeastNat ==
  ASSUME NEW T, T \subseteq Nat, T # {}
  PROVE  \E x \in T : \A y \in T : x <= y
<1> DEFINE R == {ss \in Nat \X Nat : ss[1] < ss[2]}
<1>1. IsWellFoundedOn(OpToRel(<, Nat), Nat)
  BY NatLessThanWellFounded
<1>2. OpToRel(<, Nat) = R
  BY DEF OpToRel
<1>3. IsWellFoundedOn(R, Nat)
  BY <1>1, <1>2
<1>4. \A x, y \in Nat : y < x => <<y, x>> \in R
  OBVIOUS
<1> HIDE DEF R
<1>5. PICK x \in T : \A y \in T : ~ (<<y, x>> \in R)
  BY <1>3, WFMin
<1>6. ASSUME NEW y \in T PROVE x <= y
  <2>1. x \in Nat /\ y \in Nat
    OBVIOUS
  <2>2. ~(y < x)
    BY <1>4, <1>5, <2>1
  <2> QED
    BY <2>1, <2>2
<1>7. QED
  BY <1>6

\* Induction: what holds of 0, and of i + 1 when it does of i, holds up to n.
LEMMA Induction ==
  ASSUME NEW n \in Nat, NEW S, 0 \in S,
         \A i \in 0 .. (n - 1) : i \in S => i + 1 \in S
  PROVE  \A i \in 0 .. n : i \in S
<1> SUFFICES ASSUME NEW j \in 0 .. n, j \notin S PROVE FALSE
  OBVIOUS
<1> DEFINE T == {i \in 0 .. n : i \notin S}
<1>1. PICK x \in T : \A y \in T : x <= y
  <2>1. T \subseteq Nat /\ T # {}
    OBVIOUS
  <2> HIDE DEF T
  <2> QED
    BY <2>1, LeastNat
<1>2. x # 0 /\ x \in 0 .. n
  BY <1>1
<1>3. x - 1 \in 0 .. (n - 1) /\ x - 1 \notin T
  BY <1>1, <1>2
<1>4. x - 1 \in S
  BY <1>3
<1>5. (x - 1) + 1 \in S
  BY <1>3, <1>4
<1> QED
  BY <1>1, <1>2, <1>5

\* A function may be defined by what it is at 0 and how each of its values is
\* made of the one before.
Unfolds(g, V, c, F, n) ==
  /\ g \in [0 .. n -> V]
  /\ g[0] = c /\ \A i \in 1 .. n : g[i] = F[<<g[i - 1], i>>]

LEMMA Recursion ==
  ASSUME NEW V, NEW c \in V, NEW n \in Nat, NEW F \in [V \X (1 .. n) -> V]
  PROVE  \E g : Unfolds(g, V, c, F, n)
<1> DEFINE Step(g, i) == g[i] = F[<<g[i - 1], i>>]
           Meets(g, k) == g[0] = c /\ \A i \in 1 .. k : Step(g, i)
           S == {k \in 0 .. n : \E g \in [0 .. k -> V] : Meets(g, k)}
<1>1. 0 \in S
  <2> DEFINE g0 == [i \in 0 .. 0 |-> c]
  <2>1. g0 \in [0 .. 0 -> V] /\ Meets(g0, 0)
    OBVIOUS
  <2> HIDE DEF g0, Meets
  <2> QED
    BY <2>1
<1>2. ASSUME NEW k \in 0 .. (n - 1), k \in S PROVE k + 1 \in S
  <2>1. PICK g \in [0 .. k -> V] : Meets(g, k)
    BY <1>2
  <2> DEFINE v == F[<<g[k], k + 1>>]
             h == [i \in 0 .. (k + 1) |-> IF i <= k THEN g[i] ELSE v]
  <2>2. v \in V
    <3>1. g[k] \in V /\ k + 1 \in 1 .. n
      OBVIOUS
    <3> QED
      BY <3>1
  <2>3. \A i \in 0 .. k : h[i] = g[i]
    OBVIOUS
  <2>4. h[k + 1] = v
    OBVIOUS
  <2> HIDE DEF v
  <2>5. h \in [0 .. (k + 1) -> V]
    BY <2>2
  <2>6. h[0] = c
    BY <2>1, <2>3
  <2>7. ASSUME NEW i \in 1 .. (k + 1) PROVE Step(h, i)
    <3>1. CASE i \in 1 .. k
      <4>1. Step(g, i)
        BY <2>1, <3>1
      <4>2. h[i] = g[i] /\ h[i - 1] = g[i - 1]
        BY <2>3, <3>1
      <4> HIDE DEF h
      <4> QED
        BY <4>1, <4>2
    <3>2. CASE i = k + 1
      <4>1. i - 1 = k /\ h[k] = g[k] /\ h[i] = v
        BY <2>3, <2>4, <3>2
      <4> HIDE DEF h
      <4> QED
        BY <3>2, <4>1 DEF v
    <3> QED
      BY <3>1, <3>2
  <2> HIDE DEF h, Step
  <2> QED
    BY <2>5, <2>6, <2>7
<1>3. n \in S
  <2> HIDE DEF S
  <2> QED
    BY <1>1, <1>2, Induction
<1>4. PICK g \in [0 .. n -> V] : Meets(g, n)
  BY <1>3
<1> QED
  BY <1>4 DEF Unfolds

Adds(g, f, n) ==
  /\ g \in [0 .. n -> Int]
  /\ g[0] = 0 /\ \A i \in 1 .. n : g[i] = g[i - 1] + f[i]

\* SumTo() adds up one after the other, and its sums are numbers.
LEMMA SumExists ==
  ASSUME NEW n \in Nat, NEW f, \A i \in 1 .. n : f[i] \in Int
  PROVE \E g : SumTo(f, n) = g[n] /\ Adds(g, f, n)
<1> DEFINE Sum(s) == s = [i \in 0 .. n |-> IF i = 0 THEN 0 ELSE s[i - 1] + f[i]]
           sum == CHOOSE s : Sum(s)
           F == [p \in Int \X (1 .. n) |-> p[1] + f[p[2]]]
<1>1. F \in [Int \X (1 .. n) -> Int]
  OBVIOUS
<1>2. \A v \in Int, i \in 1 .. n : F[<<v, i>>] = v + f[i]
  OBVIOUS
<1> HIDE DEF F
<1>3. PICK g : Unfolds(g, Int, 0, F, n)
  <2>1. 0 \in Int
    OBVIOUS
  <2> QED
    BY <1>1, <2>1, Recursion
<1>4. ASSUME NEW i \in 1 .. n PROVE g[i] = g[i - 1] + f[i]
  <2>1. g[i - 1] \in Int
    BY <1>3 DEF Unfolds
  <2> QED
    BY <1>2, <1>3, <2>1 DEF Unfolds
<1>5. Sum(g)
  BY <1>3, <1>4 DEF Unfolds
<1>6. SumTo(f, n) = sum[n]
  BY DEF SumTo
<1>7. Sum(sum)
  <2> HIDE DEF Sum
  <2> QED
    BY <1>5
<1> HIDE DEF sum
<1> DEFINE S == {i \in 0 .. n : sum[i] \in Int}
<1>8. sum[0] = 0 /\ \A i \in 1 .. n : sum[i] = sum[i - 1] + f[i]
  BY <1>7
<1>9. \A i \in 0 .. n : i \in S
  <2>1. 0 \in S
    BY <1>8
  <2>2. ASSUME NEW i \in 0 .. (n - 1), i \in S PROVE i + 1 \in S
    <3>1. i + 1 \in 1 .. n /\ (i + 1) - 1 = i
      OBVIOUS
    <3>2. sum[i + 1] = sum[i] + f[i + 1] /\ f[i + 1] \in Int /\ sum[i] \in Int
      BY <1>8, <2>2, <3>1
    <3> QED
      BY <3>1, <3>2
  <2> HIDE DEF S
  <2> QED
    BY <2>1, <2>2, Induction
<1>10. sum \in [0 .. n -> Int]
  BY <1>7, <1>9
<1> QED
  BY <1>6, <1>8, <1>10 DEF Adds

\* Two sums of the same numbers are the same.
LEMMA SumUnique ==
  ASSUME NEW n \in Nat, NEW f, \A i \in 1 .. n : f[i] \in Int,
         NEW m \in 0 .. n, NEW g, Adds(g, f, n)
  PROVE  SumTo(f, m) = g[m]
<1>1. PICK h : SumTo(f, m) = h[m] /\ Adds(h, f, m)
  <2>1. m \in Nat /\ \A i \in 1 .. m : f[i] \in Int
    OBVIOUS
  <2> QED
    BY <2>1, SumExists
<1> DEFINE S == {i \in 0 .. m : h[i] = g[i]}
<1>2. \A i \in 0 .. m : i \in S
  <2>1. 0 \in S
    BY <1>1 DEF Adds
  <2>2. ASSUME NEW i \in 0 .. (m - 1), i \in S PROVE i + 1 \in S
    <3>1. i + 1 \in 1 .. m /\ i + 1 \in 1 .. n /\ (i + 1) - 1 = i
      OBVIOUS
    <3>2. h[i + 1] = h[i] + f[i + 1] /\ g[i + 1] = g[i] + f[i + 1]
      BY <1>1, <3>1 DEF Adds
    <3> QED
      BY <2>2, <3>1, <3>2
  <2> HIDE DEF S
  <2> QED
    BY <2>1, <2>2, Induction
<1> QED
  BY <1>1, <1>2

\* The equations of SumTo().
LEMMA SumToDef ==
  ASSUME NEW N \in Nat, NEW f, \A i \in 1 .. N : f[i] \in Int
  PROVE  /\ SumTo(f, 0) = 0
         /\ \A n \in 0 .. N : SumTo(f, n) \in Int
         /\ \A n \in 1 .. N : SumTo(f, n) = SumTo(f, n - 1) + f[n]
<1>1. PICK g : Adds(g, f, N)
  BY SumExists
<1>2. \A n \in 0 .. N : SumTo(f, n) = g[n]
  BY <1>1, SumUnique
<1> QED
  BY <1>1, <1>2 DEF Adds

\* Sums add up place by place.
LEMMA SumsAdd ==
  ASSUME NEW N \in Nat, NEW f1, NEW f2, NEW h1, NEW h2,
         \A i \in 1 .. N : /\ f1[i] \in Int /\ f2[i] \in Int
                           /\ h1[i] \in Int /\ h2[i] \in Int
                           /\ f1[i] + f2[i] = h1[i] + h2[i]
  PROVE  SumTo(f1, N) + SumTo(f2, N) = SumTo(h1, N) + SumTo(h2, N)
<1> DEFINE S == {n \in 0 .. N : SumTo(f1, n) + SumTo(f2, n) = SumTo(h1, n) + SumTo(h2, n)}
<1>1. /\ SumTo(f1, 0) = 0 /\ SumTo(f2, 0) = 0
      /\ SumTo(h1, 0) = 0 /\ SumTo(h2, 0) = 0
  BY SumToDef
<1>2. ASSUME NEW n \in 1 .. N
      PROVE  /\ SumTo(f1, n) = SumTo(f1, n - 1) + f1[n]
             /\ SumTo(f2, n) = SumTo(f2, n - 1) + f2[n]
             /\ SumTo(h1, n) = SumTo(h1, n - 1) + h1[n]
             /\ SumTo(h2, n) = SumTo(h2, n - 1) + h2[n]
  BY SumToDef
<1>3. ASSUME NEW n \in 0 .. N
      PROVE  /\ SumTo(f1, n) \in Int /\ SumTo(f2, n) \in Int
             /\ SumTo(h1, n) \in Int /\ SumTo(h2, n) \in Int
  BY SumToDef
<1>4. 0 \in S
  BY <1>1
<1>5. ASSUME NEW n \in 0 .. (N - 1), n \in S PROVE n + 1 \in S
  <2>1. n + 1 \in 1 .. N /\ (n + 1) - 1 = n /\ n \in 0 .. N
    OBVIOUS
  <2>2. f1[n + 1] + f2[n + 1] = h1[n + 1] + h2[n + 1]
    BY <2>1
  <2>3. SumTo(f1, n) + SumTo(f2, n) = SumTo(h1, n) + SumTo(h2, n)
    BY <1>5
  <2>4. SumTo(f1, n + 1) + SumTo(f2, n + 1) = SumTo(h1, n + 1) + SumTo(h2, n + 1)
    BY <1>2, <1>3, <2>1, <2>2, <2>3
  <2> QED
    BY <2>1, <2>4
<1>6. \A n \in 0 .. N : n \in S
  <2> HIDE DEF S
  <2> QED
    BY <1>4, <1>5, Induction
<1> QED
  BY <1>6

\* A sum in which one number is another.
LEMMA SumUpdate ==
  ASSUME NEW N \in Nat, NEW f, NEW h, NEW k \in 1 .. N,
         \A i \in 1 .. N : f[i] \in Int /\ h[i] \in Int,
         \A i \in (1 .. N) \ {k} : f[i] = h[i]
  PROVE  SumTo(h, N) = SumTo(f, N) + h[k] - f[k]
<1> DEFINE S == {n \in 0 .. N :
                   SumTo(h, n) = SumTo(f, n) + IF k <= n THEN h[k] - f[k] ELSE 0}
<1>1. SumTo(f, 0) = 0 /\ SumTo(h, 0) = 0
  BY SumToDef
<1>2. ASSUME NEW n \in 1 .. N
      PROVE  /\ SumTo(f, n) = SumTo(f, n - 1) + f[n]
             /\ SumTo(h, n) = SumTo(h, n - 1) + h[n]
  BY SumToDef
<1>3. ASSUME NEW n \in 0 .. N PROVE SumTo(f, n) \in Int /\ SumTo(h, n) \in Int
  BY SumToDef
<1>4. 0 \in S
  BY <1>1
<1>5. ASSUME NEW n \in 0 .. (N - 1), n \in S PROVE n + 1 \in S
  <2>1. n + 1 \in 1 .. N /\ (n + 1) - 1 = n /\ n \in 0 .. N
    OBVIOUS
  <2>2. SumTo(h, n) = SumTo(f, n) + IF k <= n THEN h[k] - f[k] ELSE 0
    BY <1>5
  <2>3. /\ SumTo(f, n + 1) = SumTo(f, n) + f[n + 1]
        /\ SumTo(h, n + 1) = SumTo(h, n) + h[n + 1]
    BY <1>2, <2>1
  <2>4. /\ SumTo(f, n) \in Int /\ SumTo(h, n) \in Int
        /\ f[n + 1] \in Int /\ h[n + 1] \in Int /\ f[k] \in Int /\ h[k] \in Int
    BY <1>3, <2>1
  <2>5. SumTo(h, n + 1) = SumTo(f, n + 1) + IF k <= n + 1 THEN h[k] - f[k] ELSE 0
    <3>1. CASE k = n + 1
      BY <2>2, <2>3, <2>4, <3>1
    <3>2. CASE k # n + 1
      <4>1. f[n + 1] = h[n + 1]
        BY <2>1, <3>2
      <4> QED
        BY <2>2, <2>3, <2>4, <3>2, <4>1
    <3> QED
      BY <3>1, <3>2
  <2> QED
    BY <2>1, <2>5
<1>6. \A n \in 0 .. N : n \in S
  <2> HIDE DEF S
  <2> QED
    BY <1>4, <1>5, Induction
<1>7. N \in S /\ k <= N /\ SumTo(f, N) \in Int /\ f[k] \in Int /\ h[k] \in Int
  BY <1>3, <1>6
<1> QED
  BY <1>7

\* A sum of what is not negative, and one of nothing.
LEMMA SumSign ==
  ASSUME NEW N \in Nat, NEW f, \A i \in 1 .. N : f[i] \in Nat
  PROVE  /\ SumTo(f, N) \in Nat
         /\ (\A i \in 1 .. N : f[i] = 0) => SumTo(f, N) = 0
<1> DEFINE S == {n \in 0 .. N :
                   /\ SumTo(f, n) \in Nat
                   /\ (\A i \in 1 .. N : f[i] = 0) => SumTo(f, n) = 0}
<1>1. SumTo(f, 0) = 0 /\ \A n \in 1 .. N : SumTo(f, n) = SumTo(f, n - 1) + f[n]
  <2>1. \A i \in 1 .. N : f[i] \in Int
    OBVIOUS
  <2> QED
    BY <2>1, SumToDef
<1>2. 0 \in S
  BY <1>1
<1>3. ASSUME NEW n \in 0 .. (N - 1), n \in S PROVE n + 1 \in S
  <2>1. n + 1 \in 1 .. N /\ (n + 1) - 1 = n
    OBVIOUS
  <2>2. SumTo(f, n + 1) = SumTo(f, n) + f[n + 1] /\ f[n + 1] \in Nat
    BY <1>1, <2>1
  <2> QED
    BY <1>3, <2>1, <2>2
<1>4. \A n \in 0 .. N : n \in S
  <2> HIDE DEF S
  <2> QED
    BY <1>2, <1>3, Induction
<1> QED
  BY <1>4

(***************************************************************************)
(* What the operators of the model return.                                 *)
(***************************************************************************)
\* The items of type t in a stack, and in one slot of S.
Count(st, t) == IF st.type = t THEN st.count ELSE 0
Counted(inv, S, t, s) == IF s \in S THEN Count(inv[s], t) ELSE 0

LEMMA Numbers ==
  /\ Slots \in Nat /\ Storage \in Nat /\ Storage <= Slots
  /\ MaxStack \in Nat /\ MaxStack >= 1
OBVIOUS

LEMMA StackFacts ==
  /\ \A t \in Types, n \in 0 .. MaxStack :
       /\ Stack(t, n) \in SlotContents
       /\ n > 0 => Stack(t, n) \in Stacks
       /\ Stack(t, n).count = n
       /\ \A u \in Types : Count(Stack(t, n), u) = IF u = t THEN n ELSE 0
  /\ \A st \in SlotContents :
       /\ st.count \in 0 .. MaxStack
       /\ st # Empty => st \in Stacks
       /\ st.type \in Types <=> st # Empty
       /\ st.type = Air <=> st = Empty
       /\ st.count = 0 <=> st = Empty
       /\ \A u : Count(st, u) \in Nat
  /\ \A st \in Stacks : /\ st.type \in Types /\ st.count \in 1 .. MaxStack
                        /\ st = Stack(st.type, st.count) /\ st # Empty
  /\ \A u \in Types : Count(Empty, u) = 0
  /\ Empty \in SlotContents
BY DEF Stack, SlotContents, Stacks, Empty, Count

LEMMA LessFacts ==
  ASSUME NEW st \in SlotContents, NEW n \in 0 .. st.count
  PROVE  /\ Less(st, n) \in SlotContents
         /\ \A u \in Types : Count(Less(st, n), u) =
                               Count(st, u) - IF st.type = u THEN n ELSE 0
BY DEF Less, Stack, SlotContents, Stacks, Empty, Count

LEMMA UnitsDef ==
  ASSUME NEW inv, NEW S, NEW t
  PROVE  UnitsIn(inv, S, t) = SumTo([s \in 1 .. Slots |-> Counted(inv, S, t, s)], Slots)
<1>1. [s \in 1 .. Slots |-> IF s \in S /\ inv[s].type = t THEN inv[s].count ELSE 0]
        = [s \in 1 .. Slots |-> Counted(inv, S, t, s)]
  BY DEF Counted, Count
<1> QED
  BY <1>1 DEF UnitsIn

\* Items are counted in natural numbers.
LEMMA UnitsType ==
  ASSUME NEW inv, NEW S, NEW t, \A s \in S \cap (1 .. Slots) : inv[s].count \in Nat
  PROVE  /\ UnitsIn(inv, S, t) \in Nat
         /\ \A s \in 1 .. Slots : Counted(inv, S, t, s) \in Nat
<1> DEFINE f == [s \in 1 .. Slots |-> Counted(inv, S, t, s)]
<1>1. \A s \in 1 .. Slots : Counted(inv, S, t, s) \in Nat
  BY DEF Counted, Count
<1>2. \A s \in 1 .. Slots : f[s] \in Nat
  BY <1>1
<1>3. UnitsIn(inv, S, t) = SumTo(f, Slots)
  BY UnitsDef
<1> HIDE DEF f
<1>4. SumTo(f, Slots) \in Nat
  BY <1>2, SumSign, Numbers
<1> QED
  BY <1>1, <1>3, <1>4

\* Items add up slot by slot.
LEMMA UnitsAdd ==
  ASSUME NEW t, NEW i1, NEW S1, NEW i2, NEW S2, NEW i3, NEW S3, NEW i4, NEW S4,
         \A s \in 1 .. Slots :
           /\ Counted(i1, S1, t, s) \in Int /\ Counted(i2, S2, t, s) \in Int
           /\ Counted(i3, S3, t, s) \in Int /\ Counted(i4, S4, t, s) \in Int
           /\ Counted(i1, S1, t, s) + Counted(i2, S2, t, s)
                = Counted(i3, S3, t, s) + Counted(i4, S4, t, s)
  PROVE  UnitsIn(i1, S1, t) + UnitsIn(i2, S2, t) = UnitsIn(i3, S3, t) + UnitsIn(i4, S4, t)
<1> DEFINE f1 == [s \in 1 .. Slots |-> Counted(i1, S1, t, s)]
           f2 == [s \in 1 .. Slots |-> Counted(i2, S2, t, s)]
           f3 == [s \in 1 .. Slots |-> Counted(i3, S3, t, s)]
           f4 == [s \in 1 .. Slots |-> Counted(i4, S4, t, s)]
<1>1. \A s \in 1 .. Slots : /\ f1[s] \in Int /\ f2[s] \in Int
                            /\ f3[s] \in Int /\ f4[s] \in Int
                            /\ f1[s] + f2[s] = f3[s] + f4[s]
  OBVIOUS
<1>2. /\ UnitsIn(i1, S1, t) = SumTo(f1, Slots) /\ UnitsIn(i2, S2, t) = SumTo(f2, Slots)
      /\ UnitsIn(i3, S3, t) = SumTo(f3, Slots) /\ UnitsIn(i4, S4, t) = SumTo(f4, Slots)
  BY UnitsDef
<1> HIDE DEF f1, f2, f3, f4
<1>3. SumTo(f1, Slots) + SumTo(f2, Slots) = SumTo(f3, Slots) + SumTo(f4, Slots)
  BY <1>1, SumsAdd, Numbers
<1> QED
  BY <1>2, <1>3

\* Two counts that differ in one slot.
LEMMA UnitsDiffer ==
  ASSUME NEW t, NEW i1, NEW S1, NEW i2, NEW S2, NEW k \in 1 .. Slots,
         \A s \in 1 .. Slots :
           /\ Counted(i1, S1, t, s) \in Int /\ Counted(i2, S2, t, s) \in Int
           /\ s # k => Counted(i1, S1, t, s) = Counted(i2, S2, t, s)
  PROVE  UnitsIn(i2, S2, t) =
           UnitsIn(i1, S1, t) + Counted(i2, S2, t, k) - Counted(i1, S1, t, k)
<1> DEFINE f == [s \in 1 .. Slots |-> Counted(i1, S1, t, s)]
           h == [s \in 1 .. Slots |-> Counted(i2, S2, t, s)]
<1>1. /\ \A s \in 1 .. Slots : f[s] \in Int /\ h[s] \in Int
      /\ \A s \in (1 .. Slots) \ {k} : f[s] = h[s]
  OBVIOUS
<1>2. UnitsIn(i1, S1, t) = SumTo(f, Slots) /\ UnitsIn(i2, S2, t) = SumTo(h, Slots)
  BY UnitsDef
<1>3. f[k] = Counted(i1, S1, t, k) /\ h[k] = Counted(i2, S2, t, k)
  OBVIOUS
<1> HIDE DEF f, h
<1>4. SumTo(h, Slots) = SumTo(f, Slots) + h[k] - f[k]
  BY <1>1, SumUpdate, Numbers
<1> QED
  BY <1>2, <1>3, <1>4

LEMMA UnitsSame ==
  ASSUME NEW t, NEW i1, NEW S1, NEW i2, NEW S2,
         \A s \in 1 .. Slots : Counted(i1, S1, t, s) = Counted(i2, S2, t, s)
  PROVE  UnitsIn(i2, S2, t) = UnitsIn(i1, S1, t)
<1>1. [s \in 1 .. Slots |-> Counted(i1, S1, t, s)]
        = [s \in 1 .. Slots |-> Counted(i2, S2, t, s)]
  OBVIOUS
<1> QED
  BY <1>1, UnitsDef

LEMMA ContentsCount ==
  ASSUME NEW inv \in Contents
  PROVE  \A s \in 1 .. Slots : inv[s] \in SlotContents /\ inv[s].count \in 0 .. MaxStack
BY StackFacts DEF Contents

\* One slot is written to.
LEMMA UnitsAt ==
  ASSUME NEW inv \in Contents, NEW i2 \in Contents, NEW k \in 1 .. Slots, NEW t,
         \A s \in 1 .. Slots : s # k => i2[s] = inv[s]
  PROVE  UnitsIn(i2, 1 .. Slots, t) =
           UnitsIn(inv, 1 .. Slots, t) + Count(i2[k], t) - Count(inv[k], t)
<1>1. \A s \in 1 .. Slots :
        /\ Counted(inv, 1 .. Slots, t, s) \in Int /\ Counted(i2, 1 .. Slots, t, s) \in Int
        /\ s # k => Counted(inv, 1 .. Slots, t, s) = Counted(i2, 1 .. Slots, t, s)
  BY ContentsCount, StackFacts DEF Counted
<1>2. /\ Counted(inv, 1 .. Slots, t, k) = Count(inv[k], t)
      /\ Counted(i2, 1 .. Slots, t, k) = Count(i2[k], t)
  BY DEF Counted
<1>3. UnitsIn(i2, 1 .. Slots, t) = UnitsIn(inv, 1 .. Slots, t)
           + Counted(i2, 1 .. Slots, t, k) - Counted(inv, 1 .. Slots, t, k)
  BY <1>1, UnitsDiffer
<1> QED
  BY <1>2, <1>3

\* One slot more is counted.
LEMMA UnitsPrefix ==
  ASSUME NEW inv, NEW t, \A s \in 1 .. Slots : inv[s].count \in Nat
  PROVE  /\ UnitsIn(inv, 1 .. 0, t) = 0
         /\ \A n \in 0 .. Slots : UnitsIn(inv, 1 .. n, t) \in Nat
         /\ \A n \in 0 .. (Slots - 1) :
              /\ UnitsIn(inv, 1 .. (n + 1), t) = UnitsIn(inv, 1 .. n, t) + Count(inv[n + 1], t)
              /\ Count(inv[n + 1], t) \in Nat
<1>1. ASSUME NEW S PROVE \A s \in 1 .. Slots : Counted(inv, S, t, s) \in Nat
  BY DEF Counted, Count
<1>2. UnitsIn(inv, 1 .. 0, t) = 0
  <2> DEFINE f == [s \in 1 .. Slots |-> Counted(inv, 1 .. 0, t, s)]
  <2>1. \A s \in 1 .. Slots : f[s] = 0 /\ f[s] \in Nat
    BY DEF Counted
  <2>2. UnitsIn(inv, 1 .. 0, t) = SumTo(f, Slots)
    BY UnitsDef
  <2> HIDE DEF f
  <2> QED
    BY <2>1, <2>2, SumSign, Numbers
<1>3. ASSUME NEW n \in 0 .. Slots PROVE UnitsIn(inv, 1 .. n, t) \in Nat
  BY UnitsType
<1>4. ASSUME NEW n \in 0 .. (Slots - 1)
      PROVE  /\ UnitsIn(inv, 1 .. (n + 1), t) = UnitsIn(inv, 1 .. n, t) + Count(inv[n + 1], t)
             /\ Count(inv[n + 1], t) \in Nat
  <2>1. n + 1 \in 1 .. Slots
    OBVIOUS
  <2>2. /\ Counted(inv, 1 .. (n + 1), t, n + 1) = Count(inv[n + 1], t)
        /\ Counted(inv, 1 .. n, t, n + 1) = 0
    BY DEF Counted
  <2>3. \A s \in 1 .. Slots :
          /\ Counted(inv, 1 .. n, t, s) \in Int /\ Counted(inv, 1 .. (n + 1), t, s) \in Int
          /\ s # n + 1 => Counted(inv, 1 .. n, t, s) = Counted(inv, 1 .. (n + 1), t, s)
    <3>1. \A s \in 1 .. Slots : s # n + 1 => (s \in 1 .. n <=> s \in 1 .. (n + 1))
      OBVIOUS
    <3>2. \A s \in 1 .. Slots :
            /\ Counted(inv, 1 .. n, t, s) \in Nat /\ Counted(inv, 1 .. (n + 1), t, s) \in Nat
      BY <1>1
    <3>3. \A s \in 1 .. Slots :
            s # n + 1 => Counted(inv, 1 .. n, t, s) = Counted(inv, 1 .. (n + 1), t, s)
      BY <3>1 DEF Counted
    <3> QED
      BY <3>2, <3>3
  <2>4. UnitsIn(inv, 1 .. (n + 1), t) = UnitsIn(inv, 1 .. n, t)
          + Counted(inv, 1 .. (n + 1), t, n + 1) - Counted(inv, 1 .. n, t, n + 1)
    BY <2>1, <2>3, UnitsDiffer
  <2>5. UnitsIn(inv, 1 .. n, t) \in Nat /\ Count(inv[n + 1], t) \in Nat
    BY <1>3, <2>1 DEF Count
  <2> QED
    BY <2>2, <2>4, <2>5
<1> QED
  BY <1>2, <1>3, <1>4

\* The room in one slot.
RoomFor(st, t) == IF st.type = t THEN MaxStack - st.count ELSE 0

LEMMA RoomPrefix ==
  ASSUME NEW inv \in Contents, NEW t
  PROVE  /\ RoomIn(inv, 1 .. 0, t) = 0
         /\ \A n \in 0 .. Slots : RoomIn(inv, 1 .. n, t) \in Nat
         /\ \A n \in 0 .. (Slots - 1) :
              /\ RoomIn(inv, 1 .. (n + 1), t) = RoomIn(inv, 1 .. n, t) + RoomFor(inv[n + 1], t)
              /\ RoomFor(inv[n + 1], t) \in Nat
<1> DEFINE free == [s \in 1 .. Slots |->
                      [type |-> inv[s].type, count |-> MaxStack - inv[s].count]]
<1>1. \A s \in 1 .. Slots : /\ free[s].count \in Nat
                            /\ Count(free[s], t) = RoomFor(inv[s], t)
  BY ContentsCount DEF Count, RoomFor
<1>2. ASSUME NEW S PROVE RoomIn(inv, S, t) = UnitsIn(free, S, t)
  <2>1. [s \in 1 .. Slots |-> IF s \in S /\ inv[s].type = t THEN MaxStack - inv[s].count ELSE 0]
          = [s \in 1 .. Slots |-> IF s \in S /\ free[s].type = t THEN free[s].count ELSE 0]
    OBVIOUS
  <2> HIDE DEF free
  <2> QED
    BY <2>1 DEF RoomIn, UnitsIn
<1> HIDE DEF free
<1>3. \A n \in 0 .. (Slots - 1) : n + 1 \in 1 .. Slots
  OBVIOUS
<1> QED
  BY <1>1, <1>2, <1>3, UnitsPrefix

\* Adding to or taking from slots of one type, up to Storage.
LEMMA UnitsUpToStorage ==
  ASSUME NEW i1 \in Contents, NEW i2 \in Contents, NEW t,
         \A s \in 1 .. Slots : s > Storage => i1[s] = i2[s]
  PROVE  UnitsIn(i2, 1 .. Slots, t) + UnitsIn(i1, 1 .. Storage, t) =
           UnitsIn(i1, 1 .. Slots, t) + UnitsIn(i2, 1 .. Storage, t)
<1>1. \A S, s : s \in 1 .. Slots => Counted(i1, S, t, s) \in Nat /\ Counted(i2, S, t, s) \in Nat
  BY ContentsCount DEF Counted, Count
<1>2. ASSUME NEW s \in 1 .. Slots
      PROVE  Counted(i2, 1 .. Slots, t, s) + Counted(i1, 1 .. Storage, t, s) =
               Counted(i1, 1 .. Slots, t, s) + Counted(i2, 1 .. Storage, t, s)
  <2>1. CASE s <= Storage
    <3>1. /\ Counted(i2, 1 .. Slots, t, s) = Counted(i2, 1 .. Storage, t, s)
          /\ Counted(i1, 1 .. Slots, t, s) = Counted(i1, 1 .. Storage, t, s)
      BY <2>1 DEF Counted
    <3> QED
      BY <1>1, <3>1
  <2>2. CASE s > Storage
    <3>1. /\ Counted(i1, 1 .. Storage, t, s) = 0 /\ Counted(i2, 1 .. Storage, t, s) = 0
          /\ Counted(i2, 1 .. Slots, t, s) = Counted(i1, 1 .. Slots, t, s)
      BY <2>2 DEF Counted
    <3> QED
      BY <1>1, <3>1
  <2> QED
    BY <2>1, <2>2
<1>3. \A s \in 1 .. Slots :
        /\ Counted(i2, 1 .. Slots, t, s) \in Int /\ Counted(i1, 1 .. Storage, t, s) \in Int
        /\ Counted(i1, 1 .. Slots, t, s) \in Int /\ Counted(i2, 1 .. Storage, t, s) \in Int
        /\ Counted(i2, 1 .. Slots, t, s) + Counted(i1, 1 .. Storage, t, s) =
             Counted(i1, 1 .. Slots, t, s) + Counted(i2, 1 .. Storage, t, s)
  <2>1. \A n \in Nat : n \in Int
    OBVIOUS
  <2> QED
    BY <1>1, <1>2, <2>1
<1> QED
  BY <1>3, UnitsAdd, SMTT(60)

\* Items taken from the slots in order: as many as there are, up to n.
LEMMA ConsumedFacts ==
  ASSUME NEW inv \in Contents, NEW t \in Types, NEW n \in Nat
  PROVE  /\ Consumed(inv, t, n) \in Contents
         /\ \A u \in Types :
              UnitsIn(Consumed(inv, t, n), 1 .. Slots, u) = UnitsIn(inv, 1 .. Slots, u)
                - IF u = t THEN Smaller(n, UnitsIn(inv, 1 .. Storage, t)) ELSE 0
<1> DEFINE left == Consumed(inv, t, n)
           Had(k) == UnitsIn(inv, 1 .. k, t)
           Taken(s) == Smaller(inv[s].count, Positive(n - Had(s - 1)))
<1>1. \A s \in 1 .. Slots : Had(s - 1) \in Nat
  <2>1. \A s \in 1 .. Slots : s - 1 \in 0 .. Slots /\ inv[s].count \in Nat
    BY ContentsCount
  <2>2. \A k \in 0 .. Slots : Had(k) \in Nat
    BY <2>1, UnitsPrefix
  <2> QED
    BY <2>1, <2>2
<1>2. \A s \in 1 .. Slots : Taken(s) \in 0 .. inv[s].count
  BY <1>1, ContentsCount DEF Smaller, Positive
<1>3. \A s \in 1 .. Slots :
        left[s] = IF s <= Storage /\ inv[s].type = t THEN Less(inv[s], Taken(s)) ELSE inv[s]
  BY DEF Consumed
<1> HIDE DEF Taken
<1>4. left \in Contents
  <2>1. \A s \in 1 .. Slots : left[s] \in SlotContents
    BY <1>2, <1>3, LessFacts, ContentsCount
  <2>2. left = [s \in 1 .. Slots |-> left[s]]
    BY DEF Consumed
  <2> HIDE DEF left
  <2> QED
    BY <2>1, <2>2 DEF Contents
<1>5. ASSUME NEW s \in 1 .. Slots, NEW u \in Types
      PROVE  Count(left[s], u) = Count(inv[s], u)
               - IF s <= Storage /\ inv[s].type = t /\ u = t THEN Taken(s) ELSE 0
  <2>1. Count(inv[s], u) \in Nat
    BY ContentsCount, StackFacts
  <2>2. inv[s].type = t => Count(Less(inv[s], Taken(s)), u) =
                             Count(inv[s], u) - IF inv[s].type = u THEN Taken(s) ELSE 0
    BY <1>2, LessFacts, ContentsCount
  <2> HIDE DEF left
  <2> QED
    BY <1>3, <2>1, <2>2
<1> DEFINE Is(k) == UnitsIn(left, 1 .. k, t)
           S == {k \in 0 .. Storage : Is(k) = Had(k) - Smaller(n, Had(k))}
<1>6. \A k \in 0 .. (Storage - 1) :
        /\ Had(k + 1) = Had(k) + Count(inv[k + 1], t)
        /\ Is(k + 1) = Is(k) + Count(left[k + 1], t)
        /\ Had(k) \in Nat /\ Count(inv[k + 1], t) \in Nat /\ Is(k) \in Nat
  <2>1. \A k \in 0 .. (Storage - 1) : k \in 0 .. (Slots - 1) /\ k \in 0 .. Slots
    OBVIOUS
  <2>2. \A s \in 1 .. Slots : inv[s].count \in Nat /\ left[s].count \in Nat
    BY <1>4, ContentsCount
  <2> HIDE DEF left
  <2> QED
    BY <2>1, <2>2, UnitsPrefix
<1>7. 0 \in S
  <2>1. \A s \in 1 .. Slots : inv[s].count \in Nat /\ left[s].count \in Nat
    BY <1>4, ContentsCount
  <2>2. Is(0) = 0 /\ Had(0) = 0
    <3> HIDE DEF left
    <3> QED
      BY <2>1, UnitsPrefix
  <2> QED
    BY <2>2 DEF Smaller
<1> HIDE DEF left
<1>8. ASSUME NEW k \in 0 .. (Storage - 1), k \in S PROVE k + 1 \in S
  <2>1. k + 1 \in 1 .. Slots /\ k + 1 <= Storage /\ (k + 1) - 1 = k /\ k + 1 \in 0 .. Storage
    OBVIOUS
  <2>2. Count(left[k + 1], t) = Count(inv[k + 1], t)
          - IF inv[k + 1].type = t THEN Taken(k + 1) ELSE 0
    BY <1>5, <2>1
  <2>3. inv[k + 1].type = t => Taken(k + 1) = Smaller(Count(inv[k + 1], t), Positive(n - Had(k)))
    BY <2>1 DEF Taken, Count
  <2>4. inv[k + 1].type # t => Count(inv[k + 1], t) = 0
    BY DEF Count
  <2>5. Is(k) = Had(k) - Smaller(n, Had(k))
    BY <1>8
  <2> HIDE DEF Is, Had
  <2>6. Is(k + 1) = Had(k + 1) - Smaller(n, Had(k + 1))
    BY <1>6, <2>2, <2>3, <2>4, <2>5 DEF Smaller, Positive
  <2> QED
    BY <2>1, <2>6
<1>9. Is(Storage) = Had(Storage) - Smaller(n, Had(Storage))
  <2>1. \A k \in 0 .. Storage : k \in S
    <3> HIDE DEF S
    <3> QED
      BY <1>7, <1>8, Numbers, Induction
  <2>2. Storage \in S
    BY <2>1, Numbers
  <2> QED
    BY <2>2
<1>10. ASSUME NEW u \in Types
       PROVE  UnitsIn(left, 1 .. Slots, u) = UnitsIn(inv, 1 .. Slots, u)
                - IF u = t THEN Smaller(n, Had(Storage)) ELSE 0
  <2>1. CASE u = t
    <3>1. UnitsIn(left, 1 .. Slots, t) + UnitsIn(inv, 1 .. Storage, t) =
            UnitsIn(inv, 1 .. Slots, t) + UnitsIn(left, 1 .. Storage, t)
      BY <1>3, <1>4, UnitsUpToStorage
    <3>2. /\ UnitsIn(left, 1 .. Slots, t) \in Nat /\ UnitsIn(inv, 1 .. Storage, t) \in Nat
          /\ UnitsIn(inv, 1 .. Slots, t) \in Nat
      BY <1>4, ContentsCount, UnitsType, Numbers
    <3>3. Smaller(n, Had(Storage)) \in Nat
      BY <3>2 DEF Smaller
    <3> QED
      BY <1>9, <2>1, <3>1, <3>2, <3>3
  <2>2. CASE u # t
    <3>1. \A s \in 1 .. Slots : Count(left[s], u) = Count(inv[s], u) /\ Count(inv[s], u) \in Nat
      BY <1>5, <2>2, ContentsCount DEF Count
    <3>2. UnitsIn(left, 1 .. Slots, u) = UnitsIn(inv, 1 .. Slots, u)
      BY <3>1, UnitsSame DEF Counted
    <3>3. UnitsIn(inv, 1 .. Slots, u) \in Nat
      BY ContentsCount, UnitsType
    <3> QED
      BY <2>2, <3>2, <3>3
  <2> QED
    BY <2>1, <2>2
<1> QED
  BY <1>4, <1>10 DEF left

\* A stack on top of others: as much of it as there is room for.
LEMMA FilledFacts ==
  ASSUME NEW inv \in Contents, NEW st \in Stacks
  PROVE  /\ Filled(inv, st) \in Contents
         /\ \A s \in 1 .. Slots : Filled(inv, st)[s] = Empty <=> inv[s] = Empty
         /\ \A u \in Types :
              UnitsIn(Filled(inv, st), 1 .. Slots, u) = UnitsIn(inv, 1 .. Slots, u)
                + IF u = st.type THEN Smaller(st.count, RoomIn(inv, 1 .. Storage, st.type))
                  ELSE 0
<1> DEFINE t == st.type
           full == Filled(inv, st)
           Had(k) == UnitsIn(inv, 1 .. k, t)
           Room(k) == RoomIn(inv, 1 .. k, t)
           Put(s) == Smaller(MaxStack - inv[s].count, Positive(st.count - Room(s - 1)))
<1>1. t \in Types /\ st.count \in Nat
  BY DEF Stacks
<1> HIDE DEF t
<1>2. \A s \in 1 .. Slots : Room(s - 1) \in Nat
  <2>1. \A s \in 1 .. Slots : s - 1 \in 0 .. Slots
    OBVIOUS
  <2>2. \A k \in 0 .. Slots : Room(k) \in Nat
    BY RoomPrefix
  <2> QED
    BY <2>1, <2>2
<1>3. \A s \in 1 .. Slots : Put(s) \in 0 .. (MaxStack - inv[s].count)
  BY <1>1, <1>2, ContentsCount, SMTT(60) DEF Smaller, Positive
<1>4. \A s \in 1 .. Slots :
        full[s] = IF s <= Storage /\ inv[s].type = t
                  THEN Stack(t, inv[s].count + Put(s)) ELSE inv[s]
  BY DEF Filled, t
<1> HIDE DEF Put
<1>5. \A s \in 1 .. Slots : inv[s].count + Put(s) \in 0 .. MaxStack
  BY <1>3, ContentsCount
<1>6. full \in Contents
  <2>1. \A s \in 1 .. Slots : full[s] \in SlotContents
    BY <1>1, <1>4, <1>5, StackFacts, ContentsCount
  <2>2. full = [s \in 1 .. Slots |-> full[s]]
    BY DEF Filled
  <2> HIDE DEF full
  <2> QED
    BY <2>1, <2>2 DEF Contents
<1>7. ASSUME NEW s \in 1 .. Slots PROVE full[s] = Empty <=> inv[s] = Empty
  <2>1. CASE inv[s].type = t
    <3>1. inv[s] # Empty /\ inv[s].count \in 1 .. MaxStack
      BY <1>1, <2>1, ContentsCount, StackFacts
    <3>2. inv[s].count + Put(s) > 0
      BY <1>3, <3>1, Numbers
    <3>3. Stack(t, inv[s].count + Put(s)) # Empty
      BY <1>1, <1>5, <3>2, StackFacts
    <3> HIDE DEF full
    <3> QED
      BY <1>4, <3>1, <3>3
  <2>2. CASE inv[s].type # t
    BY <1>4, <2>2
  <2> QED
    BY <2>1, <2>2
<1>8. ASSUME NEW s \in 1 .. Slots, NEW u \in Types
      PROVE  Count(full[s], u) = Count(inv[s], u)
               + IF s <= Storage /\ inv[s].type = t /\ u = t THEN Put(s) ELSE 0
  <2>1. Count(inv[s], u) \in Nat
    BY ContentsCount, StackFacts
  <2>2. Count(Stack(t, inv[s].count + Put(s)), u) = IF u = t THEN inv[s].count + Put(s) ELSE 0
    BY <1>1, <1>5, StackFacts
  <2>3. inv[s].type = t => Count(inv[s], u) = IF u = t THEN inv[s].count ELSE 0
    BY DEF Count
  <2> HIDE DEF full
  <2> QED
    BY <1>4, <2>1, <2>2, <2>3
<1> DEFINE Is(k) == UnitsIn(full, 1 .. k, t)
           S == {k \in 0 .. Storage : Is(k) = Had(k) + Smaller(st.count, Room(k))}
<1>9. \A s \in 1 .. Slots : inv[s].count \in Nat /\ full[s].count \in Nat
  BY <1>6, ContentsCount
<1> HIDE DEF full
<1>10. \A k \in 0 .. (Storage - 1) :
        /\ Had(k + 1) = Had(k) + Count(inv[k + 1], t)
        /\ Is(k + 1) = Is(k) + Count(full[k + 1], t)
        /\ Room(k + 1) = Room(k) + RoomFor(inv[k + 1], t)
        /\ Had(k) \in Nat /\ Count(inv[k + 1], t) \in Nat /\ Is(k) \in Nat
        /\ Room(k) \in Nat /\ RoomFor(inv[k + 1], t) \in Nat
  <2>1. \A k \in 0 .. (Storage - 1) : k \in 0 .. (Slots - 1) /\ k \in 0 .. Slots
    OBVIOUS
  <2>2. \A k \in 0 .. (Storage - 1) :
          /\ Had(k + 1) = Had(k) + Count(inv[k + 1], t)
          /\ Is(k + 1) = Is(k) + Count(full[k + 1], t)
          /\ Had(k) \in Nat /\ Count(inv[k + 1], t) \in Nat /\ Is(k) \in Nat
    BY <1>9, <2>1, UnitsPrefix
  <2>3. \A k \in 0 .. (Storage - 1) :
          /\ Room(k + 1) = Room(k) + RoomFor(inv[k + 1], t)
          /\ Room(k) \in Nat /\ RoomFor(inv[k + 1], t) \in Nat
    BY <2>1, RoomPrefix
  <2> QED
    BY <2>2, <2>3
<1>11. 0 \in S
  <2>1. Is(0) = 0 /\ Had(0) = 0
    BY <1>9, UnitsPrefix
  <2>2. Room(0) = 0
    BY RoomPrefix
  <2> HIDE DEF Is, Had, Room
  <2> QED
    BY <1>1, <2>1, <2>2 DEF Smaller
<1>12. ASSUME NEW k \in 0 .. (Storage - 1), k \in S PROVE k + 1 \in S
  <2>1. k + 1 \in 1 .. Slots /\ k + 1 <= Storage /\ (k + 1) - 1 = k /\ k + 1 \in 0 .. Storage
    OBVIOUS
  <2>2. Count(full[k + 1], t) = Count(inv[k + 1], t)
          + IF inv[k + 1].type = t THEN Put(k + 1) ELSE 0
    BY <1>1, <1>8, <2>1
  <2>3. inv[k + 1].type = t =>
          Put(k + 1) = Smaller(RoomFor(inv[k + 1], t), Positive(st.count - Room(k)))
    BY <2>1 DEF Put, RoomFor
  <2>4. inv[k + 1].type # t => RoomFor(inv[k + 1], t) = 0
    BY DEF RoomFor
  <2>5. Is(k) = Had(k) + Smaller(st.count, Room(k))
    BY <1>12
  <2> HIDE DEF Is, Had, Room
  <2>6. Is(k + 1) = Had(k + 1) + Smaller(st.count, Room(k + 1))
    BY <1>1, <1>10, <2>2, <2>3, <2>4, <2>5 DEF Smaller, Positive
  <2> QED
    BY <2>1, <2>6
<1>13. Is(Storage) = Had(Storage) + Smaller(st.count, Room(Storage))
  <2>1. \A k \in 0 .. Storage : k \in S
    <3> HIDE DEF S
    <3> QED
      BY <1>11, <1>12, Numbers, Induction
  <2>2. Storage \in S
    BY <2>1, Numbers
  <2> QED
    BY <2>2
<1>14. ASSUME NEW u \in Types
       PROVE  UnitsIn(full, 1 .. Slots, u) = UnitsIn(inv, 1 .. Slots, u)
                + IF u = t THEN Smaller(st.count, Room(Storage)) ELSE 0
  <2>1. CASE u = t
    <3>1. UnitsIn(full, 1 .. Slots, t) + UnitsIn(inv, 1 .. Storage, t) =
            UnitsIn(inv, 1 .. Slots, t) + UnitsIn(full, 1 .. Storage, t)
      BY <1>4, <1>6, UnitsUpToStorage
    <3>2. /\ UnitsIn(full, 1 .. Slots, t) \in Nat /\ UnitsIn(inv, 1 .. Storage, t) \in Nat
          /\ UnitsIn(inv, 1 .. Slots, t) \in Nat
      BY <1>9, UnitsType, Numbers
    <3>3. Smaller(st.count, Room(Storage)) \in Nat
      <4>1. Storage \in 0 .. Slots
        BY Numbers
      <4>2. Room(Storage) \in Nat
        BY <4>1, RoomPrefix
      <4> QED
        BY <1>1, <4>2 DEF Smaller
    <3> QED
      BY <1>13, <2>1, <3>1, <3>2, <3>3
  <2>2. CASE u # t
    <3>1. \A s \in 1 .. Slots : Count(full[s], u) = Count(inv[s], u)
      BY <1>8, <2>2, ContentsCount, StackFacts
    <3>2. UnitsIn(full, 1 .. Slots, u) = UnitsIn(inv, 1 .. Slots, u)
      BY <3>1, UnitsSame DEF Counted
    <3>3. UnitsIn(inv, 1 .. Slots, u) \in Nat
      BY <1>9, UnitsType
    <3> QED
      BY <2>2, <3>2, <3>3
  <2> QED
    BY <2>1, <2>2
<1> QED
  BY <1>6, <1>7, <1>14 DEF full, t

\* Nothing of a stack is lost but what is left over.
LEMMA StowedFacts ==
  ASSUME NEW inv \in Contents, NEW st \in Stacks
  PROVE  /\ Stowed(inv, st) \in Contents
         /\ LeftOver(inv, st) \in SlotContents
         /\ LeftOver(inv, st) # Empty => FirstEmpty(inv) = {} /\ FirstEmpty(Stowed(inv, st)) = {}
         /\ \A u \in Types :
              UnitsIn(Stowed(inv, st), 1 .. Slots, u) + Count(LeftOver(inv, st), u) =
                UnitsIn(inv, 1 .. Slots, u) + Count(st, u)
<1> DEFINE t == st.type
           full == Filled(inv, st)
           rest == Rest(inv, st)
           room == RoomIn(inv, 1 .. Storage, t)
<1>1. t \in Types /\ st.count \in 1 .. MaxStack /\ room \in Nat
  <2>1. Storage \in 0 .. Slots
    BY Numbers
  <2>2. room \in Nat
    BY <2>1, RoomPrefix
  <2> QED
    BY <2>2 DEF Stacks
<1>2. Positive(st.count - room) \in 0 .. MaxStack
  BY <1>1 DEF Positive
<1>3. rest = Stack(t, Positive(st.count - room))
  BY DEF Rest
<1>4. rest \in SlotContents
  BY <1>1, <1>2, <1>3, StackFacts
<1>5. ASSUME NEW u \in Types
      PROVE  /\ UnitsIn(full, 1 .. Slots, u) + Count(rest, u) =
                  UnitsIn(inv, 1 .. Slots, u) + Count(st, u)
             /\ UnitsIn(full, 1 .. Slots, u) \in Nat /\ UnitsIn(inv, 1 .. Slots, u) \in Nat
             /\ Count(rest, u) \in Nat /\ Count(st, u) \in Nat
  <2>1. UnitsIn(full, 1 .. Slots, u) = UnitsIn(inv, 1 .. Slots, u)
                + IF u = t THEN Smaller(st.count, room) ELSE 0
    BY FilledFacts
  <2>2. Count(rest, u) = IF u = t THEN Positive(st.count - room) ELSE 0
    BY <1>1, <1>2, <1>3, StackFacts
  <2>3. Count(st, u) = IF u = t THEN st.count ELSE 0
    BY DEF Count
  <2>4. UnitsIn(inv, 1 .. Slots, u) \in Nat
    BY ContentsCount, UnitsType
  <2> HIDE DEF full, rest, room, t
  <2> QED
    BY <1>1, <2>1, <2>2, <2>3, <2>4 DEF Smaller, Positive
<1>6. full \in Contents /\ \A s \in 1 .. Slots : full[s] = Empty <=> inv[s] = Empty
  BY FilledFacts
<1>7. full = [s \in 1 .. Slots |-> full[s]]
  BY <1>6 DEF Contents
<1> HIDE DEF t, full, rest, room
<1>8. Stowed(inv, st) = [s \in 1 .. Slots |-> IF s \in FirstEmpty(inv) THEN rest ELSE full[s]]
  BY DEF Stowed, rest, full
<1>9. CASE FirstEmpty(inv) = {}
  <2>1. LeftOver(inv, st) = rest
    BY <1>9 DEF LeftOver, rest
  <2>2. Stowed(inv, st) = full
    BY <1>7, <1>8, <1>9
  <2>3. FirstEmpty(full) = {}
    <3>1. \A s \in 1 .. Storage : s \in 1 .. Slots /\ \A r \in 1 .. (s - 1) : r \in 1 .. Slots
      BY Numbers
    <3>2. FirstEmpty(full) = FirstEmpty(inv)
      BY <1>6, <3>1 DEF FirstEmpty
    <3> QED
      BY <1>9, <3>2
  <2> QED
    BY <1>4, <1>5, <1>6, <1>9, <2>1, <2>2, <2>3
<1>10. CASE FirstEmpty(inv) # {}
  <2>1. PICK e \in FirstEmpty(inv) : TRUE
    BY <1>10
  <2>2. e \in 1 .. Storage /\ e \in 1 .. Slots /\ inv[e] = Empty
    BY <2>1, Numbers DEF FirstEmpty
  <2>3. FirstEmpty(inv) = {e}
    <3> SUFFICES ASSUME NEW d \in FirstEmpty(inv) PROVE d = e
      BY <2>1
    <3>1. /\ d \in 1 .. Storage /\ inv[d] = Empty
          /\ \A r \in 1 .. (d - 1) : inv[r] # Empty
          /\ \A r \in 1 .. (e - 1) : inv[r] # Empty
      BY <2>1 DEF FirstEmpty
    <3>2. ~(e \in 1 .. (d - 1)) /\ ~(d \in 1 .. (e - 1))
      BY <2>2, <3>1
    <3> QED
      BY <2>2, <3>1, <3>2, Numbers
  <2>4. /\ \A s \in 1 .. Slots : s # e => Stowed(inv, st)[s] = full[s]
        /\ Stowed(inv, st)[e] = rest
    BY <1>8, <2>2, <2>3
  <2>5. LeftOver(inv, st) = Empty
    BY <1>10 DEF LeftOver
  <2>6. full[e] = Empty
    BY <1>6, <2>2
  <2>7. Stowed(inv, st) \in Contents
    BY <1>4, <1>6, <1>8 DEF Contents
  <2>8. ASSUME NEW u \in Types
        PROVE  UnitsIn(Stowed(inv, st), 1 .. Slots, u) + Count(LeftOver(inv, st), u) =
                 UnitsIn(inv, 1 .. Slots, u) + Count(st, u)
    <3>1. UnitsIn(Stowed(inv, st), 1 .. Slots, u) =
            UnitsIn(full, 1 .. Slots, u) + Count(rest, u) - Count(full[e], u)
      BY <1>6, <2>2, <2>4, <2>7, UnitsAt
    <3>2. Count(full[e], u) = 0 /\ Count(LeftOver(inv, st), u) = 0
      BY <2>5, <2>6, StackFacts
    <3> QED
      BY <1>5, <3>1, <3>2
  <2> QED
    BY <2>5, <2>7, <2>8, StackFacts
<1> QED
  BY <1>9, <1>10

\* The items of type t in the stacks that lie about.
LyingIn(d, t) == SumTo([n \in 1 .. MaxStack |-> n * d[Stack(t, n)]], MaxStack)

LEMMA LyingType ==
  ASSUME NEW d \in [Stacks -> Nat], NEW t \in Types
  PROVE  LyingIn(d, t) \in Nat
<1> DEFINE f == [n \in 1 .. MaxStack |-> n * d[Stack(t, n)]]
<1>1. \A n \in 1 .. MaxStack : f[n] \in Nat
  <2>1. \A n \in 1 .. MaxStack : n \in Nat /\ d[Stack(t, n)] \in Nat
    BY StackFacts
  <2>2. \A a, b \in Nat : a * b \in Nat
    OBVIOUS
  <2> QED
    BY <2>1, <2>2
<1>2. LyingIn(d, t) = SumTo(f, MaxStack)
  BY DEF LyingIn
<1> HIDE DEF f
<1> QED
  BY <1>1, <1>2, SumSign, Numbers

\* A stack is thrown.
LEMMA LyingAdds ==
  ASSUME NEW d \in [Stacks -> Nat], NEW e \in [Stacks -> Nat], NEW st \in Stacks,
         e[st] = d[st] + 1, \A x \in Stacks : x # st => e[x] = d[x], NEW t \in Types
  PROVE  LyingIn(e, t) = LyingIn(d, t) + Count(st, t)
<1> DEFINE f == [n \in 1 .. MaxStack |-> n * d[Stack(t, n)]]
           h == [n \in 1 .. MaxStack |-> n * e[Stack(t, n)]]
<1>2. \A x \in Stacks : e[x] = IF x = st THEN d[x] + 1 ELSE d[x]
  OBVIOUS
<1>3. \A n \in 1 .. MaxStack : Stack(t, n) \in Stacks /\ Stack(t, n).type = t /\ Stack(t, n).count = n
  BY DEF Stack, Stacks
<1>4. \A n \in 1 .. MaxStack : d[Stack(t, n)] \in Nat /\ e[Stack(t, n)] \in Nat
  BY <1>3
<1>5. ASSUME NEW n \in 1 .. MaxStack PROVE f[n] \in Nat /\ h[n] \in Nat
  <2>1. n \in Nat
    OBVIOUS
  <2>2. \A a, b \in Nat : a * b \in Nat
    OBVIOUS
  <2> QED
    BY <1>4, <2>1, <2>2
<1>6. LyingIn(d, t) = SumTo(f, MaxStack) /\ LyingIn(e, t) = SumTo(h, MaxStack)
  BY DEF LyingIn
<1>7. LyingIn(d, t) \in Nat
  BY LyingType
<1>8. CASE st.type = t
  <2> DEFINE k == st.count
  <2>1. k \in 1 .. MaxStack /\ st = Stack(t, k)
    BY <1>8 DEF Stacks, Stack
  <2>2. \A n \in (1 .. MaxStack) \ {k} : f[n] = h[n]
    BY <1>2, <1>3
  <2>3. h[k] = k * (d[st] + 1) /\ f[k] = k * d[st]
    BY <1>2, <2>1
  <2>4. k * (d[st] + 1) = k * d[st] + k
    <3>1. k \in Nat /\ d[st] \in Nat
      BY <2>1
    <3> HIDE DEF k
    <3> QED
      BY <3>1
  <2>5. Count(st, t) = k
    BY <1>8 DEF Count
  <2> HIDE DEF f, h, k
  <2>6. SumTo(h, MaxStack) = SumTo(f, MaxStack) + h[k] - f[k]
    <3>1. \A n \in 1 .. MaxStack : f[n] \in Int /\ h[n] \in Int
      BY <1>5
    <3> QED
      BY <2>1, <2>2, <3>1, SumUpdate, Numbers
  <2>7. f[k] \in Nat /\ h[k] \in Nat /\ k \in Nat
    BY <1>5, <2>1
  <2> QED
    BY <1>6, <1>7, <2>3, <2>4, <2>5, <2>6, <2>7
<1>9. CASE st.type # t
  <2>1. f = h
    BY <1>2, <1>3, <1>9
  <2>2. Count(st, t) = 0
    BY <1>9 DEF Count
  <2> HIDE DEF f, h
  <2> QED
    BY <1>6, <1>7, <2>1, <2>2
<1> QED
  BY <1>8, <1>9

(***************************************************************************)
(* No step but placing and crafting makes or loses an item.                *)
(***************************************************************************)
Same(t) == UnitsIn(inventory', 1 .. Slots, t) = UnitsIn(inventory, 1 .. Slots, t)
Kept == \A t \in Types : Total(t)' = Total(t)

\* The total of a type, and that it is a number.
LEMMA TotalDef ==
  ASSUME TypeOK, NEW t \in Types
  PROVE  /\ Total(t) = UnitsIn(inventory, 1 .. Slots, t) + LyingIn(drops, t) + world[t]
         /\ Total(t)' = UnitsIn(inventory', 1 .. Slots, t) + LyingIn(drops', t) + world'[t]
         /\ UnitsIn(inventory, 1 .. Slots, t) \in Nat
         /\ LyingIn(drops, t) \in Nat /\ world[t] \in Nat
<1>1. Lying(t) = LyingIn(drops, t) /\ Lying(t)' = LyingIn(drops', t)
  BY DEF Lying, LyingIn
<1>2. UnitsIn(inventory, 1 .. Slots, t) \in Nat
  BY ContentsCount, UnitsType DEF TypeOK
<1>3. LyingIn(drops, t) \in Nat
  BY LyingType DEF TypeOK
<1> QED
  BY <1>1, <1>2, <1>3 DEF Total, TypeOK

\* The slots and what was sent, and nothing else that is counted.
LEMMA KeptBySlots ==
  ASSUME TypeOK, UNCHANGED <<drops, world>>, \A t \in Types : Same(t)
  PROVE  Kept
BY TotalDef DEF Kept, Same

SendType == down' \in Seq(Contents) /\ crossed' \in BOOLEAN

LEMMA SendTypes ==
  ASSUME TypeOK, inventory' \in Contents, SendInventory \/ SendNothing
  PROVE  SendType
<1>1. down \in Seq(Contents) /\ crossed \in BOOLEAN
  BY DEF TypeOK
<1>2. CASE SendInventory
  <2>1. down' \in Seq(Contents)
    BY <1>1, <1>2 DEF SendInventory
  <2>2. crossed' \in BOOLEAN
    BY <1>2 DEF SendInventory
  <2> QED
    BY <2>1, <2>2 DEF SendType
<1>3. CASE SendNothing
  BY <1>1, <1>3 DEF SendNothing, SendType
<1> QED
  BY <1>2, <1>3

Writes == [source : SlotContents, target : SlotContents]
GroupOK(group) ==
  DOMAIN group \subseteq 1 .. Slots /\ \A s \in DOMAIN group : group[s] \in Writes

LEMMA NoWrites == GroupOK(<< >>) /\ DOMAIN << >> = {}
<1>1. DOMAIN << >> = {}
  OBVIOUS
<1> QED
  BY <1>1 DEF GroupOK

LEMMA Cancel ==
  ASSUME NEW v \in Nat, NEW a \in Nat, NEW u \in Nat, NEW b \in Nat, v + a = u + b
  PROVE  (a = b => v = u) /\ (v = u => a = b)
OBVIOUS

\* A group of writes that fits the slots is balanced when it leaves as many items
\* of every type in the slots.
LEMMA BalancedUnits ==
  ASSUME TypeOK, NEW group, GroupOK(group), Matches(group), NEW after \in Contents,
         \A s \in 1 .. Slots :
           after[s] = IF s \in DOMAIN group THEN group[s].target ELSE inventory[s]
  PROVE  Balanced(group) <=>
           \A t \in Types : UnitsIn(after, 1 .. Slots, t) = UnitsIn(inventory, 1 .. Slots, t)
<1> DEFINE D == DOMAIN group
           is == [s \in D |-> group[s].source]
           be == [s \in D |-> group[s].target]
<1>1. /\ D \subseteq 1 .. Slots
      /\ \A s \in D : /\ is[s] \in SlotContents /\ be[s] \in SlotContents
                      /\ is[s] = inventory[s]
  BY DEF GroupOK, Writes, Matches
<1>2. \A s \in 1 .. Slots : after[s] = IF s \in D THEN be[s] ELSE inventory[s]
  OBVIOUS
<1>3. inventory \in Contents
  BY DEF TypeOK
<1>4. Balanced(group) <=> \A t \in Types : UnitsIn(is, D, t) = UnitsIn(be, D, t)
  BY DEF Balanced
<1> HIDE DEF D, is, be
<1>5. ASSUME NEW t \in Types
      PROVE  /\ UnitsIn(after, 1 .. Slots, t) + UnitsIn(is, D, t) =
                  UnitsIn(inventory, 1 .. Slots, t) + UnitsIn(be, D, t)
             /\ UnitsIn(after, 1 .. Slots, t) \in Nat
             /\ UnitsIn(inventory, 1 .. Slots, t) \in Nat
             /\ UnitsIn(is, D, t) \in Nat /\ UnitsIn(be, D, t) \in Nat
  <2>1. \A s \in 1 .. Slots :
          /\ Counted(after, 1 .. Slots, t, s) \in Int /\ Counted(is, D, t, s) \in Int
          /\ Counted(inventory, 1 .. Slots, t, s) \in Int /\ Counted(be, D, t, s) \in Int
    BY <1>1, <1>3, ContentsCount, StackFacts DEF Counted
  <2>2. ASSUME NEW s \in 1 .. Slots
        PROVE  Counted(after, 1 .. Slots, t, s) + Counted(is, D, t, s) =
                 Counted(inventory, 1 .. Slots, t, s) + Counted(be, D, t, s)
    <3>1. CASE s \in D
      <4>1. /\ Counted(after, 1 .. Slots, t, s) = Counted(be, D, t, s)
            /\ Counted(inventory, 1 .. Slots, t, s) = Counted(is, D, t, s)
        BY <1>1, <1>2, <3>1 DEF Counted
      <4> QED
        BY <2>1, <4>1
    <3>2. CASE s \notin D
      <4>1. /\ Counted(after, 1 .. Slots, t, s) = Counted(inventory, 1 .. Slots, t, s)
            /\ Counted(be, D, t, s) = 0 /\ Counted(is, D, t, s) = 0
        BY <1>2, <3>2 DEF Counted
      <4> QED
        BY <2>1, <4>1
    <3> QED
      BY <3>1, <3>2
  <2>3. UnitsIn(after, 1 .. Slots, t) + UnitsIn(is, D, t) =
          UnitsIn(inventory, 1 .. Slots, t) + UnitsIn(be, D, t)
    <3>1. \A s \in 1 .. Slots :
            /\ Counted(after, 1 .. Slots, t, s) \in Int /\ Counted(is, D, t, s) \in Int
            /\ Counted(inventory, 1 .. Slots, t, s) \in Int /\ Counted(be, D, t, s) \in Int
            /\ Counted(after, 1 .. Slots, t, s) + Counted(is, D, t, s) =
                 Counted(inventory, 1 .. Slots, t, s) + Counted(be, D, t, s)
      BY <2>1, <2>2
    <3> QED
      BY <3>1, UnitsAdd
  <2>4. /\ \A s \in (1 .. Slots) \cap (1 .. Slots) :
             after[s].count \in Nat /\ inventory[s].count \in Nat
        /\ \A s \in D \cap (1 .. Slots) : is[s].count \in Nat /\ be[s].count \in Nat
    BY <1>1, <1>3, ContentsCount, StackFacts
  <2>5. /\ UnitsIn(after, 1 .. Slots, t) \in Nat
        /\ UnitsIn(inventory, 1 .. Slots, t) \in Nat
    BY <2>4, UnitsType
  <2>6. UnitsIn(is, D, t) \in Nat /\ UnitsIn(be, D, t) \in Nat
    BY <2>4, UnitsType
  <2> QED
    BY <2>3, <2>5, <2>6
<1>6. ASSUME NEW t \in Types
      PROVE  UnitsIn(is, D, t) = UnitsIn(be, D, t) <=>
               UnitsIn(after, 1 .. Slots, t) = UnitsIn(inventory, 1 .. Slots, t)
  <2>1. /\ UnitsIn(after, 1 .. Slots, t) + UnitsIn(is, D, t) =
              UnitsIn(inventory, 1 .. Slots, t) + UnitsIn(be, D, t)
        /\ UnitsIn(after, 1 .. Slots, t) \in Nat
        /\ UnitsIn(inventory, 1 .. Slots, t) \in Nat
        /\ UnitsIn(is, D, t) \in Nat /\ UnitsIn(be, D, t) \in Nat
    BY <1>5
  <2>2. /\ UnitsIn(is, D, t) = UnitsIn(be, D, t) =>
              UnitsIn(after, 1 .. Slots, t) = UnitsIn(inventory, 1 .. Slots, t)
        /\ UnitsIn(after, 1 .. Slots, t) = UnitsIn(inventory, 1 .. Slots, t) =>
              UnitsIn(is, D, t) = UnitsIn(be, D, t)
    BY <2>1, Cancel
  <2> QED
    BY <2>2
<1> QED
  BY <1>4, <1>6

LEMMA ExecutedFacts ==
  ASSUME TypeOK, NEW group, GroupOK(group),
         Matches(group), Balanced(group), Executed(group)
  PROVE  inventory' \in Contents /\ \A t \in Types : Same(t)
<1>1. inventory' = [s \in 1 .. Slots |->
                      IF s \in DOMAIN group THEN group[s].target ELSE inventory[s]]
  BY DEF Executed
<1>2. inventory' \in Contents
  BY <1>1 DEF TypeOK, GroupOK, Writes, Contents
<1>3. \A s \in 1 .. Slots :
        inventory'[s] = IF s \in DOMAIN group THEN group[s].target ELSE inventory[s]
  BY <1>1
<1> QED
  BY <1>2, <1>3, BalancedUnits DEF Same

\* What handleContainerSetSlot() leaves.
ServerOK ==
  /\ inventory' \in Contents /\ GroupOK(pending')
  /\ old' \in BOOLEAN /\ drops' \in [Stacks -> Nat] /\ world' \in [Types -> Nat]
  /\ SendType

LEMMA SlotStep ==
  ASSUME TypeOK, NEW m \in Messages, m.kind = "slot", HandleSlot(m),
         UNCHANGED <<drops, world>>
  PROVE  ServerOK /\ Kept
<1>1. m.slot \in 1 .. Slots /\ m.item \in SlotContents
  BY DEF Messages
<1> DEFINE expired == old /\ pending # << >>
           before == IF expired THEN << >> ELSE pending
           group == [s \in DOMAIN before \cup {m.slot} |->
                       IF s = m.slot THEN [source |-> inventory[s], target |-> m.item]
                       ELSE before[s]]
<1>2. GroupOK(pending) /\ inventory \in Contents /\ drops \in [Stacks -> Nat]
      /\ world \in [Types -> Nat] /\ old \in BOOLEAN
  BY DEF TypeOK, GroupOK, Writes
<1>3. GroupOK(before)
  BY <1>2, NoWrites
<1>4. GroupOK(group)
  <2>1. inventory[m.slot] \in SlotContents
    BY <1>1, <1>2, ContentsCount
  <2>2. [source |-> inventory[m.slot], target |-> m.item] \in Writes
    BY <1>1, <2>1 DEF Writes
  <2> HIDE DEF before
  <2>3. DOMAIN group = DOMAIN before \cup {m.slot}
    OBVIOUS
  <2>4. \A s \in DOMAIN group :
           group[s] = IF s = m.slot THEN [source |-> inventory[m.slot], target |-> m.item]
                      ELSE before[s]
    OBVIOUS
  <2> HIDE DEF group
  <2> QED
    BY <1>1, <1>3, <2>2, <2>3, <2>4 DEF GroupOK
<1>5. \/ UNCHANGED <<inventory, pending, old>> /\ SendNothing
      \/ /\ old' = FALSE
         /\ Matches(group) /\ Balanced(group) /\ Executed(group)
         /\ SendInventory \/ SendNothing
      \/ /\ old' = FALSE
         /\ pending' \in {<< >>, group}
         /\ UNCHANGED inventory
         /\ SendInventory \/ SendNothing
  <2> HIDE DEF group
  <2>1. \/ UNCHANGED <<inventory, pending, old>> /\ SendNothing
        \/ /\ old' = FALSE
           /\ \/ /\ Matches(group) /\ Balanced(group)
                 /\ Executed(group)
                 /\ IF expired THEN SendInventory ELSE SendNothing
              \/ /\ ~(Matches(group) /\ Balanced(group))
                 /\ pending' = IF Cardinality(DOMAIN group) >= MaxPending
                               THEN << >> ELSE group
                 /\ UNCHANGED inventory
                 /\ IF expired \/ pending' = << >> THEN SendInventory ELSE SendNothing
    BY DEF HandleSlot, group
  <2> QED
    BY <2>1
<1> HIDE DEF group
<1>6. \A t \in Types : inventory' = inventory => Same(t)
  BY DEF Same
<1>7. CASE UNCHANGED <<inventory, pending, old>> /\ SendNothing
  BY <1>2, <1>6, <1>7, SendTypes, KeptBySlots DEF ServerOK
<1>8. CASE /\ old' = FALSE
           /\ Matches(group) /\ Balanced(group) /\ Executed(group)
           /\ SendInventory \/ SendNothing
  <2>1. inventory' \in Contents /\ \A t \in Types : Same(t)
    BY <1>4, <1>8, ExecutedFacts
  <2>2. GroupOK(pending')
    BY <1>8, NoWrites DEF Executed
  <2> QED
    BY <1>2, <1>8, <2>1, <2>2, SendTypes, KeptBySlots DEF ServerOK
<1>9. CASE /\ old' = FALSE
           /\ pending' \in {<< >>, group}
           /\ UNCHANGED inventory
           /\ SendInventory \/ SendNothing
  <2>1. GroupOK(pending')
    BY <1>4, <1>9, NoWrites
  <2> QED
    BY <1>2, <1>6, <1>9, <2>1, SendTypes, KeptBySlots DEF ServerOK
<1> QED
  BY <1>5, <1>7, <1>8, <1>9

\* playerThrowHeld(): what leaves the slot lies about.
LEMMA DropStep ==
  ASSUME TypeOK, NEW m \in Messages, m.kind = "drop", HandleDrop(m), UNCHANGED world
  PROVE  ServerOK /\ Kept
<1>1. m.slot \in 1 .. Slots /\ m.type \in Types
  BY Numbers DEF Messages
<1>2. /\ GroupOK(pending) /\ inventory \in Contents /\ drops \in [Stacks -> Nat]
      /\ world \in [Types -> Nat] /\ old \in BOOLEAN
  BY DEF TypeOK, GroupOK, Writes
<1>3. UNCHANGED <<pending, old>>
  BY DEF HandleDrop
<1>4. CASE UNCHANGED <<inventory, drops>> /\ SendNothing
  <2>1. \A t \in Types : Same(t)
    BY <1>4 DEF Same
  <2> QED
    BY <1>2, <1>3, <1>4, <2>1, SendTypes, KeptBySlots DEF ServerOK
<1>5. ASSUME NEW s \in 1 .. Slots, inventory[s].type = m.type, NEW thrown,
             thrown = IF m.full THEN inventory[s] ELSE Stack(m.type, 1),
             inventory' = [inventory EXCEPT ![s] = Less(@, thrown.count)],
             drops' = [drops EXCEPT ![thrown] = @ + 1], SendInventory
      PROVE  ServerOK /\ Kept
  <2>1. inventory[s] \in Stacks /\ inventory[s] \in SlotContents
    BY <1>1, <1>2, <1>5, ContentsCount, StackFacts
  <2>2. thrown \in Stacks /\ thrown.type = m.type /\ thrown.count \in 0 .. inventory[s].count
    <3>1. CASE m.full
      BY <1>5, <2>1, <3>1, StackFacts
    <3>2. CASE ~m.full
      <4>1. thrown = [type |-> m.type, count |-> 1]
        BY <1>5, <3>2 DEF Stack
      <4>2. inventory[s].count \in 1 .. MaxStack
        BY <2>1, StackFacts
      <4> QED
        BY <1>1, <4>1, <4>2, Numbers DEF Stacks
    <3> QED
      BY <3>1, <3>2
  <2>3. Less(inventory[s], thrown.count) \in SlotContents
    BY <2>1, <2>2, LessFacts
  <2>4. /\ inventory' \in Contents /\ inventory'[s] = Less(inventory[s], thrown.count)
        /\ \A r \in 1 .. Slots : r # s => inventory'[r] = inventory[r]
    BY <1>2, <1>5, <2>3 DEF Contents
  <2>5. /\ drops' \in [Stacks -> Nat] /\ drops'[thrown] = drops[thrown] + 1
        /\ \A x \in Stacks : x # thrown => drops'[x] = drops[x]
    BY <1>2, <1>5, <2>2
  <2>6. ASSUME NEW t \in Types PROVE Total(t)' = Total(t)
    <3>1. UnitsIn(inventory', 1 .. Slots, t) = UnitsIn(inventory, 1 .. Slots, t)
             + Count(inventory'[s], t) - Count(inventory[s], t)
      BY <1>2, <2>4, UnitsAt
    <3>2. Count(inventory'[s], t) = Count(inventory[s], t) - Count(thrown, t)
      <4>1. Count(Less(inventory[s], thrown.count), t) =
              Count(inventory[s], t) - IF inventory[s].type = t THEN thrown.count ELSE 0
        BY <2>1, <2>2, LessFacts
      <4> QED
        BY <1>5, <2>2, <2>4, <4>1 DEF Count
    <3>3. LyingIn(drops', t) = LyingIn(drops, t) + Count(thrown, t)
      BY <1>2, <2>2, <2>5, LyingAdds
    <3>4. Count(inventory[s], t) \in Nat /\ Count(thrown, t) \in Nat
      BY <2>1, <2>2, StackFacts DEF SlotContents
    <3>5. /\ Total(t) = UnitsIn(inventory, 1 .. Slots, t) + LyingIn(drops, t) + world[t]
          /\ Total(t)' = UnitsIn(inventory', 1 .. Slots, t) + LyingIn(drops', t) + world'[t]
          /\ UnitsIn(inventory, 1 .. Slots, t) \in Nat
          /\ LyingIn(drops, t) \in Nat /\ world[t] \in Nat
      BY TotalDef
    <3>6. world'[t] = world[t]
      OBVIOUS
    <3>7. UnitsIn(inventory', 1 .. Slots, t)
            = UnitsIn(inventory, 1 .. Slots, t) - Count(thrown, t)
      BY <3>1, <3>2, <3>4, <3>5
    <3> QED
      BY <3>3, <3>4, <3>5, <3>6, <3>7, SMTT(30)
  <2> QED
    BY <1>2, <1>3, <1>5, <2>4, <2>5, <2>6, SendTypes DEF ServerOK, Kept
<1>6. FirstOf(m.type) \subseteq {s \in 1 .. Slots : inventory[s].type = m.type}
  BY Numbers DEF FirstOf
<1>7. \/ UNCHANGED <<inventory, drops>> /\ SendNothing
      \/ \E s \in 1 .. Slots : \E thrown :
           /\ inventory[s].type = m.type
           /\ thrown = IF m.full THEN inventory[s] ELSE Stack(m.type, 1)
           /\ inventory' = [inventory EXCEPT ![s] = Less(@, thrown.count)]
           /\ drops' = [drops EXCEPT ![thrown] = @ + 1] /\ SendInventory
  BY <1>1, <1>6 DEF HandleDrop
<1> QED
  BY <1>4, <1>5, <1>7

\* placeBlock(): what leaves the slot becomes a block, if the client is right
\* about the slot.
LEMMA PlaceStep ==
  ASSUME TypeOK, NEW m \in Messages, m.kind = "place", HandlePlace(m)
  PROVE  /\ ServerOK
         /\ inventory[m.slot].type = m.type => Kept
<1>1. m.slot \in 1 .. Slots /\ m.type \in Types
  BY Numbers DEF Messages
<1>2. /\ GroupOK(pending) /\ inventory \in Contents /\ drops \in [Stacks -> Nat]
      /\ world \in [Types -> Nat] /\ old \in BOOLEAN
  BY DEF TypeOK, GroupOK, Writes
<1>3. UNCHANGED <<pending, old, drops>>
  BY DEF HandlePlace
<1>4. CASE crossed' = TRUE /\ UNCHANGED <<inventory, world, down>>
  <2>1. \A t \in Types : Same(t)
    BY <1>4 DEF Same
  <2> QED
    BY <1>2, <1>3, <1>4, <2>1, KeptBySlots DEF ServerOK, SendType, TypeOK
<1>5. CASE /\ world' = [world EXCEPT ![m.type] = @ + 1]
           /\ inventory' = [inventory EXCEPT ![m.slot] = Spent(@)]
           /\ SendInventory
  <2> DEFINE s == m.slot
  <2>1. inventory[s] \in SlotContents
    BY <1>1, <1>2, ContentsCount
  <2>2. Spent(inventory[s]) \in SlotContents
    <3>1. CASE inventory[s].count > 1
      <4>1. 1 \in 0 .. inventory[s].count
        BY <2>1, <3>1, StackFacts
      <4> QED
        BY <2>1, <3>1, <4>1, LessFacts DEF Spent
    <3>2. CASE ~(inventory[s].count > 1)
      BY <3>2, StackFacts DEF Spent
    <3> QED
      BY <3>1, <3>2
  <2>3. /\ inventory' \in Contents /\ inventory'[s] = Spent(inventory[s])
        /\ \A r \in 1 .. Slots : r # s => inventory'[r] = inventory[r]
    BY <1>1, <1>2, <1>5, <2>2 DEF Contents
  <2>4. world' \in [Types -> Nat] /\ world'[m.type] = world[m.type] + 1
    BY <1>1, <1>2, <1>5
  <2>5. \A t \in Types : t # m.type => world'[t] = world[t]
    BY <1>2, <1>5
  <2>6. ASSUME inventory[s].type = m.type, NEW t \in Types PROVE Total(t)' = Total(t)
    <3>1. UnitsIn(inventory', 1 .. Slots, t) = UnitsIn(inventory, 1 .. Slots, t)
             + Count(inventory'[s], t) - Count(inventory[s], t)
      BY <1>1, <1>2, <2>3, UnitsAt
    <3>2. Count(Spent(inventory[s]), t) = Count(inventory[s], t) - IF t = m.type THEN 1 ELSE 0
      <4>1. inventory[s].count \in 1 .. MaxStack
        BY <1>1, <2>1, <2>6, StackFacts
      <4>2. CASE inventory[s].count > 1
        <5>1. 1 \in 0 .. inventory[s].count
          BY <4>1
        <5>2. Count(Less(inventory[s], 1), t) =
                Count(inventory[s], t) - IF inventory[s].type = t THEN 1 ELSE 0
          BY <2>1, <5>1, LessFacts
        <5> QED
          BY <2>6, <4>2, <5>2 DEF Spent
      <4>3. CASE inventory[s].count = 1
        <5>1. Spent(inventory[s]) = Empty
          BY <4>3 DEF Spent
        <5>2. Count(Spent(inventory[s]), t) = 0
          BY <5>1, StackFacts
        <5>3. Count(inventory[s], t) = IF t = m.type THEN 1 ELSE 0
          BY <2>6, <4>3 DEF Count
        <5> QED
          BY <5>2, <5>3
      <4> QED
        BY <4>1, <4>2, <4>3
    <3>3. world'[t] = world[t] + IF t = m.type THEN 1 ELSE 0
      BY <1>2, <2>4, <2>5
    <3>4. Count(inventory[s], t) \in Nat
      BY <2>1, StackFacts
    <3>5. /\ Total(t) = UnitsIn(inventory, 1 .. Slots, t) + LyingIn(drops, t) + world[t]
          /\ Total(t)' = UnitsIn(inventory', 1 .. Slots, t) + LyingIn(drops', t) + world'[t]
          /\ UnitsIn(inventory, 1 .. Slots, t) \in Nat
          /\ LyingIn(drops, t) \in Nat /\ world[t] \in Nat
      BY TotalDef
    <3>6. LyingIn(drops', t) = LyingIn(drops, t)
      BY <1>3
    <3>7. Count(inventory'[s], t) = Count(inventory[s], t) - IF t = m.type THEN 1 ELSE 0
      BY <2>3, <3>2
    <3> QED
      BY <3>1, <3>3, <3>4, <3>5, <3>6, <3>7
  <2> QED
    BY <1>2, <1>3, <1>5, <2>3, <2>4, <2>6, SendTypes DEF ServerOK, Kept
<1> QED
  BY <1>4, <1>5 DEF HandlePlace

\* Two sums that share what did not change.
LEMMA Sums ==
  ASSUME NEW u \in Nat, NEW v \in Nat, NEW l \in Nat, NEW w \in Nat,
         NEW a \in Nat, NEW b \in Nat, v + a = u + b
  PROVE  (v + l + w) + a = (u + l + w) + b
OBVIOUS

LEMMA PickSums ==
  ASSUME NEW u \in Nat, NEW v \in Nat, NEW l \in Nat, NEW w \in Nat,
         NEW a \in Nat, NEW b \in Nat, v + a = u + b
  PROVE  v + (l + a) + w = u + (l + b) + w
OBVIOUS

\* handleCraftingEvent(): what goes, what comes, and what there is no room for.
LEMMA CraftStep ==
  ASSUME TypeOK, HandleCraft
  PROVE  /\ ServerOK
         /\ \E lost \in Nat :
              /\ lost > 0 => FirstEmpty(inventory') = {}
              /\ Total(OutType)' + lost = Total(OutType) + OutCount
              /\ Total(InType)' = Total(InType)
                   - Smaller(InCount, UnitsIn(inventory, 1 .. Storage, InType))
<1> DEFINE left == Consumed(inventory, InType, InCount)
           out == Stack(OutType, OutCount)
           used == Smaller(InCount, UnitsIn(inventory, 1 .. Storage, InType))
<1>1. /\ GroupOK(pending) /\ inventory \in Contents /\ drops \in [Stacks -> Nat]
      /\ world \in [Types -> Nat] /\ old \in BOOLEAN
  BY DEF TypeOK, GroupOK, Writes
<1>2. UNCHANGED <<pending, old, drops, world>> /\ SendInventory
  BY DEF HandleCraft
<1>3. inventory' = Stowed(left, out)
  BY DEF HandleCraft
<1>4. out \in Stacks /\ out.type = OutType /\ out.count = OutCount
  BY DEF Stack, Stacks
<1>5. /\ left \in Contents
      /\ \A u \in Types : UnitsIn(left, 1 .. Slots, u) =
                            UnitsIn(inventory, 1 .. Slots, u) - IF u = InType THEN used ELSE 0
  <2>1. InType \in Types /\ InCount \in Nat
    OBVIOUS
  <2> QED
    BY <1>1, <2>1, ConsumedFacts
<1>6. /\ OutType \in Types /\ InType \in Types /\ OutType # InType /\ OutCount \in Nat
      /\ used \in Nat
  <2>1. UnitsIn(inventory, 1 .. Storage, InType) \in Nat
    <3>1. \A s \in (1 .. Storage) \cap (1 .. Slots) : inventory[s].count \in Nat
      BY <1>1, ContentsCount
    <3> QED
      BY <3>1, UnitsType
  <2> QED
    BY <2>1 DEF Smaller
<1> DEFINE lost == Count(LeftOver(left, out), OutType)
<1> HIDE DEF left, out, used
<1>7. /\ inventory' \in Contents /\ LeftOver(left, out) \in SlotContents
      /\ LeftOver(left, out) # Empty => FirstEmpty(inventory') = {}
      /\ \A u \in Types : UnitsIn(inventory', 1 .. Slots, u) + Count(LeftOver(left, out), u)
                            = UnitsIn(left, 1 .. Slots, u) + Count(out, u)
  BY <1>3, <1>4, <1>5, StowedFacts
<1>8. lost \in Nat /\ (lost > 0 => FirstEmpty(inventory') = {})
  <2>1. lost \in Nat
    BY <1>7, StackFacts
  <2>2. LeftOver(left, out) = Empty => lost = 0
    BY <1>6, StackFacts
  <2> QED
    BY <1>7, <2>1, <2>2
<1>9. ASSUME NEW u \in Types
      PROVE  /\ UnitsIn(inventory', 1 .. Slots, u) \in Nat
             /\ Total(u) = UnitsIn(inventory, 1 .. Slots, u) + LyingIn(drops, u) + world[u]
             /\ Total(u)' = UnitsIn(inventory', 1 .. Slots, u) + LyingIn(drops, u) + world[u]
             /\ UnitsIn(inventory, 1 .. Slots, u) \in Nat
             /\ LyingIn(drops, u) \in Nat /\ world[u] \in Nat
  <2>1. \A s \in (1 .. Slots) \cap (1 .. Slots) : inventory'[s].count \in Nat
    BY <1>7, ContentsCount
  <2>2. UnitsIn(inventory', 1 .. Slots, u) \in Nat
    BY <2>1, UnitsType
  <2>3. /\ Total(u) = UnitsIn(inventory, 1 .. Slots, u) + LyingIn(drops, u) + world[u]
        /\ Total(u)' = UnitsIn(inventory', 1 .. Slots, u) + LyingIn(drops', u) + world'[u]
        /\ UnitsIn(inventory, 1 .. Slots, u) \in Nat
        /\ LyingIn(drops, u) \in Nat /\ world[u] \in Nat
    BY TotalDef
  <2>4. drops' = drops /\ world' = world
    BY <1>2
  <2> QED
    BY <2>2, <2>3, <2>4
<1>10. Total(OutType)' + lost = Total(OutType) + OutCount
  <2>1. Count(out, OutType) = OutCount
    BY <1>4 DEF Count
  <2>2. UnitsIn(left, 1 .. Slots, OutType) = UnitsIn(inventory, 1 .. Slots, OutType)
    <3>1. UnitsIn(inventory, 1 .. Slots, OutType) \in Nat
      BY <1>6, <1>9
    <3> QED
      BY <1>5, <1>6, <3>1
  <2>3. UnitsIn(inventory', 1 .. Slots, OutType) + lost
          = UnitsIn(inventory, 1 .. Slots, OutType) + OutCount
    BY <1>6, <1>7, <2>1, <2>2
  <2> HIDE DEF lost
  <2>4. /\ UnitsIn(inventory', 1 .. Slots, OutType) \in Nat
        /\ Total(OutType) = UnitsIn(inventory, 1 .. Slots, OutType) + LyingIn(drops, OutType)
             + world[OutType]
        /\ Total(OutType)' = UnitsIn(inventory', 1 .. Slots, OutType) + LyingIn(drops, OutType)
             + world[OutType]
        /\ UnitsIn(inventory, 1 .. Slots, OutType) \in Nat
        /\ LyingIn(drops, OutType) \in Nat /\ world[OutType] \in Nat
    BY <1>6, <1>9
  <2>5. OutCount \in Nat /\ lost \in Nat
    BY <1>6, <1>8
  <2> QED
    BY <2>3, <2>4, <2>5, Sums, SMTT(60)
<1>11. Count(LeftOver(left, out), InType) = 0
  <2>1. Count(LeftOver(left, out), InType) # 0 => LeftOver(left, out).type = InType
    BY DEF Count
  <2>2. LeftOver(left, out) \in {Empty, Rest(left, out)}
    BY DEF LeftOver
  <2>3. Rest(left, out) = Empty \/ Rest(left, out).type = OutType
    BY <1>4 DEF Rest, Stack
  <2>4. Empty.type # InType
    BY DEF Empty
  <2> QED
    BY <1>6, <2>1, <2>2, <2>3, <2>4
<1>12. Total(InType)' = Total(InType) - used
  <2>1. Count(out, InType) = 0
    BY <1>4, <1>6 DEF Count
  <2>2. UnitsIn(left, 1 .. Slots, InType) = UnitsIn(inventory, 1 .. Slots, InType) - used
    BY <1>5, <1>6
  <2>3. UnitsIn(inventory', 1 .. Slots, InType) + 0
          = UnitsIn(inventory, 1 .. Slots, InType) - used + 0
    BY <1>6, <1>7, <1>11, <2>1, <2>2
  <2>4. /\ UnitsIn(inventory', 1 .. Slots, InType) \in Nat
        /\ Total(InType) = UnitsIn(inventory, 1 .. Slots, InType) + LyingIn(drops, InType)
             + world[InType]
        /\ Total(InType)' = UnitsIn(inventory', 1 .. Slots, InType) + LyingIn(drops, InType)
             + world[InType]
        /\ UnitsIn(inventory, 1 .. Slots, InType) \in Nat
        /\ LyingIn(drops, InType) \in Nat /\ world[InType] \in Nat
    BY <1>6, <1>9
  <2> QED
    BY <1>6, <2>3, <2>4
<1>13. ServerOK
  BY <1>1, <1>2, <1>7, SendTypes DEF ServerOK
<1> QED
  BY <1>8, <1>10, <1>12, <1>13 DEF used

\* tickItemPickups(): what there is room for comes into the slots.
LEMMA PickUpStep ==
  ASSUME TypeOK, NEW st \in Stacks, PickUp(st)
  PROVE  ServerOK /\ Kept
<1> DEFINE rest == LeftOver(inventory, st)
<1>1. /\ GroupOK(pending) /\ inventory \in Contents /\ drops \in [Stacks -> Nat]
      /\ world \in [Types -> Nat] /\ old \in BOOLEAN
  BY DEF TypeOK, GroupOK, Writes
<1>2. /\ drops[st] > 0 /\ rest # st /\ SendInventory
      /\ inventory' = Stowed(inventory, st)
      /\ drops' = [d \in Stacks |-> drops[d] + (IF d = rest THEN 1 ELSE 0)
                                             - (IF d = st THEN 1 ELSE 0)]
      /\ UNCHANGED <<pending, old, world>>
  BY DEF PickUp
<1>3. /\ inventory' \in Contents /\ rest \in SlotContents
      /\ \A u \in Types : UnitsIn(inventory', 1 .. Slots, u) + Count(rest, u)
                            = UnitsIn(inventory, 1 .. Slots, u) + Count(st, u)
  BY <1>1, <1>2, StowedFacts
<1> HIDE DEF rest
<1> DEFINE without == [d \in Stacks |-> drops[d] - IF d = st THEN 1 ELSE 0]
<1>4. /\ without \in [Stacks -> Nat] /\ drops[st] = without[st] + 1
      /\ \A x \in Stacks : x # st => drops[x] = without[x]
  BY <1>1, <1>2
<1>5. /\ drops' \in [Stacks -> Nat]
      /\ \A x \in Stacks : drops'[x] = without[x] + IF x = rest THEN 1 ELSE 0
  BY <1>1, <1>2
<1> HIDE DEF without
<1>6. ASSUME NEW t \in Types PROVE Total(t)' = Total(t)
  <2>1. LyingIn(drops, t) = LyingIn(without, t) + Count(st, t)
    BY <1>1, <1>4, LyingAdds
  <2>2. LyingIn(without, t) \in Nat
    BY <1>4, LyingType
  <2>3. LyingIn(drops', t) = LyingIn(without, t) + Count(rest, t)
    <3>1. CASE rest \in Stacks
      <4>1. /\ drops'[rest] = without[rest] + 1
            /\ \A x \in Stacks : x # rest => drops'[x] = without[x]
        BY <1>4, <1>5, <3>1
      <4> QED
        BY <1>4, <1>5, <3>1, <4>1, LyingAdds
    <3>2. CASE rest \notin Stacks
      <4>1. drops' = without
        BY <1>4, <1>5, <3>2
      <4>2. Count(rest, t) = 0
        BY <1>3, <3>2, StackFacts
      <4> QED
        BY <2>2, <4>1, <4>2
    <3> QED
      BY <3>1, <3>2
  <2>4. Count(st, t) \in Nat /\ Count(rest, t) \in Nat
    BY <1>3, StackFacts DEF SlotContents
  <2>5. UnitsIn(inventory', 1 .. Slots, t) \in Nat
    <3>1. \A s \in (1 .. Slots) \cap (1 .. Slots) : inventory'[s].count \in Nat
      BY <1>3, ContentsCount
    <3> QED
      BY <3>1, UnitsType
  <2>6. /\ Total(t) = UnitsIn(inventory, 1 .. Slots, t) + LyingIn(drops, t) + world[t]
        /\ Total(t)' = UnitsIn(inventory', 1 .. Slots, t) + LyingIn(drops', t) + world'[t]
        /\ UnitsIn(inventory, 1 .. Slots, t) \in Nat
        /\ LyingIn(drops, t) \in Nat /\ world[t] \in Nat
    BY TotalDef
  <2>7. UnitsIn(inventory', 1 .. Slots, t) + Count(rest, t)
          = UnitsIn(inventory, 1 .. Slots, t) + Count(st, t)
    BY <1>3
  <2>8. world'[t] = world[t]
    BY <1>2
  <2> QED
    <3>1. /\ Total(t) = UnitsIn(inventory, 1 .. Slots, t)
              + (LyingIn(without, t) + Count(st, t)) + world[t]
          /\ Total(t)' = UnitsIn(inventory', 1 .. Slots, t)
              + (LyingIn(without, t) + Count(rest, t)) + world[t]
      BY <2>1, <2>3, <2>6, <2>8
    <3> QED
      BY <2>2, <2>4, <2>5, <2>6, <2>7, <3>1, PickSums, SMTT(60)
<1> QED
  BY <1>1, <1>2, <1>3, <1>5, <1>6, SendTypes DEF ServerOK, Kept

\* breakBlock(): the block becomes a stack of one.
LEMMA DigStep ==
  ASSUME TypeOK, NEW t \in Types, Dig(t)
  PROVE  drops' \in [Stacks -> Nat] /\ world' \in [Types -> Nat] /\ Kept
<1> DEFINE st == Stack(t, 1)
<1>1. drops \in [Stacks -> Nat] /\ world \in [Types -> Nat] /\ world[t] > 0
  BY DEF TypeOK, Dig
<1>2. st \in Stacks /\ \A u \in Types : Count(st, u) = IF u = t THEN 1 ELSE 0
  BY StackFacts, Numbers
<1>3. /\ drops' \in [Stacks -> Nat] /\ drops'[st] = drops[st] + 1
      /\ \A x \in Stacks : x # st => drops'[x] = drops[x]
  <2>1. drops' = [drops EXCEPT ![st] = @ + 1]
    BY DEF Dig
  <2> HIDE DEF st
  <2> QED
    BY <1>1, <1>2, <2>1
<1> HIDE DEF st
<1>4. /\ world' \in [Types -> Nat]
      /\ \A u \in Types : world'[u] = world[u] - IF u = t THEN 1 ELSE 0
  <2>1. world' = [world EXCEPT ![t] = @ - 1]
    BY DEF Dig
  <2> QED
    BY <1>1, <2>1
<1>5. UNCHANGED inventory
  BY DEF Dig
<1>6. ASSUME NEW u \in Types PROVE Total(u)' = Total(u)
  <2>1. LyingIn(drops', u) = LyingIn(drops, u) + Count(st, u)
    BY <1>1, <1>2, <1>3, LyingAdds
  <2>2. /\ Total(u) = UnitsIn(inventory, 1 .. Slots, u) + LyingIn(drops, u) + world[u]
        /\ Total(u)' = UnitsIn(inventory', 1 .. Slots, u) + LyingIn(drops', u) + world'[u]
        /\ UnitsIn(inventory, 1 .. Slots, u) \in Nat
        /\ LyingIn(drops, u) \in Nat /\ world[u] \in Nat
    BY TotalDef
  <2>3. UnitsIn(inventory', 1 .. Slots, u) = UnitsIn(inventory, 1 .. Slots, u)
    BY <1>5
  <2>4. /\ Count(st, u) = (IF u = t THEN 1 ELSE 0)
        /\ world'[u] = world[u] - (IF u = t THEN 1 ELSE 0)
    BY <1>2, <1>4
  <2> QED
    BY <2>1, <2>2, <2>3, <2>4
<1> QED
  BY <1>3, <1>4, <1>6 DEF Kept
-----------------------------------------------------------------------------
(***************************************************************************)
(* What is under way from the client leads from the server's slots to      *)
(* those the client shows.                                                 *)
(***************************************************************************)
\* Slots, and one write that has come of two.
Views == [inv : Contents, slot : 0 .. Slots, item : SlotContents]
View(i) == [inv |-> i, slot |-> 0, item |-> Empty]

\* The first write of a move, or the second.
FirstWrite(v, m, w) ==
  /\ v.slot = 0 /\ m.item # v.inv[m.slot]
  /\ w.inv = v.inv /\ w.slot = m.slot /\ w.item = m.item

SecondWrite(v, m, w) ==
  /\ v.slot # 0 /\ m.slot # v.slot /\ m.item # v.inv[m.slot]
  /\ \A s \in 1 .. Slots : w.inv[s] = IF s = m.slot THEN m.item
                                      ELSE IF s = v.slot THEN v.item ELSE v.inv[s]
  /\ \A t \in Types : UnitsIn(w.inv, 1 .. Slots, t) = UnitsIn(v.inv, 1 .. Slots, t)
  /\ w = View(w.inv)

\* What a message finds.  To any but a write the server answers with all of its
\* slots.
Steps(v, m, w) ==
  \/ m.kind = "slot" /\ (FirstWrite(v, m, w) \/ SecondWrite(v, m, w))
  \/ /\ m.kind \in {"drop", "place"} /\ v.slot = 0 /\ v.inv[m.slot].type = m.type
  \/ /\ m.kind = "craft" /\ v.slot = 0 /\ UnitsIn(v.inv, 1 .. Storage, InType) >= InCount

Path(sigma, ms, v, w) ==
  /\ sigma \in [0 .. Len(ms) -> Views]
  /\ sigma[0] = v /\ sigma[Len(ms)] = w
  /\ \A i \in 1 .. Len(ms) : Steps(sigma[i - 1], ms[i], sigma[i])

Leads(ms, v, w) == \E sigma : Path(sigma, ms, v, w)

\* What the server has received: its slots, and a write of two.
Has(v, inv, group) ==
  /\ v.inv = inv
  /\ DOMAIN group = IF v.slot = 0 THEN {} ELSE {v.slot}
  /\ v.slot # 0 => group[v.slot] = [source |-> inv[v.slot], target |-> v.item]
  /\ v.slot = 0 => group = << >>

Foreseen == \E v \in Views : Has(v, inventory, pending) /\ Leads(up, v, View(shows))

\* The inventory under way is the last word.
Answered == /\ down # << >> /\ up = << >> /\ pending = << >>
            /\ down[Len(down)] = inventory

Agree == ~crossed => (down = << >> /\ Foreseen) \/ Answered

\* What the client tells leads from what it showed to what it shows.
Says(ms) ==
  /\ ms \in Seq(Messages) /\ shows' \in Contents /\ Tell(ms)
  /\ Leads(ms, View(shows), View(shows'))

LEMMA ViewType ==
  \A i \in Contents : View(i) \in Views /\ View(i).inv = i /\ View(i).slot = 0
BY Numbers, StackFacts DEF View, Views, SlotContents

LEMMA OneMessage ==
  ASSUME NEW m \in Messages, NEW v \in Views, NEW w \in Views, Steps(v, m, w)
  PROVE  <<m>> \in Seq(Messages) /\ Leads(<<m>>, v, w)
<1> DEFINE sigma == [i \in 0 .. 1 |-> IF i = 0 THEN v ELSE w]
           ms == <<m>>
<1>1. ms \in Seq(Messages) /\ Len(ms) = 1 /\ ms[1] = m
  OBVIOUS
<1>2. sigma \in [0 .. 1 -> Views] /\ sigma[0] = v /\ sigma[1] = w
  OBVIOUS
<1> HIDE DEF sigma, ms
<1>3. \A i \in 1 .. Len(ms) : i = 1 /\ i - 1 = 0
  BY <1>1
<1>4. \A i \in 1 .. Len(ms) : Steps(sigma[i - 1], ms[i], sigma[i])
  BY <1>1, <1>2, <1>3
<1>5. Path(sigma, ms, v, w)
  BY <1>1, <1>2, <1>4 DEF Path
<1> QED
  BY <1>1, <1>5 DEF Leads, ms

LEMMA LeadsOn ==
  ASSUME NEW m1 \in Seq(Messages), NEW m2 \in Seq(Messages), NEW u, NEW v, NEW w,
         Leads(m1, u, v), Leads(m2, v, w)
  PROVE  Leads(m1 \o m2, u, w)
<1>1. PICK s1 : Path(s1, m1, u, v)
  BY DEF Leads
<1>2. PICK s2 : Path(s2, m2, v, w)
  BY DEF Leads
<1> DEFINE k == Len(m1)
           n == Len(m2)
           ms == m1 \o m2
           sigma == [i \in 0 .. (k + n) |-> IF i <= k THEN s1[i] ELSE s2[i - k]]
<1>3. /\ k \in Nat /\ n \in Nat /\ Len(ms) = k + n
      /\ \A i \in 1 .. k : ms[i] = m1[i]
      /\ \A i \in (k + 1) .. (k + n) : ms[i] = m2[i - k]
  OBVIOUS
<1>4. /\ s1 \in [0 .. k -> Views] /\ s2 \in [0 .. n -> Views]
      /\ s1[0] = u /\ s1[k] = v /\ s2[0] = v /\ s2[n] = w
      /\ \A i \in 1 .. k : Steps(s1[i - 1], m1[i], s1[i])
      /\ \A i \in 1 .. n : Steps(s2[i - 1], m2[i], s2[i])
  BY <1>1, <1>2 DEF Path
<1> HIDE DEF k, n, ms
<1>5. \A i \in 0 .. (k + n) : i > k => i - k \in 1 .. n
  BY <1>3
<1>6. sigma \in [0 .. (k + n) -> Views]
  <2>1. ASSUME NEW i \in 0 .. (k + n) PROVE sigma[i] \in Views
    <3>1. CASE i <= k
      BY <1>3, <1>4, <3>1
    <3>2. CASE i > k
      BY <1>3, <1>4, <1>5, <3>2
    <3> QED
      BY <1>3, <3>1, <3>2
  <2> QED
    BY <2>1
<1>7. sigma[0] = u /\ sigma[k] = v
  BY <1>3, <1>4
<1>8. sigma[k + n] = w
  <2>1. CASE n = 0
    BY <1>3, <1>4, <2>1
  <2>2. CASE n # 0
    <3>1. k + n \in 0 .. (k + n) /\ ~(k + n <= k) /\ k + n - k = n
      BY <1>3, <2>2
    <3>2. sigma[k + n] = s2[k + n - k]
      BY <1>3, <3>1
    <3> HIDE DEF sigma
    <3> QED
      BY <1>4, <3>1, <3>2
  <2> QED
    BY <2>1, <2>2
<1>9. \A i \in 0 .. n : sigma[k + i] = s2[i]
  BY <1>3, <1>4
<1>10. \A i \in 0 .. k : sigma[i] = s1[i]
  BY <1>3
<1> HIDE DEF sigma
<1>11. ASSUME NEW i \in 1 .. Len(ms) PROVE Steps(sigma[i - 1], ms[i], sigma[i])
  <2>1. CASE i <= k
    <3>1. i \in 1 .. k /\ i - 1 \in 0 .. k /\ i \in 0 .. k
      BY <1>3, <2>1
    <3> QED
      BY <1>3, <1>4, <1>10, <3>1
  <2>2. CASE i > k
    <3>1. /\ i \in (k + 1) .. (k + n) /\ i - k \in 1 .. n /\ i - k \in 0 .. n
          /\ i - k - 1 \in 0 .. n
          /\ k + (i - k) = i /\ k + (i - k - 1) = i - 1
      BY <1>3, <2>2
    <3>2. sigma[i] = s2[i - k] /\ sigma[i - 1] = s2[i - k - 1] /\ ms[i] = m2[i - k]
      BY <1>3, <1>9, <3>1
    <3> QED
      BY <1>4, <3>1, <3>2
  <2> QED
    BY <1>3, <2>1, <2>2
<1>12. Path(sigma, ms, u, w)
  BY <1>3, <1>6, <1>7, <1>8, <1>11 DEF Path
<1> QED
  BY <1>12 DEF Leads, ms

\* The first message handled.
LEMMA LeadsHead ==
  ASSUME NEW ms \in Seq(Messages), ms # << >>, NEW v, NEW w, Leads(ms, v, w)
  PROVE  \E u \in Views : /\ v \in Views /\ Steps(v, Head(ms), u)
                          /\ Leads(Tail(ms), u, w)
<1>1. PICK s : Path(s, ms, v, w)
  BY DEF Leads
<1> DEFINE n == Len(ms)
           rest == Tail(ms)
           sigma == [i \in 0 .. (n - 1) |-> s[i + 1]]
<1>2. /\ n \in Nat /\ n >= 1 /\ Len(rest) = n - 1 /\ Head(ms) = ms[1]
      /\ \A i \in 1 .. (n - 1) : rest[i] = ms[i + 1]
  OBVIOUS
<1>3. /\ s \in [0 .. n -> Views] /\ s[0] = v /\ s[n] = w
      /\ \A i \in 1 .. n : Steps(s[i - 1], ms[i], s[i])
  BY <1>1 DEF Path
<1> HIDE DEF n, rest
<1>4. v \in Views /\ s[1] \in Views /\ Steps(v, Head(ms), s[1])
  <2>1. 0 \in 0 .. n /\ 1 \in 0 .. n /\ 1 \in 1 .. n /\ 1 - 1 = 0
    BY <1>2
  <2> QED
    BY <1>2, <1>3, <2>1
<1>5. sigma \in [0 .. (n - 1) -> Views] /\ sigma[0] = s[1] /\ sigma[n - 1] = w
  BY <1>2, <1>3
<1>6. \A i \in 0 .. (n - 1) : sigma[i] = s[i + 1]
  OBVIOUS
<1> HIDE DEF sigma
<1>7. ASSUME NEW i \in 1 .. Len(rest) PROVE Steps(sigma[i - 1], rest[i], sigma[i])
  <2>1. /\ i \in 1 .. (n - 1) /\ i \in 0 .. (n - 1) /\ i - 1 \in 0 .. (n - 1)
        /\ i + 1 \in 1 .. n /\ i - 1 + 1 = i /\ (i + 1) - 1 = i
    BY <1>2
  <2>2. sigma[i] = s[i + 1] /\ sigma[i - 1] = s[i] /\ rest[i] = ms[i + 1]
    BY <1>2, <1>6, <2>1
  <2>3. Steps(s[i + 1 - 1], ms[i + 1], s[i + 1])
    BY <1>3, <2>1
  <2> QED
    BY <2>1, <2>2, <2>3
<1>8. Path(sigma, rest, s[1], w)
  BY <1>2, <1>5, <1>7 DEF Path
<1> QED
  BY <1>4, <1>8 DEF Leads, rest

\* Two writes, one after the other.
LEMMA TwoWrites ==
  ASSUME NEW i \in Contents, NEW j \in Contents,
         NEW a \in 1 .. Slots, NEW b \in 1 .. Slots, a # b,
         j[a] # i[a], j[b] # i[b],
         \A s \in 1 .. Slots : s \notin {a, b} => j[s] = i[s],
         \A t \in Types : UnitsIn(j, 1 .. Slots, t) = UnitsIn(i, 1 .. Slots, t),
         NEW ms, ms = <<SlotMessage(a, j[a]), SlotMessage(b, j[b])>>
  PROVE  ms \in Seq(Messages) /\ Leads(ms, View(i), View(j))
<1> DEFINE m1 == SlotMessage(a, j[a])
           m2 == SlotMessage(b, j[b])
           w == [inv |-> i, slot |-> a, item |-> j[a]]
<1>1. /\ m1.kind = "slot" /\ m1.slot = a /\ m1.item = j[a] /\ m1 \in Messages
      /\ m2.kind = "slot" /\ m2.slot = b /\ m2.item = j[b] /\ m2 \in Messages
  BY ContentsCount DEF SlotMessage, Messages
<1>2. /\ w \in Views /\ w.inv = i /\ w.slot = a /\ w.item = j[a] /\ a # 0
  BY ContentsCount DEF Views
<1>3. View(i) \in Views /\ View(j) \in Views /\ View(i).inv = i /\ View(i).slot = 0
      /\ View(j).inv = j
  BY ViewType
<1> HIDE DEF m1, m2, w
<1>4. Steps(View(i), m1, w)
  BY <1>1, <1>2, <1>3 DEF Steps, FirstWrite
<1>5. \A s \in 1 .. Slots : j[s] = IF s = b THEN j[b] ELSE IF s = a THEN j[a] ELSE i[s]
  OBVIOUS
<1>6. SecondWrite(w, m2, View(j))
  BY <1>1, <1>2, <1>3, <1>5 DEF SecondWrite
<1>7. Steps(w, m2, View(j))
  BY <1>1, <1>6 DEF Steps
<1>8. <<m1>> \in Seq(Messages) /\ Leads(<<m1>>, View(i), w)
  BY <1>1, <1>2, <1>3, <1>4, OneMessage
<1>9. <<m2>> \in Seq(Messages) /\ Leads(<<m2>>, w, View(j))
  BY <1>1, <1>2, <1>3, <1>7, OneMessage
<1>10. ms = <<m1>> \o <<m2>>
  BY DEF m1, m2
<1>11. Leads(<<m1>> \o <<m2>>, View(i), View(j))
  BY <1>8, <1>9, LeadsOn
<1>12. <<m1>> \o <<m2>> \in Seq(Messages)
  BY <1>8, <1>9
<1> QED
  BY <1>10, <1>11, <1>12

\* Slots of the same contents, slot by slot or by what is in them.
LEMMA UnitsAtTwo ==
  ASSUME NEW i \in Contents, NEW j \in Contents,
         NEW a \in 1 .. Slots, NEW b \in 1 .. Slots, a # b,
         \A s \in 1 .. Slots : s \notin {a, b} => j[s] = i[s], NEW t,
         Count(j[a], t) + Count(j[b], t) = Count(i[a], t) + Count(i[b], t)
  PROVE  UnitsIn(j, 1 .. Slots, t) = UnitsIn(i, 1 .. Slots, t)
<1> DEFINE k == [s \in 1 .. Slots |-> IF s = a THEN j[a] ELSE i[s]]
<1>1. /\ k \in Contents /\ k[a] = j[a] /\ k[b] = i[b]
      /\ \A s \in 1 .. Slots : s # a => k[s] = i[s]
      /\ \A s \in 1 .. Slots : s # b => j[s] = k[s]
  BY ContentsCount DEF Contents
<1> HIDE DEF k
<1>2. UnitsIn(k, 1 .. Slots, t) = UnitsIn(i, 1 .. Slots, t) + Count(k[a], t) - Count(i[a], t)
  BY <1>1, UnitsAt
<1>3. UnitsIn(j, 1 .. Slots, t) = UnitsIn(k, 1 .. Slots, t) + Count(j[b], t) - Count(k[b], t)
  BY <1>1, UnitsAt
<1>4. /\ Count(j[a], t) \in Nat /\ Count(j[b], t) \in Nat
      /\ Count(i[a], t) \in Nat /\ Count(i[b], t) \in Nat
  BY ContentsCount, StackFacts
<1>5. UnitsIn(i, 1 .. Slots, t) \in Nat
  <2>1. \A s \in (1 .. Slots) \cap (1 .. Slots) : i[s].count \in Nat
    BY ContentsCount
  <2> QED
    BY <2>1, UnitsType
<1> QED
  BY <1>1, <1>2, <1>3, <1>4, <1>5

LEMMA MoveSays ==
  ASSUME TypeOK, NEW a \in 1 .. Slots, NEW b \in 1 .. Slots, NEW n \in 1 .. MaxStack,
         MoveItems(a, b, n)
  PROVE  \E ms : Says(ms)
<1> DEFINE left == Less(shows[a], n)
           there == Stack(shows[a].type, n + shows[b].count)
           j == [shows EXCEPT ![a] = left, ![b] = there]
<1>1. /\ a # b /\ shows[b].type \in {Air, shows[a].type}
      /\ n <= shows[a].count /\ n + shows[b].count <= MaxStack
      /\ shows' = j
      /\ Tell(<<SlotMessage(a, left), SlotMessage(b, there)>>)
  BY DEF MoveItems
<1>2. shows \in Contents /\ shows[a] \in SlotContents /\ shows[b] \in SlotContents
  BY ContentsCount DEF TypeOK
<1>3. /\ shows[a].count \in 0 .. MaxStack /\ shows[b].count \in 0 .. MaxStack
      /\ shows[a] # Empty /\ shows[a].type \in Types
  BY <1>1, <1>2, StackFacts
<1>4. /\ left \in SlotContents
      /\ \A t \in Types : Count(left, t) = Count(shows[a], t)
                                             - IF shows[a].type = t THEN n ELSE 0
  <2>1. n \in 0 .. shows[a].count
    BY <1>1, <1>3
  <2> QED
    BY <1>2, <2>1, LessFacts
<1>5. /\ there \in SlotContents
      /\ \A t \in Types : Count(there, t) = IF t = shows[a].type THEN n + shows[b].count ELSE 0
  <2>1. n + shows[b].count \in 0 .. MaxStack
    BY <1>1, <1>3
  <2> QED
    BY <1>3, <2>1, StackFacts
<1>6. \A t \in Types : Count(shows[b], t) = IF t = shows[a].type THEN shows[b].count ELSE 0
  <2>1. shows[b].type = Air => shows[b].count = 0
    BY <1>2, StackFacts
  <2> QED
    BY <1>1, <1>3, <2>1 DEF Count
<1>7. left # shows[a] /\ there # shows[b]
  <2>1. Count(left, shows[a].type) # Count(shows[a], shows[a].type)
    BY <1>3, <1>4 DEF Count
  <2>2. Count(there, shows[a].type) # Count(shows[b], shows[a].type)
    BY <1>3, <1>5, <1>6
  <2> QED
    BY <2>1, <2>2
<1> HIDE DEF left, there
<1>8. /\ j \in Contents /\ j[a] = left /\ j[b] = there
      /\ \A s \in 1 .. Slots : s \notin {a, b} => j[s] = shows[s]
  BY <1>1, <1>2, <1>4, <1>5 DEF Contents
<1> HIDE DEF j
<1>9. ASSUME NEW t \in Types PROVE UnitsIn(j, 1 .. Slots, t) = UnitsIn(shows, 1 .. Slots, t)
  <2>1. Count(shows[a], t) \in Nat /\ shows[b].count \in Nat
    BY <1>2, <1>3, StackFacts
  <2>2. Count(j[a], t) + Count(j[b], t) = Count(shows[a], t) + Count(shows[b], t)
    BY <1>4, <1>5, <1>6, <1>8, <2>1
  <2>3. a # b /\ shows \in Contents /\ j \in Contents
        /\ \A s \in 1 .. Slots : s \notin {a, b} => j[s] = shows[s]
    BY <1>1, <1>2, <1>8
  <2> QED
    BY <2>2, <2>3, UnitsAtTwo
<1> DEFINE ms == <<SlotMessage(a, j[a]), SlotMessage(b, j[b])>>
<1>10. ms \in Seq(Messages) /\ Leads(ms, View(shows), View(j))
  <2> HIDE DEF ms
  <2>1. ms = <<SlotMessage(a, j[a]), SlotMessage(b, j[b])>>
    BY DEF ms
  <2>2. j[a] # shows[a] /\ j[b] # shows[b]
    BY <1>7, <1>8
  <2> QED
    BY <1>1, <1>2, <1>8, <1>9, <2>1, <2>2, TwoWrites
<1>11. Tell(ms)
  BY <1>1, <1>8
<1> HIDE DEF ms
<1>12. Says(ms)
  BY <1>1, <1>8, <1>10, <1>11 DEF Says
<1> QED
  BY <1>12

LEMMA SwapSays ==
  ASSUME TypeOK, NEW a \in 1 .. Slots, NEW b \in 1 .. Slots, SwapSlots(a, b)
  PROVE  \E ms : Says(ms)
<1> DEFINE j == [shows EXCEPT ![a] = shows[b], ![b] = shows[a]]
<1>1. /\ shows[a].type # shows[b].type /\ shows' = j
      /\ Tell(<<SlotMessage(a, shows[b]), SlotMessage(b, shows[a])>>)
  BY DEF SwapSlots
<1>2. shows \in Contents /\ shows[a] \in SlotContents /\ shows[b] \in SlotContents
  BY ContentsCount DEF TypeOK
<1>3. a # b /\ shows[a] # shows[b]
  BY <1>1
<1>4. /\ j \in Contents /\ j[a] = shows[b] /\ j[b] = shows[a]
      /\ \A s \in 1 .. Slots : s \notin {a, b} => j[s] = shows[s]
  BY <1>2, <1>3 DEF Contents
<1> HIDE DEF j
<1>5. ASSUME NEW t \in Types PROVE UnitsIn(j, 1 .. Slots, t) = UnitsIn(shows, 1 .. Slots, t)
  <2>1. Count(shows[a], t) \in Nat /\ Count(shows[b], t) \in Nat
    BY <1>2, StackFacts
  <2>2. Count(j[a], t) + Count(j[b], t) = Count(shows[a], t) + Count(shows[b], t)
    BY <1>4, <2>1
  <2> QED
    BY <1>2, <1>3, <1>4, <2>2, UnitsAtTwo
<1> DEFINE ms == <<SlotMessage(a, j[a]), SlotMessage(b, j[b])>>
<1>6. ms \in Seq(Messages) /\ Leads(ms, View(shows), View(j))
  <2> HIDE DEF ms
  <2>1. ms = <<SlotMessage(a, j[a]), SlotMessage(b, j[b])>>
    BY DEF ms
  <2>2. j[a] # shows[a] /\ j[b] # shows[b]
    BY <1>3, <1>4
  <2> QED
    BY <1>2, <1>3, <1>4, <1>5, <2>1, <2>2, TwoWrites
<1>7. Tell(ms)
  BY <1>1, <1>4
<1> HIDE DEF ms
<1>8. Says(ms)
  BY <1>1, <1>4, <1>6, <1>7 DEF Says
<1> QED
  BY <1>8

LEMMA OneSays ==
  ASSUME TypeOK, shows' \in Contents, NEW m \in Messages, Tell(<<m>>),
         Steps(View(shows), m, View(shows'))
  PROVE  \E ms : Says(ms)
<1>1. View(shows) \in Views /\ View(shows') \in Views
  BY ViewType DEF TypeOK
<1>2. <<m>> \in Seq(Messages) /\ Leads(<<m>>, View(shows), View(shows'))
  BY <1>1, OneMessage
<1>3. Says(<<m>>)
  BY <1>2 DEF Says
<1> QED
  BY <1>3

LEMMA SpendSays ==
  ASSUME TypeOK, NEW s \in 1 .. Storage,
         PlaceFrom(s) \/ \E full \in BOOLEAN : ThrowFrom(s, full)
  PROVE  \E ms : Says(ms)
<1>1. /\ shows \in Contents /\ s \in 1 .. Slots /\ shows[s] \in SlotContents
      /\ View(shows).slot = 0 /\ View(shows).inv = shows
  BY Numbers, ContentsCount, ViewType DEF TypeOK
<1>2. ASSUME shows[s] # Empty, NEW st, st \in {Empty, Less(shows[s], 1)},
             shows' = [shows EXCEPT ![s] = st]
      PROVE  shows' \in Contents /\ shows[s].type \in Types
  <2>1. shows[s].type \in Types /\ shows[s].count \in 1 .. MaxStack
    BY <1>1, <1>2, StackFacts
  <2>2. 1 \in 0 .. shows[s].count
    BY <2>1
  <2>3. Less(shows[s], 1) \in SlotContents /\ Empty \in SlotContents
    BY <1>1, <2>2, LessFacts DEF SlotContents
  <2> QED
    BY <1>1, <1>2, <2>1, <2>3 DEF Contents
<1>3. CASE PlaceFrom(s)
  <2> DEFINE m == [kind |-> "place", slot |-> s, type |-> shows[s].type]
  <2>1. /\ shows[s] # Empty /\ shows' = [shows EXCEPT ![s] = Less(shows[s], 1)] /\ Tell(<<m>>)
    BY <1>3 DEF PlaceFrom
  <2>2. shows' \in Contents /\ shows[s].type \in Types
    BY <1>2, <2>1
  <2>3. /\ m \in Messages /\ m.kind = "place" /\ m.slot = s /\ m.type = shows[s].type
    BY <2>2 DEF Messages
  <2> HIDE DEF m
  <2>4. Steps(View(shows), m, View(shows'))
    BY <1>1, <2>3 DEF Steps
  <2> QED
    BY <2>1, <2>2, <2>3, <2>4, OneSays
<1>4. ASSUME NEW full \in BOOLEAN, ThrowFrom(s, full) PROVE \E ms : Says(ms)
  <2> DEFINE m == [kind |-> "drop", slot |-> s, type |-> shows[s].type, full |-> full]
  <2>1. /\ shows[s] # Empty /\ Tell(<<m>>)
        /\ shows' = [shows EXCEPT ![s] = IF full THEN Empty ELSE Less(shows[s], 1)]
    BY <1>4 DEF ThrowFrom
  <2>2. shows' \in Contents /\ shows[s].type \in Types
    BY <1>2, <2>1
  <2>3. /\ m \in Messages /\ m.kind = "drop" /\ m.slot = s /\ m.type = shows[s].type
    BY <2>2 DEF Messages
  <2> HIDE DEF m
  <2>4. Steps(View(shows), m, View(shows'))
    BY <1>1, <2>3 DEF Steps
  <2> QED
    BY <2>1, <2>2, <2>3, <2>4, OneSays
<1> QED
  BY <1>3, <1>4

LEMMA CraftSays ==
  ASSUME TypeOK, CraftFrom
  PROVE  \E ms : Says(ms)
<1> DEFINE m == [kind |-> "craft"]
<1>1. m \in Messages /\ m.kind = "craft"
  BY DEF Messages
<1>2. /\ Tell(<<m>>) /\ shows' = shows
      /\ UnitsIn(shows, 1 .. Storage, InType) >= InCount
  BY DEF CraftFrom
<1>3. shows' \in Contents /\ View(shows).slot = 0 /\ View(shows).inv = shows
  BY <1>2, ViewType DEF TypeOK
<1> HIDE DEF m
<1>4. Steps(View(shows), m, View(shows'))
  BY <1>1, <1>2, <1>3 DEF Steps
<1> QED
  BY <1>1, <1>2, <1>3, <1>4, OneSays

LEMMA ClientSays ==
  ASSUME TypeOK, ClientNext
  PROVE  ReceiveInventory \/ \E ms : Says(ms)
BY MoveSays, SwapSays, SpendSays, CraftSays DEF ClientNext
-----------------------------------------------------------------------------
\* A type and a count tell what a slot holds.
LEMMA SameCounts ==
  ASSUME NEW a \in SlotContents, NEW b \in SlotContents,
         \A t \in Types : Count(a, t) = Count(b, t)
  PROVE  a = b
<1>1. CASE a # Empty
  <2>1. a.type \in Types /\ a.count \in 1 .. MaxStack /\ a \in Stacks
    BY <1>1, StackFacts
  <2>2. Count(b, a.type) = a.count
    BY <2>1 DEF Count
  <2>3. b.type = a.type /\ b.count = a.count
    BY <2>1, <2>2 DEF Count
  <2>4. b \in Stacks
    BY <2>1, <2>3, StackFacts
  <2> QED
    BY <2>1, <2>3, <2>4 DEF Stacks
<1>2. CASE a = Empty
  <2>1. b # Empty => Count(b, b.type) = b.count /\ b.count # 0 /\ b.type \in Types
    BY StackFacts DEF Count
  <2>2. \A t \in Types : Count(a, t) = 0
    BY <1>2, StackFacts DEF Count
  <2> QED
    BY <1>2, <2>1, <2>2
<1> QED
  BY <1>1, <1>2

\* The first write of two makes or loses an item, so it waits for the second;
\* both together do neither.  This is what the server makes of it.
LEMMA SlotForeseen ==
  ASSUME TypeOK, NEW m \in Messages, m.kind = "slot",
         NEW v \in Views, Has(v, inventory, pending), NEW u \in Views, Steps(v, m, u),
         HandleSlot(m)
  PROVE  SendInventory \/ (SendNothing /\ Has(u, inventory', pending'))
<1>1. m.slot \in 1 .. Slots /\ m.item \in SlotContents
  BY DEF Messages
<1>2. inventory \in Contents /\ inventory[m.slot] \in SlotContents /\ GroupOK(pending)
  BY <1>1, ContentsCount DEF TypeOK, GroupOK, Writes
<1>3. v.inv = inventory /\ m.item # inventory[m.slot] /\ v.slot \in 0 .. Slots
      /\ v.item \in SlotContents
  BY DEF Has, Steps, FirstWrite, SecondWrite, Views
<1> DEFINE expired == old /\ pending # << >>
           before == IF expired THEN << >> ELSE pending
           group == [s \in DOMAIN before \cup {m.slot} |->
                       IF s = m.slot THEN [source |-> inventory[s], target |-> m.item]
                       ELSE before[s]]
<1>4. \/ /\ Matches(group) /\ Balanced(group)
         /\ Executed(group)
         /\ IF expired THEN SendInventory ELSE SendNothing
      \/ /\ ~(Matches(group) /\ Balanced(group))
         /\ pending' = IF Cardinality(DOMAIN group) >= MaxPending THEN << >> ELSE group
         /\ UNCHANGED inventory
         /\ IF expired \/ pending' = << >> THEN SendInventory ELSE SendNothing
  <2> HIDE DEF group
  <2> QED
    BY <1>3 DEF HandleSlot, group
<1>5. /\ DOMAIN group = DOMAIN before \cup {m.slot}
      /\ group[m.slot] = [source |-> inventory[m.slot], target |-> m.item]
      /\ \A s \in DOMAIN before : s # m.slot => group[s] = before[s]
  OBVIOUS
<1> HIDE DEF group
<1>6. CASE expired
  BY <1>4, <1>6
<1>7. CASE ~expired /\ v.slot = 0
  <2>1. pending = << >> /\ before = << >> /\ FirstWrite(v, m, u)
    BY <1>7 DEF Has, Steps, SecondWrite
  <2>2. DOMAIN group = {m.slot}
    BY <1>5, <2>1, NoWrites
  <2>3. ~(Matches(group) /\ Balanced(group))
    <3> SUFFICES ASSUME Matches(group), Balanced(group) PROVE FALSE
      OBVIOUS
    <3> DEFINE after == [s \in 1 .. Slots |-> IF s = m.slot THEN m.item ELSE inventory[s]]
    <3>1. /\ after \in Contents /\ after[m.slot] = m.item
          /\ \A s \in 1 .. Slots : s # m.slot => after[s] = inventory[s]
          /\ \A s \in 1 .. Slots :
               after[s] = IF s \in DOMAIN group THEN group[s].target ELSE inventory[s]
      <4>1. after[m.slot] = m.item /\ \A s \in 1 .. Slots : s # m.slot => after[s] = inventory[s]
        BY <1>1
      <4>2. after \in Contents
        BY <1>1, <1>2 DEF Contents
      <4>3. group[m.slot].target = m.item
        BY <1>5
      <4> HIDE DEF after
      <4> QED
        BY <2>2, <4>1, <4>2, <4>3
    <3> HIDE DEF after
    <3>2. GroupOK(group)
      BY <1>1, <1>2, <1>5, <2>2 DEF GroupOK, Writes
    <3>3. \A t \in Types : UnitsIn(after, 1 .. Slots, t) = UnitsIn(inventory, 1 .. Slots, t)
      BY <3>1, <3>2, BalancedUnits
    <3>4. ASSUME NEW t \in Types PROVE Count(m.item, t) = Count(inventory[m.slot], t)
      <4>1. UnitsIn(after, 1 .. Slots, t) = UnitsIn(inventory, 1 .. Slots, t)
               + Count(after[m.slot], t) - Count(inventory[m.slot], t)
        BY <1>1, <1>2, <3>1, UnitsAt
      <4>2. Count(m.item, t) \in Nat /\ Count(inventory[m.slot], t) \in Nat
        BY <1>1, <1>2, StackFacts
      <4>3. UnitsIn(inventory, 1 .. Slots, t) \in Nat
        <5>1. \A s \in (1 .. Slots) \cap (1 .. Slots) : inventory[s].count \in Nat
          BY <1>2, ContentsCount
        <5> QED
          BY <5>1, UnitsType
      <4> QED
        BY <3>1, <3>3, <4>1, <4>2, <4>3
    <3> QED
      BY <1>1, <1>2, <1>3, <3>4, SameCounts
  <2>4. Cardinality(DOMAIN group) = 1
    BY <2>2, FS_Singleton
  <2>5. pending' = group /\ UNCHANGED inventory /\ (SendInventory \/ SendNothing)
    BY <1>4, <2>3, <2>4
  <2>6. Has(u, inventory', pending')
    BY <1>1, <1>3, <1>5, <2>1, <2>2, <2>5 DEF Has, FirstWrite
  <2> QED
    BY <2>5, <2>6
<1>8. CASE ~expired /\ v.slot # 0
  <2>1. /\ SecondWrite(v, m, u) /\ before = pending /\ DOMAIN pending = {v.slot}
        /\ pending[v.slot] = [source |-> inventory[v.slot], target |-> v.item]
        /\ v.slot \in 1 .. Slots
    BY <1>3, <1>8 DEF Has, Steps, FirstWrite
  <2>2. m.slot # v.slot /\ u = View(u.inv) /\ u.inv \in Contents
    BY <2>1 DEF SecondWrite, Views
  <2>3. /\ DOMAIN group = {v.slot, m.slot}
        /\ group[v.slot] = [source |-> inventory[v.slot], target |-> v.item]
        /\ group[m.slot] = [source |-> inventory[m.slot], target |-> m.item]
    BY <1>5, <2>1, <2>2
  <2>4. Matches(group)
    BY <2>3 DEF Matches
  <2>5. \A s \in 1 .. Slots :
          u.inv[s] = IF s \in DOMAIN group THEN group[s].target ELSE inventory[s]
    BY <1>3, <2>1, <2>2, <2>3 DEF SecondWrite
  <2>6. GroupOK(group)
    <3>1. inventory[v.slot] \in SlotContents
      BY <1>2, <2>1, ContentsCount
    <3> QED
      BY <1>1, <1>2, <1>3, <2>1, <2>3, <3>1 DEF GroupOK, Writes
  <2>7. Balanced(group)
    <3>1. \A t \in Types : UnitsIn(u.inv, 1 .. Slots, t) = UnitsIn(inventory, 1 .. Slots, t)
      BY <1>3, <2>1 DEF SecondWrite
    <3> QED
      BY <2>2, <2>4, <2>5, <2>6, <3>1, BalancedUnits
  <2>8. Executed(group) /\ SendNothing
    BY <1>4, <1>8, <2>4, <2>7
  <2>9. inventory' = u.inv /\ pending' = << >>
    <3>1. inventory' = [s \in 1 .. Slots |->
                          IF s \in DOMAIN group THEN group[s].target ELSE inventory[s]]
          /\ pending' = << >>
      BY <2>8 DEF Executed
    <3>2. u.inv = [s \in 1 .. Slots |-> u.inv[s]]
      BY <2>2 DEF Contents
    <3> QED
      BY <2>5, <3>1, <3>2
  <2>10. u.slot = 0
    BY <2>2, ViewType
  <2>11. Has(u, inventory', pending')
    BY <2>9, <2>10, NoWrites DEF Has
  <2> QED
    BY <2>8, <2>11
<1> QED
  BY <1>6, <1>7, <1>8
-----------------------------------------------------------------------------
(***************************************************************************)
(* The steps, and what holds all along.                                    *)
(***************************************************************************)
LEMMA HandleStep ==
  ASSUME TypeOK, Handle
  PROVE  /\ ServerOK /\ up' \in Seq(Messages) /\ UNCHANGED <<shows, acts>>
         /\ Kept \/ Handles({"place", "craft"})
<1> DEFINE m == Head(up)
<1>1. up \in Seq(Messages)
  BY DEF TypeOK
<1>2. /\ up # << >> /\ up' = Tail(up) /\ UNCHANGED <<shows, acts>>
      /\ \/ m.kind = "slot" /\ HandleSlot(m) /\ UNCHANGED <<drops, world>>
         \/ m.kind = "drop" /\ HandleDrop(m) /\ UNCHANGED world
         \/ m.kind = "place" /\ HandlePlace(m)
         \/ m.kind = "craft" /\ HandleCraft
  BY DEF Handle
<1>3. m \in Messages /\ up' \in Seq(Messages) /\ Len(up') < Len(up) /\ up # up'
  BY <1>1, <1>2
<1>4. m.kind \in {"place", "craft"} => Handles({"place", "craft"})
  BY <1>2, <1>3 DEF Handles
<1> HIDE DEF m
<1> QED
  BY <1>2, <1>3, <1>4, SlotStep, DropStep, PlaceStep, CraftStep

LEMMA TypeKept ==
  ASSUME TypeOK, ServerOK, up' \in Seq(Messages), shows' \in Contents, acts' \in 0 .. MaxActs
  PROVE  TypeOK'
BY DEF TypeOK, ServerOK, SendType, GroupOK, Writes

\* Types, and what the steps of the client and of the server keep.
LEMMA TypeStep ==
  ASSUME TypeOK, [Next]_vars
  PROVE  /\ TypeOK'
         /\ Kept \/ Handles({"place", "craft"}) \/ Despawns
<1>1. /\ inventory \in Contents /\ shows \in Contents /\ GroupOK(pending)
      /\ drops \in [Stacks -> Nat] /\ world \in [Types -> Nat]
      /\ up \in Seq(Messages) /\ down \in Seq(Contents)
      /\ old \in BOOLEAN /\ crossed \in BOOLEAN /\ acts \in 0 .. MaxActs
  BY DEF TypeOK, GroupOK, Writes
<1>2. UNCHANGED <<inventory, drops, world>> => Kept
  <2> SUFFICES ASSUME UNCHANGED <<inventory, drops, world>> PROVE Kept
    OBVIOUS
  <2>1. \A t \in Types : Same(t)
    BY DEF Same
  <2> QED
    BY <2>1, KeptBySlots
<1>3. ASSUME NEW ms, Says(ms) PROVE TypeOK' /\ Kept
  <2>1. /\ ms \in Seq(Messages) /\ shows' \in Contents /\ acts' = acts + 1 /\ acts < MaxActs
        /\ up' = up \o ms /\ crossed' = (crossed \/ down # << >>)
        /\ UNCHANGED <<inventory, pending, old, drops, world, down>>
    BY <1>3 DEF Says, Tell
  <2>2. up' \in Seq(Messages)
    BY <1>1, <2>1
  <2>3. acts' \in 0 .. MaxActs
    BY <1>1, <2>1
  <2>4. ServerOK
    BY <1>1, <2>1 DEF ServerOK, SendType
  <2> QED
    BY <1>2, <2>1, <2>2, <2>3, <2>4, TypeKept
<1>4. CASE ReceiveInventory
  <2>1. /\ down # << >> /\ shows' = Head(down) /\ down' = Tail(down)
        /\ UNCHANGED <<inventory, pending, old, drops, world, up, crossed, acts>>
    BY <1>4 DEF ReceiveInventory
  <2>2. shows' \in Contents /\ down' \in Seq(Contents)
    BY <1>1, <2>1
  <2>3. ServerOK
    BY <1>1, <2>1, <2>2 DEF ServerOK, SendType
  <2> QED
    BY <1>1, <1>2, <2>1, <2>2, <2>3, TypeKept
<1>5. CASE Handle
  BY <1>1, <1>5, HandleStep, TypeKept
<1>6. ASSUME NEW st \in Stacks, PickUp(st) PROVE TypeOK' /\ Kept
  <2>1. UNCHANGED <<up, shows, acts>>
    BY <1>6 DEF PickUp
  <2> QED
    BY <1>1, <1>6, <2>1, PickUpStep, TypeKept
<1>7. ASSUME NEW t \in Types, Dig(t) PROVE TypeOK' /\ Kept
  <2>1. UNCHANGED <<inventory, pending, old, shows, up, down, crossed, acts>>
    BY <1>7 DEF Dig
  <2>2. ServerOK /\ Kept
    BY <1>1, <1>7, <2>1, DigStep DEF ServerOK, SendType
  <2> QED
    BY <1>1, <2>1, <2>2, TypeKept
<1>8. CASE Pass
  <2>1. old' = TRUE
        /\ UNCHANGED <<inventory, pending, drops, world, shows, up, down, crossed, acts>>
    BY <1>8 DEF Pass
  <2>2. ServerOK
    BY <1>1, <2>1 DEF ServerOK, SendType
  <2> QED
    BY <1>1, <1>2, <2>1, <2>2, TypeKept
<1>9. CASE UNCHANGED vars
  <2>1. ServerOK /\ UNCHANGED <<inventory, drops, world, up, shows, acts>>
    BY <1>1, <1>9 DEF ServerOK, SendType, vars
  <2> QED
    BY <1>1, <1>2, <2>1, TypeKept
<1>10. CASE Despawns
  <2>1. PICK st \in Stacks : Despawn(st)
    BY <1>10 DEF Despawns
  <2>2. drops[st] - 1 \in Nat
    BY <1>1, <2>1 DEF Despawn
  <2>3. /\ drops' = [drops EXCEPT ![st] = drops[st] - 1]
        /\ UNCHANGED <<inventory, pending, old, world, shows, up, down, crossed, acts>>
    BY <2>1 DEF Despawn
  <2>4. drops' \in [Stacks -> Nat]
    BY <1>1, <2>2, <2>3
  <2>5. ServerOK
    BY <1>1, <2>3, <2>4 DEF ServerOK, SendType
  <2> QED
    BY <1>1, <1>10, <2>3, <2>5, TypeKept
<1> QED
  BY <1>3, <1>4, <1>5, <1>6, <1>7, <1>8, <1>9, <1>10, ClientSays DEF Next

LEMMA TypeInit == Init => TypeOK
<1> SUFFICES ASSUME Init PROVE TypeOK
  OBVIOUS
<1>1. GroupOK(pending) /\ up \in Seq(Messages) /\ down \in Seq(Contents)
  BY NoWrites DEF Init
<1>2. drops \in [Stacks -> Nat] /\ world \in [Types -> Nat] /\ acts \in 0 .. MaxActs
  BY DEF Init
<1> QED
  BY <1>1, <1>2 DEF Init, TypeOK, GroupOK, Writes

\* Type correctness: the slots of both sides, the pending writes, what lies
\* about and what is under way.
THEOREM TypeCorrect == Spec => []TypeOK
<1>1. TypeOK /\ [Next]_vars => TypeOK'
  BY TypeStep
<1> QED
  BY <1>1, TypeInit, PTL DEF Spec

\* No step but placing a block, crafting and despawning makes or loses an item,
\* whatever order writes, pickups, throws and inventories come in: one action
\* property for moves, the pending writes, their expiry, throwing, picking up
\* and digging, for any number of slots, types and items.
THEOREM NothingMadeOrLost == Spec => Conserved
<1>1. TypeOK /\ [Next]_vars =>
        [\/ Handles({"place", "craft"})
         \/ Despawns
         \/ \A t \in Types : Total(t)' = Total(t)]_vars
  BY TypeStep DEF Kept
<1>2. Spec => []TypeOK
  BY TypeCorrect
<1> QED
  BY <1>1, <1>2, PTL DEF Spec, Conserved

\* An inventory that is sent is the last word, or has crossed a message.
LEMMA SentAnswered ==
  ASSUME TypeOK, inventory' \in Contents, SendInventory
  PROVE  Agree'
<1> SUFFICES ASSUME ~crossed' PROVE Answered'
  BY DEF Agree
<1>1. up' = << >> /\ pending' = << >> /\ down' = Append(down, inventory')
  BY DEF SendInventory
<1>2. down \in Seq(Contents)
  BY DEF TypeOK
<1>3. down' # << >> /\ down'[Len(down')] = inventory'
  BY <1>1, <1>2
<1> QED
  BY <1>1, <1>3 DEF Answered

LEMMA AgreeInit == Init => Agree
<1> SUFFICES ASSUME Init PROVE down = << >> /\ Foreseen
  BY DEF Agree
<1>1. /\ inventory \in Contents /\ shows = inventory /\ pending = << >> /\ up = << >>
      /\ down = << >>
  BY DEF Init
<1> DEFINE v == View(shows)
           sigma == [i \in 0 .. 0 |-> v]
<1>2. v \in Views /\ v.inv = inventory /\ v.slot = 0
  BY <1>1, ViewType
<1> HIDE DEF v
<1>3. Path(sigma, up, v, v)
  <2>1. Len(up) = 0 /\ sigma \in [0 .. 0 -> Views] /\ sigma[0] = v
    BY <1>1, <1>2
  <2>2. \A i \in 1 .. Len(up) : FALSE
    BY <2>1
  <2> HIDE DEF sigma
  <2> QED
    BY <2>1, <2>2 DEF Path
<1>4. Has(v, inventory, pending)
  BY <1>1, <1>2, NoWrites DEF Has
<1> QED
  BY <1>1, <1>2, <1>3, <1>4 DEF Foreseen, Leads, v

\* Client and server agree about what is under way.
LEMMA AgreeStep ==
  ASSUME TypeOK, TypeOK', Agree, [Next]_vars
  PROVE  Agree'
<1>1. /\ inventory \in Contents /\ shows \in Contents /\ up \in Seq(Messages)
      /\ down \in Seq(Contents) /\ inventory' \in Contents
  BY DEF TypeOK
<1>2. ASSUME NEW ms, Says(ms) PROVE Agree'
  <2>1. /\ ms \in Seq(Messages) /\ shows' \in Contents
        /\ Leads(ms, View(shows), View(shows'))
        /\ up' = up \o ms /\ crossed' = (crossed \/ down # << >>)
        /\ UNCHANGED <<inventory, pending, down>>
    BY <1>2 DEF Says, Tell
  <2> SUFFICES ASSUME ~crossed' PROVE down' = << >> /\ Foreseen'
    BY DEF Agree
  <2>2. ~crossed /\ down = << >> /\ Foreseen
    BY <2>1 DEF Agree, Answered
  <2>3. PICK v \in Views : Has(v, inventory, pending) /\ Leads(up, v, View(shows))
    BY <2>2 DEF Foreseen
  <2>4. Leads(up', v, View(shows'))
    BY <1>1, <2>1, <2>3, LeadsOn
  <2>5. Has(v, inventory', pending')
    BY <2>1, <2>3
  <2> QED
    BY <2>1, <2>2, <2>4, <2>5 DEF Foreseen
<1>3. CASE ReceiveInventory
  <2>1. /\ down # << >> /\ shows' = Head(down) /\ down' = Tail(down)
        /\ UNCHANGED <<inventory, pending, up, crossed>>
    BY <1>3 DEF ReceiveInventory
  <2> SUFFICES ASSUME ~crossed' PROVE (down' = << >> /\ Foreseen') \/ Answered'
    BY DEF Agree
  <2>2. Answered
    BY <2>1 DEF Agree
  <2>3. CASE down' # << >>
    <3>1. down'[Len(down')] = down[Len(down)]
      BY <1>1, <2>1, <2>3
    <3> QED
      BY <2>1, <2>2, <2>3, <3>1 DEF Answered
  <2>4. CASE down' = << >>
    <3>1. Len(down) = 1
      <4>1. Len(Tail(down)) = Len(down) - 1 /\ Len(down) \in Nat
        BY <1>1, <2>1
      <4>2. Tail(down) = << >> /\ Len(<< >>) = 0
        BY <2>1, <2>4
      <4>3. Len(Tail(down)) = 0
        BY <4>2
      <4> QED
        BY <4>1, <4>3
    <3>2. shows' = inventory' /\ pending' = << >> /\ up' = << >>
      BY <1>1, <2>1, <2>2, <3>1 DEF Answered
    <3> DEFINE v == View(shows')
               sigma == [i \in 0 .. 0 |-> v]
    <3>3. v \in Views /\ v.inv = inventory' /\ v.slot = 0
      BY <1>1, <3>2, ViewType
    <3> HIDE DEF v
    <3>4. Path(sigma, up', v, v)
      <4>1. Len(up') = 0 /\ sigma \in [0 .. 0 -> Views] /\ sigma[0] = v
        BY <3>2, <3>3
      <4>2. \A i \in 1 .. Len(up') : FALSE
        BY <4>1
      <4> HIDE DEF sigma
      <4> QED
        BY <4>1, <4>2 DEF Path
    <3>5. Has(v, inventory', pending')
      BY <3>2, <3>3, NoWrites DEF Has
    <3>6. Leads(up', v, View(shows'))
      BY <3>4 DEF Leads, v
    <3> QED
      BY <2>4, <3>3, <3>5, <3>6 DEF Foreseen
  <2> QED
    BY <2>3, <2>4
<1>4. CASE Handle
  <2> DEFINE m == Head(up)
  <2>1. /\ up # << >> /\ up' = Tail(up) /\ UNCHANGED shows
        /\ \/ m.kind = "slot" /\ HandleSlot(m)
           \/ m.kind = "drop" /\ HandleDrop(m)
           \/ m.kind = "place" /\ HandlePlace(m)
           \/ m.kind = "craft" /\ HandleCraft
    BY <1>4 DEF Handle
  <2>2. m \in Messages
    BY <1>1, <2>1
  <2>3. CASE SendInventory
    BY <1>1, <2>3, SentAnswered
  <2>4. CASE SendNothing
    <3> SUFFICES ASSUME ~crossed' PROVE down' = << >> /\ Foreseen'
      BY DEF Agree
    <3>1. ~crossed /\ UNCHANGED down
      BY <2>4 DEF SendNothing
    <3>2. down = << >> /\ Foreseen
      BY <2>1, <3>1 DEF Agree, Answered
    <3>3. PICK v \in Views : Has(v, inventory, pending) /\ Leads(up, v, View(shows))
      BY <3>2 DEF Foreseen
    <3>4. PICK u \in Views : Steps(v, m, u) /\ Leads(up', u, View(shows))
      BY <1>1, <2>1, <3>3, LeadsHead
    <3> HIDE DEF m
    <3>5. CASE m.kind = "slot" /\ HandleSlot(m)
      <4>1. SendInventory \/ (SendNothing /\ Has(u, inventory', pending'))
        BY <2>2, <3>3, <3>4, <3>5, SlotForeseen
      <4>2. ~SendInventory
        BY <3>1, <3>2, <1>1 DEF SendInventory
      <4> QED
        BY <2>1, <3>1, <3>2, <3>4, <4>1, <4>2 DEF Foreseen
    <3>6. CASE m.kind = "drop" /\ HandleDrop(m)
      <4>1. inventory[m.slot].type = m.type
        BY <3>3, <3>4, <3>6 DEF Has, Steps
      <4>2. SendInventory
        BY <3>6, <4>1 DEF HandleDrop
      <4> QED
        BY <1>1, <3>1, <3>2, <4>2 DEF SendInventory
    <3>7. CASE m.kind = "place" /\ HandlePlace(m)
      BY <1>1, <3>1, <3>2, <3>7 DEF HandlePlace, SendInventory
    <3>8. CASE m.kind = "craft" /\ HandleCraft
      BY <1>1, <3>1, <3>2, <3>8 DEF HandleCraft, SendInventory
    <3> QED
      BY <2>1, <3>5, <3>6, <3>7, <3>8
  <2>5. SendInventory \/ SendNothing \/ crossed'
    <3> HIDE DEF m
    <3>1. HandleSlot(m) => SendInventory \/ SendNothing
      BY DEF HandleSlot
    <3>2. HandleDrop(m) => SendInventory \/ SendNothing
      BY DEF HandleDrop
    <3>3. HandlePlace(m) => SendInventory \/ crossed'
      BY DEF HandlePlace
    <3>4. HandleCraft => SendInventory
      BY DEF HandleCraft
    <3> QED
      BY <2>1, <3>1, <3>2, <3>3, <3>4
  <2> QED
    BY <2>3, <2>4, <2>5 DEF Agree
<1>5. ASSUME NEW st \in Stacks, PickUp(st) PROVE Agree'
  BY <1>1, <1>5, SentAnswered DEF PickUp
<1>6. CASE UNCHANGED <<inventory, pending, shows, up, down, crossed>>
  BY <1>6 DEF Agree, Foreseen, Answered
<1>7. (\E t \in Types : Dig(t)) \/ Despawns \/ Pass \/ UNCHANGED vars =>
        UNCHANGED <<inventory, pending, shows, up, down, crossed>>
  BY DEF Dig, Despawns, Despawn, Pass, vars
<1> QED
  BY <1>2, <1>3, <1>4, <1>5, <1>6, <1>7, ClientSays DEF Next

LEMMA Agreement == Spec => [](TypeOK /\ Agree)
<1>1. TypeOK /\ Agree /\ [Next]_vars => (TypeOK /\ Agree)'
  BY TypeStep, AgreeStep
<1> QED
  BY <1>1, TypeInit, AgreeInit, PTL DEF Spec

\* When nothing is under way and no inventory has crossed a message, client and
\* server show the same and no write is pending.
THEOREM SameView == Spec => []ViewsAgree
<1>1. TypeOK /\ Agree => ViewsAgree
  <2> SUFFICES ASSUME TypeOK, Agree, ~crossed, up = << >>, down = << >>
               PROVE  shows = inventory /\ pending = << >>
    BY DEF ViewsAgree
  <2>1. PICK v \in Views : Has(v, inventory, pending) /\ Leads(up, v, View(shows))
    BY DEF Agree, Answered, Foreseen
  <2>2. v = View(shows)
    <3>1. PICK sigma : Path(sigma, up, v, View(shows))
      BY <2>1 DEF Leads
    <3>2. Len(up) = 0
      OBVIOUS
    <3> QED
      BY <3>1, <3>2 DEF Path
  <2>3. v.inv = shows /\ v.slot = 0
    BY <2>2, ViewType DEF TypeOK
  <2> QED
    BY <2>1, <2>3 DEF Has
<1> QED
  BY <1>1, Agreement, PTL

LEMMA TotalNumber ==
  ASSUME TypeOK, TypeOK', NEW t \in Types
  PROVE  Total(t) \in Int /\ Total(t)' \in Int
<1>1. /\ Total(t) = UnitsIn(inventory, 1 .. Slots, t) + LyingIn(drops, t) + world[t]
      /\ UnitsIn(inventory, 1 .. Slots, t) \in Nat
      /\ LyingIn(drops, t) \in Nat /\ world[t] \in Nat
  BY TotalDef
<1>2. Total(t)' = UnitsIn(inventory', 1 .. Slots, t) + LyingIn(drops', t) + world'[t]
  BY TotalDef
<1>3. inventory' \in Contents /\ drops' \in [Stacks -> Nat] /\ world'[t] \in Nat
  BY DEF TypeOK
<1>4. UnitsIn(inventory', 1 .. Slots, t) \in Nat
  <2>1. \A s \in (1 .. Slots) \cap (1 .. Slots) : inventory'[s].count \in Nat
    BY <1>3, ContentsCount
  <2> QED
    BY <2>1, UnitsType
<1>5. LyingIn(drops', t) \in Nat
  BY <1>3, LyingType
<1> QED
  BY <1>1, <1>2, <1>3, <1>4, <1>5

\* Only the server's handler makes what is under way to it less.
LEMMA UpShortened ==
  ASSUME TypeOK, [Next]_vars, up' # up, Len(up') < Len(up)
  PROVE  Handle
<1>1. ASSUME NEW ms, Says(ms) PROVE FALSE
  <2>1. up \in Seq(Messages) /\ ms \in Seq(Messages) /\ up' = up \o ms
    BY <1>1 DEF Says, Tell, TypeOK
  <2>2. Len(up') = Len(up) + Len(ms) /\ Len(ms) \in Nat /\ Len(up) \in Nat
    BY <2>1
  <2> QED
    BY <2>2
<1>2. ReceiveInventory \/ (\E st \in Stacks : PickUp(st)) \/ (\E t \in Types : Dig(t))
        \/ Despawns \/ Pass \/ UNCHANGED vars => UNCHANGED up
  BY DEF ReceiveInventory, PickUp, Dig, Despawns, Despawn, Pass, vars
<1> QED
  BY <1>1, <1>2, ClientSays DEF Next

LEMMA WorthKept ==
  ASSUME Kept
  PROVE  Worth' = Worth
BY DEF Kept, Worth

\* What a player gets whose client shows what the server keeps.
LEMMA PaidStep ==
  ASSUME TypeOK, Agree, [Next]_vars, ~crossed
  PROVE  \/ Worth' = Worth
         \/ Despawns
         \/ /\ Handles({"craft"}) /\ Worth' < Worth
            /\ FirstEmpty(inventory') = {}
<1>1. CASE Kept
  BY <1>1, WorthKept
<1>2. CASE ~Kept /\ ~Despawns
  <2> DEFINE m == Head(up)
  <2>1. Handles({"place", "craft"})
    BY <1>2, TypeStep
  <2>2. Handle
    BY <1>2, <2>1, UpShortened DEF Handles
  <2>3. up \in Seq(Messages) /\ up # << >> /\ m \in Messages /\ up' # up /\ Len(up') < Len(up)
        /\ m.kind \in {"place", "craft"}
    BY <2>1 DEF Handles, TypeOK
  <2>4. Foreseen
    BY <2>3 DEF Agree, Answered
  <2>5. PICK v \in Views : Has(v, inventory, pending) /\ Leads(up, v, View(shows))
    BY <2>4 DEF Foreseen
  <2>6. PICK u \in Views : Steps(v, m, u)
    BY <2>3, <2>5, LeadsHead
  <2>7. v.inv = inventory
    BY <2>5 DEF Has
  <2>8. \/ m.kind = "place" /\ HandlePlace(m)
        \/ m.kind = "craft" /\ HandleCraft
    BY <2>2, <2>3 DEF Handle
  <2>9. m.kind = "craft" => Handles({"craft"})
    BY <2>1 DEF Handles
  <2> HIDE DEF m
  <2>10. CASE m.kind = "place" /\ HandlePlace(m)
    <3>1. inventory[m.slot].type = m.type
      BY <2>6, <2>7, <2>10 DEF Steps
    <3> QED
      BY <1>2, <2>3, <2>10, <3>1, PlaceStep
  <2>11. CASE m.kind = "craft" /\ HandleCraft
    <3>1. UnitsIn(inventory, 1 .. Storage, InType) >= InCount
      BY <2>6, <2>7, <2>11 DEF Steps
    <3>2. PICK lost \in Nat :
            /\ lost > 0 => FirstEmpty(inventory') = {}
            /\ Total(OutType)' + lost = Total(OutType) + OutCount
            /\ Total(InType)' = Total(InType)
                 - Smaller(InCount, UnitsIn(inventory, 1 .. Storage, InType))
      BY <2>11, CraftStep
    <3>3. UnitsIn(inventory, 1 .. Storage, InType) \in Nat
      <4>1. \A s \in (1 .. Storage) \cap (1 .. Slots) : inventory[s].count \in Nat
        BY ContentsCount DEF TypeOK
      <4> QED
        BY <4>1, UnitsType
    <3>4. Smaller(InCount, UnitsIn(inventory, 1 .. Storage, InType)) = InCount
      BY <3>1, <3>3 DEF Smaller
    <3>5. Total(InType)' = Total(InType) - InCount
      BY <3>2, <3>4
    <3>6. /\ Total(InType) \in Int /\ Total(OutType) \in Int
          /\ Total(InType)' \in Int /\ Total(OutType)' \in Int
          /\ InCount \in Nat /\ InCount > 0 /\ OutCount \in Nat
      <4>1. InType \in Types /\ OutType \in Types /\ TypeOK'
        BY TypeStep
      <4>2. \A t \in Types : Total(t) \in Int /\ Total(t)' \in Int
        BY <4>1, TotalNumber
      <4> QED
        BY <4>1, <4>2
    <3>7. Worth' = Worth - InCount * lost /\ Worth \in Int
      <4>1. /\ Worth = OutCount * Total(InType) + InCount * Total(OutType)
            /\ Worth' = OutCount * Total(InType)' + InCount * Total(OutType)'
        BY DEF Worth
      <4>2. OutCount * Total(InType)' + InCount * Total(OutType)' =
              (OutCount * Total(InType) + InCount * Total(OutType)) - InCount * lost
        <5>1. Total(OutType)' = Total(OutType) + OutCount - lost
          BY <3>2, <3>6
        <5>2. OutCount * (Total(InType) - InCount)
                = OutCount * Total(InType) - OutCount * InCount
          BY <3>6
        <5>3. InCount * (Total(OutType) + OutCount - lost)
                = InCount * Total(OutType) + InCount * OutCount - InCount * lost
          BY <3>6
        <5>4. OutCount * InCount = InCount * OutCount
          BY <3>6
        <5>5. /\ OutCount * Total(InType) \in Int /\ InCount * Total(OutType) \in Int
              /\ InCount * OutCount \in Int /\ InCount * lost \in Int
          BY <3>6
        <5>6. /\ OutCount * Total(InType)' = OutCount * Total(InType) - InCount * OutCount
              /\ InCount * Total(OutType)'
                   = InCount * Total(OutType) + InCount * OutCount - InCount * lost
          BY <3>5, <5>1, <5>2, <5>3, <5>4
        <5> QED
          BY <5>5, <5>6
      <4>3. \A a, b \in Int : a * b \in Int
        OBVIOUS
      <4>4. OutCount * Total(InType) \in Int /\ InCount * Total(OutType) \in Int
        BY <3>6, <4>3
      <4> QED
        BY <4>1, <4>2, <4>4
    <3>8. CASE lost = 0
      BY <3>6, <3>7, <3>8
    <3>9. CASE lost > 0
      <4>1. InCount * lost \in Nat /\ InCount * lost > 0
        BY <3>6, <3>9
      <4>2. Worth' < Worth
        BY <3>7, <4>1
      <4> QED
        BY <2>9, <2>11, <3>2, <3>9, <4>2
    <3> QED
      BY <3>8, <3>9
  <2> QED
    BY <2>8, <2>10, <2>11
<1> QED
  BY <1>1, <1>2

\* A player whose client shows what the server keeps gets nothing for nothing: a
\* block is placed for an item of its type, a result crafted for all of its
\* ingredients, and only a result there is no room for is lost, and what lies
\* about until it despawns.
THEOREM NothingForNothing == Spec => Paid
<1>1. TypeOK /\ Agree /\ [Next]_vars =>
        [~crossed => \/ Worth' = Worth
                     \/ Despawns
                     \/ /\ Handles({"craft"}) /\ Worth' < Worth
                        /\ FirstEmpty(inventory') = {}]_vars
  BY PaidStep
<1> QED
  BY <1>1, Agreement, PTL DEF Spec, Paid
=============================================================================
