-------------------------- MODULE InductionProofs ----------------------------
(***************************************************************************)
(* Induction over the natural numbers, stated with sets: the walks along   *)
(* the kernel's lists are recursive functions, and what holds after any    *)
(* number of their steps is proved from here.  That every set of numbers   *)
(* has a least element comes from the well-foundedness of the finite sets, *)
(* a number being represented by the numbers up to it.                     *)
(***************************************************************************)
EXTENDS Integers, FiniteSets, FiniteSetTheorems, TLAPS

LEMMA LeastNumber ==
  ASSUME NEW A \in SUBSET Nat, A # {}
  PROVE  \E m \in A : \A k \in A : m <= k
<1>. DEFINE R == StrictSubsetOrdering(Nat)
            T == {0 .. n : n \in A}
<1>1. IsWellFoundedOn(R, FiniteSubsetsOf(Nat))
  BY FS_StrictSubsetOrderingWellFounded
<1>2. T \subseteq FiniteSubsetsOf(Nat)
  <2>. SUFFICES ASSUME NEW n \in A
                PROVE  IsFiniteSet(0 .. n) /\ 0 .. n \subseteq Nat
    BY DEF FiniteSubsetsOf
  <2>1. 0 \in Int /\ n \in Int
    OBVIOUS
  <2>. QED  BY <2>1, FS_Interval
<1>3. T # {}
  OBVIOUS
<1>. HIDE DEF R, T
<1>4. PICK x \in T : \A y \in T : ~ (<<y, x>> \in R)
  BY <1>1, <1>2, <1>3, WFMin, Zenon
<1>5. PICK m \in A : x = 0 .. m
  BY DEF T
<1>6. ASSUME NEW k \in A, k < m PROVE FALSE
  <2>1. 0 .. k \in T
    BY DEF T
  <2>2. /\ 0 .. k \subseteq 0 .. m /\ m \in 0 .. m /\ m \notin 0 .. k
        /\ 0 .. k \subseteq Nat /\ 0 .. m \subseteq Nat
    BY <1>6
  <2>3. <<0 .. k, 0 .. m>> \in R
    BY <2>2 DEF R, StrictSubsetOrdering
  <2>. QED  BY <2>1, <2>3, <1>4, <1>5
<1>. QED  BY <1>6

LEMMA SetInduction ==
  ASSUME NEW A, 0 \in A, \A n \in Nat : n \in A => n + 1 \in A
  PROVE  Nat \subseteq A
<1>. DEFINE B == Nat \ A
<1>. SUFFICES ASSUME B # {} PROVE FALSE
  OBVIOUS
<1>1. PICK m \in B : \A k \in B : m <= k
  <2>1. B \in SUBSET Nat
    OBVIOUS
  <2>. HIDE DEF B
  <2>. QED  BY <2>1, LeastNumber
<1>2. m - 1 \in Nat /\ m - 1 \in A
  BY <1>1
<1>. QED  BY <1>2

(* g starts with a first value and goes on by a step.                      *)
Recurrence(g, S, first, step) ==
  g = [k \in S |-> IF k = 0 THEN first ELSE step[g[k-1]]]

(* A function given by a first value and a step exists: it is built from   *)
(* those that end earlier.                                                 *)
LEMMA RecursionExists ==
  ASSUME NEW N \in Nat, NEW first, NEW step
  PROVE  \E g : Recurrence(g, 0 .. N, first, step)
<1>. DEFINE F(n, g) == g = [k \in 0 .. n |-> IF k = 0 THEN first ELSE step[g[k-1]]]
            A == {n \in Nat : \E g : F(n, g)}
<1>1. 0 \in A
  <2>1. F(0, [k \in 0 .. 0 |-> first])
    OBVIOUS
  <2>. QED  BY <2>1
<1>2. ASSUME NEW n \in Nat, n \in A PROVE n + 1 \in A
  <2>1. PICK g : F(n, g)
    BY <1>2
  <2>. DEFINE h == [k \in 0 .. n + 1 |-> IF k = n + 1 THEN step[g[n]] ELSE g[k]]
  <2>2. ASSUME NEW k \in 0 .. n + 1
        PROVE  h[k] = IF k = 0 THEN first ELSE step[h[k-1]]
    <3>1. CASE k = 0
      BY <2>1, <3>1
    <3>2. CASE k = n + 1
      BY <2>1, <3>2
    <3>3. CASE k # 0 /\ k # n + 1
      <4>1. k \in 0 .. n /\ k - 1 \in 0 .. n
        BY <3>3
      <4>2. h[k] = g[k] /\ h[k-1] = g[k-1]
        BY <4>1
      <4>3. g[k] = step[g[k-1]]
        BY <4>1, <2>1, <3>3
      <4>. QED  BY <4>2, <4>3, <3>3
    <3>. QED  BY <3>1, <3>2, <3>3
  <2>3. F(n + 1, h)
    BY <2>2
  <2>. HIDE DEF h, F
  <2>4. \E gg : F(n + 1, gg)
    BY <2>3
  <2>. QED  BY <2>4
<1>3. Nat \subseteq A
  <2>. HIDE DEF A
  <2>. QED  BY <1>1, <1>2, SetInduction
<1>. QED  BY <1>3 DEF Recurrence

(* It is what its definition says, also where the definition is a CHOOSE.  *)
LEMMA RecursiveFunction ==
  ASSUME NEW N \in Nat, NEW first, NEW step
  PROVE  LET f[k \in 0 .. N] == IF k = 0 THEN first ELSE step[f[k-1]]
         IN  f = [k \in 0 .. N |-> IF k = 0 THEN first ELSE step[f[k-1]]]
<1>. DEFINE F(g) == Recurrence(g, 0 .. N, first, step)
<1>1. \E g : F(g)
  BY RecursionExists
<1>2. F(CHOOSE g : F(g))
  <2>. HIDE DEF F
  <2>. QED  BY <1>1
<1>. QED  BY <1>2 DEF Recurrence

(* The same without a last number.                                         *)
LEMMA RecursionOnNat ==
  ASSUME NEW first, NEW step
  PROVE  \E f : Recurrence(f, Nat, first, step)
<1>. DEFINE G(n, x) == Recurrence(x, 0 .. n, first, step)
            g(n) == CHOOSE x : G(n, x)
            f == [k \in Nat |-> g(k)[k]]
<1>1. ASSUME NEW n \in Nat PROVE G(n, g(n))
  <2>1. \E x : G(n, x)
    BY RecursionExists
  <2>. HIDE DEF G
  <2>. QED  BY <2>1
<1>. HIDE DEF g
<1>2. /\ \A n \in Nat : g(n)[0] = first
      /\ \A n, k \in Nat : k + 1 <= n => g(n)[k + 1] = step[g(n)[k]]
  <2>1. ASSUME NEW n \in Nat
        PROVE  \A k \in 0 .. n : g(n)[k] = IF k = 0 THEN first ELSE step[g(n)[k-1]]
    BY <1>1 DEF Recurrence
  <2>2. ASSUME NEW n \in Nat, NEW k \in Nat, k + 1 <= n
        PROVE  g(n)[k + 1] = step[g(n)[k]]
    <3>1. k + 1 \in 0 .. n /\ k + 1 # 0 /\ (k + 1) - 1 = k
      BY <2>2
    <3>. QED  BY <2>1, <3>1
  <2>. QED  BY <2>1, <2>2
<1>. DEFINE A == {k \in Nat : \A n \in Nat : k <= n => g(n)[k] = g(k)[k]}
<1>3. 0 \in A
  BY <1>2
<1>4. ASSUME NEW k \in Nat, k \in A PROVE k + 1 \in A
  <2>. SUFFICES ASSUME NEW n \in Nat, k + 1 <= n
                PROVE  g(n)[k + 1] = g(k + 1)[k + 1]
    OBVIOUS
  <2>1. g(n)[k] = g(k)[k] /\ g(k + 1)[k] = g(k)[k]
    BY <1>4
  <2>2. g(n)[k + 1] = step[g(n)[k]] /\ g(k + 1)[k + 1] = step[g(k + 1)[k]]
    BY <1>2
  <2>. QED  BY <2>1, <2>2
<1>5. Nat \subseteq A
  <2>. HIDE DEF A
  <2>. QED  BY <1>3, <1>4, SetInduction
<1>6. ASSUME NEW k \in Nat
      PROVE  f[k] = IF k = 0 THEN first ELSE step[f[k-1]]
  <2>1. CASE k = 0
    BY <1>2, <2>1
  <2>2. CASE k # 0
    <3>1. k - 1 \in Nat /\ k - 1 \in A /\ (k - 1) + 1 = k /\ (k - 1) + 1 <= k
      BY <1>5, <2>2
    <3>2. g(k)[k - 1] = g(k - 1)[k - 1]
      BY <3>1
    <3>3. g(k)[k] = step[g(k)[k - 1]]
      BY <3>1, <1>2
    <3>. QED  BY <3>1, <3>2, <3>3, <2>2
  <2>. QED  BY <2>1, <2>2
<1>7. Recurrence(f, Nat, first, step)
  BY <1>6 DEF Recurrence
<1>. HIDE DEF f
<1>. QED  BY <1>7
=============================================================================
