----------------------------- MODULE NatLemmas -----------------------------
(***************************************************************************)
(* Facts about natural numbers for the proofs of the other modules: the    *)
(* least of a set of numbers, which takes the place of an induction (the   *)
(* least number for which a claim fails leads to a contradiction), the     *)
(* induction itself for a claim that is a set of numbers, the functions    *)
(* that a recursion defines, and products, quotients and remainders.       *)
(***************************************************************************)
EXTENDS Integers, FiniteSets, FiniteSetsExt, FiniteSetTheorems, TLAPS

\* A set of naturals that is not empty has a least element.
LEMMA NatMin ==
  ASSUME NEW T \in SUBSET Nat, T # {}
  PROVE  \E x \in T : \A y \in T : x <= y
<1>1. PICK n \in T : TRUE
  OBVIOUS
<1> DEFINE below == {0 .. k : k \in {m \in T : m <= n}}
<1>2. below # {} /\ below \subseteq SUBSET (0 .. n)
  BY <1>1
<1>3. IsWellFoundedOn(StrictSubsetOrdering(0 .. n), SUBSET (0 .. n))
  <2>1. IsFiniteSet(0 .. n)
    BY FS_Interval
  <2>2. QED
    BY <2>1, FS_StrictSubsetOrderingWellFounded, FS_FiniteSubsetsOfFinite
<1>4. PICK X \in below :
        \A Y \in below : <<Y, X>> \notin StrictSubsetOrdering(0 .. n)
  BY <1>2, <1>3, WFMin
<1>5. PICK k \in T : k <= n /\ X = 0 .. k
  BY <1>4
<1>6. ASSUME NEW y \in T, y < k PROVE FALSE
  <2>1. 0 .. y \in below
    BY <1>5, <1>6
  <2>2. 0 .. y \subseteq 0 .. k /\ 0 .. y # 0 .. k
    <3>1. k \in 0 .. k /\ k \notin 0 .. y
      BY <1>5, <1>6
    <3>2. QED
      BY <3>1, <1>6
  <2>3. <<0 .. y, X>> \in StrictSubsetOrdering(0 .. n)
    BY <1>2, <1>4, <1>5, <2>1, <2>2 DEF StrictSubsetOrdering
  <2>4. QED
    BY <1>4, <2>1, <2>3
<1>7. QED
  BY <1>6

\* Min of the community modules finds it.
LEMMA MinIs ==
  ASSUME NEW S \in SUBSET Nat, S # {}
  PROVE  Min(S) \in S /\ \A y \in S : Min(S) <= y
<1>1. \E x \in S : \A y \in S : x <= y
  BY NatMin
<1>2. QED
  BY <1>1 DEF Min

----------------------------------------------------------------------------
(* Induction and recursion.                                                *)

\* Induction, for a claim that is a set of numbers.
LEMMA NatInduct ==
  ASSUME NEW T, 0 \in T, \A k \in Nat : k \in T => k + 1 \in T
  PROVE  \A n \in Nat : n \in T
<1> SUFFICES ASSUME Nat \ T # {} PROVE FALSE
  OBVIOUS
<1>1. PICK x \in Nat \ T : \A y \in Nat \ T : x <= y
  BY NatMin
<1>2. x # 0 /\ x - 1 \in Nat
  BY <1>1
<1>3. x - 1 \in T
  BY <1>1, <1>2
<1>4. QED
  BY <1>1, <1>2, <1>3

LEMMA StrongInduct ==
  ASSUME NEW T, \A n \in Nat : (\A m \in Nat : m < n => m \in T) => n \in T
  PROVE  \A n \in Nat : n \in T
<1> SUFFICES ASSUME Nat \ T # {} PROVE FALSE
  OBVIOUS
<1>1. PICK x \in Nat \ T : \A y \in Nat \ T : x <= y
  BY NatMin
<1>2. QED
  BY <1>1

\* A function defined by recursion over the numbers exists.
StepsIn(S, step) == \A n \in Nat : \A s \in S : step[n][s] \in S
Recurs(f, first, step) ==
  f = [n \in Nat |-> IF n = 0 THEN first ELSE step[n][f[n - 1]]]

LEMMA Recursion ==
  ASSUME NEW S, NEW first \in S, NEW step, StepsIn(S, step)
  PROVE  \E f \in [Nat -> S] : Recurs(f, first, step)
<1> DEFINE Up(g, n) == /\ g \in [0 .. n -> S] /\ g[0] = first
                       /\ \A i \in 0 .. n - 1 : g[i + 1] = step[i + 1][g[i]]
           T == {n \in Nat : \E g : Up(g, n)}
<1>1. \A n \in Nat : n \in T
  <2>1. 0 \in T
    <3>1. Up([i \in 0 .. 0 |-> first], 0)
      OBVIOUS
    <3>2. QED
      BY <3>1
  <2>2. ASSUME NEW k \in Nat, k \in T PROVE k + 1 \in T
    <3>1. PICK g : Up(g, k)
      BY <2>2
    <3> DEFINE h == [i \in 0 .. k + 1 |-> IF i <= k THEN g[i] ELSE step[k + 1][g[k]]]
    <3>2. Up(h, k + 1)
      <4>1. h \in [0 .. k + 1 -> S]
        BY <3>1 DEF StepsIn
      <4>2. \A i \in 0 .. k : h[i + 1] = step[i + 1][h[i]]
        <5>1. ASSUME NEW i \in 0 .. k PROVE h[i + 1] = step[i + 1][h[i]]
          <6>1. CASE i = k
            <7>1. h[k + 1] = step[k + 1][g[k]] /\ h[k] = g[k]
              OBVIOUS
            <7>2. QED
              BY <6>1, <7>1
          <6>2. CASE i < k
            BY <6>2, <3>1
          <6>3. QED
            BY <6>1, <6>2
        <5>2. QED
          BY <5>1
      <4>3. h[0] = first
        BY <3>1
      <4>4. (k + 1) - 1 = k
        OBVIOUS
      <4> HIDE DEF h
      <4>5. QED
        BY <4>1, <4>2, <4>3, <4>4
    <3> HIDE DEF h, Up
    <3>3. QED
      BY <3>2
  <2> HIDE DEF T
  <2>3. QED
    BY <2>1, <2>2, NatInduct
<1> DEFINE at(n) == CHOOSE g : Up(g, n)
           f == [n \in Nat |-> at(n)[n]]
<1>2. \A n \in Nat : Up(at(n), n)
  BY <1>1
<1> HIDE DEF at
<1>3. ASSUME NEW n \in Nat PROVE \A i \in 0 .. n : at(n + 1)[i] = at(n)[i]
  <2> DEFINE U == {i \in Nat : i <= n => at(n + 1)[i] = at(n)[i]}
  <2>1. 0 \in U
    BY <1>2
  <2>2. ASSUME NEW i \in Nat, i \in U PROVE i + 1 \in U
    <3> SUFFICES ASSUME i + 1 <= n PROVE at(n + 1)[i + 1] = at(n)[i + 1]
      OBVIOUS
    <3>1. at(n + 1)[i] = at(n)[i]
      BY <2>2
    <3>2. i \in 0 .. n - 1 /\ i \in 0 .. (n + 1) - 1
      OBVIOUS
    <3>3. Up(at(n + 1), n + 1) /\ Up(at(n), n)
      BY <1>2
    <3>4. /\ at(n + 1)[i + 1] = step[i + 1][at(n + 1)[i]]
          /\ at(n)[i + 1] = step[i + 1][at(n)[i]]
      BY <3>2, <3>3
    <3>5. QED
      BY <3>1, <3>4
  <2> HIDE DEF U
  <2>3. \A i \in Nat : i \in U
    BY <2>1, <2>2, NatInduct
  <2>4. QED
    BY <2>3 DEF U
<1>4. f \in [Nat -> S]
  BY <1>2
<1>5. f[0] = first
  BY <1>2
<1>6. ASSUME NEW n \in Nat, n # 0 PROVE f[n] = step[n][f[n - 1]]
  <2>1. n - 1 \in Nat /\ (n - 1) + 1 = n /\ n - 1 \in 0 .. n - 1
    BY <1>6
  <2>2. at(n)[n] = step[n][at(n)[n - 1]]
    <3>1. at(n)[(n - 1) + 1] = step[(n - 1) + 1][at(n)[n - 1]]
      BY <1>2, <2>1
    <3>2. QED
      BY <2>1, <3>1
  <2>3. at((n - 1) + 1)[n - 1] = at(n - 1)[n - 1]
    BY <1>3, <2>1
  <2>4. QED
    BY <2>1, <2>2, <2>3
<1>7. f = [n \in Nat |-> IF n = 0 THEN first ELSE step[n][f[n - 1]]]
  <2> HIDE DEF f
  <2>1. f = [n \in Nat |-> f[n]]
    BY <1>4
  <2>2. QED
    BY <2>1, <1>5, <1>6
<1>8. QED
  BY <1>4, <1>7 DEF Recurs

----------------------------------------------------------------------------
(* Products, quotients and remainders, as the solver has to be told them.  *)

LEMMA Distrib ==
  ASSUME NEW a \in Int, NEW b \in Int, NEW c \in Int
  PROVE  a * (b + c) = a * b + a * c
OBVIOUS

LEMMA MulComm ==
  ASSUME NEW a \in Nat, NEW b \in Nat
  PROVE  a * b \in Nat /\ a * b = b * a /\ 1 * b = b /\ b * 1 = b
OBVIOUS

LEMMA MulAssoc ==
  ASSUME NEW a \in Int, NEW b \in Int, NEW c \in Int
  PROVE  a * (b * c) = (a * b) * c
OBVIOUS

LEMMA MulMono ==
  ASSUME NEW a \in Nat, NEW b \in Int, NEW c \in Int, b <= c
  PROVE  a * b <= a * c
OBVIOUS

LEMMA DivIs ==
  ASSUME NEW n \in Int, NEW d \in Nat \ {0}, NEW q \in Int, NEW r \in 0 .. d - 1,
         n = d * q + r
  PROVE  n \div d = q /\ n % d = r
OBVIOUS

LEMMA DivMod ==
  ASSUME NEW n \in Int, NEW d \in Nat \ {0}
  PROVE  \E q \in Int : \E r \in 0 .. d - 1 :
           /\ n \div d = q /\ n % d = r /\ n = d * q + r
           /\ n \in Nat => q \in Nat
<1>1. n \div d \in Int
  OBVIOUS
<1>2. n % d \in 0 .. d - 1
  OBVIOUS
<1>3. n = d * (n \div d) + (n % d)
  OBVIOUS
<1>4. n \in Nat => n \div d \in Nat
  OBVIOUS
<1>5. QED
  BY <1>1, <1>2, <1>3, <1>4

LEMMA DivDiv ==
  ASSUME NEW n \in Nat, NEW a \in Nat \ {0}, NEW b \in Nat \ {0}
  PROVE  (n \div a) \div b = n \div (a * b)
<1>1. PICK q \in Int, r \in 0 .. a - 1 :
        n \div a = q /\ n = a * q + r /\ q \in Nat
  BY DivMod
<1>2. PICK p \in Int, s \in 0 .. b - 1 : q \div b = p /\ q = b * p + s
  BY DivMod
<1> DEFINE t == a * s + r
<1>3. t \in 0 .. a * b - 1
  <2>1. a * 0 <= a * s /\ a * s <= a * (b - 1)
    BY MulMono
  <2>2. a * (b - 1) = a * b - a /\ a * 0 = 0 /\ a * s \in Int /\ a * b \in Int
    OBVIOUS
  <2>3. QED
    BY <2>1, <2>2
<1>4. n = (a * b) * p + t
  <2>1. b * p \in Int /\ s \in Int
    OBVIOUS
  <2>2. a * (b * p + s) = a * (b * p) + a * s
    BY <2>1, Distrib
  <2>3. a * (b * p) = (a * b) * p
    BY MulAssoc
  <2>4. QED
    BY <2>2, <2>3, <1>1, <1>2
<1>5. a * b \in Nat \ {0}
  OBVIOUS
<1> HIDE DEF t
<1>6. n \div (a * b) = p
  BY <1>3, <1>4, <1>5, DivIs
<1>7. QED
  BY <1>1, <1>2, <1>6
=============================================================================
