---------------------------- MODULE CodecsProofs ----------------------------
(***************************************************************************)
(* Proofs about the conversions of Wire, BigNum and AddressKey, for every  *)
(* size of a byte, a hash, a mantissa and a text digit, every value and    *)
(* every number of bytes a reader was given; Codecs calls them.            *)
(*                                                                         *)
(* In order: powers and digits; bytes and the mpi form; base58 texts;      *)
(* hexadecimal texts; the compact form; readers, and what is written and   *)
(* read back, structure by structure; scripts; and what follows for        *)
(* Codecs.                                                                 *)
(***************************************************************************)
EXTENDS Codecs, NatLemmas, SequenceTheorems

----------------------------------------------------------------------------
(* Powers and digits.                                                      *)

LEMMA BaseIs == Base \in Nat /\ Base > 3 /\ Base \in Nat \ {0}
  BY WireAssumption

\* Power satisfies its recursion.
LEMMA PowerIs ==
  /\ Power[0] = 1
  /\ \A k \in Nat : Power[k] \in Nat \ {0} /\ Power[k + 1] = Base * Power[k]
<1> DEFINE step == [k \in Nat |-> [p \in Nat |-> Base * p]]
<1>1. StepsIn(Nat, step)
  BY BaseIs DEF StepsIn
<1>2. PICK f : f \in [Nat -> Nat] /\ Recurs(f, 1, step)
  <2> HIDE DEF step
  <2>1. \E f \in [Nat -> Nat] : Recurs(f, 1, step)
    BY <1>1, Recursion
  <2>2. QED
    BY <2>1
<1>a. \A k \in Nat \ {0} : step[k][f[k - 1]] = Base * f[k - 1]
  <2>1. ASSUME NEW k \in Nat \ {0} PROVE step[k][f[k - 1]] = Base * f[k - 1]
    <3>1. k - 1 \in Nat
      OBVIOUS
    <3>2. f[k - 1] \in Nat
      BY <1>2, <3>1
    <3>3. QED
      BY <3>2
  <2>2. QED
    BY <2>1
<1>b. f = [k \in Nat |-> IF k = 0 THEN 1 ELSE Base * f[k - 1]]
  <2> HIDE DEF step
  <2>1. QED
    BY <1>2, <1>a DEF Recurs
<1>3. Power = [k \in Nat |-> IF k = 0 THEN 1 ELSE Base * Power[k - 1]]
  BY <1>b DEF Power
<1>4. Power[0] = 1
  BY <1>3
<1>5. ASSUME NEW k \in Nat PROVE Power[k + 1] = Base * Power[k]
  BY <1>3
<1>6. \A k \in Nat : Power[k] \in Nat \ {0}
  <2> DEFINE T == {k \in Nat : Power[k] \in Nat \ {0}}
  <2>1. 0 \in T
    BY <1>4
  <2>2. ASSUME NEW k \in Nat, k \in T PROVE k + 1 \in T
    BY <2>2, <1>5, BaseIs
  <2> HIDE DEF T
  <2>3. \A k \in Nat : k \in T
    BY <2>1, <2>2, NatInduct
  <2>4. QED
    BY <2>3 DEF T
<1>7. QED
  BY <1>4, <1>5, <1>6

LEMMA SmallPowers ==
  /\ Power[0] = 1 /\ Power[1] = Base /\ Power[2] = Base * Base
  /\ Power[3] = Base * Power[2] /\ Power[4] = Base * Power[3]
<1>1. Power[0] = 1
  BY PowerIs
<1>2. Power[0 + 1] = Base * Power[0]
  BY PowerIs
<1>3. Power[1 + 1] = Base * Power[1]
  BY PowerIs
<1>4. Power[2 + 1] = Base * Power[2] /\ Power[3 + 1] = Base * Power[3]
  BY PowerIs
<1>5. QED
  BY <1>1, <1>2, <1>3, <1>4, BaseIs

\* a bytes and b bytes have as many values as a + b bytes.
LEMMA PowerSum ==
  ASSUME NEW j \in Nat, NEW k \in Nat
  PROVE  Power[j + k] = Power[j] * Power[k]
<1> DEFINE T == {m \in Nat : Power[j + m] = Power[j] * Power[m]}
<1>1. 0 \in T
  BY PowerIs
<1>2. ASSUME NEW m \in Nat, m \in T PROVE m + 1 \in T
  <2>1. Power[j + m] = Power[j] * Power[m]
    BY <1>2
  <2>2. Power[(j + m) + 1] = Base * Power[j + m] /\ (j + m) + 1 = j + (m + 1)
    BY PowerIs
  <2>3. Power[m + 1] = Base * Power[m] /\ Power[m] \in Nat /\ Power[j] \in Nat
    BY PowerIs
  <2> DEFINE x == Power[j]
             y == Power[m]
  <2>4. x \in Int /\ y \in Int
    BY <2>3
  <2> HIDE DEF x, y
  <2>5. Base * (x * y) = x * (Base * y)
    BY <2>4, BaseIs
  <2>6. QED
    BY <2>1, <2>2, <2>3, <2>5 DEF x, y
<1> HIDE DEF T
<1>3. \A m \in Nat : m \in T
  BY <1>1, <1>2, NatInduct
<1>4. QED
  BY <1>3 DEF T

\* More bytes have more values.
LEMMA PowerGrows ==
  ASSUME NEW j \in Nat, NEW k \in Nat, j <= k
  PROVE  Power[j] <= Power[k] /\ (j < k => Power[j] < Power[k])
<1>1. k - j \in Nat /\ j + (k - j) = k
  OBVIOUS
<1>2. Power[k] = Power[j] * Power[k - j]
  BY <1>1, PowerSum
<1>3. /\ Power[j] \in Nat \ {0} /\ Power[k - j] \in Nat \ {0}
  BY <1>1, PowerIs
<1>4. j < k => Power[k - j] > 1
  <2> SUFFICES ASSUME j < k PROVE Power[k - j] > 1
    OBVIOUS
  <2>1. (k - j) - 1 \in Nat /\ ((k - j) - 1) + 1 = k - j
    OBVIOUS
  <2>2. Power[k - j] = Base * Power[(k - j) - 1] /\ Power[(k - j) - 1] \in Nat \ {0}
    BY <2>1, PowerIs
  <2>3. QED
    BY <2>2, BaseIs
<1> DEFINE x == Power[j]
           y == Power[k - j]
<1>5. x \in Nat \ {0} /\ y \in Nat \ {0}
  BY <1>3
<1> HIDE DEF x, y
<1>6. x <= x * y /\ (y > 1 => x < x * y)
  BY <1>5
<1>7. QED
  BY <1>2, <1>4, <1>6 DEF x, y

----------------------------------------------------------------------------
(* The number of digits.                                                   *)

\* What the definition of NumberOf says of all prefixes of the digits.
Counts(f, s, b) ==
  f[0] = 0 /\ \A i \in 0 .. Len(s) - 1 : f[i + 1] = f[i] * b + s[i + 1]

\* NumberOf is what counting digit by digit comes to.
LEMMA NumberOfIs ==
  ASSUME NEW s \in Seq(Nat), NEW b \in Nat
  PROVE  \E f \in [0 .. Len(s) -> Nat] : Counts(f, s, b) /\ NumberOf(s, b) = f[Len(s)]
<1> DEFINE n == Len(s)
           step == [i \in Nat |-> [p \in Nat |-> IF i \in 1 .. n THEN p * b + s[i] ELSE p]]
<1>0. n \in Nat /\ \A i \in 1 .. n : s[i] \in Nat
  BY LenProperties, ElementOfSeq
<1>1. StepsIn(Nat, step)
  <2>1. ASSUME NEW i \in Nat, NEW p \in Nat PROVE step[i][p] \in Nat
    <3>1. CASE i \in 1 .. n
      <4>1. s[i] \in Nat /\ p * b \in Nat
        BY <1>0, <3>1
      <4>2. step[i][p] = p * b + s[i]
        BY <3>1
      <4>3. QED
        BY <4>1, <4>2
    <3>2. CASE i \notin 1 .. n
      BY <3>2
    <3>3. QED
      BY <3>1, <3>2
  <2> HIDE DEF step
  <2>2. QED
    BY <2>1 DEF StepsIn
<1>2. PICK f : f \in [Nat -> Nat] /\ Recurs(f, 0, step)
  <2> HIDE DEF step
  <2>1. \E f \in [Nat -> Nat] : Recurs(f, 0, step)
    BY <1>1, Recursion
  <2>2. QED
    BY <2>1
<1>3. f[0] = 0 /\ \A i \in 1 .. n : f[i] = f[i - 1] * b + s[i]
  <2>1. ASSUME NEW i \in 1 .. n PROVE f[i] = f[i - 1] * b + s[i]
    <3>1. i \in Nat /\ i # 0 /\ i - 1 \in Nat
      BY <1>0
    <3>2. f[i - 1] \in Nat
      BY <1>2, <3>1
    <3>3. f[i] = step[i][f[i - 1]]
      <4> HIDE DEF step
      <4>1. QED
        BY <1>2, <3>1 DEF Recurs
    <3>4. QED
      BY <3>1, <3>2, <3>3
  <2>2. f[0] = 0
    <3> HIDE DEF step
    <3>1. QED
      BY <1>2 DEF Recurs
  <2>3. QED
    BY <2>1, <2>2
<1> HIDE DEF step
<1> DEFINE g == [i \in 0 .. n |-> f[i]]
           F(h) == h = [i \in 0 .. n |-> IF i = 0 THEN 0 ELSE h[i - 1] * b + s[i]]
<1>4. F(g)
  <2>1. ASSUME NEW i \in 0 .. n, i # 0 PROVE g[i] = g[i - 1] * b + s[i]
    BY <1>0, <1>3, <2>1
  <2>2. g[0] = 0
    BY <1>0, <1>3
  <2>3. g = [i \in 0 .. n |-> g[i]]
    OBVIOUS
  <2> HIDE DEF g
  <2>4. QED
    BY <2>1, <2>2, <2>3
<1> DEFINE h == CHOOSE h : F(h)
<1>5. F(h) /\ NumberOf(s, b) = h[n]
  BY <1>4 DEF NumberOf
<1> HIDE DEF h, g
<1>6. h[0] = 0 /\ \A i \in 1 .. n : h[i] = h[i - 1] * b + s[i]
  <2>1. h = [i \in 0 .. n |-> IF i = 0 THEN 0 ELSE h[i - 1] * b + s[i]]
    BY <1>5
  <2>2. 0 \in 0 .. n /\ \A i \in 1 .. n : i \in 0 .. n /\ i # 0
    BY <1>0
  <2>3. QED
    BY <2>1, <2>2
<1>7. \A i \in 0 .. n - 1 : h[i + 1] = h[i] * b + s[i + 1]
  <2>1. ASSUME NEW i \in 0 .. n - 1 PROVE h[i + 1] = h[i] * b + s[i + 1]
    <3>1. i + 1 \in 1 .. n /\ (i + 1) - 1 = i
      BY <1>0
    <3>2. QED
      BY <1>6, <3>1
  <2>2. QED
    BY <2>1
<1>8. \A i \in 0 .. n : h[i] \in Nat
  <2> DEFINE T == {i \in Nat : i <= n => h[i] \in Nat}
  <2>1. 0 \in T
    BY <1>6
  <2>2. ASSUME NEW i \in Nat, i \in T PROVE i + 1 \in T
    <3> SUFFICES ASSUME i + 1 <= n PROVE h[i + 1] \in Nat
      OBVIOUS
    <3>1. h[i] \in Nat /\ s[i + 1] \in Nat
      BY <1>0, <2>2
    <3>2. h[i + 1] = h[i] * b + s[i + 1]
      BY <1>0, <1>7
    <3>3. QED
      <4> DEFINE p == h[i]
                 d == s[i + 1]
      <4>1. p \in Nat /\ d \in Nat
        BY <3>1
      <4> HIDE DEF p, d
      <4>2. p * b + d \in Nat
        BY <4>1
      <4>3. QED
        BY <3>2, <4>2 DEF p, d
  <2> HIDE DEF T
  <2>3. \A i \in Nat : i \in T
    BY <2>1, <2>2, NatInduct
  <2>4. QED
    BY <1>0, <2>3 DEF T
<1>9. h \in [0 .. n -> Nat]
  <2>1. h = [i \in 0 .. n |-> h[i]]
    BY <1>5
  <2>2. QED
    BY <2>1, <1>8
<1>10. QED
  BY <1>5, <1>6, <1>7, <1>9 DEF Counts

\* Whatever satisfies the recursion of NumberOf is its value.
LEMMA CountsOnce ==
  ASSUME NEW s \in Seq(Nat), NEW b \in Nat, NEW f, NEW g, Counts(f, s, b), Counts(g, s, b)
  PROVE  g[Len(s)] = f[Len(s)]
<1> DEFINE T == {i \in Nat : i <= Len(s) => g[i] = f[i]}
<1>0. Len(s) \in Nat
  BY LenProperties
<1>1. 0 \in T
  BY DEF Counts
<1>2. ASSUME NEW i \in Nat, i \in T PROVE i + 1 \in T
  <2> SUFFICES ASSUME i + 1 <= Len(s) PROVE g[i + 1] = f[i + 1]
    OBVIOUS
  <2>1. g[i] = f[i]
    BY <1>2, <1>0
  <2>2. i \in 0 .. Len(s) - 1
    BY <1>0
  <2>3. QED
    BY <2>1, <2>2 DEF Counts
<1> HIDE DEF T
<1>3. \A i \in Nat : i \in T
  BY <1>1, <1>2, NatInduct
<1>4. QED
  BY <1>0, <1>3 DEF T

\* Any count of the digits, digit by digit, gives NumberOf.
LEMMA NumberSolves ==
  ASSUME NEW s \in Seq(Nat), NEW b \in Nat, NEW g, Counts(g, s, b)
  PROVE  NumberOf(s, b) = g[Len(s)]
<1>1. PICK f : Counts(f, s, b) /\ NumberOf(s, b) = f[Len(s)]
  BY NumberOfIs
<1>2. QED
  BY <1>1, CountsOnce

LEMMA NumberType ==
  ASSUME NEW s \in Seq(Nat), NEW b \in Nat
  PROVE  NumberOf(s, b) \in Nat /\ (s = <<>> => NumberOf(s, b) = 0)
<1>1. PICK f \in [0 .. Len(s) -> Nat] : f[0] = 0 /\ NumberOf(s, b) = f[Len(s)]
  BY NumberOfIs DEF Counts
<1>2. Len(s) \in 0 .. Len(s) /\ (s = <<>> => Len(s) = 0)
  BY LenProperties, EmptySeq
<1>3. QED
  BY <1>1, <1>2

\* One more digit.
LEMMA NumberAppend ==
  ASSUME NEW s \in Seq(Nat), NEW d \in Nat, NEW b \in Nat
  PROVE  NumberOf(Append(s, d), b) = NumberOf(s, b) * b + d
<1> DEFINE t == Append(s, d)
<1>1. /\ t \in Seq(Nat) /\ Len(t) = Len(s) + 1 /\ Len(s) \in Nat
      /\ t[Len(s) + 1] = d /\ \A i \in 1 .. Len(s) : t[i] = s[i]
  BY AppendProperties, LenProperties
<1> HIDE DEF t
<1>2. PICK f : Counts(f, t, b) /\ NumberOf(t, b) = f[Len(t)]
  BY <1>1, NumberOfIs
<1>3. \A i \in 0 .. Len(s) - 1 : f[i + 1] = f[i] * b + s[i + 1]
  <2>1. ASSUME NEW i \in 0 .. Len(s) - 1 PROVE f[i + 1] = f[i] * b + s[i + 1]
    <3>1. i \in 0 .. Len(t) - 1 /\ i + 1 \in 1 .. Len(s)
      BY <1>1
    <3>2. QED
      BY <1>1, <1>2, <3>1 DEF Counts
  <2>2. QED
    BY <2>1
<1>4. NumberOf(s, b) = f[Len(s)]
  <2>1. Counts(f, s, b)
    BY <1>2, <1>3 DEF Counts
  <2>2. QED
    BY <2>1, NumberSolves
<1>5. Len(s) \in 0 .. Len(t) - 1
  BY <1>1
<1>6. f[Len(s) + 1] = f[Len(s)] * b + t[Len(s) + 1]
  BY <1>2, <1>5 DEF Counts
<1>7. QED
  BY <1>1, <1>2, <1>4, <1>6 DEF t

LEMMA DivLess ==
  ASSUME NEW n \in Nat \ {0}, NEW b \in Nat, b > 1
  PROVE  n \div b \in Nat /\ n \div b < n /\ n % b \in 0 .. b - 1
         /\ n = b * (n \div b) + (n % b)
<1>1. PICK q \in Int, r \in 0 .. b - 1 :
        n \div b = q /\ n % b = r /\ n = b * q + r /\ q \in Nat
  BY DivMod
<1>2. q < n
  <2>1. CASE q = 0
    BY <2>1
  <2>2. CASE q # 0
    <3>1. q * 2 <= q * b
      BY <1>1, MulMono
    <3>2. q * 2 = q + q /\ q * b = b * q /\ b * q \in Int
      BY <1>1
    <3>3. QED
      BY <3>1, <3>2, <1>1, <2>2
  <2>3. QED
    BY <2>1, <2>2
<1>3. QED
  BY <1>1, <1>2

\* DigitsOf satisfies its recursion.
LEMMA DigitsAre ==
  ASSUME NEW b \in Nat, b > 1, NEW n \in Nat
  PROVE  DigitsOf(n, b) = IF n = 0 THEN <<>> ELSE Append(DigitsOf(n \div b, b), n % b)
<1> DEFINE F(f, k) ==
             f = [m \in 0 .. k |-> IF m = 0 THEN <<>> ELSE Append(f[m \div b], m % b)]
           T == {k \in Nat : \E f : F(f, k)}
           D(k) == CHOOSE f : F(f, k)
<1>1. 0 \in T
  <2>1. F([m \in 0 .. 0 |-> <<>>], 0)
    OBVIOUS
  <2>2. QED
    BY <2>1
<1>2. ASSUME NEW k \in Nat, k \in T PROVE k + 1 \in T
  <2>1. PICK g : F(g, k)
    BY <1>2
  <2> DEFINE h == [m \in 0 .. k + 1 |->
                     IF m <= k THEN g[m] ELSE Append(g[(k + 1) \div b], (k + 1) % b)]
  <2>2. h[0] = <<>>
    BY <2>1
  <2>3. ASSUME NEW m \in 0 .. k + 1, m # 0 PROVE h[m] = Append(h[m \div b], m % b)
    <3>1. m \div b \in Nat /\ m \div b < m
      BY <2>3, DivLess
    <3> DEFINE q == m \div b
               r == m % b
    <3>2. q \in 0 .. k /\ q \in 0 .. k + 1
      BY <3>1
    <3>3. h[m] = Append(g[q], r)
      <4>1. CASE m <= k
        <5>1. m \in 0 .. k
          BY <4>1
        <5>2. g[m] = Append(g[m \div b], m % b)
          BY <5>1, <2>1, <2>3
        <5>3. QED
          BY <5>2, <4>1
      <4>2. CASE m = k + 1
        BY <4>2
      <4>3. QED
        BY <4>1, <4>2
    <3> HIDE DEF q, r
    <3>4. h[q] = g[q]
      BY <3>2
    <3> HIDE DEF h
    <3>5. QED
      BY <3>3, <3>4 DEF q, r
  <2>4. F(h, k + 1)
    <3>1. h = [m \in 0 .. k + 1 |-> h[m]]
      OBVIOUS
    <3> HIDE DEF h
    <3>2. QED
      BY <2>2, <2>3, <3>1
  <2> HIDE DEF h, F
  <2>5. QED
    BY <2>4
<1>3. \A k \in Nat : F(D(k), k)
  <2> HIDE DEF T
  <2>1. \A k \in Nat : k \in T
    BY <1>1, <1>2, NatInduct
  <2> USE DEF T
  <2> HIDE DEF F
  <2>2. QED
    BY <2>1
<1>4. \A k \in Nat : DigitsOf(k, b) = D(k)[k]
  BY DEF DigitsOf
<1> HIDE DEF D
<1>5. ASSUME NEW k \in Nat PROVE \A m \in Nat : m <= k => D(k)[m] = D(m)[m]
  <2> DEFINE U == {m \in Nat : \A j \in Nat, l \in Nat : m <= j /\ m <= l => D(j)[m] = D(l)[m]}
  <2>1. ASSUME NEW m \in Nat, \A i \in Nat : i < m => i \in U PROVE m \in U
    <3> SUFFICES ASSUME NEW j \in Nat, NEW l \in Nat, m <= j, m <= l
                 PROVE  D(j)[m] = D(l)[m]
      OBVIOUS
    <3>1. F(D(j), j) /\ F(D(l), l) /\ m \in 0 .. j /\ m \in 0 .. l
      <4> HIDE DEF F
      <4>1. QED
        BY <1>3
    <3>2. CASE m = 0
      BY <3>1, <3>2
    <3>3. CASE m # 0
      <4> DEFINE q == m \div b
                 r == m % b
      <4>1. q \in Nat /\ q < m
        BY <3>3, DivLess
      <4>2. D(j)[m] = Append(D(j)[q], r) /\ D(l)[m] = Append(D(l)[q], r)
        BY <3>1, <3>3
      <4> HIDE DEF q, r
      <4>3. D(j)[q] = D(l)[q]
        BY <2>1, <4>1
      <4>4. QED
        BY <4>2, <4>3
    <3>4. QED
      BY <3>2, <3>3
  <2> HIDE DEF U
  <2>2. \A m \in Nat : m \in U
    BY <2>1, StrongInduct
  <2>3. QED
    BY <2>2 DEF U
<1>6. CASE n = 0
  BY <1>3, <1>4, <1>6
<1>7. CASE n # 0
  <2> DEFINE q == n \div b
             r == n % b
  <2>1. q \in Nat /\ q < n
    BY <1>7, DivLess
  <2>2. D(n)[n] = Append(D(n)[q], r)
    <3>1. F(D(n), n) /\ n \in 0 .. n
      <4> HIDE DEF F
      <4>1. QED
        BY <1>3
    <3>2. QED
      BY <3>1, <1>7
  <2> HIDE DEF q, r, F
  <2>3. D(n)[q] = D(q)[q]
    BY <2>1, <1>5
  <2>4. DigitsOf(n, b) = D(n)[n] /\ DigitsOf(q, b) = D(q)[q]
    BY <1>4, <2>1
  <2>5. QED
    BY <1>7, <2>2, <2>3, <2>4 DEF q, r
<1>8. QED
  BY <1>6, <1>7

\* The digits of a number are digits, begin with no zero, and are the number's.
LEMMA DigitsType ==
  ASSUME NEW b \in Nat, b > 1, NEW n \in Nat
  PROVE  /\ DigitsOf(n, b) \in Seq(0 .. b - 1)
         /\ DigitsOf(n, b) \in Seq(Nat)
         /\ n # 0 <=> DigitsOf(n, b) # <<>>
         /\ DigitsOf(n, b) # <<>> => DigitsOf(n, b)[1] # 0
         /\ NumberOf(DigitsOf(n, b), b) = n
<1> DEFINE T == {k \in Nat : /\ DigitsOf(k, b) \in Seq(0 .. b - 1)
                             /\ k # 0 <=> DigitsOf(k, b) # <<>>
                             /\ DigitsOf(k, b) # <<>> => DigitsOf(k, b)[1] # 0
                             /\ NumberOf(DigitsOf(k, b), b) = k}
<1>0. \A s : s \in Seq(0 .. b - 1) => s \in Seq(Nat)
  <2>1. 0 .. b - 1 \subseteq Nat
    OBVIOUS
  <2>2. QED
    BY <2>1, SeqMonotonic
<1>1. ASSUME NEW k \in Nat, \A m \in Nat : m < k => m \in T PROVE k \in T
  <2>1. CASE k = 0
    <3>1. DigitsOf(0, b) = <<>>
      BY DigitsAre
    <3>2. <<>> \in Seq(0 .. b - 1) /\ <<>> \in Seq(Nat)
      BY EmptySeq
    <3>3. NumberOf(<<>>, b) = 0
      BY <3>2, NumberType
    <3>4. QED
      BY <2>1, <3>1, <3>2, <3>3
  <2>2. CASE k # 0
    <3>1. PICK q, r : /\ q = k \div b /\ r = k % b /\ q \in Nat /\ q < k
                      /\ r \in 0 .. b - 1 /\ k = b * q + r
      <4>1. /\ k \div b \in Nat /\ k \div b < k /\ k % b \in 0 .. b - 1
            /\ k = b * (k \div b) + (k % b)
        BY <2>2, DivLess
      <4>2. QED
        BY <4>1
    <3>2. PICK s, t : s = DigitsOf(q, b) /\ t = DigitsOf(k, b)
      OBVIOUS
    <3>3. t = Append(s, r)
      BY <2>2, <3>1, <3>2, DigitsAre
    <3>4. q \in T
      BY <1>1, <3>1
    <3>5. /\ s \in Seq(0 .. b - 1) /\ (q # 0 <=> s # <<>>)
          /\ (s # <<>> => s[1] # 0) /\ NumberOf(s, b) = q
      BY <3>2, <3>4
    <3>6. /\ t \in Seq(0 .. b - 1) /\ t # <<>> /\ Len(t) = Len(s) + 1
          /\ \A i \in 1 .. Len(s) : t[i] = s[i]
          /\ t[Len(s) + 1] = r
      <4>1. r \in 0 .. b - 1 /\ s \in Seq(0 .. b - 1)
        BY <3>1, <3>5
      <4>2. QED
        BY <4>1, <3>3, AppendProperties
    <3>7. t[1] # 0
      <4>1. CASE s = <<>>
        <5>1. q = 0 /\ Len(s) = 0
          BY <4>1, <3>5, EmptySeq
        <5>2. k = r
          BY <5>1, <3>1
        <5>3. QED
          BY <5>1, <5>2, <3>6, <2>2
      <4>2. CASE s # <<>>
        <5>1. 1 \in 1 .. Len(s)
          BY <4>2, <3>5, EmptySeq
        <5>2. QED
          BY <5>1, <4>2, <3>5, <3>6
      <4>3. QED
        BY <4>1, <4>2
    <3>8. NumberOf(t, b) = k
      <4>1. s \in Seq(Nat) /\ r \in Nat
        BY <1>0, <3>1, <3>5
      <4>2. NumberOf(t, b) = NumberOf(s, b) * b + r
        BY <4>1, <3>3, NumberAppend
      <4>3. q * b = b * q
        BY <3>1
      <4>4. QED
        BY <4>2, <4>3, <3>1, <3>5
    <3>9. QED
      BY <2>2, <3>2, <3>6, <3>7, <3>8
  <2>3. QED
    BY <2>1, <2>2
<1> HIDE DEF T
<1>2. \A k \in Nat : k \in T
  BY <1>1, StrongInduct
<1>3. n \in T
  BY <1>2
<1>4. QED
  BY <1>0, <1>3 DEF T

\* Digits that do not begin with a zero are those of their number.
LEMMA DigitsBack ==
  ASSUME NEW b \in Nat, b > 1, NEW s \in Seq(0 .. b - 1), s # <<>> => s[1] # 0
  PROVE  DigitsOf(NumberOf(s, b), b) = s /\ (s # <<>> => NumberOf(s, b) # 0)
<1> DEFINE T == {n \in Nat : \A t \in Seq(0 .. b - 1) :
                   Len(t) = n /\ (t # <<>> => t[1] # 0) =>
                     DigitsOf(NumberOf(t, b), b) = t /\ (t # <<>> => NumberOf(t, b) # 0)}
<1>0. \A t \in Seq(0 .. b - 1) : t \in Seq(Nat) /\ Len(t) \in Nat
  <2>1. 0 .. b - 1 \subseteq Nat
    OBVIOUS
  <2>2. QED
    BY <2>1, SeqMonotonic, LenProperties
<1>1. 0 \in T
  <2>1. ASSUME NEW t \in Seq(0 .. b - 1), Len(t) = 0
        PROVE  DigitsOf(NumberOf(t, b), b) = t /\ t = <<>>
    <3>1. t = <<>>
      BY <2>1, EmptySeq
    <3>2. NumberOf(t, b) = 0
      BY <3>1, <1>0, NumberType
    <3>3. DigitsOf(0, b) = <<>>
      BY DigitsAre
    <3>4. QED
      BY <3>1, <3>2, <3>3
  <2>2. QED
    BY <2>1
<1>2. ASSUME NEW n \in Nat, n \in T PROVE n + 1 \in T
  <2> SUFFICES ASSUME NEW t \in Seq(0 .. b - 1), Len(t) = n + 1, t # <<>> => t[1] # 0
               PROVE  DigitsOf(NumberOf(t, b), b) = t /\ NumberOf(t, b) # 0
    OBVIOUS
  <2>1. t # <<>>
    BY EmptySeq
  <2>2. PICK u \in Seq(0 .. b - 1), d \in 0 .. b - 1 : t = Append(u, d)
    BY <2>1, SequenceEmptyOrAppend
  <2>3. /\ Len(u) = n /\ t[n + 1] = d /\ \A i \in 1 .. n : t[i] = u[i]
    BY <2>2, <1>0, AppendProperties
  <2>4. u # <<>> => u[1] # 0
    <3> SUFFICES ASSUME u # <<>> PROVE u[1] # 0
      OBVIOUS
    <3>1. 1 \in 1 .. n
      BY <2>3, EmptySeq
    <3>2. QED
      BY <3>1, <2>1, <2>3
  <2>5. DigitsOf(NumberOf(u, b), b) = u /\ (u # <<>> => NumberOf(u, b) # 0)
    BY <1>2, <2>3, <2>4
  <2>6. PICK q : q = NumberOf(u, b) /\ q \in Nat
    BY <1>0, NumberType
  <2>7. NumberOf(t, b) = q * b + d
    BY <1>0, <2>2, <2>6, NumberAppend
  <2>8. PICK m : m = q * b + d /\ m \in Nat /\ m = b * q + d
    <3>1. q * b \in Nat /\ q * b = b * q
      BY <2>6, MulComm
    <3>2. QED
      BY <3>1
  <2>9. m # 0
    <3>1. CASE u = <<>>
      <4>1. n = 0
        BY <3>1, <2>3, EmptySeq
      <4>2. d # 0
        BY <4>1, <2>1, <2>3
      <4>3. b * q \in Nat
        BY <2>6
      <4>4. QED
        BY <4>2, <4>3, <2>8
    <3>2. CASE u # <<>>
      <4>1. q # 0
        BY <3>2, <2>5, <2>6
      <4>2. b * q \in Nat /\ b * 1 <= b * q /\ b * 1 = b
        <5>1. 1 <= q /\ 1 \in Int /\ q \in Int
          BY <4>1, <2>6
        <5>2. QED
          BY <5>1, <2>6, MulMono, MulComm
      <4>3. QED
        BY <4>2, <2>8
    <3>3. QED
      BY <3>1, <3>2
  <2>10. m \div b = q /\ m % b = d
    <3>1. m \in Int /\ b \in Nat \ {0} /\ q \in Int /\ d \in 0 .. b - 1
      BY <2>6, <2>8
    <3>2. QED
      BY <3>1, <2>8, DivIs
  <2>11. DigitsOf(m, b) = Append(DigitsOf(q, b), d)
    BY <2>8, <2>9, <2>10, DigitsAre
  <2>12. QED
    BY <2>2, <2>5, <2>6, <2>7, <2>8, <2>9, <2>11
<1> HIDE DEF T
<1>3. \A n \in Nat : n \in T
  BY <1>1, <1>2, NatInduct
<1>4. QED
  BY <1>0, <1>3 DEF T

\* How long they are: the least number of bytes that hold the number.
LEMMA DigitsLen ==
  ASSUME NEW n \in Nat \ {0}, NEW k, k = Len(DigitsOf(n, Base))
  PROVE  k \in Nat \ {0} /\ Power[k - 1] <= n /\ n < Power[k]
<1> DEFINE L(m) == Len(DigitsOf(m, Base))
           T == {m \in Nat : m # 0 => /\ L(m) \in Nat \ {0}
                                      /\ Power[L(m) - 1] <= m /\ m < Power[L(m)]}
<1>1. ASSUME NEW m \in Nat, \A i \in Nat : i < m => i \in T PROVE m \in T
  <2> SUFFICES ASSUME m # 0
               PROVE  L(m) \in Nat \ {0} /\ Power[L(m) - 1] <= m /\ m < Power[L(m)]
    OBVIOUS
  <2>1. PICK q, r : /\ q = m \div Base /\ r = m % Base /\ q \in Nat /\ q < m
                    /\ r \in 0 .. Base - 1 /\ m = Base * q + r
    <3>1. /\ m \div Base \in Nat /\ m \div Base < m /\ m % Base \in 0 .. Base - 1
          /\ m = Base * (m \div Base) + (m % Base)
      <4>1. m \in Nat \ {0} /\ Base \in Nat /\ Base > 1
        BY BaseIs
      <4>2. QED
        BY <4>1, DivLess
    <3>2. QED
      BY <3>1
  <2>2. DigitsOf(m, Base) = Append(DigitsOf(q, Base), r)
    <3>1. DigitsOf(m, Base) = IF m = 0 THEN <<>>
                              ELSE Append(DigitsOf(m \div Base, Base), m % Base)
      <4>1. Base \in Nat /\ Base > 1 /\ m \in Nat
        BY BaseIs
      <4>2. QED
        BY <4>1, DigitsAre, Zenon
    <3>2. QED
      BY <3>1, <2>1
  <2>3. DigitsOf(q, Base) \in Seq(Nat) /\ r \in Nat
    BY <2>1, DigitsType, BaseIs
  <2>4. L(m) = L(q) + 1 /\ L(q) \in Nat
    BY <2>2, <2>3, AppendProperties, LenProperties
  <2>5. CASE q = 0
    <3>1. L(q) = 0
      BY <2>5, DigitsAre, BaseIs, EmptySeq
    <3>2. m = r
      BY <2>1, <2>5, BaseIs
    <3>3. L(m) = 1 /\ L(m) - 1 = 0
      BY <2>4, <3>1
    <3> HIDE DEF L
    <3>4. QED
      BY <3>2, <3>3, <2>1, SmallPowers, BaseIs
  <2>6. CASE q # 0
    <3>1. q \in T
      BY <1>1, <2>1
    <3> DEFINE l == L(q)
               a == Power[l - 1]
               b == Power[l]
    <3>2. l \in Nat \ {0} /\ a <= q /\ q < b
      BY <2>1, <2>6, <3>1
    <3>3. L(m) = l + 1 /\ (l - 1) + 1 = l /\ l - 1 \in Nat /\ L(m) - 1 = l
      BY <2>4, <3>2
    <3> HIDE DEF l, L
    <3>4. b = Base * a /\ Power[l + 1] = Base * b /\ a \in Nat /\ b \in Nat
      BY <3>2, <3>3, PowerIs
    <3>5. Base * a <= Base * q /\ Base * (q + 1) <= Base * b
      <4>1. q + 1 <= b /\ q + 1 \in Int /\ a \in Int /\ b \in Int /\ q \in Int
        BY <2>1, <3>2, <3>4
      <4> HIDE DEF a, b
      <4>2. QED
        BY <3>2, <4>1, BaseIs, MulMono
    <3>6. Base * (q + 1) = Base * q + Base * 1 /\ Base * 1 = Base /\ Base * q \in Nat
      BY <2>1, BaseIs, Distrib, MulComm
    <3>7. Power[L(m) - 1] = b /\ Power[L(m)] = Base * b
      BY <3>3, <3>4
    <3> HIDE DEF a, b
    <3>8. QED
      BY <2>1, <3>3, <3>4, <3>5, <3>6, <3>7, BaseIs
  <2>7. QED
    BY <2>5, <2>6
<1> HIDE DEF T
<1>2. \A m \in Nat : m \in T
  BY <1>1, StrongInduct
<1>3. QED
  BY <1>2 DEF T

----------------------------------------------------------------------------
(* Sequences.                                                              *)

LEMMA SeqOfFun ==
  ASSUME NEW S, NEW n \in Nat, NEW f \in [1 .. n -> S]
  PROVE  f \in Seq(S) /\ Len(f) = n
<1>1. f \in Seq(S)
  BY SeqDef
<1>2. DOMAIN f = 1 .. Len(f) /\ Len(f) \in Nat
  BY <1>1, LenProperties
<1>3. DOMAIN f = 1 .. n
  OBVIOUS
<1>4. QED
  BY <1>1, <1>2, <1>3

LEMMA ReverseIs ==
  ASSUME NEW S, NEW s \in Seq(S)
  PROVE  /\ Reverse(s) \in Seq(S) /\ Len(Reverse(s)) = Len(s)
         /\ \A i \in 1 .. Len(s) : Reverse(s)[i] = s[(Len(s) - i) + 1]
<1>1. Len(s) \in Nat /\ \A i \in 1 .. Len(s) : s[(Len(s) - i) + 1] \in S
  <2>1. Len(s) \in Nat
    BY LenProperties
  <2>2. \A i \in 1 .. Len(s) : (Len(s) - i) + 1 \in 1 .. Len(s)
    BY <2>1
  <2>3. QED
    BY <2>1, <2>2, ElementOfSeq
<1>2. Reverse(s) \in [1 .. Len(s) -> S]
  BY <1>1 DEF Reverse
<1>3. QED
  BY <1>1, <1>2, SeqOfFun DEF Reverse

\* Reverse undoes itself.
LEMMA ReverseTwice ==
  ASSUME NEW S, NEW s \in Seq(S)
  PROVE  Reverse(Reverse(s)) = s
<1>1. PICK r : r = Reverse(s)
  OBVIOUS
<1>2. /\ r \in Seq(S) /\ Len(r) = Len(s) /\ Len(s) \in Nat
      /\ \A i \in 1 .. Len(s) : r[i] = s[(Len(s) - i) + 1]
  BY <1>1, ReverseIs, LenProperties
<1>3. PICK t : t = Reverse(r)
  OBVIOUS
<1>4. /\ t \in Seq(S) /\ Len(t) = Len(r)
      /\ \A i \in 1 .. Len(r) : t[i] = r[(Len(r) - i) + 1]
  BY <1>2, <1>3, ReverseIs
<1>5. \A i \in 1 .. Len(s) : t[i] = s[i]
  <2>1. ASSUME NEW i \in 1 .. Len(s) PROVE t[i] = s[i]
    <3>1. (Len(s) - i) + 1 \in 1 .. Len(s) /\ (Len(s) - ((Len(s) - i) + 1)) + 1 = i
      BY <1>2
    <3>2. t[i] = r[(Len(s) - i) + 1]
      BY <1>2, <1>4
    <3>3. QED
      BY <3>1, <3>2, <1>2
  <2>2. QED
    BY <2>1
<1>6. t = s
  BY <1>2, <1>4, <1>5, SeqEqual
<1>7. QED
  BY <1>1, <1>3, <1>6

\* One element in front.
LEMMA OneIs ==
  ASSUME NEW S, NEW e \in S
  PROVE  <<e>> \in Seq(S) /\ Len(<<e>>) = 1 /\ <<e>>[1] = e
<1>1. <<e>> \in [1 .. 1 -> S]
  OBVIOUS
<1>2. QED
  BY <1>1, SeqOfFun

LEMMA InFront ==
  ASSUME NEW S, NEW e \in S, NEW s \in Seq(S)
  PROVE  /\ <<e>> \o s \in Seq(S) /\ Len(<<e>> \o s) = Len(s) + 1
         /\ (<<e>> \o s)[1] = e /\ <<e>> \o s # <<>>
         /\ Tail(<<e>> \o s) = s
         /\ \A i \in 1 .. Len(s) : (<<e>> \o s)[i + 1] = s[i]
<1>1. <<e>> \in Seq(S) /\ Len(<<e>>) = 1 /\ <<e>>[1] = e /\ Len(s) \in Nat
  BY OneIs, LenProperties
<1>2. PICK t : t = <<e>> \o s
  OBVIOUS
<1>3. /\ t \in Seq(S) /\ Len(t) = 1 + Len(s)
      /\ \A i \in 1 .. 1 + Len(s) : t[i] = IF i <= 1 THEN <<e>>[i] ELSE s[i - 1]
  BY <1>1, <1>2, ConcatProperties
<1>4. t[1] = e
  BY <1>1, <1>3
<1>5. \A i \in 1 .. Len(s) : t[i + 1] = s[i]
  <2>1. ASSUME NEW i \in 1 .. Len(s) PROVE t[i + 1] = s[i]
    <3>1. i + 1 \in 1 .. 1 + Len(s) /\ ~(i + 1 <= 1) /\ (i + 1) - 1 = i
      BY <1>1
    <3>2. QED
      BY <3>1, <1>3
  <2>2. QED
    BY <2>1
<1>6. t # <<>>
  BY <1>1, <1>3, EmptySeq
<1>7. Tail(t) = s
  <2>1. PICK u : u = Tail(t)
    OBVIOUS
  <2>2. u \in Seq(S) /\ Len(u) = Len(s) /\ \A i \in 1 .. Len(s) : u[i] = t[i + 1]
    BY <1>1, <1>3, <1>6, <2>1, HeadTailProperties
  <2>3. u = s
    BY <1>5, <2>2, SeqEqual
  <2>4. QED
    BY <2>1, <2>3
<1>8. QED
  BY <1>1, <1>2, <1>3, <1>4, <1>5, <1>6, <1>7

\* A first element and what follows it.
LEMMA BackTogether ==
  ASSUME NEW S, NEW s \in Seq(S), s # <<>>
  PROVE  s[1] \in S /\ Tail(s) \in Seq(S) /\ <<s[1]>> \o Tail(s) = s
<1>1. Len(s) \in Nat /\ 1 \in 1 .. Len(s)
  BY EmptySeq
<1>2. s[1] \in S
  BY <1>1, ElementOfSeq
<1>3. PICK t : t = Tail(s)
  OBVIOUS
<1>4. t \in Seq(S) /\ Len(t) = Len(s) - 1 /\ \A i \in 1 .. Len(t) : t[i] = s[i + 1]
  BY <1>3, HeadTailProperties
<1>5. PICK u : u = <<s[1]>> \o t
  OBVIOUS
<1>6. u \in Seq(S) /\ Len(u) = Len(t) + 1 /\ u[1] = s[1] /\ \A i \in 1 .. Len(t) : u[i + 1] = t[i]
  BY <1>2, <1>4, <1>5, InFront
<1>7. \A i \in 1 .. Len(u) : u[i] = s[i]
  <2>1. ASSUME NEW i \in 1 .. Len(u), i # 1 PROVE u[i] = s[i]
    <3>1. i - 1 \in 1 .. Len(t) /\ (i - 1) + 1 = i
      BY <1>1, <1>4, <1>6, <2>1
    <3>2. u[(i - 1) + 1] = t[i - 1] /\ t[i - 1] = s[(i - 1) + 1]
      BY <3>1, <1>4, <1>6
    <3>3. QED
      BY <3>1, <3>2
  <2>2. QED
    BY <2>1, <1>6
<1>8. u = s
  <2>1. Len(u) = Len(s)
    BY <1>1, <1>4, <1>6
  <2>2. QED
    BY <2>1, <1>6, <1>7, SeqEqual
<1>9. QED
  BY <1>2, <1>3, <1>4, <1>5, <1>8

\* Zeroes in front change no number.
LEMMA NumberZeros ==
  ASSUME NEW b \in Nat, NEW z \in Seq(Nat), \A i \in 1 .. Len(z) : z[i] = 0,
         NEW s \in Seq(Nat)
  PROVE  NumberOf(z \o s, b) = NumberOf(s, b)
<1> DEFINE k == Len(z)
<1>1. PICK t : t = z \o s
  OBVIOUS
<1>2. /\ t \in Seq(Nat) /\ Len(t) = k + Len(s) /\ k \in Nat /\ Len(s) \in Nat
      /\ \A i \in 1 .. k + Len(s) : t[i] = IF i <= k THEN z[i] ELSE s[i - k]
  BY <1>1, ConcatProperties, LenProperties
<1>3. PICK f : Counts(f, s, b) /\ NumberOf(s, b) = f[Len(s)]
  BY NumberOfIs
<1>4. \A i \in 1 .. k : z[i] = 0
  OBVIOUS
<1> HIDE DEF k
<1> DEFINE g == [i \in 0 .. k + Len(s) |-> IF i <= k THEN 0 ELSE f[i - k]]
<1>5. Counts(g, t, b)
  <2>1. g[0] = 0
    BY <1>2
  <2>2. ASSUME NEW i \in 0 .. Len(t) - 1 PROVE g[i + 1] = g[i] * b + t[i + 1]
    <3>0. i + 1 \in 1 .. k + Len(s) /\ i \in Nat
      BY <1>2
    <3>1. CASE i + 1 <= k
      <4>1. g[i + 1] = 0 /\ g[i] = 0 /\ i + 1 \in 1 .. k
        BY <3>1, <1>2
      <4>2. t[i + 1] = 0
        BY <4>1, <3>0, <3>1, <1>2, <1>4
      <4> HIDE DEF g
      <4>3. QED
        BY <4>1, <4>2
    <3>2. CASE i + 1 > k
      <4>1. g[i + 1] = f[(i + 1) - k] /\ g[i] = f[i - k]
        <5>1. CASE i = k
          <6>1. f[0] = 0
            BY <1>3 DEF Counts
          <6>2. g[i] = 0 /\ i - k = 0
            BY <1>2, <5>1
          <6>3. g[i + 1] = f[(i + 1) - k]
            BY <1>2, <3>2, <3>0
          <6> HIDE DEF g
          <6>4. QED
            BY <6>1, <6>2, <6>3
        <5>2. CASE i # k
          <6>1. i > k
            BY <3>2, <5>2, <1>2
          <6>2. QED
            BY <6>1, <3>0, <1>2
        <5>3. QED
          BY <5>1, <5>2
      <4>2. i - k \in 0 .. Len(s) - 1 /\ (i + 1) - k = (i - k) + 1
        BY <1>2, <3>2
      <4>3. f[(i - k) + 1] = f[i - k] * b + s[(i - k) + 1]
        BY <1>3, <4>2 DEF Counts
      <4>4. t[i + 1] = s[(i - k) + 1]
        BY <1>2, <3>0, <3>2, <4>2
      <4> HIDE DEF g
      <4>5. QED
        BY <4>1, <4>2, <4>3, <4>4
    <3>3. QED
      BY <3>1, <3>2, <1>2
  <2> HIDE DEF g
  <2>3. QED
    BY <2>1, <2>2 DEF Counts
<1>6. NumberOf(t, b) = g[Len(t)]
  <2> HIDE DEF g
  <2>1. QED
    BY <1>2, <1>5, NumberSolves
<1>7. g[Len(t)] = f[Len(s)]
  <2>1. CASE Len(s) = 0
    <3>1. f[0] = 0
      BY <1>3 DEF Counts
    <3>2. g[Len(t)] = 0
      BY <1>2, <2>1
    <3>3. QED
      BY <3>1, <3>2, <2>1
  <2>2. CASE Len(s) # 0
    BY <1>2, <2>2
  <2>3. QED
    BY <2>1, <2>2
<1>8. QED
  BY <1>1, <1>3, <1>6, <1>7

----------------------------------------------------------------------------
(* The mpi form.                                                           *)

LEMMA SignBitIs == SignBit \in Nat /\ SignBit > 1 /\ Base = 2 * SignBit
<1>1. PICK q \in Int, r \in 0 .. 2 - 1 :
        Base \div 2 = q /\ Base % 2 = r /\ Base = 2 * q + r /\ q \in Nat
  BY BaseIs, DivMod
<1>2. QED
  BY <1>1, BaseIs, BigNumAssumption DEF SignBit

LEMMA BytesAreNats ==
  /\ Byte = 0 .. Base - 1 /\ Byte \subseteq Nat /\ 0 \in Byte
  /\ \A s \in Seq(Byte) : s \in Seq(Nat) /\ Len(s) \in Nat
<1>1. Byte \subseteq Nat /\ 0 \in Byte
  BY BaseIs DEF Byte
<1>2. QED
  BY <1>1, SeqMonotonic, LenProperties DEF Byte

\* The bytes that setint64 and the others write are the number's.
LEMMA MpiBack ==
  ASSUME NEW neg \in BOOLEAN, NEW s \in Seq(Byte), s # <<>> => s[1] # 0
  PROVE  /\ mpi2bn(Mpi(neg, s)) = Signed(neg, NumberOf(s, Base))
         /\ Mpi(neg, s) \in Seq(Byte)
<1>0. /\ s \in Seq(Nat) /\ Base \in Nat
      /\ \A v \in Byte : v \in Nat /\ v < Base
      /\ \A v \in 0 .. Base - 1 : v \in Byte
  BY BytesAreNats, BaseIs DEF Byte
<1>1. CASE s = <<>>
  <2>1. Mpi(neg, s) = <<>> /\ mpi2bn(<<>>) = 0
    BY <1>1 DEF Mpi, mpi2bn
  <2>2. NumberOf(s, Base) = 0
    BY <1>0, <1>1, NumberType
  <2>3. <<>> \in Seq(Byte)
    BY EmptySeq
  <2>4. QED
    BY <2>1, <2>2, <2>3 DEF Signed
<1>2. CASE s # <<>> /\ s[1] >= SignBit
  <2>1. PICK x : x = (IF neg THEN SignBit ELSE 0) /\ x \in Byte
    BY <1>0, SignBitIs
  <2>2. Mpi(neg, s) = <<x>> \o s
    BY <1>2, <2>1 DEF Mpi
  <2>3. PICK t : t = <<x>> \o s
    OBVIOUS
  <2>4. t \in Seq(Byte) /\ t # <<>> /\ t[1] = x /\ Tail(t) = s
    BY <2>1, <2>3, InFront
  <2>5. x >= SignBit <=> neg
    BY <2>1, SignBitIs
  <2>6. x % SignBit = 0
    <3>1. CASE neg
      <4>1. x = SignBit * 1 + 0 /\ SignBit \in Nat \ {0} /\ 0 \in 0 .. SignBit - 1
        BY <3>1, <2>1, SignBitIs
      <4>2. QED
        BY <4>1, DivIs
    <3>2. CASE ~neg
      <4>1. x = SignBit * 0 + 0 /\ SignBit \in Nat \ {0} /\ 0 \in 0 .. SignBit - 1
        BY <3>2, <2>1, SignBitIs
      <4>2. QED
        BY <4>1, DivIs
    <3>3. QED
      BY <3>1, <3>2
  <2>7. mpi2bn(t) = Signed(x >= SignBit, NumberOf(<<0>> \o s, Base))
    BY <2>4, <2>6 DEF mpi2bn
  <2>8. NumberOf(<<0>> \o s, Base) = NumberOf(s, Base)
    <3>1. <<0>> \in Seq(Nat) /\ Len(<<0>>) = 1 /\ <<0>>[1] = 0
      BY OneIs
    <3>2. \A i \in 1 .. Len(<<0>>) : <<0>>[i] = 0
      BY <3>1
    <3>3. QED
      BY <3>1, <3>2, <1>0, NumberZeros
  <2>9. QED
    BY <2>2, <2>3, <2>4, <2>5, <2>7, <2>8 DEF Signed
<1>3. CASE s # <<>> /\ s[1] < SignBit
  <2>1. PICK y, u : y = s[1] /\ u = Tail(s)
    OBVIOUS
  <2>2. y \in Byte /\ u \in Seq(Byte) /\ <<y>> \o u = s /\ y \in 0 .. SignBit - 1
    <3>1. y \in Byte /\ u \in Seq(Byte) /\ <<y>> \o u = s
      BY <1>3, <2>1, BackTogether
    <3>2. QED
      BY <3>1, <1>0, <1>3, <2>1, SignBitIs
  <2>3. PICK x : x = (IF neg THEN y + SignBit ELSE y) /\ x \in Byte
    <3>1. y + SignBit \in Byte
      BY <1>0, <2>2, SignBitIs
    <3>2. QED
      BY <3>1, <2>2
  <2>4. PICK t : t = <<x>> \o u
    OBVIOUS
  <2>5. t \in Seq(Byte) /\ t # <<>> /\ t[1] = x /\ Tail(t) = u
    <3>1. x \in Byte /\ u \in Seq(Byte)
      BY <2>2, <2>3
    <3>2. QED
      BY <3>1, <2>4, InFront
  <2>6. Mpi(neg, s) = t
    BY <1>3, <2>1, <2>2, <2>3, <2>4, SignBitIs DEF Mpi
  <2>7. x >= SignBit <=> neg
    BY <2>2, <2>3, SignBitIs
  <2>8. x % SignBit = y
    <3>1. CASE neg
      <4>1. /\ x = SignBit * 1 + y /\ SignBit \in Nat \ {0} /\ 1 \in Int /\ x \in Int
            /\ y \in 0 .. SignBit - 1
        BY <3>1, <2>2, <2>3, SignBitIs
      <4>2. QED
        BY <4>1, DivIs
    <3>2. CASE ~neg
      <4>1. /\ x = SignBit * 0 + y /\ SignBit \in Nat \ {0} /\ 0 \in Int /\ x \in Int
            /\ y \in 0 .. SignBit - 1
        BY <3>2, <2>2, <2>3, SignBitIs
      <4>2. QED
        BY <4>1, DivIs
    <3>3. QED
      BY <3>1, <3>2
  <2>9. mpi2bn(t) = Signed(x >= SignBit, NumberOf(s, Base))
    BY <2>2, <2>5, <2>8 DEF mpi2bn
  <2>10. QED
    BY <2>5, <2>6, <2>7, <2>9 DEF Signed
<1>4. QED
  <2>1. s # <<>> => s[1] \in Byte
    BY BackTogether
  <2>2. s = <<>> \/ (s # <<>> /\ s[1] >= SignBit) \/ (s # <<>> /\ s[1] < SignBit)
    BY <2>1, <1>0, SignBitIs
  <2>3. QED
    BY <2>2, <1>1, <1>2, <1>3

\* In particular of a number that is not negative.
LEMMA MpiOfNumber ==
  ASSUME NEW neg \in BOOLEAN, NEW n \in Nat
  PROVE  /\ mpi2bn(Mpi(neg, DigitsOf(n, Base))) = Signed(neg, n)
         /\ Mpi(neg, DigitsOf(n, Base)) \in Seq(Byte)
<1>1. PICK s : s = DigitsOf(n, Base)
  OBVIOUS
<1>2. s \in Seq(Byte) /\ (s # <<>> => s[1] # 0) /\ NumberOf(s, Base) = n
  <2>1. Base \in Nat /\ Base > 1
    BY BaseIs
  <2>2. QED
    BY <1>1, <2>1, DigitsType DEF Byte
<1>3. QED
  BY <1>1, <1>2, MpiBack

\* A sign and a magnitude are the number.
LEMMA Signs ==
  ASSUME NEW n \in Int
  PROVE  (n < 0) \in BOOLEAN /\ Magnitude(n) \in Nat /\ Signed(n < 0, Magnitude(n)) = n
  BY DEF Magnitude, Signed

\* An integer becomes the number it is, and its bytes give it back.
LEMMA IntBack == ASSUME NEW n \in Int PROVE setint64(n) = n
  BY Signs, MpiOfNumber DEF setint64

\* setvch undoes getvch.
LEMMA VchBack == ASSUME NEW n \in Int PROVE setvch(getvch(n)) = n
<1>1. PICK m : m = Mpi(n < 0, DigitsOf(Magnitude(n), Base))
  OBVIOUS
<1>2. mpi2bn(m) = n /\ m \in Seq(Byte)
  BY <1>1, Signs, MpiOfNumber
<1>3. Reverse(Reverse(m)) = m
  BY <1>2, ReverseTwice
<1>4. QED
  BY <1>1, <1>2, <1>3 DEF setvch, getvch

\* The bytes of a number that is not negative are written with a zero in
\* front when the first would be taken for a sign.
LEMMA UnsignedMpi ==
  ASSUME NEW s \in Seq(Byte)
  PROVE  mpi2bn(<<0>> \o s) = NumberOf(s, Base)
<1>1. PICK t : t = <<0>> \o s
  OBVIOUS
<1>2. t \in Seq(Byte) /\ t # <<>> /\ t[1] = 0 /\ Tail(t) = s
  BY <1>1, InFront, BytesAreNats
<1>3. 0 = SignBit * 0 + 0 /\ SignBit \in Nat \ {0} /\ 0 \in 0 .. SignBit - 1
  BY SignBitIs
<1>4. 0 % SignBit = 0
  BY <1>3, DivIs
<1>5. mpi2bn(t) = Signed(0 >= SignBit, NumberOf(<<0>> \o s, Base))
  BY <1>2, <1>4 DEF mpi2bn
<1>6. NumberOf(<<0>> \o s, Base) = NumberOf(s, Base)
  <2>1. <<0>> \in Seq(Nat) /\ Len(<<0>>) = 1 /\ <<0>>[1] = 0
    BY OneIs
  <2>2. \A i \in 1 .. Len(<<0>>) : <<0>>[i] = 0
    BY <2>1
  <2>3. QED
    BY <2>1, <2>2, BytesAreNats, BaseIs, NumberZeros
<1>7. QED
  BY <1>1, <1>5, <1>6, SignBitIs DEF Signed

\* setuint256 reads the bytes as they stand.
LEMMA Uint256Is ==
  ASSUME NEW n \in Seq(Byte)
  PROVE  setuint256(n) = NumberOf(Reverse(n), Base)
<1>1. Reverse(n) \in Seq(Byte)
  BY ReverseIs
<1>2. NumberOf(Reverse(n), Base) \in Nat
  BY <1>1, BytesAreNats, BaseIs, NumberType
<1>3. QED
  BY <1>2, MpiOfNumber DEF setuint256, Signed

----------------------------------------------------------------------------
(* base58 texts.                                                           *)

LEMMA ZerosAre ==
  ASSUME NEW k \in Nat, NEW b \in Nat, b > 0
  PROVE  /\ Zeros(k) \in Seq(Nat) /\ Zeros(k) \in Seq(0 .. b - 1) /\ Len(Zeros(k)) = k
         /\ \A i \in 1 .. k : Zeros(k)[i] = 0
<1>1. /\ Zeros(k) \in [1 .. k -> Nat] /\ Zeros(k) \in [1 .. k -> 0 .. b - 1]
      /\ \A i \in 1 .. k : Zeros(k)[i] = 0
  BY DEF Zeros
<1>2. QED
  BY <1>1, SeqOfFun

LEMMA LeadingZerosIs ==
  ASSUME NEW s \in Seq(Nat)
  PROVE  /\ LeadingZeros(s) \in 0 .. Len(s)
         /\ \A i \in 1 .. LeadingZeros(s) : s[i] = 0
         /\ LeadingZeros(s) < Len(s) => s[LeadingZeros(s) + 1] # 0
<1> DEFINE P(k) == /\ \A i \in 1 .. k : s[i] = 0
                   /\ k < Len(s) => s[k + 1] # 0
           T == {k \in Nat : k < Len(s) /\ s[k + 1] # 0}
<1>0. Len(s) \in Nat
  BY LenProperties
<1>1. \E k \in 0 .. Len(s) : P(k)
  <2>1. CASE T = {}
    <3>1. ASSUME NEW i \in 1 .. Len(s) PROVE s[i] = 0
      <4>1. i - 1 \in Nat /\ i - 1 < Len(s) /\ (i - 1) + 1 = i
        BY <1>0
      <4>2. QED
        BY <4>1, <2>1
    <3>2. Len(s) \in 0 .. Len(s) /\ P(Len(s))
      BY <1>0, <3>1
    <3>3. QED
      BY <3>2
  <2>2. CASE T # {}
    <3>1. PICK k \in T : \A y \in T : k <= y
      <4>1. T \in SUBSET Nat
        OBVIOUS
      <4> HIDE DEF T
      <4>2. QED
        BY <4>1, <2>2, NatMin
    <3>2. ASSUME NEW i \in 1 .. k PROVE s[i] = 0
      <4>1. i - 1 \in Nat /\ i - 1 < k /\ (i - 1) + 1 = i /\ i - 1 < Len(s)
        BY <1>0, <3>1
      <4>2. i - 1 \notin T
        BY <4>1, <3>1
      <4>3. QED
        BY <4>1, <4>2
    <3>3. k \in 0 .. Len(s) /\ P(k)
      BY <1>0, <3>1, <3>2
    <3>4. QED
      BY <3>3
  <2>3. QED
    BY <2>1, <2>2
<1>2. LeadingZeros(s) = CHOOSE k \in 0 .. Len(s) : P(k)
  BY DEF LeadingZeros
<1>3. LeadingZeros(s) \in 0 .. Len(s) /\ P(LeadingZeros(s))
  <2> HIDE DEF P
  <2>1. QED
    BY <1>1, <1>2
<1>4. QED
  BY <1>3

\* LeadingZeros is how many zeros a sequence begins with.
LEMMA LeadingZerosAre ==
  ASSUME NEW s \in Seq(Nat), NEW k \in 0 .. Len(s), \A i \in 1 .. k : s[i] = 0,
         k < Len(s) => s[k + 1] # 0
  PROVE  LeadingZeros(s) = k
<1> DEFINE l == LeadingZeros(s)
<1>1. /\ l \in 0 .. Len(s) /\ Len(s) \in Nat /\ \A i \in 1 .. l : s[i] = 0
      /\ l < Len(s) => s[l + 1] # 0
  BY LeadingZerosIs, LenProperties
<1> HIDE DEF l
<1>2. ~(l < k)
  <2>1. l < k => l + 1 \in 1 .. k /\ l < Len(s)
    BY <1>1
  <2>2. QED
    BY <2>1, <1>1
<1>3. ~(k < l)
  <2>1. k < l => k + 1 \in 1 .. l /\ k < Len(s)
    BY <1>1
  <2>2. QED
    BY <2>1, <1>1
<1>4. QED
  BY <1>1, <1>2, <1>3 DEF l

\* The zeroes in front and the rest.
LEMMA ZeroesAndRest ==
  ASSUME NEW b \in Nat, b > 1, NEW s \in Seq(0 .. b - 1)
  PROVE  \E r \in Seq(0 .. b - 1) : /\ s = Zeros(LeadingZeros(s)) \o r
                                    /\ r # <<>> => r[1] # 0
<1> DEFINE k == LeadingZeros(s)
           r == SubSeq(s, k + 1, Len(s))
<1>1. s \in Seq(Nat) /\ Len(s) \in Nat
  <2>1. 0 .. b - 1 \subseteq Nat
    OBVIOUS
  <2>2. QED
    BY <2>1, SeqMonotonic, LenProperties
<1>2. /\ k \in 0 .. Len(s) /\ k \in Nat /\ \A i \in 1 .. k : s[i] = 0
      /\ k < Len(s) => s[k + 1] # 0
  BY <1>1, LeadingZerosIs
<1> HIDE DEF k
<1>3. /\ r \in Seq(0 .. b - 1) /\ Len(r) = Len(s) - k
      /\ \A i \in 1 .. Len(s) - k : r[i] = s[k + i]
  <2>1. \A i \in k + 1 .. Len(s) : s[i] \in 0 .. b - 1
    <3>1. \A i \in k + 1 .. Len(s) : i \in 1 .. Len(s)
      BY <1>1, <1>2
    <3>2. QED
      BY <3>1, ElementOfSeq
  <2>2. k + 1 \in Int /\ Len(s) \in Int
    BY <1>1, <1>2
  <2>3. /\ r \in Seq(0 .. b - 1)
        /\ Len(r) = IF k + 1 <= Len(s) THEN Len(s) - (k + 1) + 1 ELSE 0
        /\ \A i \in 1 .. Len(s) - (k + 1) + 1 : r[i] = s[(k + 1) + i - 1]
    BY <2>1, <2>2, SubSeqProperties
  <2> HIDE DEF r
  <2>4. Len(r) = Len(s) - k /\ Len(s) - (k + 1) + 1 = Len(s) - k
    BY <2>3, <1>1, <1>2
  <2>5. ASSUME NEW i \in 1 .. Len(s) - k PROVE r[i] = s[k + i]
    <3>1. (k + 1) + i - 1 = k + i /\ i \in 1 .. Len(s) - (k + 1) + 1
      BY <1>1, <1>2
    <3>2. QED
      BY <3>1, <2>3
  <2>6. QED
    BY <2>3, <2>4, <2>5
<1> HIDE DEF r
<1>4. PICK z : z = Zeros(k)
  OBVIOUS
<1>5. z \in Seq(0 .. b - 1) /\ Len(z) = k /\ \A i \in 1 .. k : z[i] = 0
  <2>1. k \in Nat /\ b > 0
    BY <1>2
  <2>2. QED
    BY <2>1, <1>4, ZerosAre
<1>6. PICK t : t = z \o r
  OBVIOUS
<1>7. /\ t \in Seq(0 .. b - 1) /\ Len(t) = k + Len(r)
      /\ \A i \in 1 .. k + Len(r) : t[i] = IF i <= k THEN z[i] ELSE r[i - k]
  <2>1. z \in Seq(0 .. b - 1) /\ r \in Seq(0 .. b - 1)
    BY <1>3, <1>5
  <2>2. /\ t \in Seq(0 .. b - 1) /\ Len(t) = Len(z) + Len(r)
        /\ \A i \in 1 .. Len(z) + Len(r) : t[i] = IF i <= Len(z) THEN z[i] ELSE r[i - Len(z)]
    BY <2>1, <1>6, ConcatProperties
  <2>3. QED
    BY <2>2, <1>5
<1>8. t = s
  <2>1. Len(t) = Len(s)
    BY <1>1, <1>2, <1>3, <1>7
  <2>2. ASSUME NEW i \in 1 .. Len(t) PROVE t[i] = s[i]
    <3>1. CASE i <= k
      <4>1. i \in 1 .. k /\ i \in 1 .. k + Len(r)
        BY <3>1, <1>2, <1>3, <1>7
      <4>2. QED
        BY <4>1, <3>1, <1>2, <1>5, <1>7
    <3>2. CASE i > k
      <4>1. i - k \in 1 .. Len(s) - k /\ k + (i - k) = i /\ i \in 1 .. k + Len(r) /\ ~(i <= k)
        BY <3>2, <1>1, <1>2, <2>1, <1>7
      <4>2. QED
        BY <4>1, <1>3, <1>7
    <3>3. QED
      BY <3>1, <3>2, <1>2
  <2>3. QED
    BY <2>1, <2>2, <1>7, SeqEqual
<1>9. r # <<>> => r[1] # 0
  <2>1. r # <<>> => 1 \in 1 .. Len(s) - k
    BY <1>1, <1>2, <1>3, EmptySeq
  <2>2. QED
    BY <2>1, <1>1, <1>2, <1>3
<1>10. QED
  BY <1>3, <1>4, <1>6, <1>8, <1>9 DEF k

\* Between two bases, the zeroes in front kept as many.
InBase(s, a, b) == Zeros(LeadingZeros(s)) \o DigitsOf(NumberOf(s, a), b)

\* The same number back in the base it came from.
LEMMA InBaseBack ==
  ASSUME NEW a \in Nat, a > 1, NEW b \in Nat, b > 1, NEW s \in Seq(0 .. a - 1)
  PROVE  InBase(s, a, b) \in Seq(0 .. b - 1) /\ InBase(InBase(s, a, b), b, a) = s
<1>1. PICK k, z, y : k = LeadingZeros(s) /\ z = Zeros(k)
                     /\ y = Zeros(k)
  OBVIOUS
<1>2. PICK r \in Seq(0 .. a - 1) : s = z \o r /\ (r # <<>> => r[1] # 0)
  BY <1>1, ZeroesAndRest
<1>3. /\ \A t \in Seq(0 .. a - 1) : t \in Seq(Nat) /\ Len(t) \in Nat
      /\ \A t \in Seq(0 .. b - 1) : t \in Seq(Nat) /\ Len(t) \in Nat
  <2>1. 0 .. a - 1 \subseteq Nat /\ 0 .. b - 1 \subseteq Nat
    OBVIOUS
  <2>2. QED
    BY <2>1, SeqMonotonic, LenProperties
<1>4. k \in Nat
  BY <1>1, <1>3, LeadingZerosIs
<1>5. /\ z \in Seq(Nat) /\ z \in Seq(0 .. b - 1) /\ Len(z) = k /\ \A i \in 1 .. k : z[i] = 0
  BY <1>1, <1>4, ZerosAre
<1>6. PICK n \in Nat : n = NumberOf(s, a) /\ n = NumberOf(r, a)
  <2>1. NumberOf(s, a) = NumberOf(r, a) /\ NumberOf(r, a) \in Nat
    BY <1>2, <1>3, <1>5, NumberZeros, NumberType
  <2>2. QED
    BY <2>1
<1>7. PICK d : d = DigitsOf(n, b)
  OBVIOUS
<1>8. d \in Seq(0 .. b - 1) /\ (d # <<>> => d[1] # 0) /\ NumberOf(d, b) = n
  BY <1>7, DigitsType
<1>9. PICK t : t = z \o d
  OBVIOUS
<1>10. InBase(s, a, b) = t
  BY <1>1, <1>6, <1>7, <1>9 DEF InBase
<1>11. /\ t \in Seq(0 .. b - 1) /\ t \in Seq(Nat) /\ Len(t) = k + Len(d) /\ Len(d) \in Nat
       /\ \A i \in 1 .. k + Len(d) : t[i] = IF i <= k THEN z[i] ELSE d[i - k]
  <2>1. d \in Seq(0 .. b - 1) /\ z \in Seq(0 .. b - 1)
    BY <1>5, <1>8
  <2>2. QED
    BY <2>1, <1>3, <1>5, <1>9, ConcatProperties
<1>12. LeadingZeros(t) = k
  <2>1. k \in 0 .. Len(t)
    BY <1>4, <1>11
  <2>2. \A i \in 1 .. k : t[i] = 0
    <3>1. \A i \in 1 .. k : i \in 1 .. k + Len(d) /\ i <= k
      BY <1>4, <1>11
    <3>2. QED
      BY <3>1, <1>5, <1>11
  <2>3. k < Len(t) => t[k + 1] # 0
    <3> SUFFICES ASSUME k < Len(t) PROVE t[k + 1] # 0
      OBVIOUS
    <3>1. Len(d) > 0 /\ k + 1 \in 1 .. k + Len(d) /\ ~(k + 1 <= k) /\ (k + 1) - k = 1
      BY <1>4, <1>11
    <3>2. d # <<>>
      BY <3>1, EmptySeq
    <3>3. QED
      BY <3>1, <3>2, <1>8, <1>11
  <2>4. QED
    BY <2>1, <2>2, <2>3, <1>11, LeadingZerosAre
<1>13. NumberOf(t, b) = n
  BY <1>3, <1>5, <1>8, <1>9, NumberZeros
<1>14. DigitsOf(n, a) = r
  BY <1>2, <1>6, DigitsBack
<1>15. InBase(t, b, a) = s
  BY <1>1, <1>2, <1>12, <1>13, <1>14 DEF InBase
<1>16. QED
  BY <1>10, <1>11, <1>15

LEMMA RadixIs == Radix \in Nat /\ Radix > 1 /\ Base \in Nat /\ Base > 1 /\ Byte = 0 .. Base - 1
  BY KeyAssumption, BaseIs DEF Byte

\* The zero byte EncodeBase58 adds keeps the bytes' number.
LEMMA Encodes ==
  ASSUME NEW s \in Seq(Byte)
  PROVE  EncodeBase58(s) = InBase(s, Base, Radix)
<1>1. PICK r : r = Reverse(s)
  OBVIOUS
<1>2. r \in Seq(Byte) /\ Len(r) = Len(s) /\ Len(s) \in Nat
      /\ \A i \in 1 .. Len(s) : r[i] = s[(Len(s) - i) + 1]
  BY <1>1, ReverseIs, LenProperties
<1>3. PICK v : v = Append(r, 0)
  OBVIOUS
<1>4. /\ v \in Seq(Byte) /\ Len(v) = Len(s) + 1 /\ v[Len(s) + 1] = 0
      /\ \A i \in 1 .. Len(s) : v[i] = r[i]
  BY <1>2, <1>3, BytesAreNats, AppendProperties
<1>5. Reverse(v) = <<0>> \o s
  <2>1. PICK x, y : x = Reverse(v) /\ y = <<0>> \o s
    OBVIOUS
  <2>2. /\ x \in Seq(Byte) /\ Len(x) = Len(s) + 1
        /\ \A i \in 1 .. Len(s) + 1 : x[i] = v[((Len(s) + 1) - i) + 1]
    BY <1>4, <2>1, ReverseIs
  <2>3. /\ y \in Seq(Byte) /\ Len(y) = Len(s) + 1 /\ y[1] = 0
        /\ \A i \in 1 .. Len(s) : y[i + 1] = s[i]
    BY <2>1, BytesAreNats, InFront
  <2>4. ASSUME NEW i \in 1 .. Len(x) PROVE x[i] = y[i]
    <3>1. CASE i = 1
      <4>1. ((Len(s) + 1) - 1) + 1 = Len(s) + 1 /\ 1 \in 1 .. Len(s) + 1
        BY <1>2
      <4>2. QED
        BY <4>1, <3>1, <2>2, <2>3, <1>4
    <3>2. CASE i # 1
      <4>1. PICK j : j = i - 1
        OBVIOUS
      <4>2. /\ j \in 1 .. Len(s) /\ i = j + 1 /\ j + 1 \in 1 .. Len(s) + 1
            /\ ((Len(s) + 1) - (j + 1)) + 1 = (Len(s) - j) + 1
            /\ (Len(s) - j) + 1 \in 1 .. Len(s)
            /\ (Len(s) - ((Len(s) - j) + 1)) + 1 = j
        BY <4>1, <3>2, <1>2, <2>2
      <4>3. x[j + 1] = v[(Len(s) - j) + 1]
        BY <4>2, <2>2
      <4>4. v[(Len(s) - j) + 1] = r[(Len(s) - j) + 1]
        BY <4>2, <1>4
      <4>5. r[(Len(s) - j) + 1] = s[j]
        BY <4>2, <1>2
      <4>6. QED
        BY <4>2, <4>3, <4>4, <4>5, <2>3
    <3>3. QED
      BY <3>1, <3>2
  <2>5. x = y
    BY <2>2, <2>3, <2>4, SeqEqual
  <2>6. QED
    BY <2>1, <2>5
<1>6. setvch(Append(Reverse(s), 0)) = NumberOf(s, Base)
  BY <1>1, <1>3, <1>5, UnsignedMpi DEF setvch
<1>7. QED
  BY <1>6 DEF EncodeBase58, InBase

\* TrimSign drops the zero byte that getvch adds, and no other.
LEMMA Decodes ==
  ASSUME NEW s \in Seq(Nat), Other \notin ToSet(s)
  PROVE  DecodeBase58(s) = InBase(s, Radix, Base)
<1>1. PICK n \in Nat : n = NumberOf(s, Radix)
  BY RadixIs, NumberType
<1>2. PICK d : d = DigitsOf(n, Base)
  OBVIOUS
<1>3. d \in Seq(Byte) /\ (d # <<>> => d[1] # 0) /\ Len(d) \in Nat
  BY <1>2, RadixIs, DigitsType, LenProperties
<1>4. PICK m : m = Mpi(FALSE, d)
  OBVIOUS
<1>5. m \in Seq(Byte)
  BY <1>2, <1>4, MpiOfNumber
<1>6. Reverse(getvch(n)) = m
  <2>1. Magnitude(n) = n /\ (n < 0) = FALSE
    BY DEF Magnitude
  <2>2. getvch(n) = Reverse(m)
    BY <2>1, <1>2, <1>4 DEF getvch
  <2>3. QED
    BY <2>2, <1>5, ReverseTwice
<1>7. TrimSign(m) = d
  <2>1. CASE d = <<>>
    <3>1. m = <<>> /\ Len(m) = 0
      BY <2>1, <1>4, EmptySeq DEF Mpi
    <3>2. QED
      BY <3>1, <2>1 DEF TrimSign
  <2>2. CASE d # <<>> /\ d[1] >= SignBit
    <3>1. m = <<0>> \o d
      BY <2>2, <1>4 DEF Mpi
    <3>2. /\ Len(m) = Len(d) + 1 /\ m[1] = 0 /\ Tail(m) = d
          /\ \A i \in 1 .. Len(d) : m[i + 1] = d[i]
      BY <3>1, <1>3, BytesAreNats, InFront
    <3>3. Len(m) >= 2 /\ 1 \in 1 .. Len(d)
      BY <2>2, <3>2, <1>3, EmptySeq
    <3>4. m[1 + 1] = d[1] /\ 1 + 1 = 2
      BY <3>2, <3>3
    <3>5. QED
      BY <2>2, <3>2, <3>3, <3>4 DEF TrimSign, SignBit
  <2>3. CASE d # <<>> /\ ~(d[1] >= SignBit)
    <3>1. m = d
      BY <2>3, <1>4 DEF Mpi
    <3>2. QED
      BY <3>1, <2>3, <1>3 DEF TrimSign
  <2>4. QED
    BY <2>1, <2>2, <2>3
<1>8. QED
  BY <1>1, <1>2, <1>6, <1>7 DEF DecodeBase58, InBase

\* What the list window shows for a key is its key again, and a text that is
\* one is shown for its key.
LEMMA KeyBack ==
  ASSUME NEW key \in Key
  PROVE  CoinKey(to_str(key)) = key
<1>1. KeyLen \in Nat /\ key \in [1 .. KeyLen -> Byte]
  BY KeyAssumption, BaseIs DEF Key, KeyLen
<1>2. key \in Seq(Byte) /\ Len(key) = KeyLen
  BY <1>1, SeqOfFun
<1>3. PICK t : t = to_str(key)
  OBVIOUS
<1>4. t = InBase(key, Base, Radix)
  BY <1>2, <1>3, Encodes DEF to_str
<1>5. t \in Seq(0 .. Radix - 1) /\ InBase(t, Radix, Base) = key
  BY <1>2, <1>4, RadixIs, InBaseBack
<1>6. t \in Seq(Nat) /\ Other \notin ToSet(t)
  <2>1. 0 .. Radix - 1 \subseteq Nat
    BY RadixIs
  <2>2. DOMAIN t = 1 .. Len(t) /\ \A i \in 1 .. Len(t) : t[i] \in 0 .. Radix - 1
    BY <1>5, LenProperties, ElementOfSeq
  <2>3. QED
    BY <2>1, <2>2, <1>5, SeqMonotonic, RadixIs DEF Other, ToSet
<1>7. DecodeBase58(t) = key
  BY <1>5, <1>6, Decodes
<1>8. QED
  BY <1>2, <1>3, <1>7 DEF CoinKey

\* A text that has a key is the text of that key.
LEMMA TextBack ==
  ASSUME NEW text \in Seq(0 .. Other), CoinKey(text) # Null
  PROVE  to_str(CoinKey(text)) = text
<1>1. Len(DecodeBase58(text)) = KeyLen /\ CoinKey(text) = DecodeBase58(text)
  BY DEF CoinKey
<1>2. Other \notin ToSet(text)
  <2>1. Len(<<>>) = 0 /\ KeyLen # 0
    BY EmptySeq, KeyAssumption, BaseIs DEF KeyLen
  <2>2. QED
    BY <1>1, <2>1 DEF DecodeBase58
<1>3. text \in Seq(Nat) /\ text \in Seq(0 .. Radix - 1)
  <2>1. 0 .. Other \subseteq Nat
    BY RadixIs DEF Other
  <2>2. /\ Len(text) \in Nat /\ DOMAIN text = 1 .. Len(text)
        /\ text \in [1 .. Len(text) -> 0 .. Other]
        /\ \A i \in 1 .. Len(text) : text[i] \in 0 .. Other
    BY LenProperties, ElementOfSeq
  <2>3. \A i \in 1 .. Len(text) : text[i] # Radix
    BY <1>2, <2>2 DEF ToSet, Other
  <2>4. text \in [1 .. Len(text) -> 0 .. Radix - 1]
    <3>1. \A i \in 1 .. Len(text) : text[i] \in 0 .. Radix - 1
      BY <2>2, <2>3, RadixIs DEF Other
    <3>2. QED
      BY <3>1, <2>2
  <2>5. QED
    BY <2>1, <2>2, <2>4, SeqMonotonic, SeqOfFun
<1>4. CoinKey(text) = InBase(text, Radix, Base)
  BY <1>1, <1>2, <1>3, Decodes
<1>5. /\ InBase(text, Radix, Base) \in Seq(Byte)
      /\ InBase(InBase(text, Radix, Base), Base, Radix) = text
  BY <1>3, RadixIs, InBaseBack
<1>6. QED
  BY <1>4, <1>5, Encodes DEF to_str

----------------------------------------------------------------------------
(* FlattenSeq.                                                             *)

\* What the sequences come to, one after another.
Joins(f, bins) ==
  f[0] = <<>> /\ \A i \in 0 .. Len(bins) - 1 : f[i + 1] = f[i] \o bins[i + 1]

\* FlattenSeq joins them.
LEMMA FlattenIs ==
  ASSUME NEW S, NEW bins \in Seq(Seq(S))
  PROVE  \E f \in [0 .. Len(bins) -> Seq(S)] :
           Joins(f, bins) /\ FlattenSeq(bins) = f[Len(bins)]
<1> DEFINE n == Len(bins)
           step == [i \in Nat |-> [p \in Seq(S) |-> IF i \in 1 .. n THEN p \o bins[i] ELSE p]]
<1>0. n \in Nat /\ \A i \in 1 .. n : bins[i] \in Seq(S)
  BY LenProperties, ElementOfSeq
<1>1. StepsIn(Seq(S), step)
  <2>1. ASSUME NEW i \in Nat, NEW p \in Seq(S) PROVE step[i][p] \in Seq(S)
    <3>1. CASE i \in 1 .. n
      <4>1. p \o bins[i] \in Seq(S)
        BY <3>1, <1>0, ConcatProperties
      <4>2. QED
        BY <4>1, <3>1
    <3>2. CASE i \notin 1 .. n
      BY <3>2
    <3>3. QED
      BY <3>1, <3>2
  <2> HIDE DEF step
  <2>2. QED
    BY <2>1 DEF StepsIn
<1>2. PICK f : f \in [Nat -> Seq(S)] /\ Recurs(f, <<>>, step)
  <2> HIDE DEF step
  <2>1. <<>> \in Seq(S)
    BY EmptySeq
  <2>2. \E f \in [Nat -> Seq(S)] : Recurs(f, <<>>, step)
    BY <1>1, <2>1, Recursion
  <2>3. QED
    BY <2>2
<1>3. f[0] = <<>> /\ \A i \in 1 .. n : f[i] = f[i - 1] \o bins[i]
  <2>1. ASSUME NEW i \in 1 .. n PROVE f[i] = f[i - 1] \o bins[i]
    <3>1. i \in Nat /\ i # 0 /\ i - 1 \in Nat
      BY <1>0
    <3>2. f[i - 1] \in Seq(S)
      BY <1>2, <3>1
    <3>3. f[i] = step[i][f[i - 1]]
      <4> HIDE DEF step
      <4>1. QED
        BY <1>2, <3>1 DEF Recurs
    <3>4. QED
      BY <3>1, <3>2, <3>3
  <2>2. f[0] = <<>>
    <3> HIDE DEF step
    <3>1. QED
      BY <1>2 DEF Recurs
  <2>3. QED
    BY <2>1, <2>2
<1> HIDE DEF step
<1>4. CASE n = 0
  <2>1. bins = <<>> /\ FlattenSeq(bins) = bins
    <3>1. bins = <<>>
      BY <1>4, EmptySeq
    <3>2. QED
      BY <3>1, <1>4 DEF FlattenSeq
  <2> DEFINE g == [i \in 0 .. n |-> <<>>]
  <2>2. g \in [0 .. n -> Seq(S)] /\ g[0] = <<>>
    BY <1>4, EmptySeq
  <2> HIDE DEF g
  <2>3. Joins(g, bins)
    BY <1>4, <2>2 DEF Joins
  <2>4. QED
    BY <1>4, <2>1, <2>2, <2>3
<1>5. CASE n # 0
  <2> DEFINE G(h) == h = [i \in 1 .. n |-> IF i = 1 THEN bins[i] ELSE h[i - 1] \o bins[i]]
             g == [i \in 1 .. n |-> f[i]]
  <2>1. G(g)
    <3>1. g[1] = bins[1]
      <4>1. 1 \in 1 .. n /\ 1 - 1 = 0
        BY <1>0, <1>5
      <4>2. f[1] = <<>> \o bins[1]
        BY <1>3, <4>1
      <4>3. QED
        BY <1>0, <4>1, <4>2, ConcatEmptySeq
    <3>2. ASSUME NEW i \in 1 .. n, i # 1 PROVE g[i] = g[i - 1] \o bins[i]
      <4>1. i - 1 \in 1 .. n
        BY <1>0, <3>2
      <4>2. g[i] = f[i] /\ g[i - 1] = f[i - 1]
        BY <4>1
      <4> HIDE DEF g
      <4>3. QED
        BY <4>2, <1>3
    <3>3. g = [i \in 1 .. n |-> g[i]]
      OBVIOUS
    <3> HIDE DEF g
    <3>4. QED
      BY <3>1, <3>2, <3>3
  <2> DEFINE h == CHOOSE h : G(h)
  <2>2. G(h) /\ FlattenSeq(bins) = h[n]
    <3>1. G(h)
      <4> HIDE DEF g
      <4>1. QED
        BY <2>1
    <3>2. FlattenSeq(bins) = h[n]
      BY <1>5 DEF FlattenSeq
    <3>3. QED
      BY <3>1, <3>2
  <2> HIDE DEF h, g
  <2>3. h = [i \in 1 .. n |-> IF i = 1 THEN bins[i] ELSE h[i - 1] \o bins[i]]
    BY <2>2
  <2>4. h[1] = bins[1] /\ \A i \in 1 .. n : i # 1 => h[i] = h[i - 1] \o bins[i]
    <3>1. 1 \in 1 .. n
      BY <1>0, <1>5
    <3>2. QED
      BY <3>1, <2>3
  <2>5. \A i \in 1 .. n : h[i] = f[i]
    <3> DEFINE T == {i \in Nat : i + 1 <= n => h[i + 1] = f[i + 1]}
    <3>1. 0 \in T
      <4>1. 1 \in 1 .. n /\ 1 - 1 = 0
        BY <1>0, <1>5
      <4>2. f[1] = <<>> \o bins[1]
        BY <1>3, <4>1
      <4>3. h[1] = f[1]
        BY <1>0, <4>1, <4>2, <2>4, ConcatEmptySeq
      <4>4. QED
        BY <4>3
    <3>2. ASSUME NEW i \in Nat, i \in T PROVE i + 1 \in T
      <4> SUFFICES ASSUME (i + 1) + 1 <= n PROVE h[(i + 1) + 1] = f[(i + 1) + 1]
        OBVIOUS
      <4>1. h[i + 1] = f[i + 1]
        BY <3>2, <1>0
      <4>2. (i + 1) + 1 \in 1 .. n /\ (i + 1) + 1 # 1 /\ ((i + 1) + 1) - 1 = i + 1
        BY <1>0
      <4>3. QED
        BY <4>1, <4>2, <2>4, <1>3
    <3> HIDE DEF T
    <3>3. \A i \in Nat : i \in T
      BY <3>1, <3>2, NatInduct
    <3>4. ASSUME NEW i \in 1 .. n PROVE h[i] = f[i]
      <4>1. i - 1 \in T /\ (i - 1) + 1 = i /\ i <= n
        BY <1>0, <3>3
      <4>2. QED
        BY <4>1 DEF T
    <3>5. QED
      BY <3>4
  <2> DEFINE p == [i \in 0 .. n |-> f[i]]
  <2>6. p \in [0 .. n -> Seq(S)] /\ \A i \in 0 .. n : p[i] = f[i]
    BY <1>0, <1>2
  <2> HIDE DEF p
  <2>7. Joins(p, bins)
    <3>1. p[0] = <<>>
      BY <1>0, <1>3, <2>6
    <3>2. ASSUME NEW i \in 0 .. n - 1 PROVE p[i + 1] = p[i] \o bins[i + 1]
      <4>1. i \in 0 .. n /\ i + 1 \in 0 .. n /\ i + 1 \in 1 .. n /\ (i + 1) - 1 = i
        BY <1>0
      <4>2. QED
        BY <4>1, <1>3, <2>6
    <3>3. QED
      BY <3>1, <3>2 DEF Joins
  <2>8. n \in 1 .. n /\ n \in 0 .. n
    BY <1>0, <1>5
  <2>9. FlattenSeq(bins) = p[n]
    BY <2>2, <2>5, <2>6, <2>8
  <2>10. QED
    BY <2>6, <2>7, <2>9
<1>6. QED
  BY <1>4, <1>5

----------------------------------------------------------------------------
(* Hexadecimal texts of bytes.                                             *)

LEMMA NibbleIs == Nibble \in Nat /\ Nibble > 1 /\ Base = Nibble * Nibble
<1>1. Nibble \in Nat /\ Base = Nibble * Nibble
  BY KeyAssumption
<1>2. Nibble # 0 /\ Nibble # 1
  BY <1>1, BaseIs
<1>3. QED
  BY <1>1, <1>2

LEMMA TwoDigits ==
  ASSUME NEW v \in Byte
  PROVE  /\ v \div Nibble \in 0 .. Nibble - 1 /\ v % Nibble \in 0 .. Nibble - 1
         /\ (v \div Nibble) * Nibble + (v % Nibble) = v
<1>1. PICK q \in Int, r \in 0 .. Nibble - 1 :
        v \div Nibble = q /\ v % Nibble = r /\ v = Nibble * q + r /\ q \in Nat
  <2>1. v \in Nat /\ Nibble \in Nat \ {0} /\ v \in Int
    BY BytesAreNats, NibbleIs
  <2>2. QED
    BY <2>1, DivMod
<1>2. q < Nibble
  <2> SUFFICES ASSUME q >= Nibble PROVE FALSE
    BY <1>1, NibbleIs
  <2>1. Nibble * Nibble <= Nibble * q
    BY <1>1, NibbleIs, MulMono
  <2>2. Nibble * q \in Nat
    BY <1>1, NibbleIs, MulComm
  <2>3. QED
    BY <2>1, <2>2, <1>1, NibbleIs, BaseIs DEF Byte
<1>3. q * Nibble = Nibble * q
  BY <1>1, NibbleIs, MulComm
<1>4. QED
  BY <1>1, <1>2, <1>3, NibbleIs

LEMMA PairIs ==
  ASSUME NEW S, NEW a \in S, NEW b \in S
  PROVE  <<a, b>> \in Seq(S) /\ Len(<<a, b>>) = 2 /\ <<a, b>>[1] = a /\ <<a, b>>[2] = b
<1>1. <<a, b>> \in [1 .. 2 -> S]
  OBVIOUS
<1>2. QED
  BY <1>1, SeqOfFun

\* The digits of to_hex, one by one.
LEMMA HexIs ==
  ASSUME NEW s \in Seq(Byte)
  PROVE  /\ to_hex(s) \in Seq(0 .. Nibble - 1) /\ Len(to_hex(s)) = 2 * Len(s)
         /\ \A i \in 1 .. Len(s) : /\ to_hex(s)[2 * i - 1] = s[i] \div Nibble
                                   /\ to_hex(s)[2 * i] = s[i] % Nibble
<1> DEFINE n == Len(s)
           D == 0 .. Nibble - 1
           bins == [i \in DOMAIN s |-> <<s[i] \div Nibble, s[i] % Nibble>>]
<1>0. n \in Nat /\ DOMAIN s = 1 .. n /\ \A i \in 1 .. n : s[i] \in Byte
  BY LenProperties, ElementOfSeq
<1>1. \A i \in 1 .. n : /\ bins[i] \in Seq(D) /\ Len(bins[i]) = 2
                        /\ bins[i][1] = s[i] \div Nibble /\ bins[i][2] = s[i] % Nibble
  <2>1. ASSUME NEW i \in 1 .. n
        PROVE  /\ bins[i] \in Seq(D) /\ Len(bins[i]) = 2
               /\ bins[i][1] = s[i] \div Nibble /\ bins[i][2] = s[i] % Nibble
    <3>1. PICK x, y : x = s[i] \div Nibble /\ y = s[i] % Nibble
      OBVIOUS
    <3>2. x \in D /\ y \in D
      BY <1>0, <3>1, TwoDigits
    <3>3. bins[i] = <<x, y>>
      BY <1>0, <3>1
    <3> HIDE DEF bins, D
    <3>4. QED
      BY <3>1, <3>2, <3>3, PairIs
  <2>2. QED
    BY <2>1
<1>2. bins \in Seq(Seq(D)) /\ Len(bins) = n
  <2>1. bins \in [1 .. n -> Seq(D)]
    <3>1. bins = [i \in 1 .. n |-> bins[i]]
      BY <1>0
    <3> HIDE DEF bins, D
    <3>2. QED
      BY <3>1, <1>1
  <2> HIDE DEF bins, D
  <2>2. QED
    BY <2>1, <1>0, SeqOfFun
<1>3. to_hex(s) = FlattenSeq(bins)
  BY DEF to_hex
<1> HIDE DEF bins, D
<1>4. PICK f \in [0 .. n -> Seq(D)] : Joins(f, bins) /\ FlattenSeq(bins) = f[n]
  BY <1>2, FlattenIs
<1> DEFINE P(k) == /\ Len(f[k]) = 2 * k
                   /\ \A i \in 1 .. k : /\ f[k][2 * i - 1] = s[i] \div Nibble
                                        /\ f[k][2 * i] = s[i] % Nibble
           T == {k \in Nat : k <= n => P(k)}
<1>5. 0 \in T
  BY <1>4, EmptySeq DEF Joins
<1>6. ASSUME NEW k \in Nat, k \in T PROVE k + 1 \in T
  <2> SUFFICES ASSUME k + 1 <= n PROVE P(k + 1)
    OBVIOUS
  <2>1. P(k)
    BY <1>6, <1>0
  <2>2. k \in 0 .. Len(bins) - 1 /\ k \in 0 .. n /\ k + 1 \in 1 .. n
    BY <1>0, <1>2
  <2>3. f[k + 1] = f[k] \o bins[k + 1] /\ f[k] \in Seq(D)
    BY <1>4, <2>2 DEF Joins
  <2>4. PICK a, b, c : a = f[k] /\ b = bins[k + 1] /\ c = f[k + 1]
    OBVIOUS
  <2>5. /\ b \in Seq(D) /\ Len(b) = 2
        /\ b[1] = s[k + 1] \div Nibble /\ b[2] = s[k + 1] % Nibble
    BY <1>1, <2>2, <2>4
  <2>6. a \in Seq(D) /\ c = a \o b /\ Len(a) = 2 * k
    BY <2>1, <2>3, <2>4
  <2>7. /\ Len(c) = 2 * k + 2
        /\ \A i \in 1 .. 2 * k + 2 : c[i] = IF i <= 2 * k THEN a[i] ELSE b[i - 2 * k]
    BY <2>5, <2>6, ConcatProperties
  <2>8. ASSUME NEW i \in 1 .. k + 1
        PROVE  c[2 * i - 1] = s[i] \div Nibble /\ c[2 * i] = s[i] % Nibble
    <3>0. 2 * i - 1 \in 1 .. 2 * k + 2 /\ 2 * i \in 1 .. 2 * k + 2
      OBVIOUS
    <3>1. CASE i <= k
      <4>1. 2 * i - 1 <= 2 * k /\ 2 * i <= 2 * k /\ i \in 1 .. k
        BY <3>1
      <4>2. c[2 * i - 1] = a[2 * i - 1] /\ c[2 * i] = a[2 * i]
        BY <3>0, <4>1, <2>7
      <4>3. QED
        BY <4>1, <4>2, <2>1, <2>4
    <3>2. CASE i = k + 1
      <4>1. ~(2 * i - 1 <= 2 * k) /\ ~(2 * i <= 2 * k)
            /\ (2 * i - 1) - 2 * k = 1 /\ 2 * i - 2 * k = 2
        BY <3>2
      <4>2. c[2 * i - 1] = b[1] /\ c[2 * i] = b[2]
        BY <3>0, <4>1, <2>7
      <4>3. QED
        BY <4>2, <3>2, <2>5
    <3>3. QED
      BY <3>1, <3>2
  <2>9. QED
    BY <2>4, <2>7, <2>8
<1> HIDE DEF T
<1>7. \A k \in Nat : k \in T
  BY <1>5, <1>6, NatInduct
<1>8. P(n)
  <2>1. n \in T /\ n <= n
    BY <1>0, <1>7
  <2> HIDE DEF P
  <2>2. QED
    BY <2>1 DEF T
<1>9. f[n] \in Seq(D)
  BY <1>0, <1>4
<1>10. QED
  BY <1>3, <1>4, <1>8, <1>9 DEF D

\* from_hex undoes to_hex.
LEMMA HexBack ==
  ASSUME NEW s \in Seq(Byte)
  PROVE  from_hex(to_hex(s)) = s
<1>1. PICK t, n : t = to_hex(s) /\ n = Len(s)
  OBVIOUS
<1>2. /\ n \in Nat /\ Len(t) = 2 * n /\ s \in [1 .. n -> Byte]
      /\ \A i \in 1 .. n : t[2 * i - 1] = s[i] \div Nibble /\ t[2 * i] = s[i] % Nibble
  BY <1>1, HexIs, LenProperties
<1>3. Len(t) % 2 # 1 /\ Len(t) \div 2 = n
  BY <1>2
<1>4. from_hex(t) = [i \in 1 .. n |-> strtol(t[2 * i - 1], t[2 * i])]
  BY <1>3 DEF from_hex
<1>5. ASSUME NEW i \in 1 .. n PROVE strtol(t[2 * i - 1], t[2 * i]) = s[i]
  <2>1. PICK h, l : h = t[2 * i - 1] /\ l = t[2 * i]
    OBVIOUS
  <2>2. h \in 0 .. Nibble - 1 /\ l \in 0 .. Nibble - 1 /\ h * Nibble + l = s[i]
    <3>1. s[i] \in Byte /\ h = s[i] \div Nibble /\ l = s[i] % Nibble
      BY <1>2, <2>1
    <3>2. QED
      BY <3>1, TwoDigits
  <2>3. h # Nibble /\ l # Nibble
    BY <2>2, NibbleIs
  <2>4. QED
    BY <2>1, <2>2, <2>3 DEF strtol, NoDigit
<1>6. QED
  BY <1>1, <1>2, <1>4, <1>5

\* The number of a text is that of the bytes.
LEMMA HexNumber ==
  ASSUME NEW s \in Seq(Byte)
  PROVE  NumberOf(to_hex(s), Nibble) = NumberOf(s, Base)
<1>1. PICK t, n : t = to_hex(s) /\ n = Len(s)
  OBVIOUS
<1>2. /\ n \in Nat /\ Len(t) = 2 * n /\ s \in Seq(Nat) /\ t \in Seq(0 .. Nibble - 1)
      /\ \A i \in 1 .. n : s[i] \in Byte
      /\ \A i \in 1 .. n : t[2 * i - 1] = s[i] \div Nibble /\ t[2 * i] = s[i] % Nibble
  BY <1>1, HexIs, BytesAreNats, ElementOfSeq
<1>3. t \in Seq(Nat)
  <2>1. 0 .. Nibble - 1 \subseteq Nat
    BY NibbleIs
  <2>2. QED
    BY <1>2, <2>1, SeqMonotonic
<1>4. PICK f \in [0 .. Len(t) -> Nat] : Counts(f, t, Nibble) /\ NumberOf(t, Nibble) = f[Len(t)]
  BY <1>3, NibbleIs, NumberOfIs
<1> DEFINE g == [i \in 0 .. n |-> f[2 * i]]
<1>5. Counts(g, s, Base)
  <2>1. g[0] = 0
    <3>1. g[0] = f[0]
      BY <1>2
    <3>2. QED
      BY <3>1, <1>4 DEF Counts
  <2>2. ASSUME NEW i \in 0 .. Len(s) - 1 PROVE g[i + 1] = g[i] * Base + s[i + 1]
    <3>1. /\ 2 * i \in 0 .. Len(t) - 1 /\ 2 * i + 1 \in 0 .. Len(t) - 1 /\ i + 1 \in 1 .. n
          /\ (2 * i + 1) + 1 = 2 * (i + 1) /\ 2 * i + 1 = 2 * (i + 1) - 1
          /\ i \in 0 .. n /\ i + 1 \in 0 .. n /\ 2 * i \in 0 .. Len(t)
      BY <1>1, <1>2
    <3>2. PICK x, h, l : x = f[2 * i] /\ h = t[2 * i + 1] /\ l = t[(2 * i + 1) + 1]
      OBVIOUS
    <3>3. f[2 * i + 1] = x * Nibble + h
      BY <1>4, <3>1, <3>2 DEF Counts
    <3>4. f[(2 * i + 1) + 1] = f[2 * i + 1] * Nibble + l
      BY <1>4, <3>1, <3>2 DEF Counts
    <3>5. g[i] = x /\ g[i + 1] = f[(2 * i + 1) + 1]
      BY <3>1, <3>2
    <3>6. h * Nibble + l = s[i + 1] /\ h \in Nat /\ l \in Nat
      <4>1. h = s[i + 1] \div Nibble /\ l = s[i + 1] % Nibble /\ s[i + 1] \in Byte
        BY <1>2, <3>1, <3>2
      <4>2. /\ s[i + 1] \div Nibble \in 0 .. Nibble - 1 /\ s[i + 1] % Nibble \in 0 .. Nibble - 1
            /\ (s[i + 1] \div Nibble) * Nibble + (s[i + 1] % Nibble) = s[i + 1]
        BY <4>1, TwoDigits
      <4>3. QED
        BY <4>1, <4>2, NibbleIs
    <3>7. x \in Nat
      BY <1>4, <3>1, <3>2
    <3>8. (x * Nibble + h) * Nibble = x * Base + h * Nibble
      <4>1. x * (Nibble * Nibble) = (x * Nibble) * Nibble
        BY <3>7, NibbleIs, MulAssoc
      <4>2. PICK a : a = x * Nibble /\ a \in Nat
        BY <3>7, NibbleIs, MulComm
      <4>3. (a + h) * Nibble = Nibble * (a + h) /\ a * Nibble = Nibble * a
            /\ h * Nibble = Nibble * h
        BY <4>2, <3>6, NibbleIs, MulComm
      <4>4. Nibble * (a + h) = Nibble * a + Nibble * h
        BY <4>2, <3>6, NibbleIs, Distrib
      <4>5. QED
        BY <4>1, <4>2, <4>3, <4>4, NibbleIs
    <3>9. x * Base \in Int /\ h * Nibble \in Int
      BY <3>6, <3>7, NibbleIs, BaseIs, MulComm
    <3>10. QED
      <4> HIDE DEF g
      <4>1. g[i + 1] = (x * Nibble + h) * Nibble + l
        BY <3>3, <3>4, <3>5
      <4>2. g[i + 1] = (x * Base + h * Nibble) + l
        BY <4>1, <3>8
      <4>3. QED
        BY <4>2, <3>5, <3>6, <3>9
  <2> HIDE DEF g
  <2>3. QED
    BY <2>1, <2>2 DEF Counts
<1>6. g[n] = f[2 * n]
  BY <1>2
<1> HIDE DEF g
<1>7. NumberOf(s, Base) = g[n]
  BY <1>1, <1>2, <1>5, BaseIs, NumberSolves
<1>8. QED
  BY <1>1, <1>2, <1>4, <1>6, <1>7

\* A hash is read back from its text, whose number is the hash's.
LEMMA HashBack ==
  ASSUME NEW h \in Seq(Byte)
  PROVE  /\ rstr_to_uint256(uint256_to_rstr(h)) = h
         /\ setuint256(h) = NumberOf(uint256_to_rstr(h), Nibble)
<1>1. Reverse(h) \in Seq(Byte) /\ Reverse(Reverse(h)) = h
  BY ReverseIs, ReverseTwice
<1>2. QED
  BY <1>1, HexBack, HexNumber, Uint256Is DEF rstr_to_uint256, uint256_to_rstr

----------------------------------------------------------------------------
(* SetHex.                                                                 *)

\* What a test for the first elements counts: those before the first that
\* fails it.
LEMMA CountFirst ==
  ASSUME NEW S, NEW s \in Seq(S), NEW ok \in SUBSET S, NEW k \in 0 .. Len(s),
         \A i \in 1 .. k : s[i] \in ok, k < Len(s) => s[k + 1] \notin ok
  PROVE  Cardinality({i \in DOMAIN s : \A j \in 1 .. i : s[j] \in ok}) = k
<1>1. Len(s) \in Nat /\ DOMAIN s = 1 .. Len(s) /\ k \in Nat
  BY LenProperties
<1>2. {i \in DOMAIN s : \A j \in 1 .. i : s[j] \in ok} = 1 .. k
  <2>1. ASSUME NEW i \in 1 .. Len(s), \A j \in 1 .. i : s[j] \in ok PROVE i <= k
    <3> SUFFICES ASSUME k < i PROVE FALSE
      BY <1>1
    <3>1. k + 1 \in 1 .. i /\ k < Len(s)
      BY <1>1
    <3>2. QED
      BY <3>1, <2>1
  <2>2. ASSUME NEW i \in 1 .. k PROVE i \in 1 .. Len(s) /\ \A j \in 1 .. i : s[j] \in ok
    <3>1. \A j \in 1 .. i : j \in 1 .. k
      BY <1>1
    <3>2. QED
      BY <3>1, <1>1
  <2>3. QED
    BY <2>1, <2>2, <1>1
<1>3. Cardinality(1 .. k) = k
  <2>1. Cardinality(1 .. k) = IF 1 > k THEN 0 ELSE k - 1 + 1
    BY <1>1, FS_Interval
  <2>2. QED
    BY <2>1, <1>1
<1>4. QED
  BY <1>2, <1>3

\* Concatenation is associative.
LEMMA OneByOne ==
  ASSUME NEW s \in Seq(Nat), NEW t \in Seq(Nat), NEW u \in Seq(Nat)
  PROVE  (s \o t) \o u = s \o (t \o u)
<1>1. PICK a, b, x, y : a = s \o t /\ b = t \o u /\ x = a \o u /\ y = s \o b
  OBVIOUS
<1>2. Len(s) \in Nat /\ Len(t) \in Nat /\ Len(u) \in Nat
  BY LenProperties
<1>3. /\ a \in Seq(Nat) /\ Len(a) = Len(s) + Len(t)
      /\ \A i \in 1 .. Len(s) + Len(t) : a[i] = IF i <= Len(s) THEN s[i] ELSE t[i - Len(s)]
  BY <1>1, ConcatProperties
<1>4. /\ b \in Seq(Nat) /\ Len(b) = Len(t) + Len(u)
      /\ \A i \in 1 .. Len(t) + Len(u) : b[i] = IF i <= Len(t) THEN t[i] ELSE u[i - Len(t)]
  BY <1>1, ConcatProperties
<1>5. /\ x \in Seq(Nat) /\ Len(x) = Len(a) + Len(u)
      /\ \A i \in 1 .. Len(a) + Len(u) : x[i] = IF i <= Len(a) THEN a[i] ELSE u[i - Len(a)]
  BY <1>1, <1>3, ConcatProperties
<1>6. /\ y \in Seq(Nat) /\ Len(y) = Len(s) + Len(b)
      /\ \A i \in 1 .. Len(s) + Len(b) : y[i] = IF i <= Len(s) THEN s[i] ELSE b[i - Len(s)]
  BY <1>1, <1>4, ConcatProperties
<1>7. Len(x) = Len(y) /\ Len(x) = Len(s) + Len(t) + Len(u)
  BY <1>2, <1>3, <1>4, <1>5, <1>6
<1>8. ASSUME NEW i \in 1 .. Len(x) PROVE x[i] = y[i]
  <2>1. CASE i <= Len(s)
    <3>1. i \in 1 .. Len(s) + Len(t) /\ i <= Len(a)
      BY <1>2, <1>3, <2>1
    <3>2. x[i] = s[i] /\ y[i] = s[i]
      BY <1>2, <1>3, <1>4, <1>5, <1>6, <1>7, <2>1, <3>1
    <3>3. QED
      BY <3>2
  <2>2. CASE Len(s) < i /\ i <= Len(s) + Len(t)
    <3>1. /\ i \in 1 .. Len(s) + Len(t) /\ i <= Len(a) /\ ~(i <= Len(s))
          /\ i - Len(s) \in 1 .. Len(t) + Len(u) /\ i - Len(s) <= Len(t)
      BY <1>2, <1>3, <2>2
    <3>2. x[i] = t[i - Len(s)]
      BY <1>2, <1>3, <1>5, <3>1
    <3>3. y[i] = t[i - Len(s)]
      BY <1>2, <1>4, <1>6, <1>7, <3>1
    <3>4. QED
      BY <3>2, <3>3
  <2>3. CASE Len(s) + Len(t) < i
    <3>1. /\ ~(i <= Len(a)) /\ ~(i <= Len(s)) /\ i - Len(a) = (i - Len(s)) - Len(t)
          /\ i - Len(s) \in 1 .. Len(t) + Len(u) /\ ~(i - Len(s) <= Len(t))
      BY <1>2, <1>3, <1>7, <2>3
    <3>2. x[i] = u[i - Len(a)]
      BY <1>2, <1>3, <1>5, <1>7, <3>1
    <3>3. y[i] = u[(i - Len(s)) - Len(t)]
      BY <1>2, <1>4, <1>6, <1>7, <3>1
    <3>4. QED
      BY <3>1, <3>2, <3>3
  <2>4. QED
    BY <1>2, <1>7, <2>1, <2>2, <2>3
<1>9. x = y
  BY <1>5, <1>6, <1>7, <1>8, SeqEqual
<1>10. QED
  BY <1>1, <1>9

LEMMA DropFirst ==
  ASSUME NEW S, NEW p \in Seq(S), NEW r \in Seq(S)
  PROVE  SubSeq(p \o r, Len(p) + 1, Len(p \o r)) = r
<1>1. PICK t, n : t = p \o r /\ n = Len(p)
  OBVIOUS
<1>2. /\ t \in Seq(S) /\ Len(t) = n + Len(r) /\ n \in Nat /\ Len(r) \in Nat
      /\ \A i \in 1 .. n + Len(r) : t[i] = IF i <= n THEN p[i] ELSE r[i - n]
  BY <1>1, ConcatProperties, LenProperties
<1>3. PICK u : u = SubSeq(t, n + 1, Len(t))
  OBVIOUS
<1>4. \A i \in n + 1 .. Len(t) : t[i] \in S
  <2>1. \A i \in n + 1 .. Len(t) : i \in 1 .. Len(t)
    BY <1>2
  <2>2. QED
    BY <1>2, <2>1, ElementOfSeq
<1>5. /\ u \in Seq(S) /\ Len(u) = (IF n + 1 <= Len(t) THEN Len(t) - (n + 1) + 1 ELSE 0)
      /\ \A i \in 1 .. Len(t) - (n + 1) + 1 : u[i] = t[(n + 1) + i - 1]
  <2>1. n + 1 \in Int /\ Len(t) \in Int
    BY <1>2
  <2>2. QED
    BY <1>3, <1>4, <2>1, SubSeqProperties
<1>6. Len(u) = Len(r)
  BY <1>2, <1>5
<1>7. ASSUME NEW i \in 1 .. Len(u) PROVE u[i] = r[i]
  <2>1. /\ i \in 1 .. Len(t) - (n + 1) + 1 /\ (n + 1) + i - 1 = n + i
        /\ n + i \in 1 .. n + Len(r) /\ ~(n + i <= n) /\ (n + i) - n = i
    BY <1>2, <1>6
  <2>2. QED
    BY <2>1, <1>2, <1>5
<1>8. u = r
  BY <1>5, <1>6, <1>7, SeqEqual
<1>9. QED
  BY <1>1, <1>3, <1>8

Spaces(s) == s \in Seq(Nat) /\ \A i \in 1 .. Len(s) : s[i] = Space

\* SkipSpaces skips all spaces in front, and no more.
LEMMA Skips ==
  ASSUME NEW p, Spaces(p), NEW r \in Seq(Nat), r # <<>> => r[1] # Space
  PROVE  SkipSpaces(p \o r) = r
<1>1. PICK t, n : t = p \o r /\ n = Len(p)
  OBVIOUS
<1>2. p \in Seq(Nat) /\ \A i \in 1 .. n : p[i] = Space
  BY <1>1 DEF Spaces
<1>3. /\ t \in Seq(Nat) /\ Len(t) = n + Len(r) /\ n \in Nat /\ Len(r) \in Nat
      /\ \A i \in 1 .. n + Len(r) : t[i] = IF i <= n THEN p[i] ELSE r[i - n]
  BY <1>1, <1>2, ConcatProperties, LenProperties
<1>4. Space \in Nat /\ {Space} \in SUBSET Nat
  BY DEF Space, HexBase
<1>5. \A i \in 1 .. n : t[i] \in {Space}
  <2>1. \A i \in 1 .. n : i <= n /\ i \in 1 .. n + Len(r)
    BY <1>3
  <2>2. QED
    BY <2>1, <1>2, <1>3
<1>6. n < Len(t) => t[n + 1] \notin {Space}
  <2> SUFFICES ASSUME n < Len(t) PROVE t[n + 1] # Space
    OBVIOUS
  <2>1. r # <<>>
    BY <1>3, EmptySeq
  <2>2. n + 1 \in 1 .. n + Len(r) /\ ~(n + 1 <= n) /\ (n + 1) - n = 1
    BY <1>3
  <2>3. QED
    BY <2>1, <2>2, <1>3
<1>7. Cardinality({i \in DOMAIN t : \A j \in 1 .. i : t[j] \in {Space}}) = n
  <2>1. n \in 0 .. Len(t)
    BY <1>3
  <2>2. QED
    BY <2>1, <1>3, <1>4, <1>5, <1>6, CountFirst
<1>8. SkipSpaces(t) = SubSeq(t, 1 + n, Len(t))
  <2>1. {i \in DOMAIN t : \A j \in 1 .. i : t[j] \in {Space}}
          = {i \in DOMAIN t : \A j \in 1 .. i : t[j] = Space}
    OBVIOUS
  <2>2. QED
    BY <1>7, <2>1 DEF SkipSpaces
<1>9. QED
  <2>1. 1 + n = n + 1
    BY <1>3
  <2>2. SubSeq(t, n + 1, Len(t)) = r
    BY <1>1, <1>2, DropFirst
  <2>3. QED
    BY <2>1, <2>2, <1>1, <1>8

\* HexDigits of digits only is all of them.
LEMMA AllDigits ==
  ASSUME NEW s \in Seq(0 .. HexBase - 1)
  PROVE  HexDigits(s) = s
<1>1. s \in Seq(Nat) /\ Len(s) \in Nat /\ DOMAIN s = 1 .. Len(s)
      /\ \A i \in 1 .. Len(s) : s[i] \in 0 .. HexBase - 1
  <2>1. 0 .. HexBase - 1 \subseteq Nat
    BY DEF HexBase
  <2>2. QED
    BY <2>1, SeqMonotonic, LenProperties, ElementOfSeq
<1>2. {i \in DOMAIN s : \A j \in 1 .. i : s[j] < HexBase} = 1 .. Len(s)
  <2>1. ASSUME NEW i \in 1 .. Len(s), NEW j \in 1 .. i PROVE s[j] < HexBase
    <3>1. j \in 1 .. Len(s)
      BY <1>1
    <3>2. s[j] \in 0 .. HexBase - 1
      BY <3>1, <1>1
    <3>3. QED
      BY <3>2 DEF HexBase
  <2>2. QED
    BY <2>1, <1>1
<1>3. Cardinality(1 .. Len(s)) = Len(s)
  <2>1. Cardinality(1 .. Len(s)) = IF 1 > Len(s) THEN 0 ELSE Len(s) - 1 + 1
    BY <1>1, FS_Interval
  <2>2. QED
    BY <2>1, <1>1
<1>4. SubSeq(s, 1, Len(s)) = s
  BY SubSeqFull
<1>5. QED
  BY <1>2, <1>3, <1>4 DEF HexDigits

\* The digits with spaces before them, behind 0x or not.
LEMMA DigitsText ==
  ASSUME NEW e \in Seq(0 .. HexBase - 1), e # <<>>, NEW d, Spaces(d)
  PROVE  /\ e \in Seq(Nat) /\ e[1] # Space /\ e[1] # Minus
         /\ HexDigits(SkipSpaces(d \o e)) = e
         /\ ~(Len(d \o e) >= 2 /\ (d \o e)[1] = 0 /\ (d \o e)[2] = LetterX)
         /\ d \o e \in Seq(Nat)
<1>1. e \in Seq(Nat) /\ Len(e) \in Nat \ {0} /\ \A i \in 1 .. Len(e) : e[i] \in 0 .. HexBase - 1
  <2>1. 0 .. HexBase - 1 \subseteq Nat
    BY DEF HexBase
  <2>2. QED
    BY <2>1, SeqMonotonic, EmptySeq, ElementOfSeq
<1>2. e[1] # Space /\ e[1] # Minus
  <2>1. 1 \in 1 .. Len(e)
    BY <1>1
  <2>2. e[1] \in 0 .. HexBase - 1
    BY <1>1, <2>1
  <2>3. QED
    BY <2>2 DEF Space, Minus, HexBase
<1>3. SkipSpaces(d \o e) = e
  BY <1>1, <1>2, Skips
<1>4. HexDigits(e) = e
  BY AllDigits
<1>5. PICK t, n : t = d \o e /\ n = Len(d)
  OBVIOUS
<1>6. d \in Seq(Nat) /\ \A i \in 1 .. n : d[i] = Space
  BY <1>5 DEF Spaces
<1>7. /\ t \in Seq(Nat) /\ Len(t) = n + Len(e) /\ n \in Nat
      /\ \A i \in 1 .. n + Len(e) : t[i] = IF i <= n THEN d[i] ELSE e[i - n]
  BY <1>1, <1>5, <1>6, ConcatProperties, LenProperties
<1>8. ~(Len(t) >= 2 /\ t[1] = 0 /\ t[2] = LetterX)
  <2>1. CASE n = 0
    <3> SUFFICES ASSUME Len(t) >= 2 PROVE t[2] # LetterX
      OBVIOUS
    <3>1. 2 \in 1 .. n + Len(e) /\ ~(2 <= n) /\ 2 - n = 2 /\ 2 \in 1 .. Len(e)
      BY <2>1, <1>1, <1>7
    <3>2. t[2] = e[2] /\ e[2] \in 0 .. HexBase - 1
      BY <3>1, <1>1, <1>7
    <3>3. QED
      BY <3>2 DEF LetterX, HexBase
  <2>2. CASE n # 0
    <3>1. 1 \in 1 .. n /\ 1 \in 1 .. n + Len(e) /\ 1 <= n
      BY <2>2, <1>1, <1>7
    <3>2. t[1] = Space
      BY <3>1, <1>6, <1>7
    <3>3. QED
      BY <3>2 DEF Space, HexBase
  <2>3. QED
    BY <2>1, <2>2
<1>9. QED
  BY <1>1, <1>2, <1>3, <1>4, <1>5, <1>7, <1>8

Unprefixed(u) ==
  IF Len(u) >= 2 /\ u[1] = 0 /\ u[2] = LetterX THEN SubSeq(u, 3, Len(u)) ELSE u

\* What a text is after its sign.
Unsigned(e, d, fX) == IF fX THEN <<0, LetterX>> \o (d \o e) ELSE d \o e

LEMMA UnsignedText ==
  ASSUME NEW e \in Seq(0 .. HexBase - 1), e # <<>>, NEW d, Spaces(d), NEW fX \in BOOLEAN,
         NEW u, u = Unsigned(e, d, fX)
  PROVE  /\ u \in Seq(Nat)
         /\ fX => u # <<>> /\ u[1] = 0
         /\ HexDigits(SkipSpaces(Unprefixed(u))) = e
<1>1. PICK r : r = d \o e
  OBVIOUS
<1>2. /\ r \in Seq(Nat) /\ HexDigits(SkipSpaces(r)) = e
      /\ ~(Len(r) >= 2 /\ r[1] = 0 /\ r[2] = LetterX)
  BY <1>1, DigitsText
<1>3. CASE fX
  <2>1. PICK x : x = <<0, LetterX>>
    OBVIOUS
  <2>2. x \in Seq(Nat) /\ Len(x) = 2 /\ x[1] = 0 /\ x[2] = LetterX
    <3>1. 0 \in Nat /\ LetterX \in Nat
      BY DEF LetterX, HexBase
    <3>2. QED
      BY <3>1, <2>1, PairIs
  <2>3. u = x \o r
    BY <1>1, <1>3, <2>1 DEF Unsigned
  <2>4. /\ u \in Seq(Nat) /\ Len(u) = 2 + Len(r) /\ Len(r) \in Nat
        /\ \A i \in 1 .. 2 + Len(r) : u[i] = IF i <= 2 THEN x[i] ELSE r[i - 2]
    <3>1. x \in Seq(Nat) /\ r \in Seq(Nat)
      BY <1>2, <2>2
    <3>2. /\ u \in Seq(Nat) /\ Len(u) = Len(x) + Len(r) /\ Len(r) \in Nat
          /\ \A i \in 1 .. Len(x) + Len(r) : u[i] = IF i <= Len(x) THEN x[i] ELSE r[i - Len(x)]
      BY <3>1, <2>3, ConcatProperties, LenProperties
    <3>3. QED
      BY <3>2, <2>2
  <2>5. Len(u) >= 2 /\ u[1] = 0 /\ u[2] = LetterX
    <3>1. 1 \in 1 .. 2 + Len(r) /\ 2 \in 1 .. 2 + Len(r)
      BY <2>4
    <3>2. QED
      BY <3>1, <2>2, <2>4
  <2>6. SubSeq(u, 3, Len(u)) = r
    <3>1. SubSeq(x \o r, Len(x) + 1, Len(x \o r)) = r
      BY <1>2, <2>2, DropFirst
    <3>2. QED
      BY <3>1, <2>2, <2>3
  <2>7. u # <<>>
    BY <2>5, EmptySeq
  <2>8. QED
    BY <1>2, <2>4, <2>5, <2>6, <2>7 DEF Unprefixed
<1>4. CASE ~fX
  BY <1>1, <1>2, <1>4 DEF Unsigned, Unprefixed
<1>5. QED
  BY <1>3, <1>4

\* Spaces, a minus, 0x and spaces again change nothing but the sign.
LEMMA SetHexIs ==
  ASSUME NEW e \in Seq(0 .. HexBase - 1), e # <<>>, NEW d, Spaces(d), NEW a, Spaces(a),
         NEW fX \in BOOLEAN, NEW neg \in BOOLEAN
  PROVE  SetHex((((a \o (IF neg THEN <<Minus>> ELSE <<>>))
                    \o (IF fX THEN <<0, LetterX>> ELSE <<>>)) \o d) \o e)
           = Signed(neg, NumberOf(e, HexBase))
<1>1. PICK u : u = Unsigned(e, d, fX)
  OBVIOUS
<1>2. PICK digits : digits = Unprefixed(u)
  OBVIOUS
<1>3. /\ u \in Seq(Nat) /\ (fX => u # <<>> /\ u[1] = 0)
      /\ HexDigits(SkipSpaces(digits)) = e
  BY <1>1, <1>2, UnsignedText
<1>4. PICK m, x : m = (IF neg THEN <<Minus>> ELSE <<>>) /\ x = (IF fX THEN <<0, LetterX>> ELSE <<>>)
  OBVIOUS
<1>5. /\ m \in Seq(Nat) /\ x \in Seq(Nat) /\ a \in Seq(Nat) /\ d \in Seq(Nat)
      /\ e \in Seq(Nat) /\ d \o e \in Seq(Nat) /\ e[1] # Space /\ e[1] # Minus
  <2>1. 0 \in Nat /\ LetterX \in Nat /\ Minus \in Nat
    BY DEF LetterX, Minus, HexBase
  <2>2. <<0, LetterX>> \in Seq(Nat) /\ <<Minus>> \in Seq(Nat) /\ <<>> \in Seq(Nat)
    BY <2>1, PairIs, OneIs, EmptySeq
  <2>3. QED
    BY <2>2, <1>4, DigitsText DEF Spaces
<1>6. x \o (d \o e) = u
  BY <1>1, <1>4, <1>5, ConcatEmptySeq DEF Unsigned
<1>7. PICK str : str = (((a \o m) \o x) \o d) \o e
  OBVIOUS
<1>8. str = a \o (m \o u)
  <2>1. PICK am, amx : am = a \o m /\ amx = am \o x
    OBVIOUS
  <2>2. am \in Seq(Nat) /\ amx \in Seq(Nat)
    BY <1>5, <2>1, ConcatProperties
  <2>a. amx \in Seq(Nat) /\ d \in Seq(Nat) /\ e \in Seq(Nat)
    BY <1>5, <2>2
  <2>b. am \in Seq(Nat) /\ x \in Seq(Nat) /\ d \o e \in Seq(Nat)
    BY <1>5, <2>2
  <2>c. a \in Seq(Nat) /\ m \in Seq(Nat) /\ u \in Seq(Nat)
    BY <1>3, <1>5
  <2>3. (amx \o d) \o e = amx \o (d \o e)
    BY <2>a, OneByOne, Zenon
  <2>4. (am \o x) \o (d \o e) = am \o (x \o (d \o e))
    BY <2>b, OneByOne, Zenon
  <2>5. (a \o m) \o u = a \o (m \o u)
    BY <2>c, OneByOne, Zenon
  <2>6. QED
    BY <1>6, <1>7, <2>1, <2>3, <2>4, <2>5
<1>9. PICK psz : psz = SkipSpaces(str)
  OBVIOUS
<1>10. CASE neg
  <2>1. m \o u \in Seq(Nat) /\ m \o u # <<>> /\ (m \o u)[1] = Minus /\ Tail(m \o u) = u
    <3>1. m = <<Minus>> /\ Minus \in Nat
      BY <1>4, <1>10 DEF Minus, HexBase
    <3>2. QED
      BY <3>1, <1>3, InFront
  <2>2. Minus # Space
    BY DEF Minus, Space, HexBase
  <2>3. psz = m \o u
    BY <1>8, <1>9, <2>1, <2>2, Skips
  <2>4. SetHex(str) = Signed(TRUE, NumberOf(HexDigits(SkipSpaces(digits)), HexBase))
    BY <1>2, <1>9, <2>1, <2>3 DEF SetHex, Unprefixed
  <2>5. QED
    BY <1>3, <1>4, <1>7, <1>10, <2>4
<1>11. CASE ~neg
  <2>1. m \o u = u
    BY <1>3, <1>4, <1>11, ConcatEmptySeq
  <2>2. CASE fX
    <3>1. u[1] # Space /\ u[1] # Minus
      BY <1>3, <2>2 DEF Space, Minus, HexBase
    <3>2. psz = u
      BY <1>3, <1>8, <1>9, <2>1, <3>1, Skips
    <3>3. SetHex(str) = Signed(FALSE, NumberOf(HexDigits(SkipSpaces(digits)), HexBase))
      BY <1>2, <1>9, <3>1, <3>2 DEF SetHex, Unprefixed
    <3>4. QED
      BY <1>3, <1>4, <1>7, <1>11, <3>3
  <2>3. CASE ~fX
    <3>1. u = d \o e
      BY <1>1, <2>3 DEF Unsigned
    <3>2. a \o (d \o e) = (a \o d) \o e
      BY <1>5, OneByOne
    <3>3. Spaces(a \o d)
      <4>1. /\ a \o d \in Seq(Nat) /\ Len(a \o d) = Len(a) + Len(d)
            /\ \A i \in 1 .. Len(a) + Len(d) :
                 (a \o d)[i] = IF i <= Len(a) THEN a[i] ELSE d[i - Len(a)]
        BY <1>5, ConcatProperties
      <4>2. Len(a) \in Nat /\ Len(d) \in Nat
        BY <1>5, LenProperties
      <4>3. ASSUME NEW i \in 1 .. Len(a) + Len(d) PROVE (a \o d)[i] = Space
        <5>1. CASE i <= Len(a)
          BY <5>1, <4>1, <4>2 DEF Spaces
        <5>2. CASE ~(i <= Len(a))
          <6>1. i - Len(a) \in 1 .. Len(d)
            BY <5>2, <4>2
          <6>2. QED
            BY <5>2, <6>1, <4>1 DEF Spaces
        <5>3. QED
          BY <5>1, <5>2
      <4>4. QED
        BY <4>1, <4>3 DEF Spaces
    <3>4. psz = e
      BY <1>5, <1>8, <1>9, <2>1, <3>1, <3>2, <3>3, Skips
    <3>5. Spaces(<<>>) /\ <<>> \o e = e
      BY <1>5, EmptySeq, ConcatEmptySeq DEF Spaces
    <3>6. PICK z : z = <<>>
      OBVIOUS
    <3>7. z \o e = e /\ Spaces(z)
      BY <3>5, <3>6
    <3>8. ~(Len(e) >= 2 /\ e[1] = 0 /\ e[2] = LetterX) /\ HexDigits(SkipSpaces(e)) = e
      <4>1. /\ HexDigits(SkipSpaces(z \o e)) = e
            /\ ~(Len(z \o e) >= 2 /\ (z \o e)[1] = 0 /\ (z \o e)[2] = LetterX)
        BY <3>7, DigitsText
      <4>2. QED
        BY <4>1, <3>7
    <3>9. SetHex(str) = Signed(FALSE, NumberOf(HexDigits(SkipSpaces(e)), HexBase))
      BY <1>5, <1>9, <3>4, <3>8 DEF SetHex, Unprefixed
    <3>10. QED
      BY <1>4, <1>7, <1>11, <3>8, <3>9
  <2>4. QED
    BY <2>2, <2>3
<1>12. QED
  BY <1>10, <1>11

LEMMA SpacesAre ==
  ASSUME NEW k \in Nat
  PROVE  Spaces([i \in 1 .. k |-> Space])
<1> DEFINE s == [i \in 1 .. k |-> Space]
<1>1. s \in [1 .. k -> Nat] /\ \A i \in 1 .. k : s[i] = Space
  BY DEF Space, HexBase
<1> HIDE DEF s
<1>2. QED
  BY <1>1, SeqOfFun DEF Spaces, s

\* The text of a natural is its digits; of 0 it is one zero.
LEMMA HexText ==
  ASSUME NEW n \in Nat
  PROVE  /\ BnToString(n, HexBase) \in Seq(0 .. HexBase - 1)
         /\ BnToString(n, HexBase) # <<>>
         /\ NumberOf(BnToString(n, HexBase), HexBase) = n
<1>0. HexBase \in Nat /\ HexBase > 1
  BY DEF HexBase
<1>1. CASE n = 0
  <2>1. BnToString(n, HexBase) = <<0>>
    BY <1>1 DEF BnToString
  <2>2. 0 \in 0 .. HexBase - 1 /\ 0 \in Nat
    BY <1>0
  <2>3. <<0>> \in Seq(0 .. HexBase - 1) /\ Len(<<0>>) = 1
    BY <2>2, OneIs
  <2>4. <<>> \in Seq(Nat) /\ Append(<<>>, 0) = <<0>>
    BY EmptySeq
  <2>5. NumberOf(<<0>>, HexBase) = 0
    <3>1. NumberOf(<<>>, HexBase) = 0
      BY <1>0, <2>4, NumberType
    <3>2. NumberOf(Append(<<>>, 0), HexBase) = NumberOf(<<>>, HexBase) * HexBase + 0
      BY <1>0, <2>2, <2>4, NumberAppend
    <3>3. QED
      BY <1>0, <2>4, <3>1, <3>2
  <2>6. <<0>> # <<>>
    BY <2>3, EmptySeq
  <2>7. QED
    BY <1>0, <1>1, <2>1, <2>3, <2>5, <2>6
<1>2. CASE n # 0
  <2>1. PICK s : s = DigitsOf(n, HexBase)
    OBVIOUS
  <2>2. s \in Seq(0 .. HexBase - 1) /\ s \in Seq(Nat) /\ s # <<>> /\ NumberOf(s, HexBase) = n
    BY <1>0, <1>2, <2>1, DigitsType
  <2>3. BnToString(n, HexBase) = <<>> \o s
    <3>1. ~(n < 0) /\ Magnitude(n) = n
      BY DEF Magnitude
    <3>2. QED
      BY <1>2, <2>1, <3>1 DEF BnToString
  <2>4. QED
    BY <2>2, <2>3, ConcatEmptySeq
<1>3. QED
  BY <1>1, <1>2

----------------------------------------------------------------------------
(* The compact form.                                                       *)

LEMMA ExactDiv ==
  ASSUME NEW a \in Nat, NEW b \in Nat \ {0}
  PROVE  (a * b) \div b = a
<1>1. a * b = b * a + 0 /\ a * b \in Int
  BY MulComm
<1>2. QED
  <2>1. PICK n \in Int : n = a * b
    BY <1>1
  <2>2. n = b * a + 0 /\ a \in Int /\ 0 \in 0 .. b - 1
    BY <1>1, <2>1
  <2>3. n \div b = a
    BY <2>2, DivIs
  <2>4. QED
    BY <2>1, <2>3

LEMMA DivBelow ==
  ASSUME NEW a \in Nat, NEW b \in Nat \ {0}
  PROVE  a \div b \in Nat /\ a \div b <= a
<1>1. PICK q \in Int, r \in 0 .. b - 1 :
        a \div b = q /\ a % b = r /\ a = b * q + r /\ q \in Nat
  BY DivMod
<1>2. q * 1 <= q * b /\ q * b = b * q /\ b * q \in Nat /\ q * 1 = q
  BY <1>1, MulMono, MulComm
<1>3. QED
  BY <1>1, <1>2

LEMMA CompactSignIs ==
  /\ CompactSign \in Nat \ {0} /\ Power[Mantissa] = 2 * CompactSign
  /\ Power[Mantissa] \in Nat \ {0} /\ Mantissa \in Nat \ {0}
<1>1. PICK m \in Nat : Mantissa = m + 1 /\ Mantissa - 1 = m
  <2>1. Mantissa - 1 \in Nat /\ Mantissa = (Mantissa - 1) + 1
    BY BigNumAssumption
  <2>2. QED
    BY <2>1
<1>2. PICK p \in Nat \ {0} : p = Power[m] /\ Power[Mantissa] = Base * p
  BY <1>1, PowerIs
<1>3. CompactSign = SignBit * p
  BY <1>1, <1>2 DEF CompactSign
<1>4. SignBit * p \in Nat \ {0}
  BY <1>2, SignBitIs
<1>5. 2 * (SignBit * p) = (2 * SignBit) * p
  BY <1>2, SignBitIs, MulAssoc
<1>6. QED
  BY <1>2, <1>3, <1>4, <1>5, SignBitIs, BigNumAssumption, PowerIs

\* What a size and a mantissa mean.
Meant(nSize, nWord) ==
  IF nSize <= Mantissa THEN nWord \div Power[Mantissa - nSize]
                       ELSE nWord * Power[nSize - Mantissa]

\* SetCompact takes size, sign and word apart again.
LEMMA SetCompactIs ==
  ASSUME NEW nSize \in Nat, NEW nWord \in 0 .. CompactSign - 1, NEW neg \in BOOLEAN
  PROVE  SetCompact(nSize * Power[Mantissa] + nWord + (IF neg THEN CompactSign ELSE 0))
           = Signed(neg, Meant(nSize, nWord))
<1>1. PICK c, p : c = CompactSign /\ p = Power[Mantissa]
  OBVIOUS
<1>2. c \in Nat \ {0} /\ p = 2 * c /\ p \in Nat \ {0} /\ nWord \in Nat /\ nWord < c
  BY <1>1, CompactSignIs
<1>3. PICK s : s = IF neg THEN 1 ELSE 0
  OBVIOUS
<1>4. s \in 0 .. 1 /\ (s = 1 <=> neg)
  BY <1>3
<1>5. PICK n : n = nSize * p + nWord + (IF neg THEN c ELSE 0)
  OBVIOUS
<1>6. PICK w : w = nWord + (IF neg THEN c ELSE 0)
  OBVIOUS
<1>7. w \in 0 .. p - 1
  BY <1>2, <1>6
<1>8. nSize * p = p * nSize /\ p * nSize \in Nat
  BY <1>2, MulComm
<1>9. n = p * nSize + w /\ n \in Nat
  BY <1>2, <1>5, <1>6, <1>7, <1>8
<1>10. n \div p = nSize
  BY <1>2, <1>7, <1>9, DivIs
<1>11. n = c * (2 * nSize + s) + nWord /\ 2 * nSize + s \in Nat
  <2>1. c * (2 * nSize + s) = c * (2 * nSize) + c * s
    BY <1>2, <1>4, Distrib
  <2>2. c * (2 * nSize) = (c * 2) * nSize /\ c * 2 = 2 * c
    BY <1>2, MulAssoc, MulComm
  <2>3. c * s = IF neg THEN c ELSE 0
    BY <1>2, <1>3
  <2>4. QED
    BY <2>1, <2>2, <2>3, <1>2, <1>4, <1>6, <1>8, <1>9
<1>12. n \div c = 2 * nSize + s /\ n % c = nWord
  <2>1. nWord \in 0 .. c - 1 /\ n \in Int /\ 2 * nSize + s \in Int
    BY <1>2, <1>9, <1>11
  <2>2. PICK k : k = 2 * nSize + s
    OBVIOUS
  <2>3. n \div c = k /\ n % c = nWord
    BY <1>2, <1>11, <2>1, <2>2, DivIs
  <2>4. QED
    BY <2>2, <2>3
<1>13. (2 * nSize + s) % 2 = s
  BY <1>4
<1>14. ((n \div c) % 2 = 1) = neg
  BY <1>4, <1>12, <1>13
<1>15. SetCompact(n) = Signed(neg, Meant(nSize, nWord))
  BY <1>1, <1>10, <1>12, <1>14 DEF SetCompact, Meant
<1>16. QED
  BY <1>1, <1>5, <1>15

\* Every number is what some size and mantissa mean.
LEMMA SetCompactOf ==
  ASSUME NEW n \in Nat
  PROVE  \E neg \in BOOLEAN : \E nSize \in Nat : \E nWord \in 0 .. CompactSign - 1 :
           SetCompact(n) = Signed(neg, Meant(nSize, nWord)) /\ Meant(nSize, nWord) \in Nat
<1>1. PICK c, p : c = CompactSign /\ p = Power[Mantissa]
  OBVIOUS
<1>2. c \in Nat \ {0} /\ p \in Nat \ {0}
  BY <1>1, CompactSignIs
<1>3. PICK nSize \in Int, r \in 0 .. p - 1 : n \div p = nSize /\ nSize \in Nat
  BY <1>2, DivMod
<1>4. PICK q \in Int, nWord \in 0 .. c - 1 : n % c = nWord
  BY <1>2, DivMod
<1>5. PICK neg \in BOOLEAN : neg = ((n \div c) % 2 = 1)
  OBVIOUS
<1>6. SetCompact(n) = Signed(neg, Meant(nSize, nWord))
  BY <1>1, <1>3, <1>4, <1>5 DEF SetCompact, Meant
<1>7. Meant(nSize, nWord) \in Nat
  <2>1. nWord \in Nat /\ Mantissa \in Nat
    BY <1>2, CompactSignIs
  <2>2. CASE nSize <= Mantissa
    <3>1. Mantissa - nSize \in Nat
      BY <1>3, <2>1, <2>2
    <3>2. Power[Mantissa - nSize] \in Nat \ {0}
      BY <3>1, PowerIs
    <3>3. QED
      BY <2>1, <2>2, <3>2, DivBelow DEF Meant
  <2>3. CASE ~(nSize <= Mantissa)
    <3>1. nSize - Mantissa \in Nat
      BY <1>3, <2>1, <2>3
    <3>2. Power[nSize - Mantissa] \in Nat
      BY <3>1, PowerIs
    <3>3. QED
      BY <2>1, <2>3, <3>2, MulComm DEF Meant
  <2>4. QED
    BY <2>2, <2>3
<1>8. QED
  BY <1>1, <1>3, <1>4, <1>5, <1>6, <1>7

\* The size and the mantissa that GetCompact writes.
SizeWord(n, size, word) ==
  LET k == Len(DigitsOf(n, Base))
      w == IF k <= Mantissa THEN n * Power[Mantissa - k] ELSE n \div Power[k - Mantissa]
  IN  IF w >= CompactSign THEN size = k + 1 /\ word = w \div Base ELSE size = k /\ word = w

LEMMA BelowByFactor ==
  ASSUME NEW a \in Nat, NEW b \in Nat, NEW c \in Nat \ {0}, a * c < b * c
  PROVE  a < b
<1> SUFFICES ASSUME b <= a PROVE FALSE
  OBVIOUS
<1>1. c * b <= c * a /\ c * b = b * c /\ c * a = a * c /\ c * a \in Nat /\ c * b \in Nat
  BY MulMono, MulComm
<1>2. QED
  BY <1>1

LEMMA MulBelow ==
  ASSUME NEW a \in Nat, NEW b \in Nat, NEW c \in Nat \ {0}, a < b
  PROVE  a * c < b * c
<1>1. c * (a + 1) <= c * b /\ c * b = b * c /\ c * a = a * c /\ c * a \in Nat /\ c * b \in Nat
  BY MulMono, MulComm
<1>2. c * (a + 1) = c * a + c * 1 /\ c * 1 = c
  BY Distrib, MulComm
<1>3. QED
  BY <1>1, <1>2

\* A mantissa without its last byte leaves the sign bit free.
LEMMA WithoutLast ==
  ASSUME NEW w \in Nat, NEW v \in Nat, w = v * Base, w < Power[Mantissa]
  PROVE  v \in 0 .. CompactSign - 1 /\ w \div Base = v
<1>1. v * 2 <= v * Base /\ v * 2 = 2 * v /\ v * Base \in Nat
  BY BaseIs, MulMono, MulComm
<1>2. v < CompactSign
  BY <1>1, CompactSignIs
<1>3. w \div Base = v
  BY BaseIs, ExactDiv
<1>4. QED
  BY <1>2, <1>3, CompactSignIs

LEMMA GetCompactKeeps ==
  ASSUME NEW nSize \in Nat, NEW nWord \in 0 .. CompactSign - 1, NEW n \in Nat \ {0},
         n = Meant(nSize, nWord), NEW size, NEW word, SizeWord(n, size, word)
  PROVE  size \in Nat /\ word \in 0 .. CompactSign - 1 /\ Meant(size, word) = n
<1>1. PICK k, c, M, p : /\ k = Len(DigitsOf(n, Base)) /\ c = CompactSign /\ M = Mantissa
                        /\ p = Power[Mantissa]
  OBVIOUS
<1>2. k \in Nat \ {0} /\ Power[k - 1] <= n /\ n < Power[k]
  BY <1>1, DigitsLen
<1>3. /\ c \in Nat \ {0} /\ p = 2 * c /\ p \in Nat \ {0} /\ M \in Nat \ {0}
      /\ nWord \in Nat /\ nWord < c
  BY <1>1, CompactSignIs
<1>4. CASE k <= M
  <2>1. PICK j : j = M - k /\ j \in Nat /\ k + j = M
    BY <1>2, <1>3, <1>4
  <2>2. PICK x, y : /\ x = Power[j] /\ x \in Nat \ {0} /\ y = Power[k] /\ y \in Nat \ {0}
                    /\ p = y * x
    <3>1. Power[k + j] = Power[k] * Power[j] /\ Power[j] \in Nat \ {0} /\ Power[k] \in Nat \ {0}
      BY <1>2, <2>1, PowerIs, PowerSum
    <3>2. QED
      BY <1>1, <2>1, <3>1
  <2>3. PICK w : w = n * x /\ w \in Nat
    BY <2>2, MulComm
  <2>4. w < p
    BY <1>2, <2>2, <2>3, MulBelow
  <2>5. IF w >= c THEN size = k + 1 /\ word = w \div Base ELSE size = k /\ word = w
    BY <1>1, <1>4, <2>1, <2>2, <2>3 DEF SizeWord
  <2>6. CASE ~(w >= c)
    <3>1. size = k /\ word = w /\ word \in 0 .. c - 1
      BY <1>3, <2>3, <2>5, <2>6
    <3>2. w \div x = n
      BY <2>2, <2>3, ExactDiv
    <3>3. Meant(k, w) = n
      BY <1>1, <1>4, <2>1, <2>2, <3>2 DEF Meant
    <3>4. QED
      BY <1>1, <1>2, <3>1, <3>3
  <2>7. CASE w >= c /\ j # 0
    <3>1. PICK i : i = j - 1 /\ i \in Nat /\ i + 1 = j /\ M - (k + 1) = i /\ k + 1 <= M
      BY <1>2, <1>3, <2>1, <2>7
    <3>2. PICK z : z = Power[i] /\ z \in Nat \ {0} /\ x = Base * z
      BY <3>1, <2>2, PowerIs
    <3>3. PICK v : v = n * z /\ v \in Nat
      BY <3>2, MulComm
    <3>4. w = v * Base
      <4>1. n * (z * Base) = (n * z) * Base /\ Base * z = z * Base
        BY <3>2, BaseIs, MulAssoc, MulComm
      <4>2. QED
        BY <4>1, <2>3, <3>2, <3>3
    <3>5. v \in 0 .. c - 1 /\ w \div Base = v
      BY <1>1, <2>3, <2>4, <3>3, <3>4, WithoutLast
    <3>6. v \div z = n
      BY <3>2, <3>3, ExactDiv
    <3>7. Meant(k + 1, v) = n
      BY <1>1, <3>1, <3>2, <3>6 DEF Meant
    <3>8. QED
      BY <1>1, <1>2, <2>5, <2>7, <3>5, <3>7
  <2>8. CASE w >= c /\ j = 0
    <3>1. x = 1 /\ k = M /\ w = n
      BY <1>2, <1>3, <2>1, <2>2, <2>3, <2>8, PowerIs
    <3>2. ~(nSize <= M)
      <4> SUFFICES ASSUME nSize <= M PROVE FALSE
        OBVIOUS
      <4>1. M - nSize \in Nat
        BY <1>3
      <4>2. PICK b : b = Power[M - nSize] /\ b \in Nat \ {0}
        BY <4>1, PowerIs
      <4>3. n = nWord \div b
        BY <1>1, <4>2 DEF Meant
      <4>4. n <= nWord
        BY <1>3, <4>2, <4>3, DivBelow
      <4>5. QED
        BY <1>3, <2>8, <3>1, <4>4
    <3>3. PICK i : i = (nSize - M) - 1 /\ i \in Nat /\ i + 1 = nSize - M
      BY <1>3, <3>2
    <3>4. PICK z : z = Power[i] /\ z \in Nat \ {0} /\ Power[nSize - M] = Base * z
      BY <3>3, PowerIs
    <3>5. PICK v : v = nWord * z /\ v \in Nat
      BY <1>3, <3>4, MulComm
    <3>6. n = v * Base
      <4>1. nWord * (z * Base) = (nWord * z) * Base /\ Base * z = z * Base
        BY <1>3, <3>4, BaseIs, MulAssoc, MulComm
      <4>2. n = nWord * (Base * z)
        BY <1>1, <3>2, <3>4 DEF Meant
      <4>3. QED
        BY <4>1, <4>2, <3>5
    <3>7. v \in 0 .. c - 1 /\ w \div Base = v
      BY <1>1, <2>3, <2>4, <3>1, <3>5, <3>6, WithoutLast
    <3>8. Meant(M + 1, v) = n
      <4>1. ~(M + 1 <= M) /\ (M + 1) - M = 1
        BY <1>3
      <4>2. Power[1] = Base
        BY SmallPowers
      <4>3. QED
        BY <1>1, <3>6, <4>1, <4>2 DEF Meant
    <3>9. QED
      BY <1>1, <1>2, <2>5, <2>8, <3>1, <3>7, <3>8
  <2>9. QED
    BY <2>6, <2>7, <2>8
<1>5. CASE ~(k <= M)
  <2>1. n >= p
    <3>1. M <= k - 1 /\ k - 1 \in Nat
      BY <1>2, <1>3, <1>5
    <3>2. p <= Power[k - 1] /\ Power[k - 1] \in Nat
      BY <1>1, <1>3, <3>1, PowerGrows, PowerIs
    <3>3. QED
      BY <1>2, <1>3, <3>2
  <2>2. ~(nSize <= M)
    <3> SUFFICES ASSUME nSize <= M PROVE FALSE
      OBVIOUS
    <3>1. M - nSize \in Nat
      BY <1>3
    <3>2. PICK b : b = Power[M - nSize] /\ b \in Nat \ {0}
      BY <3>1, PowerIs
    <3>3. n = nWord \div b
      BY <1>1, <3>2 DEF Meant
    <3>4. n <= nWord
      BY <1>3, <3>2, <3>3, DivBelow
    <3>5. QED
      BY <1>3, <2>1, <3>4
  <2>3. PICK a : a = Power[nSize - M] /\ a \in Nat \ {0} /\ n = nWord * a
    <3>1. nSize - M \in Nat
      BY <1>3, <2>2
    <3>2. Power[nSize - M] \in Nat \ {0}
      BY <3>1, PowerIs
    <3>3. QED
      BY <1>1, <2>2, <3>2 DEF Meant
  <2>4. k <= nSize
    <3> SUFFICES ASSUME nSize <= k - 1 PROVE FALSE
      BY <1>2
    <3>1. M + (nSize - M) = nSize /\ nSize - M \in Nat /\ k - 1 \in Nat
      BY <1>2, <1>3, <2>2
    <3>2. Power[nSize] = p * a
      <4>1. \A i \in Nat, j \in Nat : Power[i + j] = Power[i] * Power[j]
        BY PowerSum
      <4>2. Power[M + (nSize - M)] = Power[M] * Power[nSize - M]
        BY <4>1, <1>3, <3>1
      <4>3. QED
        BY <4>2, <1>1, <2>3, <3>1
    <3>3. n < p * a
      <4>1. nWord < p
        BY <1>3
      <4>2. QED
        BY <4>1, <1>3, <2>3, MulBelow
    <3>4. Power[nSize] <= Power[k - 1] /\ Power[nSize] \in Nat /\ Power[k - 1] \in Nat
      BY <3>1, PowerGrows, PowerIs
    <3>5. QED
      BY <1>2, <3>2, <3>3, <3>4
  <2>5. PICK x, y : /\ x = Power[k - M] /\ x \in Nat \ {0}
                    /\ y = Power[nSize - k] /\ y \in Nat \ {0}
                    /\ a = y * x /\ Power[k] = p * x
    <3>1. /\ k - M \in Nat /\ nSize - k \in Nat /\ (nSize - k) + (k - M) = nSize - M
          /\ M + (k - M) = k
      BY <1>2, <1>3, <1>5, <2>4
    <3>2. Power[(nSize - k) + (k - M)] = Power[nSize - k] * Power[k - M]
      BY <3>1, PowerSum
    <3>3. Power[M + (k - M)] = p * Power[k - M]
      <4>1. \A i \in Nat, j \in Nat : Power[i + j] = Power[i] * Power[j]
        BY PowerSum
      <4>2. Power[M + (k - M)] = Power[M] * Power[k - M]
        BY <4>1, <1>3, <3>1
      <4>3. QED
        BY <4>2, <1>1
    <3>4. Power[k - M] \in Nat \ {0} /\ Power[nSize - k] \in Nat \ {0}
      BY <3>1, PowerIs
    <3>5. QED
      BY <2>3, <3>1, <3>2, <3>3, <3>4
  <2>6. PICK w : w = nWord * y /\ w \in Nat
    BY <1>3, <2>5, MulComm
  <2>7. n = w * x
    <3>1. nWord * (y * x) = (nWord * y) * x
      BY <1>3, <2>5, MulAssoc
    <3>2. QED
      BY <3>1, <2>3, <2>5, <2>6
  <2>8. w < p
    BY <1>2, <1>3, <2>5, <2>6, <2>7, BelowByFactor
  <2>9. n \div x = w
    BY <2>5, <2>6, <2>7, ExactDiv
  <2>10. IF w >= c THEN size = k + 1 /\ word = w \div Base ELSE size = k /\ word = w
    BY <1>1, <1>5, <2>5, <2>9 DEF SizeWord
  <2>11. CASE ~(w >= c)
    <3>1. size = k /\ word = w /\ word \in 0 .. c - 1
      BY <1>3, <2>6, <2>10, <2>11
    <3>2. Meant(k, w) = n
      BY <1>1, <1>5, <2>5, <2>7 DEF Meant
    <3>3. QED
      BY <1>1, <1>2, <3>1, <3>2
  <2>12. CASE w >= c
    <3>1. nSize # k
      <4> SUFFICES ASSUME nSize = k PROVE FALSE
        OBVIOUS
      <4>1. nSize - k = 0
        BY <1>2
      <4>2. y = 1
        BY <4>1, <2>5, PowerIs
      <4>3. w = nWord
        BY <4>2, <1>3, <2>6, MulComm
      <4>4. QED
        BY <4>3, <1>3, <2>12
    <3>2. PICK i : i = (nSize - k) - 1 /\ i \in Nat /\ i + 1 = nSize - k
      BY <1>2, <2>4, <3>1
    <3>3. PICK z : z = Power[i] /\ z \in Nat \ {0} /\ y = Base * z
      BY <3>2, <2>5, PowerIs
    <3>4. PICK v : v = nWord * z /\ v \in Nat
      BY <1>3, <3>3, MulComm
    <3>5. w = v * Base
      <4>1. nWord * (z * Base) = (nWord * z) * Base /\ Base * z = z * Base
        BY <1>3, <3>3, BaseIs, MulAssoc, MulComm
      <4>2. QED
        BY <4>1, <2>6, <3>3, <3>4
    <3>6. v \in 0 .. c - 1 /\ w \div Base = v
      BY <1>1, <2>6, <2>8, <3>4, <3>5, WithoutLast
    <3>7. Meant(k + 1, v) = n
      <4>1. ~(k + 1 <= M) /\ (k + 1) - M = (k - M) + 1 /\ k - M \in Nat
        BY <1>2, <1>3, <1>5
      <4>2. Power[(k - M) + 1] = Base * x
        BY <4>1, <2>5, PowerIs
      <4>3. Meant(k + 1, v) = v * (Base * x)
        BY <1>1, <4>1, <4>2 DEF Meant
      <4>4. v * (Base * x) = (v * Base) * x
        BY <2>5, <3>4, BaseIs, MulAssoc
      <4>5. QED
        BY <4>3, <4>4, <2>7, <3>5
    <3>8. QED
      BY <1>1, <1>2, <2>10, <2>12, <3>6, <3>7
  <2>13. QED
    BY <2>11, <2>12
<1>6. QED
  BY <1>4, <1>5

\* SetCompact undoes GetCompact, on what SetCompact gave.
LEMMA CompactBack ==
  ASSUME NEW c \in Nat
  PROVE  SetCompact(GetCompact(SetCompact(c))) = SetCompact(c)
<1>1. PICK neg \in BOOLEAN, nSize \in Nat, nWord \in 0 .. CompactSign - 1, n \in Nat :
        SetCompact(c) = Signed(neg, n) /\ n = Meant(nSize, nWord)
  BY SetCompactOf
<1>2. PICK v : v = SetCompact(c)
  OBVIOUS
<1>3. CASE n = 0
  <2>1. v = 0 /\ ~(v < 0) /\ Magnitude(v) = 0
    <3>1. -n = n
      <4>1. n \in Int /\ n <= 0 /\ n >= 0
        BY <1>3
      <4>2. QED
        BY <4>1
    <3>2. v = n
      BY <1>1, <1>2, <3>1 DEF Signed
    <3>3. QED
      BY <1>3, <3>2 DEF Magnitude
  <2>2. Len(DigitsOf(0, Base)) = 0
    BY BaseIs, DigitsAre, EmptySeq
  <2>3. GetCompact(v) = 0
    <3>1. Mantissa \in Nat /\ Mantissa - 0 = Mantissa /\ 0 <= Mantissa
      BY CompactSignIs
    <3>2. 0 * Power[Mantissa] = 0 /\ ~(0 >= CompactSign)
      BY CompactSignIs
    <3>3. GetCompact(v) = (0 + 0) * Power[Mantissa] + 0 + 0
      BY <2>1, <2>2, <3>1, <3>2 DEF GetCompact
    <3>4. QED
      BY <3>2, <3>3
  <2>4. SetCompact(0 * Power[Mantissa] + 0 + (IF FALSE THEN CompactSign ELSE 0))
          = Signed(FALSE, Meant(0, 0))
    <3>1. 0 \in 0 .. CompactSign - 1 /\ 0 \in Nat /\ FALSE \in BOOLEAN
      BY CompactSignIs
    <3>2. QED
      BY <3>1, SetCompactIs
  <2>5. 0 * Power[Mantissa] + 0 + (IF FALSE THEN CompactSign ELSE 0) = 0
    BY CompactSignIs
  <2>6. Meant(0, 0) = 0
    <3>1. 0 <= Mantissa /\ Mantissa - 0 = Mantissa
      BY CompactSignIs
    <3>2. 0 \div Power[Mantissa] = 0
      <4>1. PICK p : p = Power[Mantissa] /\ p \in Nat \ {0} /\ 0 = p * 0 + 0 /\ 0 \in 0 .. p - 1
        BY CompactSignIs
      <4>2. 0 \div p = 0
        BY <4>1, DivIs
      <4>3. QED
        BY <4>1, <4>2
    <3>3. QED
      BY <3>1, <3>2 DEF Meant
  <2>7. QED
    BY <1>2, <2>1, <2>3, <2>4, <2>5, <2>6 DEF Signed
<1>4. CASE n # 0
  <2>1. (v < 0) = neg /\ Magnitude(v) = n
    BY <1>1, <1>2, <1>4 DEF Signed, Magnitude
  <2>2. PICK k, w : /\ k = Len(DigitsOf(n, Base))
                    /\ w = IF k <= Mantissa THEN n * Power[Mantissa - k]
                                            ELSE n \div Power[k - Mantissa]
    OBVIOUS
  <2>3. PICK size, word : /\ size = (IF w >= CompactSign THEN k + 1 ELSE k)
                          /\ word = IF w >= CompactSign THEN w \div Base ELSE w
    OBVIOUS
  <2>4. SizeWord(n, size, word)
    BY <2>2, <2>3 DEF SizeWord
  <2>5. size \in Nat /\ word \in 0 .. CompactSign - 1 /\ Meant(size, word) = n
    BY <1>1, <1>4, <2>4, GetCompactKeeps
  <2>6. size = k + (IF w >= CompactSign THEN 1 ELSE 0)
    <3>1. k \in Nat
      BY <1>4, <2>2, DigitsLen
    <3>2. QED
      BY <3>1, <2>3
  <2>7. GetCompact(v) = size * Power[Mantissa] + word + (IF neg THEN CompactSign ELSE 0)
    BY <2>1, <2>2, <2>3, <2>6 DEF GetCompact
  <2>8. SetCompact(GetCompact(v)) = Signed(neg, n)
    BY <2>5, <2>7, SetCompactIs
  <2>9. QED
    BY <1>1, <1>2, <2>8
<1>5. QED
  BY <1>3, <1>4

----------------------------------------------------------------------------
(* Integers on the wire.                                                   *)

\* A little-endian integer has its bytes, and as many as its width.
LEMMA PodIs ==
  ASSUME NEW n \in Nat, NEW w \in Nat
  PROVE  Pod(n, w) \in Seq(Byte) /\ Len(Pod(n, w)) = w
         /\ \A i \in 1 .. w : Pod(n, w)[i] = (n \div Power[i - 1]) % Base
<1>1. ASSUME NEW i \in 1 .. w PROVE (n \div Power[i - 1]) % Base \in Byte
  <2>1. i - 1 \in Nat
    OBVIOUS
  <2>2. PICK p : p = Power[i - 1] /\ p \in Nat \ {0}
    BY <2>1, PowerIs
  <2>3. PICK q : q = n \div p /\ q \in Nat
    BY <2>2, DivBelow
  <2>4. q % Base \in 0 .. Base - 1
    BY <2>3, BaseIs
  <2>5. QED
    BY <2>2, <2>3, <2>4 DEF Byte
<1>2. Pod(n, w) \in [1 .. w -> Byte]
  BY <1>1 DEF Pod
<1>3. QED
  BY <1>2, SeqOfFun DEF Pod

\* What fits its width is read as it was written.
LEMMA PodBack ==
  ASSUME NEW w \in Nat, NEW n \in Nat, n < Power[w]
  PROVE  Number(Pod(n, w)) = n
<1>1. PICK s, r : s = Pod(n, w) /\ r = Reverse(s)
  OBVIOUS
<1>2. /\ s \in Seq(Byte) /\ Len(s) = w
      /\ \A i \in 1 .. w : s[i] = (n \div Power[i - 1]) % Base
  BY <1>1, PodIs
<1>3. /\ r \in Seq(Byte) /\ r \in Seq(Nat) /\ Len(r) = w
      /\ \A i \in 1 .. w : r[i] = s[(w - i) + 1]
  <2>1. /\ Reverse(s) \in Seq(Byte) /\ Len(Reverse(s)) = Len(s)
        /\ \A i \in 1 .. Len(s) : Reverse(s)[i] = s[(Len(s) - i) + 1]
    BY <1>2, ReverseIs
  <2>2. QED
    BY <2>1, <1>1, <1>2, BytesAreNats
<1> DEFINE g == [i \in 0 .. w |-> n \div Power[w - i]]
<1>4. Counts(g, r, Base)
  <2>1. g[0] = 0
    <3>1. PICK p : p = Power[w] /\ p \in Nat \ {0} /\ n < p
      BY PowerIs
    <3>2. n = p * 0 + n /\ n \in 0 .. p - 1
      BY <3>1
    <3>3. n \div p = 0
      BY <3>1, <3>2, DivIs
    <3>4. g[0] = n \div Power[w]
      OBVIOUS
    <3>5. QED
      BY <3>1, <3>3, <3>4
  <2>2. ASSUME NEW i \in 0 .. Len(r) - 1 PROVE g[i + 1] = g[i] * Base + r[i + 1]
    <3>1. PICK j : j = w - (i + 1)
      OBVIOUS
    <3>2. /\ j \in Nat /\ j + 1 = w - i /\ i \in 0 .. w /\ i + 1 \in 0 .. w /\ i + 1 \in 1 .. w
          /\ (w - (i + 1)) + 1 = j + 1 /\ j + 1 \in 1 .. w /\ (j + 1) - 1 = j
      BY <1>3, <3>1
    <3>3. PICK p : p = Power[j] /\ p \in Nat \ {0} /\ Power[j + 1] = p * Base
      <4>1. Power[j] \in Nat \ {0} /\ Power[j + 1] = Base * Power[j]
        BY <3>2, PowerIs
      <4>2. Base * Power[j] = Power[j] * Base
        BY <4>1, BaseIs, MulComm
      <4>3. QED
        BY <4>1, <4>2
    <3>4. PICK q : q = n \div p /\ q \in Nat
      BY <3>3, DivBelow
    <3>5. g[i] = q \div Base /\ g[i + 1] = q
      <4>1. g[i] = n \div Power[w - i] /\ g[i + 1] = n \div Power[w - (i + 1)]
        BY <3>2
      <4>2. g[i] = n \div (p * Base)
        BY <4>1, <3>2, <3>3
      <4>3. (n \div p) \div Base = n \div (p * Base)
        BY <3>3, BaseIs, DivDiv
      <4>4. QED
        <5> HIDE DEF g
        <5>1. QED
          BY <4>1, <4>2, <4>3, <3>1, <3>3, <3>4
    <3>6. r[i + 1] = q % Base
      <4>1. r[i + 1] = s[j + 1]
        <5>1. r[i + 1] = s[(w - (i + 1)) + 1]
          BY <1>3, <3>2
        <5>2. QED
          BY <5>1, <3>1
      <4>2. s[j + 1] = (n \div Power[(j + 1) - 1]) % Base
        BY <1>2, <3>2
      <4>3. QED
        BY <4>1, <4>2, <3>2, <3>3, <3>4
    <3>7. PICK a \in Int, b \in 0 .. Base - 1 :
            q \div Base = a /\ q % Base = b /\ q = Base * a + b /\ a \in Nat
      <4>1. q \in Int /\ Base \in Nat \ {0}
        BY <3>4, BaseIs
      <4>2. QED
        BY <3>4, <4>1, DivMod
    <3>8. Base * a = a * Base
      BY <3>7, BaseIs, MulComm
    <3>9. QED
      <4> HIDE DEF g
      <4>1. QED
        BY <3>5, <3>6, <3>7, <3>8
  <2> HIDE DEF g
  <2>3. QED
    BY <2>1, <2>2 DEF Counts
<1>5. g[w] = n
  <2>1. w \in 0 .. w /\ w - w = 0 /\ Power[0] = 1
    BY PowerIs
  <2>2. n \div 1 = n
    OBVIOUS
  <2>3. g[w] = n \div Power[w - w]
    BY <2>1
  <2>4. QED
    BY <2>1, <2>2, <2>3
<1> HIDE DEF g
<1>6. NumberOf(r, Base) = g[w]
  BY <1>3, <1>4, BaseIs, NumberSolves
<1>7. QED
  BY <1>1, <1>5, <1>6 DEF Number

----------------------------------------------------------------------------
(* A reader.  Its data carry the bytes bytes from an offset on, as far as    *)
(* they go; and reading them gives the value they were written from, or    *)
(* throws when the data do not go far enough.                              *)

Carry(data, offset, bytes) ==
  \A i \in 1 .. Len(bytes) : offset + i <= Len(data) => data[offset + i] = bytes[i]

Gives(out, data, offset, bytes, value) ==
  IF offset + Len(bytes) <= Len(data)
  THEN out = Read(data, offset + Len(bytes), value)
  ELSE out.thrown = TRUE

LEMMA ThrowsIs ==
  ASSUME NEW data, NEW offset, NEW value
  PROVE  Throws(Read(data, offset, value)).thrown = TRUE
  BY DEF Read, Throws

LEMMA ValueIs ==
  ASSUME NEW data, NEW offset, NEW value, NEW x
  PROVE  [Read(data, offset, value) EXCEPT !.value = x] = Read(data, offset, x)
<1> DEFINE R == [data : {data}, offset : {offset}, value : {value, x}, thrown : {FALSE}]
<1>1. PICK r, s : r = Read(data, offset, value) /\ s = Read(data, offset, x)
  OBVIOUS
<1>2. r \in R /\ s \in R
  BY <1>1 DEF Read
<1>3. s.value = x
  BY <1>1 DEF Read
<1>4. [r EXCEPT !.value = x] \in R
  BY <1>2
<1>5. PICK e : e = [r EXCEPT !.value = x]
  OBVIOUS
<1>6. e.value = x
  BY <1>2, <1>5
<1>7. e = s
  BY <1>2, <1>3, <1>4, <1>5, <1>6
<1>8. QED
  BY <1>1, <1>5, <1>7

\* pop_buffer gives the bytes that are carried.
LEMMA PopIs ==
  ASSUME NEW data \in Seq(Byte), NEW offset \in 0 .. Len(data), NEW value,
         NEW bytes \in Seq(Byte), Carry(data, offset, bytes)
  PROVE  Gives(pop_buffer(Read(data, offset, value), Len(bytes)), data, offset, bytes, bytes)
<1>1. PICK r : r = Read(data, offset, value)
  OBVIOUS
<1>2. r.data = data /\ r.offset = offset /\ Throws(r).thrown = TRUE
  BY <1>1, ThrowsIs DEF Read
<1>3. Len(data) \in Nat /\ Len(bytes) \in Nat /\ offset \in Nat
  BY LenProperties
<1>4. CASE offset + Len(bytes) <= Len(data)
  <2>1. pop_buffer(r, Len(bytes))
          = Read(data, offset + Len(bytes), SubSeq(data, offset + 1, offset + Len(bytes)))
    BY <1>2, <1>4 DEF pop_buffer, has_buffer, Buffer
  <2>2. PICK u : u = SubSeq(data, offset + 1, offset + Len(bytes))
    OBVIOUS
  <2>3. \A i \in offset + 1 .. offset + Len(bytes) : data[i] \in Byte
    <3>1. \A i \in offset + 1 .. offset + Len(bytes) : i \in 1 .. Len(data)
      BY <1>3, <1>4
    <3>2. QED
      BY <3>1, ElementOfSeq
  <2>4. /\ u \in Seq(Byte)
        /\ Len(u) = (IF offset + 1 <= offset + Len(bytes)
                     THEN (offset + Len(bytes)) - (offset + 1) + 1 ELSE 0)
        /\ \A i \in 1 .. (offset + Len(bytes)) - (offset + 1) + 1 :
             u[i] = data[(offset + 1) + i - 1]
    <3>1. offset + 1 \in Int /\ offset + Len(bytes) \in Int
      BY <1>3
    <3>2. QED
      BY <2>2, <2>3, <3>1, SubSeqProperties
  <2>5. Len(u) = Len(bytes)
    BY <1>3, <2>4
  <2>6. ASSUME NEW i \in 1 .. Len(u) PROVE u[i] = bytes[i]
    <3>1. /\ i \in 1 .. (offset + Len(bytes)) - (offset + 1) + 1
          /\ (offset + 1) + i - 1 = offset + i
          /\ i \in 1 .. Len(bytes) /\ offset + i <= Len(data)
      BY <1>3, <1>4, <2>5
    <3>2. data[offset + i] = bytes[i]
      BY <3>1 DEF Carry
    <3>3. QED
      BY <3>1, <3>2, <2>4
  <2>7. u = bytes
    BY <2>4, <2>5, <2>6, SeqEqual
  <2>8. QED
    BY <1>1, <1>4, <2>1, <2>2, <2>7 DEF Gives
<1>5. CASE ~(offset + Len(bytes) <= Len(data))
  BY <1>1, <1>2, <1>5 DEF Gives, pop_buffer, has_buffer
<1>6. QED
  BY <1>4, <1>5

\* What carries two parts carries each, one behind the other.
LEMMA CarryParts ==
  ASSUME NEW data \in Seq(Byte), NEW offset \in 0 .. Len(data),
         NEW b1 \in Seq(Byte), NEW b2 \in Seq(Byte), Carry(data, offset, b1 \o b2)
  PROVE  /\ Carry(data, offset, b1) /\ Carry(data, offset + Len(b1), b2)
         /\ b1 \o b2 \in Seq(Byte) /\ Len(b1 \o b2) = Len(b1) + Len(b2)
<1>1. PICK b : b = b1 \o b2
  OBVIOUS
<1>2. /\ b \in Seq(Byte) /\ Len(b) = Len(b1) + Len(b2) /\ Len(b1) \in Nat /\ Len(b2) \in Nat
      /\ \A i \in 1 .. Len(b1) + Len(b2) : b[i] = IF i <= Len(b1) THEN b1[i] ELSE b2[i - Len(b1)]
  BY <1>1, ConcatProperties, LenProperties
<1>3. Len(data) \in Nat /\ offset \in Nat
  BY LenProperties
<1>4. \A i \in 1 .. Len(b) : offset + i <= Len(data) => data[offset + i] = b[i]
  BY <1>1 DEF Carry
<1>5. ASSUME NEW i \in 1 .. Len(b1), offset + i <= Len(data) PROVE data[offset + i] = b1[i]
  <2>1. i \in 1 .. Len(b1) + Len(b2) /\ i <= Len(b1)
    BY <1>2
  <2>2. QED
    BY <2>1, <1>2, <1>4, <1>5
<1>6. ASSUME NEW i \in 1 .. Len(b2), (offset + Len(b1)) + i <= Len(data)
      PROVE  data[(offset + Len(b1)) + i] = b2[i]
  <2>1. PICK j : j = Len(b1) + i
    OBVIOUS
  <2>2. /\ j \in 1 .. Len(b1) + Len(b2) /\ ~(j <= Len(b1)) /\ j - Len(b1) = i
        /\ (offset + Len(b1)) + i = offset + j
    BY <1>2, <1>3, <2>1
  <2>3. QED
    BY <2>2, <1>2, <1>4, <1>6
<1>7. QED
  BY <1>1, <1>2, <1>5, <1>6 DEF Carry

----------------------------------------------------------------------------
(* CompactSize.                                                            *)

LEMMA OnePodIs ==
  ASSUME NEW n \in Byte
  PROVE  Pod(n, 1) = <<n>>
<1>1. n \div Power[1 - 1] = n /\ n % Base = n /\ n \in Nat
  <2>1. Power[1 - 1] = 1 /\ n \in Nat
    BY PowerIs, BytesAreNats
  <2>2. n \div 1 = n
    BY <2>1
  <2>3. n = Base * 0 + n /\ n \in 0 .. Base - 1 /\ n \in Int
    BY <2>1, BytesAreNats, BaseIs
  <2>4. n % Base = n
    BY <2>3, BaseIs, DivIs
  <2>5. QED
    BY <2>1, <2>2, <2>4
<1>2. PICK p : p = Pod(n, 1)
  OBVIOUS
<1>3. p \in Seq(Byte) /\ Len(p) = 1 /\ \A i \in 1 .. 1 : p[i] = (n \div Power[i - 1]) % Base
  BY <1>1, <1>2, PodIs
<1>4. p[1] = n
  <2>1. p[1] = (n \div Power[1 - 1]) % Base
    BY <1>3
  <2>2. QED
    BY <1>1, <2>1
<1>5. <<n>> \in Seq(Byte) /\ Len(<<n>>) = 1 /\ <<n>>[1] = n
  BY OneIs
<1>6. \A i \in 1 .. Len(p) : p[i] = <<n>>[i]
  BY <1>3, <1>4, <1>5
<1>7. p = <<n>>
  BY <1>3, <1>5, <1>6, SeqEqual
<1>8. QED
  BY <1>2, <1>7

LEMMA PowerFacts ==
  /\ Power[1] = Base /\ Base < Power[2] /\ Power[2] < Power[4] /\ Power[4] < Power[8]
  /\ Power[2] \in Nat /\ Power[4] \in Nat \ {0} /\ Power[8] \in Nat
<1>1. Power[1] < Power[2] /\ Power[2] < Power[4] /\ Power[4] < Power[8]
  BY PowerGrows
<1>2. QED
  BY <1>1, PowerIs, SmallPowers

\* The tag and the width that a size takes.
LEMMA SizeForms ==
  ASSUME NEW n \in Nat, n < Power[8]
  PROVE  \/ n < Base - 3 /\ SaveSize(n) = <<n>> /\ n \in Byte
         \/ \E tag \in Byte : \E w \in {2, 4, 8} :
              /\ tag >= Base - 3 /\ Width(tag) = w /\ n < Power[w]
              /\ SaveSize(n) = <<tag>> \o Pod(n, w)
<1>1. \A t \in {Base - 3, Base - 2, Base - 1} : t \in Byte /\ Pod(t, 1) = <<t>>
  <2>1. \A t \in {Base - 3, Base - 2, Base - 1} : t \in Byte
    BY BaseIs DEF Byte
  <2>2. QED
    BY <2>1, OnePodIs
<1>2. CASE n < Base - 3
  <2>1. n \in Byte
    BY <1>2, BaseIs DEF Byte
  <2>2. QED
    BY <1>2, <2>1, OnePodIs DEF SaveSize
<1>3. CASE ~(n < Base - 3) /\ n < Power[2] - 1
  <2>1. SaveSize(n) = <<Base - 3>> \o Pod(n, 2)
    BY <1>1, <1>3 DEF SaveSize
  <2>2. Width(Base - 3) = 2 /\ n < Power[2] /\ Base - 3 >= Base - 3
    BY <1>3, BaseIs, PowerFacts DEF Width
  <2>3. QED
    BY <1>1, <2>1, <2>2
<1>4. CASE ~(n < Base - 3) /\ ~(n < Power[2] - 1) /\ n < Power[4] - 1
  <2>1. SaveSize(n) = <<Base - 2>> \o Pod(n, 4)
    BY <1>1, <1>4 DEF SaveSize
  <2>2. Width(Base - 2) = 4 /\ n < Power[4] /\ Base - 2 >= Base - 3
    BY <1>4, BaseIs, PowerFacts DEF Width
  <2>3. QED
    BY <1>1, <2>1, <2>2
<1>5. CASE ~(n < Base - 3) /\ ~(n < Power[2] - 1) /\ ~(n < Power[4] - 1)
  <2>1. SaveSize(n) = <<Base - 1>> \o Pod(n, 8)
    BY <1>1, <1>5 DEF SaveSize
  <2>2. Width(Base - 1) = 8 /\ Base - 1 >= Base - 3
    BY BaseIs DEF Width
  <2>3. QED
    BY <1>1, <2>1, <2>2
<1>6. QED
  BY <1>2, <1>3, <1>4, <1>5

LEMMA SaveSizeType ==
  ASSUME NEW n \in Nat, n < Power[8]
  PROVE  SaveSize(n) \in Seq(Byte) /\ Len(SaveSize(n)) \in Nat
<1>1. CASE SaveSize(n) = <<n>> /\ n \in Byte
  BY <1>1, OneIs
<1>2. CASE \E tag \in Byte : \E w \in {2, 4, 8} : SaveSize(n) = <<tag>> \o Pod(n, w)
  <2>1. PICK tag \in Byte, w \in {2, 4, 8} : SaveSize(n) = <<tag>> \o Pod(n, w)
    BY <1>2
  <2>2. Pod(n, w) \in Seq(Byte)
    BY PodIs
  <2>3. QED
    BY <2>1, <2>2, InFront, LenProperties
<1>3. QED
  BY <1>1, <1>2, SizeForms

\* A CompactSize of any width is read back.
LEMMA SizeGives ==
  ASSUME NEW data \in Seq(Byte), NEW offset \in 0 .. Len(data), NEW value,
         NEW n \in Nat, n < Power[8], Carry(data, offset, SaveSize(n))
  PROVE  Gives(LoadSize(Read(data, offset, value)), data, offset, SaveSize(n), n)
<1>0. Len(data) \in Nat /\ offset \in Nat
  BY LenProperties
<1>1. PICK r, hdr, tmp : /\ r = Read(data, offset, value) /\ hdr = pop_buffer(r, 1)
                         /\ tmp = pop_buffer(hdr, Width(hdr.value[1]))
  OBVIOUS
<1>2. LoadSize(r) = IF hdr.thrown THEN hdr
                    ELSE IF Width(hdr.value[1]) = 0 THEN [hdr EXCEPT !.value = hdr.value[1]]
                    ELSE IF tmp.thrown THEN tmp
                    ELSE [tmp EXCEPT !.value = Number(tmp.value)]
  BY <1>1 DEF LoadSize
<1>3. CASE n < Base - 3 /\ SaveSize(n) = <<n>> /\ n \in Byte
  <2>1. <<n>> \in Seq(Byte) /\ Len(<<n>>) = 1 /\ <<n>>[1] = n
    BY <1>3, OneIs
  <2>2. Gives(hdr, data, offset, <<n>>, <<n>>)
    BY <1>1, <1>3, <2>1, PopIs
  <2>3. CASE offset + 1 <= Len(data)
    <3>1. hdr = Read(data, offset + 1, <<n>>)
      BY <2>1, <2>2, <2>3 DEF Gives
    <3>2. Width(n) = 0
      BY <1>3, BaseIs DEF Width
    <3>3. hdr.thrown = FALSE /\ hdr.value = <<n>>
          /\ [hdr EXCEPT !.value = n] = Read(data, offset + 1, n)
      BY <3>1, ValueIs DEF Read
    <3>4. LoadSize(r) = Read(data, offset + 1, n)
      BY <1>2, <2>1, <3>2, <3>3
    <3>5. QED
      BY <1>1, <1>3, <2>1, <2>3, <3>4 DEF Gives
  <2>4. CASE ~(offset + 1 <= Len(data))
    <3>1. hdr.thrown = TRUE
      BY <2>1, <2>2, <2>4 DEF Gives
    <3>2. QED
      BY <1>1, <1>2, <1>3, <2>1, <2>4, <3>1 DEF Gives
  <2>5. QED
    BY <2>3, <2>4
<1>4. CASE \E tag \in Byte : \E w \in {2, 4, 8} :
             /\ tag >= Base - 3 /\ Width(tag) = w /\ n < Power[w]
             /\ SaveSize(n) = <<tag>> \o Pod(n, w)
  <2>1. PICK tag \in Byte, w \in {2, 4, 8} :
             /\ tag >= Base - 3 /\ Width(tag) = w /\ n < Power[w]
             /\ SaveSize(n) = <<tag>> \o Pod(n, w)
    BY <1>4
  <2>2. PICK t, p : t = <<tag>> /\ p = Pod(n, w)
    OBVIOUS
  <2>3. /\ t \in Seq(Byte) /\ Len(t) = 1 /\ t[1] = tag
        /\ p \in Seq(Byte) /\ Len(p) = w /\ Number(p) = n /\ w \in Nat /\ w # 0
    <3>1. w \in Nat /\ w # 0
      BY <2>1
    <3>2. p \in Seq(Byte) /\ Len(p) = w /\ Number(p) = n
      BY <2>1, <2>2, <3>1, PodIs, PodBack
    <3>3. t \in Seq(Byte) /\ Len(t) = 1 /\ t[1] = tag
      BY <2>2, OneIs
    <3>4. QED
      BY <3>1, <3>2, <3>3
  <2>4. SaveSize(n) = t \o p
    BY <2>1, <2>2
  <2>5. /\ Carry(data, offset, t) /\ Carry(data, offset + 1, p)
        /\ Len(SaveSize(n)) = 1 + w
    <3>1. t \in Seq(Byte) /\ p \in Seq(Byte) /\ Carry(data, offset, t \o p)
      BY <2>3, <2>4
    <3>2. /\ Carry(data, offset, t) /\ Carry(data, offset + Len(t), p)
          /\ Len(t \o p) = Len(t) + Len(p)
      BY <3>1, CarryParts
    <3>3. QED
      BY <3>2, <2>3, <2>4
  <2>6. Gives(hdr, data, offset, t, t)
    <3>1. Gives(pop_buffer(r, Len(t)), data, offset, t, t)
      BY <1>1, <2>3, <2>5, PopIs
    <3>2. QED
      BY <3>1, <1>1, <2>3
  <2>7. CASE offset + 1 <= Len(data)
    <3>1. hdr = Read(data, offset + 1, t) /\ offset + 1 \in 0 .. Len(data)
      BY <1>0, <2>3, <2>6, <2>7 DEF Gives
    <3>2. hdr.thrown = FALSE /\ hdr.value = t
      BY <3>1 DEF Read
    <3>3. tmp = pop_buffer(Read(data, offset + 1, t), Len(p))
      BY <1>1, <2>1, <2>3, <3>1, <3>2
    <3>4. Gives(tmp, data, offset + 1, p, p)
      BY <2>3, <2>5, <3>1, <3>3, PopIs
    <3>5. LoadSize(r) = IF tmp.thrown THEN tmp ELSE [tmp EXCEPT !.value = Number(tmp.value)]
      BY <1>2, <2>1, <2>3, <3>2
    <3>6. CASE (offset + 1) + w <= Len(data)
      <4>1. tmp = Read(data, (offset + 1) + w, p)
        BY <2>3, <3>4, <3>6 DEF Gives
      <4>2. tmp.thrown = FALSE /\ tmp.value = p
            /\ [tmp EXCEPT !.value = n] = Read(data, (offset + 1) + w, n)
        BY <4>1, ValueIs DEF Read
      <4>3. LoadSize(r) = Read(data, (offset + 1) + w, n)
        BY <2>3, <3>5, <4>2
      <4>4. (offset + 1) + w = offset + Len(SaveSize(n))
        BY <1>0, <2>3, <2>5
      <4>5. QED
        BY <1>1, <3>6, <4>3, <4>4 DEF Gives
    <3>7. CASE ~((offset + 1) + w <= Len(data))
      <4>1. tmp.thrown = TRUE
        BY <2>3, <3>4, <3>7 DEF Gives
      <4>2. LoadSize(r).thrown = TRUE
        BY <3>5, <4>1
      <4>3. ~(offset + Len(SaveSize(n)) <= Len(data))
        BY <1>0, <2>3, <2>5, <3>7
      <4>4. QED
        BY <1>1, <4>2, <4>3 DEF Gives
    <3>8. QED
      BY <3>6, <3>7
  <2>8. CASE ~(offset + 1 <= Len(data))
    <3>1. hdr.thrown = TRUE
      BY <2>3, <2>6, <2>8 DEF Gives
    <3>2. LoadSize(r).thrown = TRUE
      BY <1>2, <3>1
    <3>3. ~(offset + Len(SaveSize(n)) <= Len(data))
      BY <1>0, <2>3, <2>5, <2>8
    <3>4. QED
      BY <1>1, <3>2, <3>3 DEF Gives
  <2>9. QED
    BY <2>7, <2>8
<1>5. QED
  BY <1>3, <1>4, SizeForms

----------------------------------------------------------------------------
(* Fields.                                                                 *)

LEMMA Tuples ==
  ASSUME NEW a, NEW b, NEW c, NEW d
  PROVE  /\ Append(<<>>, a) = <<a>> /\ Append(<<a>>, b) = <<a, b>>
         /\ Append(<<a, b>>, c) = <<a, b, c>> /\ Append(<<a, b, c>>, d) = <<a, b, c, d>>
<1> DEFINE S == {a, b, c, d}
<1>1. PICK e, s1, s2, s3, s4 : /\ e = <<>> /\ s1 = <<a>> /\ s2 = <<a, b>>
                               /\ s3 = <<a, b, c>> /\ s4 = <<a, b, c, d>>
  OBVIOUS
<1>2. e \in Seq(S) /\ s1 \in Seq(S) /\ s2 \in Seq(S) /\ s3 \in Seq(S) /\ s4 \in Seq(S)
  BY <1>1
<1>3. /\ Len(e) = 0 /\ Len(s1) = 1 /\ Len(s2) = 2 /\ Len(s3) = 3 /\ Len(s4) = 4
      /\ s1[1] = a /\ s2[1] = a /\ s3[1] = a /\ s4[1] = a
      /\ s2[2] = b /\ s3[2] = b /\ s4[2] = b
      /\ s3[3] = c /\ s4[3] = c /\ s4[4] = d
  BY <1>1
<1>4. a \in S /\ b \in S /\ c \in S /\ d \in S
  OBVIOUS
<1> HIDE DEF S
<1>5. Append(e, a) = s1
  <2>1. PICK t : t = Append(e, a)
    OBVIOUS
  <2>2. t \in Seq(S) /\ Len(t) = Len(e) + 1 /\ t[Len(e) + 1] = a
    BY <1>2, <1>4, <2>1, AppendProperties
  <2>3. Len(t) = Len(s1) /\ \A i \in 1 .. Len(t) : t[i] = s1[i]
    BY <1>3, <2>2
  <2>4. QED
    BY <1>2, <2>1, <2>2, <2>3, SeqEqual
<1>6. Append(s1, b) = s2
  <2>1. PICK t : t = Append(s1, b)
    OBVIOUS
  <2>2. t \in Seq(S) /\ Len(t) = Len(s1) + 1 /\ t[Len(s1) + 1] = b
        /\ \A i \in 1 .. Len(s1) : t[i] = s1[i]
    BY <1>2, <1>4, <2>1, AppendProperties
  <2>3. Len(t) = Len(s2) /\ \A i \in 1 .. Len(t) : t[i] = s2[i]
    BY <1>3, <2>2
  <2>4. QED
    BY <1>2, <2>1, <2>2, <2>3, SeqEqual
<1>7. Append(s2, c) = s3
  <2>1. PICK t : t = Append(s2, c)
    OBVIOUS
  <2>2. t \in Seq(S) /\ Len(t) = Len(s2) + 1 /\ t[Len(s2) + 1] = c
        /\ \A i \in 1 .. Len(s2) : t[i] = s2[i]
    BY <1>2, <1>4, <2>1, AppendProperties
  <2>3. Len(t) = Len(s3) /\ \A i \in 1 .. Len(t) : t[i] = s3[i]
    BY <1>3, <2>2
  <2>4. QED
    BY <1>2, <2>1, <2>2, <2>3, SeqEqual
<1>8. Append(s3, d) = s4
  <2>1. PICK t : t = Append(s3, d)
    OBVIOUS
  <2>2. t \in Seq(S) /\ Len(t) = Len(s3) + 1 /\ t[Len(s3) + 1] = d
        /\ \A i \in 1 .. Len(s3) : t[i] = s3[i]
    BY <1>2, <1>4, <2>1, AppendProperties
  <2>3. Len(t) = Len(s4) /\ \A i \in 1 .. Len(t) : t[i] = s4[i]
    BY <1>3, <2>2
  <2>4. QED
    BY <1>2, <2>1, <2>2, <2>3, SeqEqual
<1>9. QED
  BY <1>1, <1>5, <1>6, <1>7, <1>8

LEMMA FourFields ==
  ASSUME NEW a, NEW b, NEW c, NEW d
  PROVE  Append(<<a, b, c>>, d) = <<a, b, c, d>>
<1>1. PICK s : s = <<a, b, c>>
  OBVIOUS
<1>2. Append(s, d) = <<a, b, c, d>>
  <2>1. /\ Append(<<>>, a) = <<a>> /\ Append(<<a>>, b) = <<a, b>>
        /\ Append(<<a, b>>, c) = <<a, b, c>> /\ Append(<<a, b, c>>, d) = <<a, b, c, d>>
    BY Tuples
  <2>2. QED
    BY <1>1, <2>1
<1>3. QED
  BY <1>1, <1>2

\* One field behind another.
LEMMA FieldGives ==
  ASSUME NEW data \in Seq(Byte), NEW offset \in 0 .. Len(data),
         NEW b1 \in Seq(Byte), NEW b2 \in Seq(Byte), NEW r, NEW v, NEW one, NEW x,
         Gives(r, data, offset, b1, v),
         /\ r = Read(data, offset + Len(b1), v)
         /\ offset + Len(b1) \in 0 .. Len(data)
         => Gives(one, data, offset + Len(b1), b2, x)
  PROVE  Gives(Field(r, one), data, offset, b1 \o b2, Append(v, x))
<1>1. PICK b, o1 : b = b1 \o b2 /\ o1 = offset + Len(b1)
  OBVIOUS
<1>2. /\ Len(b) = Len(b1) + Len(b2) /\ Len(b1) \in Nat /\ Len(b2) \in Nat
      /\ Len(data) \in Nat /\ offset \in Nat /\ o1 \in Nat
  BY <1>1, ConcatProperties, LenProperties
<1>3. CASE o1 <= Len(data)
  <2>1. r = Read(data, o1, v)
    BY <1>1, <1>3 DEF Gives
  <2>2. r.thrown = FALSE /\ r.value = v
    BY <2>1 DEF Read
  <2>3. Gives(one, data, o1, b2, x)
    BY <1>1, <1>2, <1>3, <2>1
  <2>4. Field(r, one) = IF one.thrown THEN one
                        ELSE [one EXCEPT !.value = Append(v, one.value)]
    BY <2>2 DEF Field
  <2>5. CASE o1 + Len(b2) <= Len(data)
    <3>1. one = Read(data, o1 + Len(b2), x)
      BY <2>3, <2>5 DEF Gives
    <3>2. one.thrown = FALSE /\ one.value = x
      BY <3>1 DEF Read
    <3>3. [one EXCEPT !.value = Append(v, x)] = Read(data, o1 + Len(b2), Append(v, x))
      <4>1. PICK y, o2 : y = Append(v, x) /\ o2 = o1 + Len(b2)
        OBVIOUS
      <4>2. [Read(data, o2, x) EXCEPT !.value = y] = Read(data, o2, y)
        BY ValueIs
      <4>3. QED
        BY <3>1, <4>1, <4>2
    <3>4. Field(r, one) = Read(data, o1 + Len(b2), Append(v, x))
      BY <2>4, <3>2, <3>3
    <3>5. o1 + Len(b2) = offset + Len(b)
      BY <1>1, <1>2
    <3>6. QED
      BY <1>1, <2>5, <3>4, <3>5 DEF Gives
  <2>6. CASE ~(o1 + Len(b2) <= Len(data))
    <3>1. one.thrown = TRUE
      BY <2>3, <2>6 DEF Gives
    <3>2. Field(r, one).thrown = TRUE
      BY <2>4, <3>1
    <3>3. ~(offset + Len(b) <= Len(data))
      BY <1>1, <1>2, <2>6
    <3>4. QED
      BY <1>1, <3>2, <3>3 DEF Gives
  <2>7. QED
    BY <2>5, <2>6
<1>4. CASE ~(o1 <= Len(data))
  <2>1. r.thrown = TRUE
    BY <1>1, <1>4 DEF Gives
  <2>2. Field(r, one).thrown = TRUE
    BY <2>1 DEF Field
  <2>3. ~(offset + Len(b) <= Len(data))
    BY <1>1, <1>2, <1>4
  <2>4. QED
    BY <1>1, <2>2, <2>3 DEF Gives
<1>5. QED
  BY <1>3, <1>4

\* The first field.
LEMMA FirstGives ==
  ASSUME NEW data \in Seq(Byte), NEW offset \in 0 .. Len(data), NEW value,
         NEW b \in Seq(Byte), NEW one, NEW x,
         Gives(one, data, offset, b, x)
  PROVE  Gives(Field(Begin(Read(data, offset, value)), one), data, offset, b, <<x>>)
<1>1. PICK r : r = Begin(Read(data, offset, value))
  OBVIOUS
<1>2. r = Read(data, offset, <<>>)
  BY <1>1, ValueIs DEF Begin
<1>3. PICK e : e = <<>>
  OBVIOUS
<1>4. e \in Seq(Byte) /\ Len(e) = 0 /\ e \o b = b /\ Append(e, x) = <<x>>
  BY <1>3, EmptySeq, ConcatEmptySeq, Tuples
<1>5. Len(data) \in Nat /\ offset \in Nat
  BY LenProperties
<1>6. offset + Len(e) = offset
  BY <1>4, <1>5
<1>7. Gives(r, data, offset, e, e)
  BY <1>2, <1>3, <1>5, <1>6 DEF Gives
<1>8. Gives(one, data, offset + Len(e), b, x)
  BY <1>6
<1>9. Gives(Field(r, one), data, offset, e \o b, Append(e, x))
  BY <1>4, <1>7, <1>8, FieldGives
<1>10. QED
  BY <1>1, <1>4, <1>9

LEMMA LoadPodGives ==
  ASSUME NEW data \in Seq(Byte), NEW offset \in 0 .. Len(data), NEW value,
         NEW b \in Byte, Carry(data, offset, SavePod(b))
  PROVE  /\ SavePod(b) \in Seq(Byte)
         /\ Gives(LoadPod(Read(data, offset, value)), data, offset, SavePod(b), b)
<1>1. PICK p, pod : p = SavePod(b) /\ pod = pop_buffer(Read(data, offset, value), 1)
  OBVIOUS
<1>2. p \in Seq(Byte) /\ Len(p) = 1 /\ p[1] = b
  BY <1>1, OneIs DEF SavePod
<1>3. Gives(pod, data, offset, p, p)
  <2>1. Gives(pop_buffer(Read(data, offset, value), Len(p)), data, offset, p, p)
    BY <1>1, <1>2, PopIs
  <2>2. QED
    BY <2>1, <1>1, <1>2
<1>4. LoadPod(Read(data, offset, value)) =
        IF pod.thrown THEN pod ELSE [pod EXCEPT !.value = pod.value[1]]
  BY <1>1 DEF LoadPod
<1>5. CASE offset + 1 <= Len(data)
  <2>1. pod = Read(data, offset + 1, p)
    BY <1>2, <1>3, <1>5 DEF Gives
  <2>2. pod.thrown = FALSE /\ pod.value = p
    BY <2>1 DEF Read
  <2>3. [pod EXCEPT !.value = b] = Read(data, offset + 1, b)
    BY <2>1, ValueIs
  <2>4. QED
    BY <1>1, <1>2, <1>4, <1>5, <2>2, <2>3 DEF Gives
<1>6. CASE ~(offset + 1 <= Len(data))
  <2>1. pod.thrown = TRUE
    BY <1>2, <1>3, <1>6 DEF Gives
  <2>2. QED
    BY <1>1, <1>2, <1>4, <1>6, <2>1 DEF Gives
<1>7. QED
  BY <1>5, <1>6

\* What a size_t counts.
Counted(S) == {v \in Seq(S) : Len(v) < Power[4]}

\* A size_t counts it without a rest, so that Count is its length.
LEMMA CountedIs ==
  ASSUME NEW S, NEW v \in Counted(S)
  PROVE  /\ v \in Seq(S) /\ Len(v) \in Nat /\ Len(v) < Power[4] /\ Len(v) < Power[8]
         /\ SaveSize(Len(v)) \in Seq(Byte) /\ Len(v) % Power[4] = Len(v)
<1>1. v \in Seq(S) /\ Len(v) \in Nat /\ Len(v) < Power[4]
  BY LenProperties DEF Counted
<1>2. Len(v) < Power[8]
  BY <1>1, PowerFacts
<1>3. SaveSize(Len(v)) \in Seq(Byte)
  BY <1>1, <1>2, SaveSizeType
<1>4. Len(v) % Power[4] = Len(v)
  <2>1. PICK n, p : n = Len(v) /\ p = Power[4]
    OBVIOUS
  <2>2. n = p * 0 + n /\ p \in Nat \ {0} /\ n \in 0 .. p - 1 /\ 0 \in Int /\ n \in Int
    BY <1>1, <2>1, PowerFacts
  <2>3. n % p = n
    BY <2>2, DivIs
  <2>4. QED
    BY <2>1, <2>3
<1>5. QED
  BY <1>1, <1>2, <1>3, <1>4

\* What comes behind a size: as many elements, or nothing.
SizeRead(r, data, o1, n) ==
  /\ o1 \in 0 .. Len(data) /\ LoadSize(r).thrown = FALSE
  /\ LoadSize(r) = Read(data, o1, n) /\ Count(LoadSize(r)) = n
  /\ Vector(r) = Read(data, o1, <<>>) /\ Elements(r) = n
SizeThrown(r) ==
  LoadSize(r).thrown = TRUE /\ Vector(r) = LoadSize(r) /\ Elements(r) = 0
AlsoGives(data, offset, o1, t, b) ==
  \A out, x : /\ o1 <= Len(data) => Gives(out, data, o1, b, x)
              /\ ~(o1 <= Len(data)) => out.thrown = TRUE
              => Gives(out, data, offset, t, x)

LEMMA Behind ==
  ASSUME NEW data \in Seq(Byte), NEW offset \in 0 .. Len(data), NEW value,
         NEW S, NEW v \in Counted(S), NEW b \in Seq(Byte),
         NEW t, t = SaveSize(Len(v)) \o b, Carry(data, offset, t),
         NEW o1, o1 = offset + Len(SaveSize(Len(v))), NEW r, r = Read(data, offset, value)
  PROVE  /\ t \in Seq(Byte) /\ Carry(data, o1, b)
         /\ o1 <= Len(data) => SizeRead(r, data, o1, Len(v))
         /\ ~(o1 <= Len(data)) => SizeThrown(r)
         /\ AlsoGives(data, offset, o1, t, b)
<1>1. PICK s, n : s = SaveSize(Len(v)) /\ t = s \o b /\ n = Len(v)
  OBVIOUS
<1>2. /\ s \in Seq(Byte) /\ n \in Nat /\ n < Power[8] /\ n % Power[4] = n
  BY <1>1, CountedIs
<1>3. /\ Carry(data, offset, s) /\ Carry(data, o1, b) /\ t \in Seq(Byte)
      /\ Len(t) = Len(s) + Len(b)
  BY <1>1, <1>2, CarryParts
<1>4. /\ Len(data) \in Nat /\ offset \in Nat /\ Len(s) \in Nat /\ Len(b) \in Nat /\ o1 \in Nat
      /\ o1 = offset + Len(s)
  BY <1>1, <1>2, LenProperties
<1>5. Gives(LoadSize(r), data, offset, s, n)
  BY <1>1, <1>2, <1>3, SizeGives
<1>6. ASSUME o1 <= Len(data)
      PROVE  /\ o1 \in 0 .. Len(data) /\ LoadSize(r).thrown = FALSE
             /\ LoadSize(r) = Read(data, o1, n)
             /\ Count(LoadSize(r)) = n
             /\ Vector(r) = Read(data, o1, <<>>)
             /\ Elements(r) = n
  <2>1. PICK z : z = LoadSize(r) /\ z = Read(data, o1, n)
    BY <1>4, <1>5, <1>6 DEF Gives
  <2>2. z.thrown = FALSE /\ z.value = n
    BY <2>1 DEF Read
  <2>3. Begin(z) = Read(data, o1, <<>>)
    BY <2>1, ValueIs DEF Begin
  <2>4. Count(z) = n
    BY <1>2, <2>2 DEF Count
  <2>5. QED
    BY <1>4, <1>6, <2>1, <2>2, <2>3, <2>4 DEF Vector, Elements
<1>7. ASSUME ~(o1 <= Len(data))
      PROVE  LoadSize(r).thrown = TRUE /\ Vector(r) = LoadSize(r) /\ Elements(r) = 0
  <2>1. LoadSize(r).thrown = TRUE
    BY <1>4, <1>5, <1>7 DEF Gives
  <2>2. QED
    BY <2>1 DEF Vector, Elements
<1>8. ASSUME NEW out, NEW x, o1 <= Len(data) => Gives(out, data, o1, b, x),
             ~(o1 <= Len(data)) => out.thrown = TRUE
      PROVE  Gives(out, data, offset, t, x)
  <2>1. o1 + Len(b) = offset + Len(t)
    <3>1. PICK lt, ls, lb : lt = Len(t) /\ ls = Len(s) /\ lb = Len(b)
      OBVIOUS
    <3>2. lt = ls + lb /\ o1 = offset + ls /\ ls \in Nat /\ lb \in Nat
          /\ offset \in Nat /\ o1 \in Nat /\ lt \in Nat
      BY <1>3, <1>4, <3>1
    <3>3. o1 + lb = offset + lt
      BY <3>2, SMTT(20)
    <3>4. QED
      BY <3>1, <3>3
  <2>2. CASE o1 <= Len(data)
    BY <1>8, <2>1, <2>2 DEF Gives
  <2>3. CASE ~(o1 <= Len(data))
    <3>1. ~(offset + Len(t) <= Len(data))
      BY <1>4, <2>1, <2>3
    <3>2. QED
      BY <1>8, <2>3, <3>1 DEF Gives
  <2>4. QED
    BY <2>2, <2>3
<1>9. QED
  BY <1>1, <1>3, <1>6, <1>7, <1>8 DEF SizeRead, SizeThrown, AlsoGives

\* A script is read back.
LEMMA LoadBytesGives ==
  ASSUME NEW data \in Seq(Byte), NEW offset \in 0 .. Len(data), NEW value,
         NEW v \in Counted(Byte), Carry(data, offset, SaveBytes(v))
  PROVE  Gives(LoadBytes(Read(data, offset, value)), data, offset, SaveBytes(v), v)
<1>1. PICK r, o1, t : /\ r = Read(data, offset, value)
                      /\ o1 = offset + Len(SaveSize(Len(v))) /\ t = SaveBytes(v)
  OBVIOUS
<1>2. v \in Seq(Byte) /\ t = SaveSize(Len(v)) \o v /\ Carry(data, offset, t)
  BY <1>1, CountedIs DEF SaveBytes
<1>3. /\ Carry(data, o1, v)
      /\ o1 <= Len(data) => SizeRead(r, data, o1, Len(v))
      /\ ~(o1 <= Len(data)) => SizeThrown(r)
      /\ AlsoGives(data, offset, o1, t, v)
  BY <1>1, <1>2, Behind
<1>4. LoadBytes(r) = IF LoadSize(r).thrown THEN LoadSize(r)
                     ELSE pop_buffer(LoadSize(r), Count(LoadSize(r)))
  BY DEF LoadBytes
<1>5. ASSUME o1 <= Len(data) PROVE Gives(LoadBytes(r), data, o1, v, v)
  <2>1. LoadBytes(r) = pop_buffer(Read(data, o1, Len(v)), Len(v)) /\ o1 \in 0 .. Len(data)
    BY <1>3, <1>4, <1>5 DEF SizeRead
  <2>2. QED
    BY <2>1, <1>2, <1>3, PopIs
<1>6. ASSUME ~(o1 <= Len(data)) PROVE LoadBytes(r).thrown = TRUE
  BY <1>3, <1>4, <1>6 DEF SizeThrown
<1>7. Gives(LoadBytes(r), data, offset, t, v)
  BY <1>3, <1>5, <1>6 DEF AlsoGives
<1>8. QED
  BY <1>1, <1>7

LEMMA SaveBytesType ==
  ASSUME NEW v \in Counted(Byte)
  PROVE  SaveBytes(v) \in Seq(Byte)
  BY CountedIs, ConcatProperties DEF SaveBytes

----------------------------------------------------------------------------
(* Vectors.                                                                *)

\* A sequence grows from nothing, element by element.
LEMMA PrefixIs ==
  ASSUME NEW S, NEW v \in Seq(S)
  PROVE  /\ SubSeq(v, 1, 0) = <<>> /\ SubSeq(v, 1, Len(v)) = v
         /\ \A i \in 0 .. Len(v) - 1 :
              Append(SubSeq(v, 1, i), v[i + 1]) = SubSeq(v, 1, i + 1)
<1>0. Len(v) \in Nat /\ \A i \in 1 .. Len(v) : v[i] \in S
  BY LenProperties, ElementOfSeq
<1>1. ASSUME NEW k \in 0 .. Len(v)
      PROVE  /\ SubSeq(v, 1, k) \in Seq(S) /\ Len(SubSeq(v, 1, k)) = k
             /\ \A i \in 1 .. k : SubSeq(v, 1, k)[i] = v[i]
  <2>1. k \in Int /\ 1 \in Int /\ \A i \in 1 .. k : v[i] \in S
    BY <1>0
  <2>2. PICK s : s = SubSeq(v, 1, k)
    OBVIOUS
  <2>3. /\ s \in Seq(S) /\ Len(s) = (IF 1 <= k THEN k - 1 + 1 ELSE 0)
        /\ \A i \in 1 .. k - 1 + 1 : s[i] = v[1 + i - 1]
    BY <2>1, <2>2, SubSeqProperties
  <2>4. Len(s) = k /\ \A i \in 1 .. k : i \in 1 .. k - 1 + 1 /\ 1 + i - 1 = i
    BY <2>3
  <2>5. \A i \in 1 .. k : s[i] = v[i]
    BY <2>3, <2>4
  <2>6. QED
    BY <2>2, <2>3, <2>4, <2>5
<1>2. SubSeq(v, 1, 0) = <<>>
  BY SubSeqEmpty
<1>3. SubSeq(v, 1, Len(v)) = v
  <2>1. Len(v) \in 0 .. Len(v)
    BY <1>0
  <2>2. PICK s : s = SubSeq(v, 1, Len(v))
    OBVIOUS
  <2>3. s \in Seq(S) /\ Len(s) = Len(v) /\ \A i \in 1 .. Len(s) : s[i] = v[i]
    BY <1>1, <2>1, <2>2
  <2>4. QED
    BY <2>2, <2>3, SeqEqual
<1>4. ASSUME NEW i \in 0 .. Len(v) - 1
      PROVE  Append(SubSeq(v, 1, i), v[i + 1]) = SubSeq(v, 1, i + 1)
  <2>1. i \in 0 .. Len(v) /\ i + 1 \in 0 .. Len(v) /\ i + 1 \in 1 .. Len(v) /\ i \in Nat
    BY <1>0
  <2>2. PICK p, q, x : p = SubSeq(v, 1, i) /\ q = SubSeq(v, 1, i + 1) /\ x = v[i + 1]
    OBVIOUS
  <2>3. /\ p \in Seq(S) /\ Len(p) = i /\ \A j \in 1 .. i : p[j] = v[j]
        /\ q \in Seq(S) /\ Len(q) = i + 1 /\ \A j \in 1 .. i + 1 : q[j] = v[j]
        /\ x \in S
    BY <1>0, <1>1, <2>1, <2>2
  <2>4. PICK a : a = Append(p, x)
    OBVIOUS
  <2>5. /\ a \in Seq(S) /\ Len(a) = Len(p) + 1 /\ \A j \in 1 .. Len(p) : a[j] = p[j]
        /\ a[Len(p) + 1] = x
    BY <2>3, <2>4, AppendProperties
  <2>6. ASSUME NEW j \in 1 .. Len(a) PROVE a[j] = q[j]
    <3>1. CASE j = i + 1
      BY <2>1, <2>2, <2>3, <2>5, <3>1
    <3>2. CASE j # i + 1
      <4>1. j \in 1 .. i /\ j \in 1 .. i + 1
        BY <2>1, <2>3, <2>5, <3>2
      <4>2. QED
        BY <4>1, <2>3, <2>5
    <3>3. QED
      BY <3>1, <3>2
  <2>7. Len(a) = Len(q)
    BY <2>3, <2>5
  <2>8. a = q
    BY <2>3, <2>5, <2>6, <2>7, SeqEqual
  <2>9. QED
    BY <2>2, <2>4, <2>8
<1>5. QED
  BY <1>2, <1>3, <1>4

\* Each of the elements is carried where the ones before it end.
LEMMA JoinsCarry ==
  ASSUME NEW data \in Seq(Byte), NEW o1 \in 0 .. Len(data),
         NEW bins \in Seq(Seq(Byte)), NEW f \in [0 .. Len(bins) -> Seq(Byte)], Joins(f, bins),
         Carry(data, o1, f[Len(bins)])
  PROVE  \A i \in 0 .. Len(bins) - 1 : Carry(data, o1 + Len(f[i]), bins[i + 1])
<1>1. PICK n : n = Len(bins)
  OBVIOUS
<1>2. /\ n \in Nat /\ \A i \in 0 .. n - 1 : bins[i + 1] \in Seq(Byte)
      /\ f \in [0 .. n -> Seq(Byte)]
  <2>1. n \in Nat
    BY <1>1, LenProperties
  <2>2. \A i \in 0 .. n - 1 : i + 1 \in 1 .. Len(bins)
    BY <1>1, <2>1
  <2>3. QED
    BY <1>1, <2>1, <2>2, ElementOfSeq
<1>3. ASSUME NEW i \in 0 .. n - 1, Carry(data, o1, f[i + 1])
      PROVE  Carry(data, o1, f[i]) /\ Carry(data, o1 + Len(f[i]), bins[i + 1])
  <2>1. PICK b1, b2 : b1 = f[i] /\ b2 = bins[i + 1]
    OBVIOUS
  <2>2. b1 \in Seq(Byte) /\ b2 \in Seq(Byte)
    <3>1. i \in 0 .. n
      BY <1>2
    <3>2. QED
      BY <1>2, <2>1, <3>1
  <2>3. Carry(data, o1, b1 \o b2)
    BY <1>1, <1>3, <2>1 DEF Joins
  <2>4. Carry(data, o1, b1) /\ Carry(data, o1 + Len(b1), b2)
    BY <2>2, <2>3, CarryParts
  <2>5. QED
    BY <2>1, <2>4
<1> DEFINE T == {k \in Nat : k <= n => Carry(data, o1, f[n - k])}
<1>4. 0 \in T
  <2>1. n - 0 = n
    BY <1>2
  <2>2. QED
    BY <1>1, <1>2, <2>1
<1>5. ASSUME NEW k \in Nat, k \in T PROVE k + 1 \in T
  <2>1. CASE k + 1 <= n
    <3>1. PICK i : i = n - (k + 1)
      OBVIOUS
    <3>2. i \in 0 .. n - 1 /\ i + 1 = n - k /\ k <= n
      BY <1>2, <2>1, <3>1
    <3>3. Carry(data, o1, f[i + 1])
      BY <1>5, <3>2
    <3>4. Carry(data, o1, f[i])
      BY <1>3, <3>2, <3>3
    <3>5. QED
      BY <3>1, <3>4
  <2>2. CASE ~(k + 1 <= n)
    BY <2>2
  <2>3. QED
    BY <2>1, <2>2
<1>6. \A k \in Nat : k \in T
  <2> HIDE DEF T
  <2>1. QED
    BY <1>4, <1>5, NatInduct
<1>7. ASSUME NEW i \in 0 .. n - 1 PROVE Carry(data, o1 + Len(f[i]), bins[i + 1])
  <2>1. PICK k : k = n - (i + 1)
    OBVIOUS
  <2>2. k \in Nat /\ k <= n /\ n - k = i + 1
    BY <1>2, <2>1
  <2>3. Carry(data, o1, f[i + 1])
    BY <1>6, <2>2
  <2>4. QED
    BY <1>3, <2>3
<1>8. QED
  BY <1>1, <1>7

\* What the reader r reads as out is x, wherever its data carry bytes.
ReadBack(out, r, data, bytes, x) ==
  \A o \in 0 .. Len(data) : \A value :
    r = Read(data, o, value) /\ Carry(data, o, bytes) => Gives(out, data, o, bytes, x)

\* A loader of vectors: h[i] is the reader behind i elements, one[i] what
\* the next one is read as.
Loads(h, one, r) ==
  h[0] = Vector(r) /\ \A i \in 0 .. Elements(r) - 1 : h[i + 1] = Field(h[i], one[i])

\* A vector is read back if each element is: by induction on how many are read.
LEMMA VectorGives ==
  ASSUME NEW data \in Seq(Byte), NEW offset \in 0 .. Len(data), NEW value,
         NEW S, NEW v \in Counted(S), NEW bins \in Seq(Seq(Byte)), Len(bins) = Len(v),
         NEW t, t = SaveVector(bins), Carry(data, offset, t),
         NEW r, r = Read(data, offset, value), NEW h, NEW one, Loads(h, one, r),
         \A i \in 0 .. Len(v) - 1 :
           i < Elements(r) => ReadBack(one[i], h[i], data, bins[i + 1], v[i + 1])
  PROVE  Gives(h[Elements(r)], data, offset, t, v) /\ t \in Seq(Byte)
<1>1. PICK n, o1, b : /\ n = Len(v) /\ o1 = offset + Len(SaveSize(Len(v)))
                      /\ b = FlattenSeq(bins)
  OBVIOUS
<1>2. PICK f \in [0 .. Len(bins) -> Seq(Byte)] : Joins(f, bins) /\ b = f[Len(bins)]
  BY <1>1, FlattenIs
<1>3. /\ n \in Nat /\ v \in Seq(S) /\ f \in [0 .. n -> Seq(Byte)] /\ b = f[n]
      /\ \A i \in 0 .. n - 1 : bins[i + 1] \in Seq(Byte) /\ i \in 0 .. n /\ i + 1 \in 0 .. n
  <2>1. v \in Seq(S) /\ n \in Nat
    BY <1>1, CountedIs
  <2>2. \A i \in 0 .. n - 1 : i + 1 \in 1 .. Len(bins) /\ i \in 0 .. n /\ i + 1 \in 0 .. n
    BY <1>1, <2>1
  <2>3. QED
    BY <1>1, <1>2, <2>1, <2>2, ElementOfSeq
<1>4. t = SaveSize(Len(v)) \o b /\ b \in Seq(Byte)
  <2>1. n \in 0 .. n
    BY <1>3
  <2>2. QED
    BY <1>1, <1>3, <2>1 DEF SaveVector
<1>5. /\ t \in Seq(Byte) /\ Carry(data, o1, b)
      /\ o1 <= Len(data) => SizeRead(r, data, o1, Len(v))
      /\ ~(o1 <= Len(data)) => SizeThrown(r)
      /\ AlsoGives(data, offset, o1, t, b)
  BY <1>1, <1>4, Behind
<1>6. CASE o1 <= Len(data)
  <2>1. o1 \in 0 .. Len(data) /\ Vector(r) = Read(data, o1, <<>>) /\ Elements(r) = n
    BY <1>1, <1>5, <1>6 DEF SizeRead
  <2>2. \A i \in 0 .. n - 1 : Carry(data, o1 + Len(f[i]), bins[i + 1])
    <3>1. Carry(data, o1, f[Len(bins)])
      BY <1>2, <1>5
    <3>2. \A i \in 0 .. Len(bins) - 1 : Carry(data, o1 + Len(f[i]), bins[i + 1])
      BY <1>2, <2>1, <3>1, JoinsCarry
    <3>3. QED
      BY <1>1, <3>2
  <2> DEFINE T == {i \in Nat : i <= n => Gives(h[i], data, o1, f[i], SubSeq(v, 1, i))}
  <2>3. 0 \in T
    <3>1. f[0] = <<>> /\ SubSeq(v, 1, 0) = <<>> /\ h[0] = Read(data, o1, <<>>)
      BY <1>2, <1>3, <2>1, PrefixIs DEF Joins, Loads
    <3>2. PICK e : e = <<>>
      OBVIOUS
    <3>3. Len(e) = 0 /\ Len(data) \in Nat
      BY <3>2, EmptySeq, LenProperties
    <3>4. o1 + Len(e) = o1 /\ o1 + Len(e) <= Len(data)
      BY <2>1, <3>3
    <3>5. Gives(Read(data, o1, e), data, o1, e, e)
      BY <3>4 DEF Gives
    <3>6. QED
      BY <3>1, <3>2, <3>5
  <2>4. ASSUME NEW i \in Nat, i \in T PROVE i + 1 \in T
    <3>1. CASE i + 1 <= n
      <4>1. i \in 0 .. n - 1 /\ i <= n
        BY <1>3, <3>1
      <4>2. PICK s, b1, b2, p, x, u : /\ s = h[i] /\ b1 = f[i] /\ b2 = bins[i + 1]
                                      /\ p = SubSeq(v, 1, i) /\ x = v[i + 1] /\ u = one[i]
        OBVIOUS
      <4>3. /\ b1 \in Seq(Byte) /\ b2 \in Seq(Byte) /\ Gives(s, data, o1, b1, p)
            /\ Carry(data, o1 + Len(b1), b2)
        BY <1>3, <2>2, <2>4, <4>1, <4>2
      <4>4. ReadBack(u, s, data, b2, x)
        <5>1. i \in 0 .. Len(v) - 1 /\ i < Elements(r)
          BY <1>1, <1>3, <2>1, <4>1
        <5>2. ReadBack(one[i], h[i], data, bins[i + 1], v[i + 1])
          BY <5>1
        <5>3. QED
          BY <4>2, <5>2
      <4>5. /\ s = Read(data, o1 + Len(b1), p)
            /\ o1 + Len(b1) \in 0 .. Len(data)
            => Gives(u, data, o1 + Len(b1), b2, x)
        BY <4>3, <4>4 DEF ReadBack
      <4>6. Gives(Field(s, u), data, o1, b1 \o b2, Append(p, x))
        BY <2>1, <4>3, <4>5, FieldGives
      <4>7. PICK s2, f2, p2 : s2 = h[i + 1] /\ f2 = f[i + 1] /\ p2 = SubSeq(v, 1, i + 1)
        OBVIOUS
      <4>8. s2 = Field(s, u)
        BY <2>1, <4>1, <4>2, <4>7 DEF Loads
      <4>9. f2 = b1 \o b2
        BY <1>1, <1>2, <4>1, <4>2, <4>7 DEF Joins
      <4>10. p2 = Append(p, x)
        BY <1>1, <1>3, <4>1, <4>2, <4>7, PrefixIs
      <4>11. Gives(s2, data, o1, f2, p2)
        BY <4>6, <4>8, <4>9, <4>10
      <4>12. QED
        BY <4>7, <4>11
    <3>2. CASE ~(i + 1 <= n)
      BY <3>2
    <3>3. QED
      BY <3>1, <3>2
  <2>5. n \in T
    <3> HIDE DEF T
    <3>1. \A i \in Nat : i \in T
      BY <2>3, <2>4, NatInduct
    <3>2. QED
      BY <1>3, <3>1
  <2>6. Gives(h[n], data, o1, b, v)
    <3>1. SubSeq(v, 1, n) = v /\ n <= n
      BY <1>1, <1>3, PrefixIs
    <3>2. QED
      BY <1>3, <2>5, <3>1
  <2>7. Gives(h[n], data, offset, t, v)
    BY <1>5, <1>6, <2>6 DEF AlsoGives
  <2>8. QED
    BY <1>5, <2>1, <2>7
<1>7. CASE ~(o1 <= Len(data))
  <2>1. Elements(r) = 0 /\ h[0].thrown = TRUE
    BY <1>5, <1>7 DEF SizeThrown, Loads
  <2>2. Gives(h[0], data, offset, t, v)
    BY <1>5, <1>7, <2>1 DEF AlsoGives
  <2>3. QED
    BY <1>5, <2>1, <2>2
<1>8. QED
  BY <1>6, <1>7

\* The loop of the loader, element by element; the same for the other vectors.
LEMMA LoadTxInsIs ==
  ASSUME NEW r, Elements(r) \in Nat
  PROVE  \E h, one : /\ Loads(h, one, r) /\ LoadTxIns(r) = h[Elements(r)]
                     /\ \A i \in 0 .. Elements(r) - 1 : one[i] = LoadTxIn(h[i])
<1> DEFINE G(g, k) == g = [i \in 0 .. k |->
                             IF i = 0 THEN Vector(r) ELSE Field(g[i - 1], LoadTxIn(g[i - 1]))]
           T == {k \in Nat : \E g : G(g, k)}
<1>1. 0 \in T
  <2>1. G([i \in 0 .. 0 |-> Vector(r)], 0)
    OBVIOUS
  <2>2. QED
    BY <2>1
<1>2. ASSUME NEW k \in Nat, k \in T PROVE k + 1 \in T
  <2>1. PICK g : G(g, k)
    BY <1>2
  <2>2. PICK h : h = [i \in 0 .. k + 1 |->
                        IF i = 0 THEN Vector(r) ELSE Field(g[i - 1], LoadTxIn(g[i - 1]))]
    OBVIOUS
  <2>3. \A i \in 0 .. k : h[i] = g[i]
    BY <2>1, <2>2
  <2>4. \A i \in 0 .. k + 1 : i # 0 => h[i - 1] = g[i - 1]
    BY <2>3
  <2>5. G(h, k + 1)
    BY <2>2, <2>4
  <2> HIDE DEF G
  <2>6. QED
    BY <2>5
<1>3. PICK n : n = Elements(r)
  OBVIOUS
<1> DEFINE L == CHOOSE g : G(g, n)
<1>4. LoadTxIns(r) = L[n]
  BY <1>3 DEF LoadTxIns
<1>5. G(L, n)
  <2> HIDE DEF T
  <2>1. \A k \in Nat : k \in T
    BY <1>1, <1>2, NatInduct
  <2> USE DEF T
  <2> HIDE DEF G
  <2>2. QED
    BY <1>3, <2>1
<1> HIDE DEF L
<1>6. L[0] = Vector(r) /\ \A i \in 0 .. n - 1 : L[i + 1] = Field(L[i], LoadTxIn(L[i]))
  <2>1. \A i \in 0 .. n - 1 : i + 1 \in 0 .. n /\ i + 1 # 0 /\ (i + 1) - 1 = i
    BY <1>3
  <2>2. 0 \in 0 .. n
    BY <1>3
  <2>3. QED
    BY <1>5, <2>1, <2>2
<1> HIDE DEF G
<1>7. PICK one : one = [i \in 0 .. n |-> LoadTxIn(L[i])]
  OBVIOUS
<1>8. \A i \in 0 .. n - 1 : one[i] = LoadTxIn(L[i])
  BY <1>3, <1>7
<1>9. QED
  BY <1>3, <1>4, <1>6, <1>8 DEF Loads

LEMMA LoadTxOutsIs ==
  ASSUME NEW r, Elements(r) \in Nat
  PROVE  \E h, one : /\ Loads(h, one, r) /\ LoadTxOuts(r) = h[Elements(r)]
                     /\ \A i \in 0 .. Elements(r) - 1 : one[i] = LoadTxOut(h[i])
<1> DEFINE G(g, k) == g = [i \in 0 .. k |->
                             IF i = 0 THEN Vector(r) ELSE Field(g[i - 1], LoadTxOut(g[i - 1]))]
           T == {k \in Nat : \E g : G(g, k)}
<1>1. 0 \in T
  <2>1. G([i \in 0 .. 0 |-> Vector(r)], 0)
    OBVIOUS
  <2>2. QED
    BY <2>1
<1>2. ASSUME NEW k \in Nat, k \in T PROVE k + 1 \in T
  <2>1. PICK g : G(g, k)
    BY <1>2
  <2>2. PICK h : h = [i \in 0 .. k + 1 |->
                        IF i = 0 THEN Vector(r) ELSE Field(g[i - 1], LoadTxOut(g[i - 1]))]
    OBVIOUS
  <2>3. \A i \in 0 .. k : h[i] = g[i]
    BY <2>1, <2>2
  <2>4. \A i \in 0 .. k + 1 : i # 0 => h[i - 1] = g[i - 1]
    BY <2>3
  <2>5. G(h, k + 1)
    BY <2>2, <2>4
  <2> HIDE DEF G
  <2>6. QED
    BY <2>5
<1>3. PICK n : n = Elements(r)
  OBVIOUS
<1> DEFINE L == CHOOSE g : G(g, n)
<1>4. LoadTxOuts(r) = L[n]
  BY <1>3 DEF LoadTxOuts
<1>5. G(L, n)
  <2> HIDE DEF T
  <2>1. \A k \in Nat : k \in T
    BY <1>1, <1>2, NatInduct
  <2> USE DEF T
  <2> HIDE DEF G
  <2>2. QED
    BY <1>3, <2>1
<1> HIDE DEF L
<1>6. L[0] = Vector(r) /\ \A i \in 0 .. n - 1 : L[i + 1] = Field(L[i], LoadTxOut(L[i]))
  <2>1. \A i \in 0 .. n - 1 : i + 1 \in 0 .. n /\ i + 1 # 0 /\ (i + 1) - 1 = i
    BY <1>3
  <2>2. 0 \in 0 .. n
    BY <1>3
  <2>3. QED
    BY <1>5, <2>1, <2>2
<1> HIDE DEF G
<1>7. PICK one : one = [i \in 0 .. n |-> LoadTxOut(L[i])]
  OBVIOUS
<1>8. \A i \in 0 .. n - 1 : one[i] = LoadTxOut(L[i])
  BY <1>3, <1>7
<1>9. QED
  BY <1>3, <1>4, <1>6, <1>8 DEF Loads

LEMMA LoadTransactionsIs ==
  ASSUME NEW r, Elements(r) \in Nat
  PROVE  \E h, one : /\ Loads(h, one, r) /\ LoadTransactions(r) = h[Elements(r)]
                     /\ \A i \in 0 .. Elements(r) - 1 : one[i] = LoadTransaction(h[i])
<1> DEFINE G(g, k) == g = [i \in 0 .. k |->
                             IF i = 0 THEN Vector(r) ELSE Field(g[i - 1], LoadTransaction(g[i - 1]))]
           T == {k \in Nat : \E g : G(g, k)}
<1>1. 0 \in T
  <2>1. G([i \in 0 .. 0 |-> Vector(r)], 0)
    OBVIOUS
  <2>2. QED
    BY <2>1
<1>2. ASSUME NEW k \in Nat, k \in T PROVE k + 1 \in T
  <2>1. PICK g : G(g, k)
    BY <1>2
  <2>2. PICK h : h = [i \in 0 .. k + 1 |->
                        IF i = 0 THEN Vector(r) ELSE Field(g[i - 1], LoadTransaction(g[i - 1]))]
    OBVIOUS
  <2>3. \A i \in 0 .. k : h[i] = g[i]
    BY <2>1, <2>2
  <2>4. \A i \in 0 .. k + 1 : i # 0 => h[i - 1] = g[i - 1]
    BY <2>3
  <2>5. G(h, k + 1)
    BY <2>2, <2>4
  <2> HIDE DEF G
  <2>6. QED
    BY <2>5
<1>3. PICK n : n = Elements(r)
  OBVIOUS
<1> DEFINE L == CHOOSE g : G(g, n)
<1>4. LoadTransactions(r) = L[n]
  BY <1>3 DEF LoadTransactions
<1>5. G(L, n)
  <2> HIDE DEF T
  <2>1. \A k \in Nat : k \in T
    BY <1>1, <1>2, NatInduct
  <2> USE DEF T
  <2> HIDE DEF G
  <2>2. QED
    BY <1>3, <2>1
<1> HIDE DEF L
<1>6. L[0] = Vector(r) /\ \A i \in 0 .. n - 1 : L[i + 1] = Field(L[i], LoadTransaction(L[i]))
  <2>1. \A i \in 0 .. n - 1 : i + 1 \in 0 .. n /\ i + 1 # 0 /\ (i + 1) - 1 = i
    BY <1>3
  <2>2. 0 \in 0 .. n
    BY <1>3
  <2>3. QED
    BY <1>5, <2>1, <2>2
<1> HIDE DEF G
<1>7. PICK one : one = [i \in 0 .. n |-> LoadTransaction(L[i])]
  OBVIOUS
<1>8. \A i \in 0 .. n - 1 : one[i] = LoadTransaction(L[i])
  BY <1>3, <1>7
<1>9. QED
  BY <1>3, <1>4, <1>6, <1>8 DEF Loads

LEMMA LoadScriptsIs ==
  ASSUME NEW r, Elements(r) \in Nat
  PROVE  \E h, one : /\ Loads(h, one, r) /\ LoadScripts(r) = h[Elements(r)]
                     /\ \A i \in 0 .. Elements(r) - 1 : one[i] = LoadBytes(h[i])
<1> DEFINE G(g, k) == g = [i \in 0 .. k |->
                             IF i = 0 THEN Vector(r) ELSE Field(g[i - 1], LoadBytes(g[i - 1]))]
           T == {k \in Nat : \E g : G(g, k)}
<1>1. 0 \in T
  <2>1. G([i \in 0 .. 0 |-> Vector(r)], 0)
    OBVIOUS
  <2>2. QED
    BY <2>1
<1>2. ASSUME NEW k \in Nat, k \in T PROVE k + 1 \in T
  <2>1. PICK g : G(g, k)
    BY <1>2
  <2>2. PICK h : h = [i \in 0 .. k + 1 |->
                        IF i = 0 THEN Vector(r) ELSE Field(g[i - 1], LoadBytes(g[i - 1]))]
    OBVIOUS
  <2>3. \A i \in 0 .. k : h[i] = g[i]
    BY <2>1, <2>2
  <2>4. \A i \in 0 .. k + 1 : i # 0 => h[i - 1] = g[i - 1]
    BY <2>3
  <2>5. G(h, k + 1)
    BY <2>2, <2>4
  <2> HIDE DEF G
  <2>6. QED
    BY <2>5
<1>3. PICK n : n = Elements(r)
  OBVIOUS
<1> DEFINE L == CHOOSE g : G(g, n)
<1>4. LoadScripts(r) = L[n]
  BY <1>3 DEF LoadScripts
<1>5. G(L, n)
  <2> HIDE DEF T
  <2>1. \A k \in Nat : k \in T
    BY <1>1, <1>2, NatInduct
  <2> USE DEF T
  <2> HIDE DEF G
  <2>2. QED
    BY <1>3, <2>1
<1> HIDE DEF L
<1>6. L[0] = Vector(r) /\ \A i \in 0 .. n - 1 : L[i + 1] = Field(L[i], LoadBytes(L[i]))
  <2>1. \A i \in 0 .. n - 1 : i + 1 \in 0 .. n /\ i + 1 # 0 /\ (i + 1) - 1 = i
    BY <1>3
  <2>2. 0 \in 0 .. n
    BY <1>3
  <2>3. QED
    BY <1>5, <2>1, <2>2
<1> HIDE DEF G
<1>7. PICK one : one = [i \in 0 .. n |-> LoadBytes(L[i])]
  OBVIOUS
<1>8. \A i \in 0 .. n - 1 : one[i] = LoadBytes(L[i])
  BY <1>3, <1>7
<1>9. QED
  BY <1>3, <1>4, <1>6, <1>8 DEF Loads

LEMMA LoadHeadersIs ==
  ASSUME NEW r, Elements(r) \in Nat
  PROVE  \E h, one : /\ Loads(h, one, r) /\ LoadHeaders(r) = h[Elements(r)]
                     /\ \A i \in 0 .. Elements(r) - 1 : one[i] = LoadBlock(h[i])
<1> DEFINE G(g, k) == g = [i \in 0 .. k |->
                             IF i = 0 THEN Vector(r) ELSE Field(g[i - 1], LoadBlock(g[i - 1]))]
           T == {k \in Nat : \E g : G(g, k)}
<1>1. 0 \in T
  <2>1. G([i \in 0 .. 0 |-> Vector(r)], 0)
    OBVIOUS
  <2>2. QED
    BY <2>1
<1>2. ASSUME NEW k \in Nat, k \in T PROVE k + 1 \in T
  <2>1. PICK g : G(g, k)
    BY <1>2
  <2>2. PICK h : h = [i \in 0 .. k + 1 |->
                        IF i = 0 THEN Vector(r) ELSE Field(g[i - 1], LoadBlock(g[i - 1]))]
    OBVIOUS
  <2>3. \A i \in 0 .. k : h[i] = g[i]
    BY <2>1, <2>2
  <2>4. \A i \in 0 .. k + 1 : i # 0 => h[i - 1] = g[i - 1]
    BY <2>3
  <2>5. G(h, k + 1)
    BY <2>2, <2>4
  <2> HIDE DEF G
  <2>6. QED
    BY <2>5
<1>3. PICK n : n = Elements(r)
  OBVIOUS
<1> DEFINE L == CHOOSE g : G(g, n)
<1>4. LoadHeaders(r) = L[n]
  BY <1>3 DEF LoadHeaders
<1>5. G(L, n)
  <2> HIDE DEF T
  <2>1. \A k \in Nat : k \in T
    BY <1>1, <1>2, NatInduct
  <2> USE DEF T
  <2> HIDE DEF G
  <2>2. QED
    BY <1>3, <2>1
<1> HIDE DEF L
<1>6. L[0] = Vector(r) /\ \A i \in 0 .. n - 1 : L[i + 1] = Field(L[i], LoadBlock(L[i]))
  <2>1. \A i \in 0 .. n - 1 : i + 1 \in 0 .. n /\ i + 1 # 0 /\ (i + 1) - 1 = i
    BY <1>3
  <2>2. 0 \in 0 .. n
    BY <1>3
  <2>3. QED
    BY <1>5, <2>1, <2>2
<1> HIDE DEF G
<1>7. PICK one : one = [i \in 0 .. n |-> LoadBlock(L[i])]
  OBVIOUS
<1>8. \A i \in 0 .. n - 1 : one[i] = LoadBlock(L[i])
  BY <1>3, <1>7
<1>9. QED
  BY <1>3, <1>4, <1>6, <1>8 DEF Loads

----------------------------------------------------------------------------
(* What is written is read back, structure by structure.                   *)

LEMMA PodRead ==
  ASSUME NEW data \in Seq(Byte), NEW r, NEW x \in Byte
  PROVE  SavePod(x) \in Seq(Byte) /\ ReadBack(LoadPod(r), r, data, SavePod(x), x)
<1>1. SavePod(x) \in Seq(Byte)
  BY OneIs DEF SavePod
<1>2. ASSUME NEW o \in 0 .. Len(data), NEW value, r = Read(data, o, value),
             Carry(data, o, SavePod(x))
      PROVE  Gives(LoadPod(r), data, o, SavePod(x), x)
  BY <1>2, LoadPodGives
<1>3. QED
  BY <1>1, <1>2 DEF ReadBack

LEMMA BytesRead ==
  ASSUME NEW data \in Seq(Byte), NEW r, NEW x \in Counted(Byte)
  PROVE  SaveBytes(x) \in Seq(Byte) /\ ReadBack(LoadBytes(r), r, data, SaveBytes(x), x)
<1>1. ASSUME NEW o \in 0 .. Len(data), NEW value, r = Read(data, o, value),
             Carry(data, o, SaveBytes(x))
      PROVE  Gives(LoadBytes(r), data, o, SaveBytes(x), x)
  BY <1>1, LoadBytesGives
<1>2. QED
  BY <1>1, SaveBytesType DEF ReadBack

LEMMA OneSizeRead ==
  ASSUME NEW data \in Seq(Byte), NEW r, NEW n \in Nat, n < Power[8]
  PROVE  SaveSize(n) \in Seq(Byte) /\ ReadBack(LoadSize(r), r, data, SaveSize(n), n)
<1>1. ASSUME NEW o \in 0 .. Len(data), NEW value, r = Read(data, o, value),
             Carry(data, o, SaveSize(n))
      PROVE  Gives(LoadSize(r), data, o, SaveSize(n), n)
  BY <1>1, SizeGives
<1>2. QED
  BY <1>1, SaveSizeType DEF ReadBack

\* A structure begins with its first field.
LEMMA FirstRead ==
  ASSUME NEW data \in Seq(Byte), NEW r, NEW b \in Seq(Byte), NEW one, NEW x,
         ReadBack(one, r, data, b, x)
  PROVE  ReadBack(Field(Begin(r), one), r, data, b, <<x>>)
<1>1. ASSUME NEW o \in 0 .. Len(data), NEW value, r = Read(data, o, value),
             Carry(data, o, b)
      PROVE  Gives(Field(Begin(r), one), data, o, b, <<x>>)
  <2>1. Gives(one, data, o, b, x)
    BY <1>1 DEF ReadBack
  <2>2. Gives(Field(Begin(Read(data, o, value)), one), data, o, b, <<x>>)
    BY <2>1, FirstGives
  <2>3. QED
    BY <1>1, <2>2
<1>2. QED
  BY <1>1 DEF ReadBack

\* A structure goes on field by field: the next one is read where the last one ended.
LEMMA NextRead ==
  ASSUME NEW data \in Seq(Byte), NEW r, NEW b1 \in Seq(Byte), NEW b2 \in Seq(Byte),
         NEW s, NEW v, NEW one, NEW x,
         ReadBack(s, r, data, b1, v), ReadBack(one, s, data, b2, x)
  PROVE  ReadBack(Field(s, one), r, data, b1 \o b2, Append(v, x)) /\ b1 \o b2 \in Seq(Byte)
<1>1. PICK t, y : t = b1 \o b2 /\ y = Append(v, x)
  OBVIOUS
<1>2. t \in Seq(Byte)
  BY <1>1, ConcatProperties
<1>3. ASSUME NEW o \in 0 .. Len(data), NEW value, r = Read(data, o, value),
             Carry(data, o, t)
      PROVE  Gives(Field(s, one), data, o, t, y)
  <2>1. Carry(data, o, b1) /\ Carry(data, o + Len(b1), b2)
    BY <1>1, <1>3, CarryParts
  <2>2. Gives(s, data, o, b1, v)
    BY <1>3, <2>1 DEF ReadBack
  <2>3. /\ s = Read(data, o + Len(b1), v)
        /\ o + Len(b1) \in 0 .. Len(data)
        => Gives(one, data, o + Len(b1), b2, x)
    BY <2>1 DEF ReadBack
  <2>4. Gives(Field(s, one), data, o, b1 \o b2, Append(v, x))
    BY <2>2, <2>3, FieldGives
  <2>5. QED
    BY <1>1, <2>4
<1>4. QED
  BY <1>1, <1>2, <1>3 DEF ReadBack

\* A loader of vectors that reads each element back.
LoadsBack(h, one, out, r, data, bins, v) ==
  /\ Loads(h, one, r) /\ out = h[Elements(r)]
  /\ \A i \in 0 .. Len(v) - 1 :
       i < Elements(r) => ReadBack(one[i], h[i], data, bins[i + 1], v[i + 1])

\* A vector of whatever is read back is read back.
LEMMA VectorRead ==
  ASSUME NEW data \in Seq(Byte), NEW r, NEW S, NEW v \in Counted(S),
         NEW bins \in Seq(Seq(Byte)), Len(bins) = Len(v), NEW out,
         Elements(r) \in Nat => \E h, one : LoadsBack(h, one, out, r, data, bins, v)
  PROVE  SaveVector(bins) \in Seq(Byte) /\ ReadBack(out, r, data, SaveVector(bins), v)
<1>1. PICK t, b : t = SaveVector(bins) /\ b = FlattenSeq(bins)
  OBVIOUS
<1>2. t = SaveSize(Len(v)) \o b /\ b \in Seq(Byte)
  <2>1. PICK f \in [0 .. Len(bins) -> Seq(Byte)] : b = f[Len(bins)]
    BY <1>1, FlattenIs
  <2>2. Len(bins) \in 0 .. Len(bins)
    BY LenProperties
  <2>3. QED
    BY <1>1, <2>1, <2>2 DEF SaveVector
<1>3. t \in Seq(Byte)
  <2>1. SaveSize(Len(v)) \in Seq(Byte)
    BY CountedIs
  <2>2. QED
    BY <1>2, <2>1, ConcatProperties
<1>4. ASSUME NEW o \in 0 .. Len(data), NEW value, r = Read(data, o, value),
             Carry(data, o, t)
      PROVE  Gives(out, data, o, t, v)
  <2>1. PICK o1 : o1 = o + Len(SaveSize(Len(v)))
    OBVIOUS
  <2>2. /\ o1 <= Len(data) => SizeRead(r, data, o1, Len(v))
        /\ ~(o1 <= Len(data)) => SizeThrown(r)
    BY <1>2, <1>4, <2>1, Behind
  <2>3. Elements(r) \in Nat
    <3>1. Len(v) \in Nat
      BY CountedIs
    <3>2. QED
      BY <2>2, <3>1 DEF SizeRead, SizeThrown
  <2>4. PICK h, one : LoadsBack(h, one, out, r, data, bins, v)
    BY <2>3
  <2>5. /\ Loads(h, one, r) /\ out = h[Elements(r)]
        /\ \A i \in 0 .. Len(v) - 1 :
             i < Elements(r) => ReadBack(one[i], h[i], data, bins[i + 1], v[i + 1])
    BY <2>4 DEF LoadsBack
  <2>6. Gives(h[Elements(r)], data, o, t, v)
    BY <1>1, <1>4, <2>5, VectorGives
  <2>7. QED
    BY <2>5, <2>6
<1>5. QED
  BY <1>1, <1>3, <1>4 DEF ReadBack

\* The structures of the protocol.
WireBytes == Counted(Byte)
WireTxIn == Byte \X WireBytes \X Byte
WireTxOut == Byte \X WireBytes
WireTransaction == Byte \X Counted(WireTxIn) \X Counted(WireTxOut) \X Byte
WireBlock == Byte \X Counted(WireTransaction)

LEMMA TxInRead ==
  ASSUME NEW data \in Seq(Byte), NEW r, NEW x \in WireTxIn
  PROVE  SaveTxIn(x) \in Seq(Byte) /\ ReadBack(LoadTxIn(r), r, data, SaveTxIn(x), x)
<1>1. PICK p \in Byte, s \in Counted(Byte), q \in Byte : x = <<p, s, q>>
  BY DEF WireTxIn, WireBytes
<1>2. PICK b1, b2, b3 : b1 = SavePod(p) /\ b2 = SaveBytes(s) /\ b3 = SavePod(q)
  OBVIOUS
<1>3. PICK f1, f2, f3 : /\ f1 = Field(Begin(r), LoadPod(r)) /\ f2 = Field(f1, LoadBytes(f1))
                        /\ f3 = Field(f2, LoadPod(f2))
  OBVIOUS
<1>4. b1 \in Seq(Byte) /\ b2 \in Seq(Byte) /\ b3 \in Seq(Byte)
  BY <1>2, PodRead, BytesRead
<1>5. /\ ReadBack(LoadPod(r), r, data, b1, p) /\ ReadBack(LoadBytes(f1), f1, data, b2, s)
      /\ ReadBack(LoadPod(f2), f2, data, b3, q)
  BY <1>2, PodRead, BytesRead
<1>6. ReadBack(f1, r, data, b1, <<p>>)
  BY <1>3, <1>4, <1>5, FirstRead
<1>7. ReadBack(f2, r, data, b1 \o b2, Append(<<p>>, s)) /\ b1 \o b2 \in Seq(Byte)
  BY <1>3, <1>4, <1>5, <1>6, NextRead
<1>8. PICK c2 : c2 = b1 \o b2
  OBVIOUS
<1>9. ReadBack(f2, r, data, c2, <<p, s>>) /\ c2 \in Seq(Byte)
  BY <1>7, <1>8, Tuples
<1>10. ReadBack(f3, r, data, c2 \o b3, Append(<<p, s>>, q)) /\ c2 \o b3 \in Seq(Byte)
  BY <1>3, <1>4, <1>5, <1>9, NextRead
<1>11. Append(<<p, s>>, q) = <<p, s, q>>
  BY Tuples
<1>12. SaveTxIn(x) = c2 \o b3 /\ LoadTxIn(r) = f3
  BY <1>1, <1>2, <1>3, <1>8 DEF SaveTxIn, LoadTxIn
<1>13. QED
  BY <1>1, <1>10, <1>11, <1>12

LEMMA TxOutRead ==
  ASSUME NEW data \in Seq(Byte), NEW r, NEW x \in WireTxOut
  PROVE  SaveTxOut(x) \in Seq(Byte) /\ ReadBack(LoadTxOut(r), r, data, SaveTxOut(x), x)
<1>1. PICK p \in Byte, s \in Counted(Byte) : x = <<p, s>>
  BY DEF WireTxOut, WireBytes
<1>2. PICK b1, b2 : b1 = SavePod(p) /\ b2 = SaveBytes(s)
  OBVIOUS
<1>3. PICK f1, f2 : f1 = Field(Begin(r), LoadPod(r)) /\ f2 = Field(f1, LoadBytes(f1))
  OBVIOUS
<1>4. b1 \in Seq(Byte) /\ b2 \in Seq(Byte)
  BY <1>2, PodRead, BytesRead
<1>5. ReadBack(LoadPod(r), r, data, b1, p) /\ ReadBack(LoadBytes(f1), f1, data, b2, s)
  BY <1>2, PodRead, BytesRead
<1>6. ReadBack(f1, r, data, b1, <<p>>)
  BY <1>3, <1>4, <1>5, FirstRead
<1>7. ReadBack(f2, r, data, b1 \o b2, Append(<<p>>, s)) /\ b1 \o b2 \in Seq(Byte)
  BY <1>3, <1>4, <1>5, <1>6, NextRead
<1>8. ReadBack(f2, r, data, b1 \o b2, <<p, s>>)
  BY <1>7, Tuples
<1>9. SaveTxOut(x) = b1 \o b2 /\ LoadTxOut(r) = f2
  BY <1>1, <1>2, <1>3 DEF SaveTxOut, LoadTxOut
<1>10. QED
  BY <1>1, <1>7, <1>8, <1>9

LEMMA TxInsRead ==
  ASSUME NEW data \in Seq(Byte), NEW r, NEW v \in Counted(WireTxIn),
         NEW bins, bins = [i \in DOMAIN v |-> SaveTxIn(v[i])]
  PROVE  SaveVector(bins) \in Seq(Byte)
         /\ ReadBack(LoadTxIns(r), r, data, SaveVector(bins), v)
<1>1. /\ v \in Seq(WireTxIn) /\ DOMAIN v = 1 .. Len(v) /\ Len(v) \in Nat
      /\ \A i \in 1 .. Len(v) : v[i] \in WireTxIn
  BY CountedIs, LenProperties, ElementOfSeq
<1>2. \A i \in 1 .. Len(v) : SaveTxIn(v[i]) \in Seq(Byte)
  BY <1>1, TxInRead
<1>3. bins \in Seq(Seq(Byte)) /\ Len(bins) = Len(v)
  <2>1. bins \in [1 .. Len(v) -> Seq(Byte)]
    BY <1>1, <1>2
  <2>2. QED
    BY <1>1, <2>1, SeqOfFun
<1>4. ASSUME Elements(r) \in Nat
      PROVE  \E h, one : LoadsBack(h, one, LoadTxIns(r), r, data, bins, v)
  <2>1. PICK h, one : /\ Loads(h, one, r) /\ LoadTxIns(r) = h[Elements(r)]
                      /\ \A i \in 0 .. Elements(r) - 1 : one[i] = LoadTxIn(h[i])
    BY <1>4, LoadTxInsIs
  <2>2. ASSUME NEW i \in 0 .. Len(v) - 1, i < Elements(r)
        PROVE  ReadBack(one[i], h[i], data, bins[i + 1], v[i + 1])
    <3>1. i + 1 \in 1 .. Len(v) /\ i \in 0 .. Elements(r) - 1
      BY <1>1, <1>4, <2>2
    <3>2. one[i] = LoadTxIn(h[i]) /\ bins[i + 1] = SaveTxIn(v[i + 1]) /\ v[i + 1] \in WireTxIn
      BY <1>1, <2>1, <3>1
    <3>3. PICK s, x : s = h[i] /\ x = v[i + 1]
      OBVIOUS
    <3>4. ReadBack(LoadTxIn(s), s, data, SaveTxIn(x), x)
      BY <3>2, <3>3, TxInRead
    <3>5. QED
      BY <3>2, <3>3, <3>4
  <2>3. LoadsBack(h, one, LoadTxIns(r), r, data, bins, v)
    BY <2>1, <2>2 DEF LoadsBack
  <2>4. QED
    BY <2>3
<1>5. QED
  BY <1>3, <1>4, VectorRead

LEMMA TxOutsRead ==
  ASSUME NEW data \in Seq(Byte), NEW r, NEW v \in Counted(WireTxOut),
         NEW bins, bins = [i \in DOMAIN v |-> SaveTxOut(v[i])]
  PROVE  SaveVector(bins) \in Seq(Byte)
         /\ ReadBack(LoadTxOuts(r), r, data, SaveVector(bins), v)
<1>1. /\ v \in Seq(WireTxOut) /\ DOMAIN v = 1 .. Len(v) /\ Len(v) \in Nat
      /\ \A i \in 1 .. Len(v) : v[i] \in WireTxOut
  BY CountedIs, LenProperties, ElementOfSeq
<1>2. \A i \in 1 .. Len(v) : SaveTxOut(v[i]) \in Seq(Byte)
  BY <1>1, TxOutRead
<1>3. bins \in Seq(Seq(Byte)) /\ Len(bins) = Len(v)
  <2>1. bins \in [1 .. Len(v) -> Seq(Byte)]
    BY <1>1, <1>2
  <2>2. QED
    BY <1>1, <2>1, SeqOfFun
<1>4. ASSUME Elements(r) \in Nat
      PROVE  \E h, one : LoadsBack(h, one, LoadTxOuts(r), r, data, bins, v)
  <2>1. PICK h, one : /\ Loads(h, one, r) /\ LoadTxOuts(r) = h[Elements(r)]
                      /\ \A i \in 0 .. Elements(r) - 1 : one[i] = LoadTxOut(h[i])
    BY <1>4, LoadTxOutsIs
  <2>2. ASSUME NEW i \in 0 .. Len(v) - 1, i < Elements(r)
        PROVE  ReadBack(one[i], h[i], data, bins[i + 1], v[i + 1])
    <3>1. i + 1 \in 1 .. Len(v) /\ i \in 0 .. Elements(r) - 1
      BY <1>1, <1>4, <2>2
    <3>2. one[i] = LoadTxOut(h[i]) /\ bins[i + 1] = SaveTxOut(v[i + 1]) /\ v[i + 1] \in WireTxOut
      BY <1>1, <2>1, <3>1
    <3>3. PICK s, x : s = h[i] /\ x = v[i + 1]
      OBVIOUS
    <3>4. ReadBack(LoadTxOut(s), s, data, SaveTxOut(x), x)
      BY <3>2, <3>3, TxOutRead
    <3>5. QED
      BY <3>2, <3>3, <3>4
  <2>3. LoadsBack(h, one, LoadTxOuts(r), r, data, bins, v)
    BY <2>1, <2>2 DEF LoadsBack
  <2>4. QED
    BY <2>3
<1>5. QED
  BY <1>3, <1>4, VectorRead

\* A CTransaction: vectors of inputs and outputs between two PODs.
LEMMA TransactionRead ==
  ASSUME NEW data \in Seq(Byte), NEW r, NEW x \in WireTransaction
  PROVE  /\ SaveTransaction(x) \in Seq(Byte)
         /\ ReadBack(LoadTransaction(r), r, data, SaveTransaction(x), x)
<1>1. PICK p \in Byte, u \in Counted(WireTxIn), w \in Counted(WireTxOut), q \in Byte :
        x = <<p, u, w, q>>
  BY DEF WireTransaction
<1>2. PICK ubins, wbins : /\ ubins = [i \in DOMAIN u |-> SaveTxIn(u[i])]
                          /\ wbins = [i \in DOMAIN w |-> SaveTxOut(w[i])]
  OBVIOUS
<1>3. PICK b1, b2, b3, b4 : /\ b1 = SavePod(p) /\ b2 = SaveVector(ubins)
                            /\ b3 = SaveVector(wbins) /\ b4 = SavePod(q)
  OBVIOUS
<1>4. PICK f1, f2, f3, f4 :
        /\ f1 = Field(Begin(r), LoadPod(r)) /\ f2 = Field(f1, LoadTxIns(f1))
        /\ f3 = Field(f2, LoadTxOuts(f2)) /\ f4 = Field(f3, LoadPod(f3))
  OBVIOUS
<1>5. b1 \in Seq(Byte) /\ b4 \in Seq(Byte)
  BY <1>3, PodRead
<1>6. b2 \in Seq(Byte) /\ ReadBack(LoadTxIns(f1), f1, data, b2, u)
  BY <1>2, <1>3, TxInsRead
<1>7. b3 \in Seq(Byte) /\ ReadBack(LoadTxOuts(f2), f2, data, b3, w)
  BY <1>2, <1>3, TxOutsRead
<1>8. ReadBack(LoadPod(r), r, data, b1, p) /\ ReadBack(LoadPod(f3), f3, data, b4, q)
  BY <1>3, PodRead
<1>9. ReadBack(f1, r, data, b1, <<p>>)
  BY <1>4, <1>5, <1>8, FirstRead
<1>10. ReadBack(f2, r, data, b1 \o b2, Append(<<p>>, u)) /\ b1 \o b2 \in Seq(Byte)
  BY <1>4, <1>5, <1>6, <1>9, NextRead
<1>11. PICK c2 : c2 = b1 \o b2
  OBVIOUS
<1>12. ReadBack(f2, r, data, c2, <<p, u>>) /\ c2 \in Seq(Byte)
  BY <1>10, <1>11, Tuples
<1>13. ReadBack(f3, r, data, c2 \o b3, Append(<<p, u>>, w)) /\ c2 \o b3 \in Seq(Byte)
  BY <1>4, <1>7, <1>12, NextRead
<1>14. PICK c3 : c3 = c2 \o b3
  OBVIOUS
<1>15. ReadBack(f3, r, data, c3, <<p, u, w>>) /\ c3 \in Seq(Byte)
  <2>1. Append(<<p, u>>, w) = <<p, u, w>>
    BY Tuples
  <2>2. QED
    BY <1>13, <1>14, <2>1
<1>16. ReadBack(f4, r, data, c3 \o b4, Append(<<p, u, w>>, q)) /\ c3 \o b4 \in Seq(Byte)
  BY <1>4, <1>5, <1>8, <1>15, NextRead
<1>17. Append(<<p, u, w>>, q) = <<p, u, w, q>>
  BY FourFields
<1>18. SaveTransaction(x) = c3 \o b4
  BY <1>1, <1>2, <1>3, <1>11, <1>14 DEF SaveTransaction
<1>19. LoadTransaction(r) = f4
  BY <1>4 DEF LoadTransaction
<1>20. QED
  BY <1>1, <1>16, <1>17, <1>18, <1>19

LEMMA TransactionsRead ==
  ASSUME NEW data \in Seq(Byte), NEW r, NEW v \in Counted(WireTransaction),
         NEW bins, bins = [i \in DOMAIN v |-> SaveTransaction(v[i])]
  PROVE  SaveVector(bins) \in Seq(Byte)
         /\ ReadBack(LoadTransactions(r), r, data, SaveVector(bins), v)
<1>1. /\ v \in Seq(WireTransaction) /\ DOMAIN v = 1 .. Len(v) /\ Len(v) \in Nat
      /\ \A i \in 1 .. Len(v) : v[i] \in WireTransaction
  BY CountedIs, LenProperties, ElementOfSeq
<1>2. \A i \in 1 .. Len(v) : SaveTransaction(v[i]) \in Seq(Byte)
  BY <1>1, TransactionRead
<1>3. bins \in Seq(Seq(Byte)) /\ Len(bins) = Len(v)
  <2>1. bins \in [1 .. Len(v) -> Seq(Byte)]
    BY <1>1, <1>2
  <2>2. QED
    BY <1>1, <2>1, SeqOfFun
<1>4. ASSUME Elements(r) \in Nat
      PROVE  \E h, one : LoadsBack(h, one, LoadTransactions(r), r, data, bins, v)
  <2>1. PICK h, one : /\ Loads(h, one, r) /\ LoadTransactions(r) = h[Elements(r)]
                      /\ \A i \in 0 .. Elements(r) - 1 : one[i] = LoadTransaction(h[i])
    BY <1>4, LoadTransactionsIs
  <2>2. ASSUME NEW i \in 0 .. Len(v) - 1, i < Elements(r)
        PROVE  ReadBack(one[i], h[i], data, bins[i + 1], v[i + 1])
    <3>1. i + 1 \in 1 .. Len(v) /\ i \in 0 .. Elements(r) - 1
      BY <1>1, <1>4, <2>2
    <3>2. /\ one[i] = LoadTransaction(h[i]) /\ bins[i + 1] = SaveTransaction(v[i + 1])
          /\ v[i + 1] \in WireTransaction
      BY <1>1, <2>1, <3>1
    <3>3. PICK s, x : s = h[i] /\ x = v[i + 1]
      OBVIOUS
    <3>4. ReadBack(LoadTransaction(s), s, data, SaveTransaction(x), x)
      BY <3>2, <3>3, TransactionRead
    <3>5. QED
      BY <3>2, <3>3, <3>4
  <2>3. LoadsBack(h, one, LoadTransactions(r), r, data, bins, v)
    BY <2>1, <2>2 DEF LoadsBack
  <2>4. QED
    BY <2>3
<1>5. QED
  BY <1>3, <1>4, VectorRead

(* Any CBlock, of any bytes and with as many transactions, inputs, outputs *)
(* and script bytes as a size_t counts, is read back from wherever the     *)
(* data carry it (serialize_t<Stream, CBlock>, of cmd "block" and of the   *)
(* .blocks file); data that end before it make the reader throw.           *)
THEOREM BlockRead ==
  ASSUME NEW data \in Seq(Byte), NEW r, NEW x \in WireBlock
  PROVE  SaveBlock(x) \in Seq(Byte) /\ ReadBack(LoadBlock(r), r, data, SaveBlock(x), x)
<1>1. PICK p \in Byte, u \in Counted(WireTransaction) : x = <<p, u>>
  BY DEF WireBlock
<1>2. PICK bins : bins = [i \in DOMAIN u |-> SaveTransaction(u[i])]
  OBVIOUS
<1>3. PICK b1, b2 : b1 = SavePod(p) /\ b2 = SaveVector(bins)
  OBVIOUS
<1>4. PICK f1, f2 : f1 = Field(Begin(r), LoadPod(r)) /\ f2 = Field(f1, LoadTransactions(f1))
  OBVIOUS
<1>5. b1 \in Seq(Byte) /\ ReadBack(LoadPod(r), r, data, b1, p)
  BY <1>3, PodRead
<1>6. b2 \in Seq(Byte) /\ ReadBack(LoadTransactions(f1), f1, data, b2, u)
  BY <1>2, <1>3, TransactionsRead
<1>7. ReadBack(f1, r, data, b1, <<p>>)
  BY <1>4, <1>5, FirstRead
<1>8. ReadBack(f2, r, data, b1 \o b2, Append(<<p>>, u)) /\ b1 \o b2 \in Seq(Byte)
  BY <1>4, <1>5, <1>6, <1>7, NextRead
<1>9. ReadBack(f2, r, data, b1 \o b2, <<p, u>>)
  BY <1>8, Tuples
<1>10. SaveBlock(x) = b1 \o b2 /\ LoadBlock(r) = f2
  BY <1>1, <1>2, <1>3, <1>4 DEF SaveBlock, LoadBlock
<1>11. QED
  BY <1>1, <1>8, <1>9, <1>10

LEMMA ScriptsRead ==
  ASSUME NEW data \in Seq(Byte), NEW r, NEW v \in Counted(WireBytes),
         NEW bins, bins = [i \in DOMAIN v |-> SaveBytes(v[i])]
  PROVE  SaveVector(bins) \in Seq(Byte)
         /\ ReadBack(LoadScripts(r), r, data, SaveVector(bins), v)
<1>1. /\ v \in Seq(WireBytes) /\ DOMAIN v = 1 .. Len(v) /\ Len(v) \in Nat
      /\ \A i \in 1 .. Len(v) : v[i] \in WireBytes
  BY CountedIs, LenProperties, ElementOfSeq
<1>2. \A i \in 1 .. Len(v) : SaveBytes(v[i]) \in Seq(Byte)
  BY <1>1, BytesRead DEF WireBytes
<1>3. bins \in Seq(Seq(Byte)) /\ Len(bins) = Len(v)
  <2>1. bins \in [1 .. Len(v) -> Seq(Byte)]
    BY <1>1, <1>2
  <2>2. QED
    BY <1>1, <2>1, SeqOfFun
<1>4. ASSUME Elements(r) \in Nat
      PROVE  \E h, one : LoadsBack(h, one, LoadScripts(r), r, data, bins, v)
  <2>1. PICK h, one : /\ Loads(h, one, r) /\ LoadScripts(r) = h[Elements(r)]
                      /\ \A i \in 0 .. Elements(r) - 1 : one[i] = LoadBytes(h[i])
    BY <1>4, LoadScriptsIs
  <2>2. ASSUME NEW i \in 0 .. Len(v) - 1, i < Elements(r)
        PROVE  ReadBack(one[i], h[i], data, bins[i + 1], v[i + 1])
    <3>1. i + 1 \in 1 .. Len(v) /\ i \in 0 .. Elements(r) - 1
      BY <1>1, <1>4, <2>2
    <3>2. one[i] = LoadBytes(h[i]) /\ bins[i + 1] = SaveBytes(v[i + 1]) /\ v[i + 1] \in WireBytes
      BY <1>1, <2>1, <3>1
    <3>3. PICK s, x : s = h[i] /\ x = v[i + 1]
      OBVIOUS
    <3>4. ReadBack(LoadBytes(s), s, data, SaveBytes(x), x)
      BY <3>2, <3>3, BytesRead DEF WireBytes
    <3>5. QED
      BY <3>2, <3>3, <3>4
  <2>3. LoadsBack(h, one, LoadScripts(r), r, data, bins, v)
    BY <2>1, <2>2 DEF LoadsBack
  <2>4. QED
    BY <2>3
<1>5. QED
  BY <1>3, <1>4, VectorRead

LEMMA HeadersRead ==
  ASSUME NEW data \in Seq(Byte), NEW r, NEW v \in Counted(WireBlock),
         NEW bins, bins = [i \in DOMAIN v |-> SaveBlock(v[i])]
  PROVE  SaveVector(bins) \in Seq(Byte)
         /\ ReadBack(LoadHeaders(r), r, data, SaveVector(bins), v)
<1>1. /\ v \in Seq(WireBlock) /\ DOMAIN v = 1 .. Len(v) /\ Len(v) \in Nat
      /\ \A i \in 1 .. Len(v) : v[i] \in WireBlock
  BY CountedIs, LenProperties, ElementOfSeq
<1>2. \A i \in 1 .. Len(v) : SaveBlock(v[i]) \in Seq(Byte)
  BY <1>1, BlockRead
<1>3. bins \in Seq(Seq(Byte)) /\ Len(bins) = Len(v)
  <2>1. bins \in [1 .. Len(v) -> Seq(Byte)]
    BY <1>1, <1>2
  <2>2. QED
    BY <1>1, <2>1, SeqOfFun
<1>4. ASSUME Elements(r) \in Nat
      PROVE  \E h, one : LoadsBack(h, one, LoadHeaders(r), r, data, bins, v)
  <2>1. PICK h, one : /\ Loads(h, one, r) /\ LoadHeaders(r) = h[Elements(r)]
                      /\ \A i \in 0 .. Elements(r) - 1 : one[i] = LoadBlock(h[i])
    BY <1>4, LoadHeadersIs
  <2>2. ASSUME NEW i \in 0 .. Len(v) - 1, i < Elements(r)
        PROVE  ReadBack(one[i], h[i], data, bins[i + 1], v[i + 1])
    <3>1. i + 1 \in 1 .. Len(v) /\ i \in 0 .. Elements(r) - 1
      BY <1>1, <1>4, <2>2
    <3>2. one[i] = LoadBlock(h[i]) /\ bins[i + 1] = SaveBlock(v[i + 1]) /\ v[i + 1] \in WireBlock
      BY <1>1, <2>1, <3>1
    <3>3. PICK s, x : s = h[i] /\ x = v[i + 1]
      OBVIOUS
    <3>4. ReadBack(LoadBlock(s), s, data, SaveBlock(x), x)
      BY <3>2, <3>3, BlockRead
    <3>5. QED
      BY <3>2, <3>3, <3>4
  <2>3. LoadsBack(h, one, LoadHeaders(r), r, data, bins, v)
    BY <2>1, <2>2 DEF LoadsBack
  <2>4. QED
    BY <2>3
<1>5. QED
  BY <1>3, <1>4, VectorRead

----------------------------------------------------------------------------
(* script_get_coin_key.                                                    *)

LEMMA NotEmpty ==
  ASSUME NEW S, NEW key \in Seq(S), Len(key) > 0
  PROVE  key # <<>>
  BY EmptySeq

\* The null key has bytes.
LEMMA NullIs == Null # Thrown
<1>1. KeyLen \in Nat /\ KeyLen > 0
  BY KeyAssumption, BaseIs DEF KeyLen
<1>2. Null \in [1 .. KeyLen -> {0}]
  BY DEF Null
<1>3. Null \in Seq({0}) /\ Len(Null) = KeyLen
  BY <1>1, <1>2, SeqOfFun
<1>4. QED
  BY <1>1, <1>3, NotEmpty DEF Thrown

\* So has the key of a hash.
LEMMA HashKeyIs ==
  ASSUME NEW hash \in Seq(Byte)
  PROVE  hash160_to_CoinKey(hash) # Thrown
<1>1. PICK raddr, c : raddr = <<PubkeyStart>> \o hash /\ c = Checksum(raddr)
  OBVIOUS
<1> DEFINE S == Byte \cup {c}
<1>2. hash \in Seq(S) /\ PubkeyStart \in S /\ c \in S
  <2>1. \A i \in 1 .. Len(hash) : hash[i] \in S
    BY ElementOfSeq
  <2>2. hash \in [1 .. Len(hash) -> S] /\ Len(hash) \in Nat
    BY <2>1, LenProperties
  <2> HIDE DEF S
  <2>3. hash \in Seq(S)
    BY <2>2, SeqOfFun
  <2>4. QED
    BY <2>3, KeyAssumption DEF S
<1> HIDE DEF S
<1>3. raddr \in Seq(S) /\ <<c>> \in Seq(S) /\ Len(<<c>>) = 1
  BY <1>1, <1>2, InFront, OneIs
<1>4. PICK key : key = raddr \o <<c>>
  OBVIOUS
<1>5. key \in Seq(S) /\ Len(key) = Len(raddr) + Len(<<c>>) /\ Len(raddr) \in Nat
  BY <1>3, <1>4, ConcatProperties, LenProperties
<1>6. key # <<>>
  BY <1>3, <1>5, NotEmpty
<1>7. QED
  BY <1>1, <1>4, <1>6 DEF hash160_to_CoinKey, Thrown

\* Reading what there is does not throw.
LEMMA PopThere ==
  ASSUME NEW data \in Seq(Byte), NEW offset \in Nat, NEW len \in Nat, NEW value,
         NEW r, r = Read(data, offset, value)
  PROVE  /\ has_buffer(r, len) <=> offset + len <= Len(data)
         /\ has_buffer(r, len) =>
              pop_buffer(r, len)
                = Read(data, offset + len, SubSeq(data, offset + 1, offset + len))
<1>1. r.data = data /\ r.offset = offset
  BY DEF Read
<1>2. QED
  BY <1>1 DEF has_buffer, pop_buffer, Buffer

\* Nor does reading one byte, which is the next.
ByteAt(n, data, r) == /\ \E v : r = Read(data, n, v)
                      /\ r.thrown = FALSE /\ r.value[1] = data[n]
LEMMA PopByte ==
  ASSUME NEW data \in Seq(Byte), NEW n \in 1 .. Len(data), NEW o, o = n - 1,
         NEW value, NEW r, r = Read(data, o, value),
         NEW byte, byte = pop_buffer(r, 1)
  PROVE  ByteAt(n, data, byte)
<1>1. Len(data) \in Nat /\ n \in Int /\ n - 1 \in Nat /\ (n - 1) + 1 = n
      /\ n <= Len(data)
  BY LenProperties
<1>2. pop_buffer(r, 1) = Read(data, n, SubSeq(data, n, n))
  <2>1. o \in Nat /\ o + 1 = n /\ 1 \in Nat /\ o + 1 <= Len(data)
    BY <1>1
  <2>2. pop_buffer(r, 1) = Read(data, o + 1, SubSeq(data, o + 1, o + 1))
    BY <2>1, PopThere
  <2>3. QED
    BY <2>1, <2>2
<1>3. PICK v : v = SubSeq(data, n, n)
  OBVIOUS
<1>4. v[1] = data[n]
  <2>1. \A i \in n .. n : data[i] \in Byte
    BY <1>1, ElementOfSeq
  <2>2. \A i \in 1 .. n - n + 1 : v[i] = data[n + i - 1]
    BY <1>1, <1>3, <2>1, SubSeqProperties
  <2>3. QED
    BY <1>1, <2>2
<1>5. Read(data, n, v).thrown = FALSE /\ Read(data, n, v).value = v
  BY DEF Read
<1>6. QED
  BY <1>2, <1>3, <1>4, <1>5 DEF ByteAt

\* script_get_coin_key gives the key of the hash that is paid, and never throws.
LEMMA ScriptIs ==
  ASSUME NEW script \in Seq(Byte)
  PROVE  /\ script_get_coin_key(script) # Thrown
         /\ script_get_coin_key(script)
              = IF PaysHash(script)
                THEN hash160_to_CoinKey(SubSeq(script, 4, 3 + HashLen)) ELSE Null
<1>1. PICK bi, op_dup, op_hashtype, buflen :
        /\ bi = Read(script, 0, <<>>) /\ op_dup = pop_buffer(bi, 1)
        /\ op_hashtype = pop_buffer(op_dup, 1) /\ buflen = pop_buffer(op_hashtype, 1)
  OBVIOUS
<1>2. PICK len, buf : len = buflen.value[1] /\ buf = pop_buffer(buflen, len)
  OBVIOUS
<1>3. script_get_coin_key(script) =
        IF ~has_buffer(bi, 3) THEN Null
        ELSE IF op_dup.thrown THEN Thrown
        ELSE IF op_dup.value[1] # OP_DUP THEN Null
        ELSE IF op_hashtype.thrown THEN Thrown
        ELSE IF op_hashtype.value[1] \notin HashOps THEN Null
        ELSE IF buflen.thrown THEN Thrown
        ELSE IF len = 0 \/ ~HasHash(buflen, len) THEN Null
        ELSE IF buf.thrown THEN Thrown
        ELSE IF op_hashtype.value[1] = OP_HASH160 /\ len = HashLen
             THEN hash160_to_CoinKey(buf.value) ELSE Null
  BY <1>1, <1>2 DEF script_get_coin_key
<1>4. Len(script) \in Nat /\ HashLen \in Nat /\ HashLen > 0
  BY LenProperties, KeyAssumption, BaseIs
<1>5. has_buffer(bi, 3) <=> 3 <= Len(script)
  BY <1>1, <1>4, PopThere
<1>6. CASE ~(3 <= Len(script))
  <2>1. ~PaysHash(script)
    BY <1>4, <1>6 DEF PaysHash
  <2>2. QED
    BY <1>3, <1>5, <1>6, <2>1, NullIs, Zenon
<1>7. CASE 3 <= Len(script)
  <2>0. 1 \in 1 .. Len(script) /\ 2 \in 1 .. Len(script) /\ 3 \in 1 .. Len(script)
        /\ 0 = 1 - 1 /\ 1 = 2 - 1 /\ 2 = 3 - 1
    BY <1>4, <1>7
  <2>1. ByteAt(1, script, op_dup)
    BY <1>1, <2>0, PopByte
  <2>2. PICK u : op_dup = Read(script, 1, u)
    BY <2>1 DEF ByteAt
  <2>3. ByteAt(2, script, op_hashtype)
    BY <1>1, <2>0, <2>2, PopByte
  <2>4. PICK v : op_hashtype = Read(script, 2, v)
    BY <2>3 DEF ByteAt
  <2>5. ByteAt(3, script, buflen)
    BY <1>1, <2>0, <2>4, PopByte
  <2>6. PICK w : buflen = Read(script, 3, w)
    BY <2>5 DEF ByteAt
  <2>60. len = script[3]
    BY <1>2, <2>5 DEF ByteAt
  <2>7. len \in Nat
    BY <2>0, <2>60, ElementOfSeq, BytesAreNats
  <2>8. HasHash(buflen, len) <=> 3 + len <= Len(script)
    BY <1>4, <2>6, <2>7, PopThere DEF HasHash
  <2>9. ASSUME 3 + len <= Len(script)
        PROVE  /\ buf.thrown = FALSE /\ buf.value = SubSeq(script, 4, 3 + len)
               /\ buf.value \in Seq(Byte)
    <3>1. buf = Read(script, 3 + len, SubSeq(script, 4, 3 + len))
      <4>1. 3 \in Nat /\ 3 + 1 = 4 /\ has_buffer(buflen, len)
        BY <2>8, <2>9 DEF HasHash
      <4>2. pop_buffer(buflen, len) = Read(script, 3 + len, SubSeq(script, 3 + 1, 3 + len))
        BY <2>6, <2>7, <4>1, PopThere
      <4>3. QED
        BY <1>2, <4>1, <4>2
    <3>2. buf.thrown = FALSE /\ buf.value = SubSeq(script, 4, 3 + len)
      BY <3>1 DEF Read
    <3>3. \A i \in 4 .. 3 + len : i \in 1 .. Len(script)
      BY <1>4, <2>7, <2>9
    <3>4. \A i \in 4 .. 3 + len : script[i] \in Byte
      BY <3>3, ElementOfSeq
    <3>5. 4 \in Int /\ 3 + len \in Int
      BY <2>7
    <3>6. SubSeq(script, 4, 3 + len) \in Seq(Byte)
      BY <3>4, <3>5, SubSeqProperties
    <3>7. QED
      BY <3>2, <3>6
  <2>10. PaysHash(script) <=> /\ script[1] = OP_DUP /\ script[2] = OP_HASH160
                              /\ len = HashLen /\ 3 + len <= Len(script)
    BY <2>60 DEF PaysHash
  <2>11. OP_HASH160 \in HashOps
    BY DEF HashOps
  <2>12. script_get_coin_key(script) =
           IF script[1] # OP_DUP \/ script[2] \notin HashOps \/ len = 0
              \/ ~(3 + len <= Len(script))
           THEN Null
           ELSE IF script[2] = OP_HASH160 /\ len = HashLen
                THEN hash160_to_CoinKey(SubSeq(script, 4, 3 + len)) ELSE Null
    BY <1>3, <1>5, <1>7, <2>1, <2>3, <2>5, <2>8, <2>9, Zenon DEF ByteAt
  <2>13. CASE PaysHash(script)
    <3>1. script_get_coin_key(script) = hash160_to_CoinKey(SubSeq(script, 4, 3 + len))
      BY <1>4, <2>10, <2>11, <2>12, <2>13
    <3>2. hash160_to_CoinKey(SubSeq(script, 4, 3 + len)) # Thrown
      BY <2>9, <2>10, <2>13, HashKeyIs
    <3>3. QED
      BY <2>10, <2>13, <3>1, <3>2
  <2>14. CASE ~PaysHash(script)
    <3>1. script_get_coin_key(script) = Null
      BY <2>10, <2>12, <2>14
    <3>2. QED
      BY <2>14, <3>1, NullIs
  <2>15. QED
    BY <2>13, <2>14
<1>8. QED
  BY <1>6, <1>7

----------------------------------------------------------------------------
(* The inputs.                                                             *)

LEMMA BoundedIs ==
  ASSUME NEW S, NEW n \in Nat, NEW v \in BoundedSeq(S, n)
  PROVE  v \in Seq(S) /\ Len(v) \in Nat /\ Len(v) <= n
<1>1. PICK m \in 0 .. n : v \in [1 .. m -> S]
  BY DEF BoundedSeq, SeqOf
<1>2. QED
  BY <1>1, SeqOfFun

LEMMA Wider ==
  ASSUME NEW S, NEW U, S \subseteq U, NEW v \in Seq(S)
  PROVE  v \in Seq(U)
<1>1. \A i \in 1 .. Len(v) : v[i] \in U
  BY ElementOfSeq
<1>2. v \in [1 .. Len(v) -> U] /\ Len(v) \in Nat
  BY <1>1, LenProperties
<1>3. QED
  BY <1>2, SeqOfFun

\* What holds of the inputs and is all that the conversions need.
Inputs ==
  /\ kind = "size" => input \in Nat /\ input < Power[8]
  /\ kind = "scripts" => input \in Counted(WireBytes)
  /\ kind = "block" => input \in WireBlock
  /\ kind = "headers" => input \in Counted(WireBlock)
  /\ kind = "version" => input \in WireTxIn
  /\ kind = "text" => input \in Seq(0 .. Other)
  /\ kind = "key" => input \in Key
  /\ kind = "script" => input \in Seq(Byte)
  /\ kind = "number" => input \in Int
  /\ kind = "compact" => input \in Nat
  /\ kind = "hash" => input \in Seq(Byte)
  /\ kind = "hex" => input \in [spaces : Nat, fNegative : BOOLEAN, x : BOOLEAN,
                                inner : Nat, n : Nat]

\* What is written is short enough to be counted.
LEMMA CountedBounded ==
  ASSUME NEW S, NEW U, S \subseteq U, NEW n \in Nat, n < Power[4]
  PROVE  BoundedSeq(S, n) \subseteq Counted(U)
<1>1. ASSUME NEW v \in BoundedSeq(S, n) PROVE v \in Counted(U)
  <2>1. v \in Seq(S) /\ Len(v) \in Nat /\ Len(v) <= n
    BY BoundedIs
  <2>2. v \in Seq(U)
    BY <2>1, Wider
  <2>3. Len(v) < Power[4]
    BY <2>1, PowerFacts
  <2>4. QED
    BY <2>2, <2>3 DEF Counted
<1>2. QED
  BY <1>1

LEMMA CountedAtMostOne ==
  ASSUME NEW S, NEW U, S \subseteq U
  PROVE  AtMostOne(S) \subseteq Counted(U)
<1>1. 0 < Power[4] /\ 1 < Power[4]
  <2>1. Power[2] \in Nat /\ Power[4] \in Nat /\ Base < Power[2] /\ Power[2] < Power[4]
    BY PowerFacts
  <2>2. QED
    BY <2>1, BaseIs
<1>2. ASSUME NEW x \in S PROVE <<x>> \in Counted(U)
  <2>1. x \in U
    OBVIOUS
  <2>2. <<x>> \in Seq(U) /\ Len(<<x>>) = 1
    BY <2>1, OneIs
  <2>3. QED
    BY <1>1, <2>2 DEF Counted
<1>3. <<>> \in Counted(U)
  BY <1>1, EmptySeq DEF Counted
<1>4. QED
  BY <1>2, <1>3 DEF AtMostOne

LEMMA OnWireIs ==
  /\ 0 .. MaxSize \subseteq {n \in Nat : n < Power[8]}
  /\ BoundedSeq(Bytes, MaxScripts) \subseteq Counted(WireBytes)
  /\ BlocksOnWire \subseteq WireBlock
  /\ BoundedSeq(HeadersOnWire, MaxScripts) \subseteq Counted(WireBlock)
  /\ Versions \subseteq WireTxIn
<1>1. /\ MaxSize \in Nat /\ MaxSize < Power[8] /\ MaxLen \in Nat /\ MaxLen < Power[4]
      /\ MaxScripts \in Nat /\ MaxScripts < Power[4] /\ Power[8] \in Nat
  BY BoundAssumption, PowerFacts
<1>2. Edge \subseteq Byte /\ 0 \in Byte
  BY BaseIs DEF Edge, Byte
<1>3. Bytes \subseteq WireBytes
  BY <1>1, <1>2, CountedBounded DEF Bytes, WireBytes
<1>4. Short \subseteq WireBytes
  <2>1. 1 \in Nat /\ 1 < Power[4]
    <3>1. Power[2] \in Nat /\ Power[4] \in Nat /\ Base < Power[2] /\ Power[2] < Power[4]
      BY PowerFacts
    <3>2. QED
      BY <3>1, BaseIs
  <2>2. QED
    BY <2>1, <1>2, CountedBounded DEF Short, WireBytes
<1>5. TxIns \subseteq WireTxIn /\ TxOuts \subseteq WireTxOut /\ Versions \subseteq WireTxIn
  BY <1>2, <1>3, <1>4 DEF TxIns, TxOuts, Versions, WireTxIn, WireTxOut
<1>6. AtMostOne(TxIns) \subseteq Counted(WireTxIn)
  BY <1>5, CountedAtMostOne
<1>7. AtMostOne(TxOuts) \subseteq Counted(WireTxOut)
  BY <1>5, CountedAtMostOne
<1>8. Transactions \subseteq WireTransaction
  BY <1>2, <1>6, <1>7 DEF Transactions, WireTransaction
<1>9. AtMostOne(Transactions) \subseteq Counted(WireTransaction)
  BY <1>8, CountedAtMostOne
<1>10. BlocksOnWire \subseteq WireBlock
  BY <1>2, <1>9 DEF BlocksOnWire, WireBlock
<1>11. HeadersOnWire \subseteq WireBlock
  <2>1. <<>> \in Counted(WireTransaction)
    BY <1>9 DEF AtMostOne
  <2>2. QED
    BY <2>1, <1>2 DEF HeadersOnWire, WireBlock
<1>12. BoundedSeq(HeadersOnWire, MaxScripts) \subseteq Counted(WireBlock)
  BY <1>1, <1>11, CountedBounded
<1>13. BoundedSeq(Bytes, MaxScripts) \subseteq Counted(WireBytes)
  BY <1>1, <1>3, CountedBounded
<1>14. 0 .. MaxSize \subseteq {n \in Nat : n < Power[8]}
  BY <1>1
<1>15. QED
  BY <1>5, <1>10, <1>12, <1>13, <1>14

LEMMA ConvertedIs ==
  /\ BoundedSeq(0 .. Other, MaxText) \subseteq Seq(0 .. Other)
  /\ BoundedSeq(Byte, MaxScript) \subseteq Seq(Byte)
  /\ BoundedSeq(Byte, MaxLen) \subseteq Seq(Byte)
  /\ -MaxSize .. MaxSize \subseteq Int
  /\ 0 .. Power[Mantissa + 1] - 1 \subseteq Nat
  /\ [spaces : 0 .. 1, fNegative : BOOLEAN, x : BOOLEAN, inner : 0 .. 1, n : 0 .. MaxSize]
       \subseteq [spaces : Nat, fNegative : BOOLEAN, x : BOOLEAN, inner : Nat, n : Nat]
<1>1. MaxText \in Nat /\ MaxScript \in Nat /\ MaxLen \in Nat /\ MaxSize \in Nat
  BY BoundAssumption
<1>2. QED
  BY <1>1, BoundedIs

LEMMA InputsAre == Init => Inputs
<1> SUFFICES ASSUME Init PROVE Inputs
  OBVIOUS
<1>1. CASE kind \in DOMAIN OnWire /\ input \in OnWire[kind]
  <2>1. kind \in {"size", "scripts", "block", "headers", "version"}
    BY <1>1 DEF OnWire
  <2>2. /\ kind = "size" => input \in 0 .. MaxSize
        /\ kind = "scripts" => input \in BoundedSeq(Bytes, MaxScripts)
        /\ kind = "block" => input \in BlocksOnWire
        /\ kind = "headers" => input \in BoundedSeq(HeadersOnWire, MaxScripts)
        /\ kind = "version" => input \in Versions
    <3>1. PICK a, b, c, d, e, w :
            /\ a = 0 .. MaxSize /\ b = BoundedSeq(Bytes, MaxScripts) /\ c = BlocksOnWire
            /\ d = BoundedSeq(HeadersOnWire, MaxScripts) /\ e = Versions /\ w = OnWire
      OBVIOUS
    <3>2. w = [size |-> a, scripts |-> b, block |-> c, headers |-> d, version |-> e]
      BY <3>1 DEF OnWire
    <3>3. /\ w["size"] = a /\ w["scripts"] = b /\ w["block"] = c
          /\ w["headers"] = d /\ w["version"] = e
      BY <3>2
    <3>4. input \in w[kind]
      BY <1>1, <3>1
    <3>5. QED
      BY <3>1, <3>3, <3>4
  <2>3. /\ kind # "text" /\ kind # "key" /\ kind # "script" /\ kind # "number"
        /\ kind # "compact" /\ kind # "hash" /\ kind # "hex"
    BY <2>1
  <2>4. QED
    BY <2>2, <2>3, OnWireIs DEF Inputs
<1>2. CASE kind \in DOMAIN Converted /\ input \in Converted[kind]
  <2>1. kind \in {"text", "key", "script", "number", "compact", "hash", "hex"}
    BY <1>2 DEF Converted
  <2>2. /\ kind = "text" => input \in BoundedSeq(0 .. Other, MaxText)
        /\ kind = "key" => input \in Key
        /\ kind = "script" => input \in BoundedSeq(Byte, MaxScript)
        /\ kind = "number" => input \in -MaxSize .. MaxSize
        /\ kind = "compact" => input \in 0 .. Power[Mantissa + 1] - 1
        /\ kind = "hash" => input \in BoundedSeq(Byte, MaxLen)
        /\ kind = "hex" => input \in [spaces : 0 .. 1, fNegative : BOOLEAN, x : BOOLEAN,
                                      inner : 0 .. 1, n : 0 .. MaxSize]
    <3>1. PICK a, b, c, d, e, f, g, w :
            /\ a = BoundedSeq(0 .. Other, MaxText) /\ b = Key
            /\ c = BoundedSeq(Byte, MaxScript) /\ d = -MaxSize .. MaxSize
            /\ e = 0 .. Power[Mantissa + 1] - 1 /\ f = BoundedSeq(Byte, MaxLen)
            /\ g = [spaces : 0 .. 1, fNegative : BOOLEAN, x : BOOLEAN,
                    inner : 0 .. 1, n : 0 .. MaxSize]
            /\ w = Converted
      OBVIOUS
    <3>2. w = [text |-> a, key |-> b, script |-> c, number |-> d, compact |-> e,
               hash |-> f, hex |-> g]
      BY <3>1 DEF Converted
    <3>3. /\ w["text"] = a /\ w["key"] = b /\ w["script"] = c /\ w["number"] = d
          /\ w["compact"] = e /\ w["hash"] = f /\ w["hex"] = g
      BY <3>2
    <3>4. input \in w[kind]
      BY <1>2, <3>1
    <3>5. QED
      BY <3>1, <3>3, <3>4
  <2>3. /\ kind # "size" /\ kind # "scripts" /\ kind # "block" /\ kind # "headers"
        /\ kind # "version"
    BY <2>1
  <2>4. QED
    BY <2>2, <2>3, ConvertedIs DEF Inputs
<1>3. QED
  BY <1>1, <1>2 DEF Init

----------------------------------------------------------------------------
(* The conversions keep to what they were called with.                     *)

Written ==
  \/ kind = "size" /\ bin = SaveSize(input)
  \/ kind = "scripts" /\ bin = SaveScripts(input)
  \/ kind = "block" /\ bin = SaveBlock(input)
  \/ kind = "headers" /\ bin = SaveHeaders(input)
  \/ kind = "version" /\ bin = SaveVersion(input)

\* What a reader gave that had the first so many bytes.
ReadFrom(r) ==
  \/ kind = "size" /\ output = LoadSize(r)
  \/ kind = "scripts" /\ output = LoadScripts(r)
  \/ kind = "block" /\ output = LoadBlock(r)
  \/ kind = "headers" /\ output = LoadHeaders(r)
  \/ kind = "version" /\ output = LoadVersion(r)
Arrived == SubSeq(bin, 1, arrived)

HexInput(in) ==
  [i \in 1 .. in.spaces |-> Space]
    \o (IF in.fNegative THEN <<Minus>> ELSE <<>>)
    \o (IF in.x THEN <<0, LetterX>> ELSE <<>>)
    \o [i \in 1 .. in.inner |-> Space]
    \o BnToString(in.n, HexBase)

Turned ==
  \/ kind = "text" /\ output = CoinKey(input)
  \/ kind = "key" /\ output = to_str(input)
  \/ kind = "script" /\ output = script_get_coin_key(input)
  \/ kind = "number" /\ output = setint64(input)
  \/ kind = "compact" /\ output = SetCompact(input)
  \/ kind = "hash" /\ output = uint256_to_rstr(input)
  \/ kind = "hex" /\ output = SetHex(HexInput(input))

CodecsInv ==
  /\ Inputs
  /\ pc \in {"given", "saved", "loaded", "converted"}
  /\ pc \in {"saved", "loaded"} => Written
  /\ pc = "loaded" => arrived \in 0 .. Len(bin) /\ ReadFrom(Read(Arrived, 0, <<>>))
  /\ pc = "converted" => Turned

LEMMA InitCodecs == Init => CodecsInv
<1> SUFFICES ASSUME Init PROVE CodecsInv
  OBVIOUS
<1>1. Inputs
  BY InputsAre
<1>2. pc = "given"
  BY DEF Init
<1>3. QED
  BY <1>1, <1>2 DEF CodecsInv

LEMMA InputsStay ==
  Inputs /\ UNCHANGED <<kind, input>> => Inputs'
  BY DEF Inputs

LEMMA NextCodecs == CodecsInv /\ [Next]_vars => CodecsInv'
<1> SUFFICES ASSUME CodecsInv, [Next]_vars PROVE CodecsInv'
  OBVIOUS
<1>1. CASE Save
  <2>1. pc' = "saved" /\ kind' = kind /\ input' = input
    BY <1>1 DEF Save
  <2>2. Inputs'
    BY <2>1, InputsStay DEF CodecsInv
  <2>3. Written'
    BY <1>1, <2>1 DEF Save, Written
  <2>4. QED
    BY <2>1, <2>2, <2>3 DEF CodecsInv
<1>2. CASE Load
  <2>1. /\ pc = "saved" /\ pc' = "loaded" /\ kind' = kind /\ input' = input /\ bin' = bin
        /\ arrived' \in 0 .. Len(bin)
    BY <1>2 DEF Load
  <2>2. Inputs'
    BY <2>1, InputsStay DEF CodecsInv
  <2>3. Written'
    BY <2>1 DEF CodecsInv, Written
  <2>4. ReadFrom(Read(Arrived, 0, <<>>))'
    <3>1. PICK r : r = Read(SubSeq(bin, 1, arrived'), 0, <<>>)
      OBVIOUS
    <3>2. \/ kind = "size" /\ output' = LoadSize(r)
          \/ kind = "scripts" /\ output' = LoadScripts(r)
          \/ kind = "block" /\ output' = LoadBlock(r)
          \/ kind = "headers" /\ output' = LoadHeaders(r)
          \/ kind = "version" /\ output' = LoadVersion(r)
      BY <1>2, <3>1 DEF Load
    <3>3. r = Read(Arrived, 0, <<>>)'
      BY <2>1, <3>1 DEF Arrived, Read
    <3>4. \/ kind' = "size" /\ output' = LoadSize(r)
          \/ kind' = "scripts" /\ output' = LoadScripts(r)
          \/ kind' = "block" /\ output' = LoadBlock(r)
          \/ kind' = "headers" /\ output' = LoadHeaders(r)
          \/ kind' = "version" /\ output' = LoadVersion(r)
      BY <2>1, <3>2
    <3>5. QED
      BY <3>3, <3>4 DEF ReadFrom
  <2>5. QED
    BY <2>1, <2>2, <2>3, <2>4 DEF CodecsInv
<1>3. CASE Convert
  <2>1. pc' = "converted" /\ kind' = kind /\ input' = input
    BY <1>3 DEF Convert
  <2>2. Inputs'
    BY <2>1, InputsStay DEF CodecsInv
  <2>3. Turned'
    <3>1. KeyOfText \/ TextOfKey \/ KeyOfScript \/ NumberOfInt \/ Compact \/ TextOfHash
            \/ NumberOfText
      BY <1>3 DEF Convert
    <3>2. NumberOfText => kind = "hex" /\ output' = SetHex(HexInput(input))
      BY DEF NumberOfText, HexInput
    <3>3. \/ kind = "text" /\ output' = CoinKey(input)
          \/ kind = "key" /\ output' = to_str(input)
          \/ kind = "script" /\ output' = script_get_coin_key(input)
          \/ kind = "number" /\ output' = setint64(input)
          \/ kind = "compact" /\ output' = SetCompact(input)
          \/ kind = "hash" /\ output' = uint256_to_rstr(input)
          \/ kind = "hex" /\ output' = SetHex(HexInput(input))
      BY <3>1, <3>2
         DEF KeyOfText, TextOfKey, KeyOfScript, NumberOfInt, Compact, TextOfHash
    <3>4. QED
      BY <2>1, <3>3 DEF Turned
  <2>4. QED
    BY <2>1, <2>2, <2>3 DEF CodecsInv
<1>4. CASE UNCHANGED vars
  <2>1. /\ kind' = kind /\ input' = input /\ bin' = bin /\ arrived' = arrived
        /\ output' = output /\ pc' = pc
    BY <1>4 DEF vars
  <2>2. Inputs' /\ (Written => Written') /\ (Turned => Turned')
    BY <2>1, InputsStay DEF CodecsInv, Written, Turned
  <2>3. PICK r : r = Read(Arrived, 0, <<>>)
    OBVIOUS
  <2>4. r = Read(Arrived, 0, <<>>)'
    BY <2>1, <2>3 DEF Arrived
  <2>5. ReadFrom(r) => ReadFrom(r)'
    BY <2>1 DEF ReadFrom
  <2>6. ReadFrom(Read(Arrived, 0, <<>>)) => ReadFrom(Read(Arrived, 0, <<>>))'
    BY <2>3, <2>4, <2>5
  <2>7. QED
    BY <2>1, <2>2, <2>6 DEF CodecsInv
<1>5. QED
  BY <1>1, <1>2, <1>3, <1>4 DEF Next

LEMMA AlwaysCodecs == Spec => []CodecsInv
<1>1. QED
  BY InitCodecs, NextCodecs, PTL DEF Spec

----------------------------------------------------------------------------
(* What follows for the bytes.                                             *)

\* Whatever reader read what was written read it back.
LEMMA BinRead ==
  ASSUME Inputs, Written, NEW data \in Seq(Byte), NEW r, ReadFrom(r)
  PROVE  bin \in Seq(Byte) /\ ReadBack(output, r, data, bin, input)
<1>1. CASE kind = "size"
  <2>1. input \in Nat /\ input < Power[8] /\ bin = SaveSize(input) /\ output = LoadSize(r)
    BY <1>1 DEF Inputs, Written, ReadFrom
  <2>2. QED
    BY <2>1, OneSizeRead
<1>2. CASE kind = "scripts"
  <2>1. input \in Counted(WireBytes) /\ bin = SaveScripts(input) /\ output = LoadScripts(r)
    BY <1>2 DEF Inputs, Written, ReadFrom
  <2>2. PICK bins : bins = [i \in DOMAIN input |-> SaveBytes(input[i])]
    OBVIOUS
  <2>3. bin = SaveVector(bins)
    BY <2>1, <2>2 DEF SaveScripts
  <2>4. /\ SaveVector(bins) \in Seq(Byte)
        /\ ReadBack(LoadScripts(r), r, data, SaveVector(bins), input)
    BY <2>1, <2>2, ScriptsRead
  <2>5. QED
    BY <2>1, <2>3, <2>4
<1>3. CASE kind = "block"
  <2>1. input \in WireBlock /\ bin = SaveBlock(input) /\ output = LoadBlock(r)
    BY <1>3 DEF Inputs, Written, ReadFrom
  <2>2. QED
    BY <2>1, BlockRead
<1>4. CASE kind = "headers"
  <2>1. input \in Counted(WireBlock) /\ bin = SaveHeaders(input) /\ output = LoadHeaders(r)
    BY <1>4 DEF Inputs, Written, ReadFrom
  <2>2. PICK bins : bins = [i \in DOMAIN input |-> SaveBlock(input[i])]
    OBVIOUS
  <2>3. bin = SaveVector(bins)
    BY <2>1, <2>2 DEF SaveHeaders
  <2>4. /\ SaveVector(bins) \in Seq(Byte)
        /\ ReadBack(LoadHeaders(r), r, data, SaveVector(bins), input)
    BY <2>1, <2>2, HeadersRead
  <2>5. QED
    BY <2>1, <2>3, <2>4
<1>5. CASE kind = "version"
  <2>1. input \in WireTxIn /\ bin = SaveVersion(input) /\ output = LoadVersion(r)
    BY <1>5 DEF Inputs, Written, ReadFrom
  <2>2. SaveVersion(input) = SaveTxIn(input) /\ LoadVersion(r) = LoadTxIn(r)
    BY DEF SaveVersion, SaveTxIn, LoadVersion, LoadTxIn
  <2>3. QED
    BY <2>1, <2>2, TxInRead
<1>6. QED
  BY <1>1, <1>2, <1>3, <1>4, <1>5 DEF Written

\* The bytes that have come are the first of those written, so they carry them.
LEMMA ArrivedGives ==
  ASSUME CodecsInv, pc = "loaded"
  PROVE  /\ Len(Arrived) = arrived /\ arrived \in Nat /\ Len(bin) \in Nat /\ arrived <= Len(bin)
         /\ Gives(output, Arrived, 0, bin, input)
<1>1. Inputs /\ Written /\ arrived \in 0 .. Len(bin) /\ ReadFrom(Read(Arrived, 0, <<>>))
  BY DEF CodecsInv
<1>2. bin \in Seq(Byte)
  <2>1. <<>> \in Seq(Byte)
    BY EmptySeq
  <2>2. QED
    BY <1>1, <2>1, BinRead
<1>3. PICK data, r : data = Arrived /\ r = Read(data, 0, <<>>)
  OBVIOUS
<1>4. Len(bin) \in Nat /\ arrived \in Nat /\ arrived <= Len(bin)
  BY <1>1, <1>2, LenProperties
<1>5. data \in Seq(Byte) /\ Len(data) = arrived /\ \A i \in 1 .. arrived : data[i] = bin[i]
  <2>1. \A i \in 1 .. arrived : bin[i] \in Byte
    <3>1. \A i \in 1 .. arrived : i \in 1 .. Len(bin)
      BY <1>4
    <3>2. QED
      BY <1>2, <3>1, ElementOfSeq
  <2>2. /\ data \in Seq(Byte) /\ Len(data) = (IF 1 <= arrived THEN arrived - 1 + 1 ELSE 0)
        /\ \A i \in 1 .. arrived - 1 + 1 : data[i] = bin[1 + i - 1]
    <3>1. 1 \in Int /\ arrived \in Int
      BY <1>4
    <3>2. QED
      BY <1>3, <2>1, <3>1, SubSeqProperties DEF Arrived
  <2>3. arrived - 1 + 1 = arrived /\ \A i \in 1 .. arrived : 1 + i - 1 = i
    BY <1>4
  <2>4. Len(data) = arrived
    BY <1>4, <2>2
  <2>5. QED
    BY <2>2, <2>3, <2>4
<1>6. ReadBack(output, r, data, bin, input)
  BY <1>1, <1>3, <1>5, BinRead
<1>7. Carry(data, 0, bin)
  <2>1. ASSUME NEW i \in 1 .. Len(bin), 0 + i <= Len(data) PROVE data[0 + i] = bin[i]
    <3>1. 0 + i = i /\ i \in 1 .. arrived
      BY <1>4, <1>5, <2>1
    <3>2. QED
      BY <1>5, <3>1
  <2>2. QED
    BY <2>1 DEF Carry
<1>8. 0 \in 0 .. Len(data)
  BY <1>4, <1>5
<1>9. Gives(output, data, 0, bin, input)
  BY <1>3, <1>6, <1>7, <1>8 DEF ReadBack
<1>10. QED
  BY <1>3, <1>4, <1>5, <1>9

LEMMA RoundTripIs == CodecsInv => RoundTrip
<1> SUFFICES ASSUME CodecsInv, pc = "loaded", arrived = Len(bin)
             PROVE  ~output.thrown /\ output.value = input /\ output.offset = Len(bin)
  BY DEF RoundTrip
<1>1. /\ Len(Arrived) = arrived /\ Len(bin) \in Nat
      /\ Gives(output, Arrived, 0, bin, input)
  BY ArrivedGives
<1>2. 0 + Len(bin) = Len(bin) /\ 0 + Len(bin) <= Len(Arrived)
  BY <1>1
<1>3. output = Read(Arrived, Len(bin), input)
  BY <1>1, <1>2 DEF Gives
<1>4. QED
  BY <1>3 DEF Read

LEMMA PartThrowsIs == CodecsInv => PartThrows
<1> SUFFICES ASSUME CodecsInv, pc = "loaded", arrived < Len(bin)
             PROVE  output.thrown
  BY DEF PartThrows
<1>1. /\ Len(Arrived) = arrived /\ Len(bin) \in Nat /\ arrived \in Nat
      /\ Gives(output, Arrived, 0, bin, input)
  BY ArrivedGives
<1>2. ~(0 + Len(bin) <= Len(Arrived))
  BY <1>1
<1>3. output.thrown = TRUE
  BY <1>1, <1>2 DEF Gives
<1>4. QED
  BY <1>3

----------------------------------------------------------------------------
(* What follows for the conversions.                                       *)

LEMMA TextsSurviveIs == CodecsInv => TextsSurvive
<1> SUFFICES ASSUME CodecsInv PROVE TextsSurvive
  OBVIOUS
<1>1. ASSUME Is("key") PROVE CoinKey(output) = input
  <2>1. input \in Key /\ output = to_str(input)
    BY <1>1 DEF CodecsInv, Is, Inputs, Turned
  <2>2. QED
    BY <2>1, KeyBack
<1>2. ASSUME Is("text"), output # Null PROVE to_str(output) = input
  <2>1. input \in Seq(0 .. Other) /\ output = CoinKey(input)
    BY <1>2 DEF CodecsInv, Is, Inputs, Turned
  <2>2. QED
    BY <1>2, <2>1, TextBack
<1>3. ASSUME Is("hash") PROVE rstr_to_uint256(output) = input
  <2>1. input \in Seq(Byte) /\ output = uint256_to_rstr(input)
    BY <1>3 DEF CodecsInv, Is, Inputs, Turned
  <2>2. QED
    BY <2>1, HashBack
<1>4. QED
  BY <1>1, <1>2, <1>3 DEF TextsSurvive

LEMMA ScriptsPayHashesIs == CodecsInv => ScriptsPayHashes
<1> SUFFICES ASSUME CodecsInv, Is("script")
             PROVE  /\ output # Thrown
                    /\ output = IF PaysHash(input)
                                THEN hash160_to_CoinKey(SubSeq(input, 4, 3 + HashLen))
                                ELSE Null
  BY DEF ScriptsPayHashes
<1>1. input \in Seq(Byte) /\ output = script_get_coin_key(input)
  BY DEF CodecsInv, Is, Inputs, Turned
<1>2. QED
  BY <1>1, ScriptIs

LEMMA HexInputIs ==
  ASSUME NEW in \in [spaces : Nat, fNegative : BOOLEAN, x : BOOLEAN, inner : Nat, n : Nat]
  PROVE  SetHex(HexInput(in)) = Signed(in.fNegative, in.n)
<1>1. PICK a, d, e : /\ a = [i \in 1 .. in.spaces |-> Space]
                     /\ d = [i \in 1 .. in.inner |-> Space]
                     /\ e = BnToString(in.n, HexBase)
  OBVIOUS
<1>2. PICK neg \in BOOLEAN, fX \in BOOLEAN : neg = in.fNegative /\ fX = in.x
  OBVIOUS
<1>3. in.spaces \in Nat /\ in.inner \in Nat /\ in.n \in Nat
  OBVIOUS
<1>4. Spaces(a) /\ Spaces(d)
  BY <1>1, <1>3, SpacesAre
<1>5. e \in Seq(0 .. HexBase - 1) /\ e # <<>> /\ NumberOf(e, HexBase) = in.n
  BY <1>1, <1>3, HexText
<1>6. SetHex((((a \o (IF neg THEN <<Minus>> ELSE <<>>))
                 \o (IF fX THEN <<0, LetterX>> ELSE <<>>)) \o d) \o e)
        = Signed(neg, NumberOf(e, HexBase))
  BY <1>4, <1>5, SetHexIs
<1>7. HexInput(in) = (((a \o (IF neg THEN <<Minus>> ELSE <<>>))
                         \o (IF fX THEN <<0, LetterX>> ELSE <<>>)) \o d) \o e
  BY <1>1, <1>2 DEF HexInput
<1>8. QED
  BY <1>2, <1>5, <1>6, <1>7

LEMMA NumberSurvivesIs == CodecsInv => NumberSurvives
<1> SUFFICES ASSUME CodecsInv PROVE NumberSurvives
  OBVIOUS
<1>1. ASSUME Is("number") PROVE output = input /\ setvch(getvch(input)) = input
  <2>1. input \in Int /\ output = setint64(input)
    BY <1>1 DEF CodecsInv, Is, Inputs, Turned
  <2>2. QED
    BY <2>1, IntBack, VchBack
<1>2. ASSUME Is("hex") PROVE output = Signed(input.fNegative, input.n)
  <2>1. /\ input \in [spaces : Nat, fNegative : BOOLEAN, x : BOOLEAN, inner : Nat, n : Nat]
        /\ output = SetHex(HexInput(input))
    BY <1>2 DEF CodecsInv, Is, Inputs, Turned
  <2>2. QED
    BY <2>1, HexInputIs
<1>3. ASSUME Is("hash") PROVE setuint256(input) = NumberOf(output, Nibble)
  <2>1. input \in Seq(Byte) /\ output = uint256_to_rstr(input)
    BY <1>3 DEF CodecsInv, Is, Inputs, Turned
  <2>2. QED
    BY <2>1, HashBack
<1>4. QED
  BY <1>1, <1>2, <1>3 DEF NumberSurvives

LEMMA CompactSurvivesIs == CodecsInv => CompactSurvives
<1> SUFFICES ASSUME CodecsInv, Is("compact")
             PROVE  SetCompact(GetCompact(output)) = output
  BY DEF CompactSurvives
<1>1. input \in Nat /\ output = SetCompact(input)
  BY DEF CodecsInv, Is, Inputs, Turned
<1>2. QED
  BY <1>1, CompactBack

----------------------------------------------------------------------------

(* What send_package wrote is what on_recv reads, to the last byte: sizes  *)
(* of every width, scripts, blocks, headers and version messages.          *)
THEOREM ValuesRoundTrip == Spec => []RoundTrip
  BY AlwaysCodecs, RoundTripIs, PTL

(* on_recv's reader, binary_istream, when it has only the first bytes of a *)
(* value, throws, wherever they end; it never takes them for a value.      *)
THEOREM PartsThrow == Spec => []PartThrows
  BY AlwaysCodecs, PartThrowsIs, PTL

(* EncodeBase58 and DecodeBase58 undo each other on keys and on the texts  *)
(* the book accepts, and rstr_to_uint256 undoes uint256_to_rstr.           *)
THEOREM KeysSurvive == Spec => []TextsSurvive
  BY AlwaysCodecs, TextsSurviveIs, PTL

(* script_get_coin_key gives the key of the hash to the scripts that pay   *)
(* one and the null key to all others, and none of its four reads throws,  *)
(* whatever the script's length byte claims.                               *)
THEOREM ScriptsAreRead == Spec => []ScriptsPayHashes
  BY AlwaysCodecs, ScriptsPayHashesIs, PTL

(* CBigNum's setint64, setvch with getvch, SetHex and setuint256 give the  *)
(* number that their argument stands for, of either sign.                  *)
THEOREM NumbersSurvive == Spec => []NumberSurvives
  BY AlwaysCodecs, NumberSurvivesIs, PTL

(* SetCompact(GetCompact()) loses nothing of a target that SetCompact gave. *)
THEOREM CompactsSurvive == Spec => []CompactSurvives
  BY AlwaysCodecs, CompactSurvivesIs, PTL
=============================================================================
