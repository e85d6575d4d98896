---------------------------- MODULE RecvStreamProofs ------------------------
(***************************************************************************)
(* Proofs about RecvStream, for any number of messages of any kinds and    *)
(* sizes, any demands of their bodies, any size of the buffer, and the     *)
(* bytes in whatever pieces they come.                                     *)
(***************************************************************************)
EXTENDS RecvStream, NatLemmas, SequenceTheorems

----------------------------------------------------------------------------
(* The inductive invariant.                                                *)

\* s is the bytes of the messages behind message d, up to message e.
Carries(s, d, e) ==
  /\ s \in Seq(Byte) /\ d \in 0 .. NMsg /\ e \in 0 .. NMsg /\ d <= e
  /\ s = <<>> <=> d = e
  /\ s # <<>> => /\ s[1] = [msg |-> d + 1, at |-> 1]
                 /\ s[Len(s)] = [msg |-> e, at |-> Length(e)]
  /\ \A i \in 1 .. Len(s) - 1 : s[i + 1] = After(s[i])

\* What has come, what is on its way, and the last message taken from it.
Stream == m_data \o net
Done == IF Stream = <<>> THEN sent ELSE Stream[1].msg - 1

Chosen == /\ kind \in [Msgs -> Kind] /\ size \in [Msgs -> 0 .. MaxBody]
          /\ need \in [Msgs -> 0 .. MaxNeed]

Types == /\ Chosen
         /\ sent \in 0 .. NMsg /\ receiving \in BOOLEAN /\ looping \in BOOLEAN
         /\ m_block_pool \in Seq(Msgs) /\ m_headers_pool \in Seq(Msgs)
         /\ net \in Seq(Byte) /\ m_data \in Seq(Byte)

\* The pools hold what has been taken.
Taken(d) == /\ Holds(m_block_pool, 1 .. d, "block")
            /\ Holds(m_headers_pool, 1 .. d, "headers")
            /\ m_pDestVersion \in 0 .. d
            /\ (\E m \in 1 .. d : kind[m] = "version") => m_pDestVersion # 0

\* The loop was left because it could not take another.
Stopped == ~looping => ~(HasMessage /\ ~Throws)

IInv == Types /\ Carries(Stream, Done, sent) /\ Taken(Done) /\ Stopped

----------------------------------------------------------------------------
(* The bytes of messages one after the other.                              *)

\* How long a message is.
LEMMA Lengths ==
  ASSUME Chosen, NEW m \in Msgs
  PROVE  /\ Length(m) \in 1 .. HeaderLen + MaxBody /\ HeaderLen <= Length(m)
         /\ m \in Nat /\ m # 0 /\ NMsg \in Nat
<1>1. size[m] \in 0 .. MaxBody
  BY DEF Chosen
<1>2. QED
  BY <1>1, StreamAssumption DEF Length, Msgs

\* The last message taken is known from the bytes left.
LEMMA FirstBehind ==
  ASSUME NEW s, NEW d, NEW e, Carries(s, d, e)
  PROVE  d = IF s = <<>> THEN e ELSE s[1].msg - 1
<1>1. d \in Int /\ e \in Int
  BY DEF Carries
<1>2. CASE s = <<>>
  BY <1>2 DEF Carries
<1>3. CASE s # <<>>
  <2>1. s[1].msg = d + 1
    BY <1>3 DEF Carries
  <2>2. QED
    BY <1>1, <1>3, <2>1
<1>4. QED
  BY <1>2, <1>3

\* The first message is there completely, byte by byte.
LEMMA FirstMessage ==
  ASSUME Chosen, NEW s, NEW d, NEW e, Carries(s, d, e), s # <<>>
  PROVE  /\ d + 1 \in Msgs /\ Len(s) \in Nat /\ Length(d + 1) <= Len(s)
         /\ \A i \in 1 .. Length(d + 1) : s[i] = [msg |-> d + 1, at |-> i]
<1>1. d + 1 \in Msgs /\ e \in Msgs
  BY StreamAssumption DEF Carries, Msgs
<1>2. /\ Length(d + 1) \in Nat \ {0} /\ Len(s) \in Nat \ {0}
      /\ s[1] = [msg |-> d + 1, at |-> 1] /\ s[Len(s)] = [msg |-> e, at |-> Length(e)]
      /\ \A i \in 1 .. Len(s) - 1 : s[i + 1] = After(s[i])
  <2>1. Length(d + 1) \in Nat \ {0}
    BY <1>1, Lengths
  <2>2. Len(s) \in Nat \ {0}
    BY EmptySeq DEF Carries
  <2>3. QED
    BY <2>1, <2>2 DEF Carries
<1> DEFINE wrong == {i \in 1 .. Len(s) : i <= Length(d + 1)
                                         /\ s[i] # [msg |-> d + 1, at |-> i]}
<1>3. wrong = {}
  <2> SUFFICES ASSUME wrong # {} PROVE FALSE
    OBVIOUS
  <2>1. wrong \in SUBSET Nat
    BY <1>2
  <2>2. PICK i \in wrong : \A j \in wrong : i <= j
    BY <2>1, NatMin
  <2>3. i \in 1 .. Len(s) /\ i <= Length(d + 1) /\ s[i] # [msg |-> d + 1, at |-> i]
    OBVIOUS
  <2>4. i # 1
    BY <1>2, <2>3
  <2>5. /\ i - 1 \in 1 .. Len(s) - 1 /\ i - 1 \in 1 .. Len(s) /\ (i - 1) + 1 = i
        /\ i - 1 < Length(d + 1) /\ i - 1 <= Length(d + 1) /\ i - 1 < i
    BY <1>2, <2>3, <2>4
  <2>6. i - 1 \notin wrong
    BY <2>2, <2>3, <2>5
  <2>7. s[i - 1] = [msg |-> d + 1, at |-> i - 1]
    BY <2>5, <2>6
  <2>8. s[i] = After(s[i - 1])
    BY <1>2, <2>5
  <2>9. QED
    BY <2>3, <2>5, <2>7, <2>8 DEF After
<1>4. \A i \in 1 .. Len(s) : i <= Length(d + 1) => s[i] = [msg |-> d + 1, at |-> i]
  BY <1>3
<1>5. Length(d + 1) <= Len(s)
  <2> SUFFICES ASSUME Len(s) < Length(d + 1) PROVE FALSE
    BY <1>2
  <2>1. s[Len(s)] = [msg |-> d + 1, at |-> Len(s)]
    BY <1>2, <1>4
  <2>2. e = d + 1 /\ Length(e) = Len(s)
    BY <1>2, <2>1
  <2>3. QED
    BY <1>2, <2>2
<1>6. QED
  BY <1>1, <1>2, <1>4, <1>5

\* No byte of an earlier message is behind.
LEMMA NoEarlier ==
  ASSUME NEW s \in Seq(Byte), \A i \in 1 .. Len(s) - 1 : s[i + 1] = After(s[i]),
         NEW k \in 1 .. Len(s)
  PROVE  s[k].msg \in Nat /\ s[1].msg \in Nat /\ s[1].msg <= s[k].msg
<1>1. Len(s) \in Nat /\ \A i \in 1 .. Len(s) : s[i].msg \in Nat
  <2>1. Len(s) \in Nat /\ \A i \in 1 .. Len(s) : s[i] \in Byte
    BY LenProperties, ElementOfSeq
  <2>2. QED
    BY <2>1, StreamAssumption DEF Byte, Msgs
<1>2. 1 \in 1 .. Len(s)
  BY <1>1
<1> DEFINE wrong == {i \in 1 .. Len(s) : ~(s[1].msg <= s[i].msg)}
<1>3. wrong = {}
  <2> SUFFICES ASSUME wrong # {} PROVE FALSE
    OBVIOUS
  <2>1. wrong \in SUBSET Nat
    BY <1>1
  <2>2. PICK i \in wrong : \A j \in wrong : i <= j
    BY <2>1, NatMin
  <2>3. i \in 1 .. Len(s) /\ ~(s[1].msg <= s[i].msg)
    OBVIOUS
  <2>4. i # 1
    BY <1>1, <1>2, <2>3
  <2>5. i - 1 \in 1 .. Len(s) - 1 /\ i - 1 \in 1 .. Len(s) /\ (i - 1) + 1 = i /\ i - 1 < i
    BY <1>1, <2>3, <2>4
  <2>6. i - 1 \notin wrong
    BY <2>2, <2>3, <2>5
  <2>7. s[1].msg <= s[i - 1].msg /\ s[i - 1].msg \in Nat /\ s[i].msg \in Nat
    BY <1>1, <2>3, <2>5, <2>6
  <2>8. s[i] = After(s[i - 1])
    BY <2>5
  <2>9. s[i].msg = s[i - 1].msg \/ s[i].msg = s[i - 1].msg + 1
    BY <2>8 DEF After
  <2>10. QED
    BY <1>1, <1>2, <2>3, <2>7, <2>9
<1>4. QED
  BY <1>1, <1>2, <1>3

\* What is left when the first message is taken.
LEMMA FirstTaken ==
  ASSUME Chosen, NEW s, NEW d, NEW e, Carries(s, d, e), s # <<>>
  PROVE  Carries(SubSeq(s, Length(d + 1) + 1, Len(s)), d + 1, e)
<1>1. PICK n, r : n = Length(d + 1) /\ r = SubSeq(s, n + 1, Len(s))
  OBVIOUS
<1>2. /\ d + 1 \in Msgs /\ Len(s) \in Nat /\ n <= Len(s) /\ n \in Nat \ {0}
      /\ s[n] = [msg |-> d + 1, at |-> n]
  <2>1. n \in Nat \ {0} /\ n \in 1 .. n
    BY <1>1, FirstMessage, Lengths
  <2>2. QED
    BY <1>1, <2>1, FirstMessage
<1>3. /\ s \in Seq(Byte) /\ d \in Nat /\ e \in 0 .. NMsg /\ NMsg \in Nat
      /\ s[Len(s)] = [msg |-> e, at |-> Length(e)]
      /\ \A i \in 1 .. Len(s) - 1 : s[i + 1] = After(s[i])
      /\ d <= e /\ d # e
  BY StreamAssumption DEF Carries
<1>4. /\ r \in Seq(Byte) /\ Len(r) = Len(s) - n
      /\ \A i \in 1 .. Len(r) : r[i] = s[n + i]
  <2>1. \A i \in n + 1 .. Len(s) : s[i] \in Byte
    BY <1>2, <1>3, ElementOfSeq
  <2>2. /\ r \in Seq(Byte)
        /\ Len(r) = IF n + 1 <= Len(s) THEN Len(s) - (n + 1) + 1 ELSE 0
        /\ \A i \in 1 .. Len(s) - (n + 1) + 1 : r[i] = s[(n + 1) + i - 1]
    BY <1>1, <1>2, <2>1, SubSeqProperties
  <2>3. Len(r) = Len(s) - n /\ Len(s) - (n + 1) + 1 = Len(s) - n
    BY <1>2, <2>2
  <2>4. \A i \in 1 .. Len(r) : (n + 1) + i - 1 = n + i
    BY <1>2, <2>3
  <2>5. QED
    BY <2>2, <2>3, <2>4
<1>5. r = <<>> <=> Len(s) = n
  BY <1>2, <1>4, EmptySeq
<1>6. CASE Len(s) = n
  <2>1. d + 1 = e
    BY <1>1, <1>2, <1>3, <1>6
  <2>2. 1 .. Len(r) - 1 = {}
    BY <1>2, <1>4, <1>6
  <2>3. QED
    BY <1>1, <1>3, <1>4, <1>5, <1>6, <2>1, <2>2 DEF Carries
<1>7. CASE Len(s) # n
  <2>1. n \in 1 .. Len(s) - 1 /\ 1 \in 1 .. Len(r) /\ Len(r) \in 1 .. Len(r)
    BY <1>2, <1>4, <1>7
  <2>2. s[n + 1] = [msg |-> (d + 1) + 1, at |-> 1]
    <3>1. s[n + 1] = After([msg |-> d + 1, at |-> n])
      BY <1>2, <1>3, <2>1
    <3>2. QED
      BY <1>1, <1>2, <3>1 DEF After
  <2>3. r[1] = [msg |-> (d + 1) + 1, at |-> 1]
    BY <1>4, <2>1, <2>2
  <2>4. r[Len(r)] = [msg |-> e, at |-> Length(e)]
    <3>1. n + Len(r) = Len(s)
      BY <1>2, <1>4
    <3>2. QED
      BY <1>3, <1>4, <2>1, <3>1
  <2>5. ASSUME NEW i \in 1 .. Len(r) - 1 PROVE r[i + 1] = After(r[i])
    <3>1. /\ i \in 1 .. Len(r) /\ i + 1 \in 1 .. Len(r)
          /\ n + i \in 1 .. Len(s) - 1 /\ (n + i) + 1 = n + (i + 1)
      BY <1>2, <1>4
    <3>2. QED
      BY <1>3, <1>4, <3>1
  <2>6. d + 1 # e
    <3>1. r[1].msg <= r[Len(r)].msg
      BY <1>4, <2>1, <2>5, NoEarlier
    <3>2. (d + 1) + 1 <= e
      BY <2>3, <2>4, <3>1
    <3>3. QED
      BY <1>3, <3>2
  <2>7. d + 1 \in 0 .. NMsg /\ d + 1 <= e
    BY <1>3, <2>6
  <2>8. Carries(r, d + 1, e)
    BY <1>3, <1>4, <1>5, <1>7, <2>3, <2>4, <2>5, <2>6, <2>7 DEF Carries
  <2>9. QED
    BY <1>1, <2>8
<1>8. QED
  BY <1>6, <1>7

\* A message as the remote node sends it.
LEMMA OneMessage ==
  ASSUME Chosen, NEW m \in Msgs
  PROVE  /\ Bytes(m) \in Seq(Byte) /\ Len(Bytes(m)) = Length(m)
         /\ \A i \in 1 .. Length(m) : Bytes(m)[i] = [msg |-> m, at |-> i]
<1>1. PICK n : n = Length(m)
  OBVIOUS
<1>2. n \in 1 .. HeaderLen + MaxBody /\ n \in Nat
  BY <1>1, Lengths, StreamAssumption
<1>3. \A i \in 1 .. n : [msg |-> m, at |-> i] \in Byte
  BY <1>2, StreamAssumption DEF Byte
<1>4. Bytes(m) = [i \in 1 .. n |-> [msg |-> m, at |-> i]]
  BY <1>1 DEF Bytes
<1>5. Bytes(m) \in [1 .. n -> Byte]
  BY <1>3, <1>4
<1>6. Bytes(m) \in Seq(Byte) /\ Len(Bytes(m)) = n
  BY <1>2, <1>5
<1>7. QED
  BY <1>1, <1>4, <1>6

\* What is left when another message is sent behind.
LEMMA MessageBehind ==
  ASSUME Chosen, NEW s, NEW d, NEW e, Carries(s, d, e), e < NMsg
  PROVE  Carries(s \o Bytes(e + 1), d, e + 1)
<1>1. PICK n, b, r : n = Length(e + 1) /\ b = Bytes(e + 1) /\ r = s \o b
  OBVIOUS
<1>2. /\ s \in Seq(Byte) /\ Len(s) \in Nat /\ d \in Nat /\ e \in Nat /\ d <= e
      /\ d \in 0 .. NMsg /\ e + 1 \in 0 .. NMsg /\ e + 1 \in Msgs
      /\ \A i \in 1 .. Len(s) - 1 : s[i + 1] = After(s[i])
      /\ s = <<>> <=> d = e
      /\ s # <<>> => s[1] = [msg |-> d + 1, at |-> 1] /\ s[Len(s)] = [msg |-> e, at |-> Length(e)]
  BY LenProperties, StreamAssumption DEF Carries, Msgs
<1>3. /\ b \in Seq(Byte) /\ Len(b) = n /\ n \in Nat \ {0}
      /\ \A i \in 1 .. n : b[i] = [msg |-> e + 1, at |-> i]
  <2>1. PICK m : m = e + 1
    OBVIOUS
  <2>2. m \in Msgs
    BY <1>2, <2>1
  <2>3. /\ Bytes(m) \in Seq(Byte) /\ Len(Bytes(m)) = Length(m)
        /\ \A i \in 1 .. Length(m) : Bytes(m)[i] = [msg |-> m, at |-> i]
    BY <2>2, OneMessage
  <2>4. Length(m) \in Nat \ {0}
    BY <2>2, Lengths
  <2>5. QED
    BY <1>1, <2>1, <2>3, <2>4
<1>4. /\ r \in Seq(Byte) /\ Len(r) = Len(s) + n
      /\ \A i \in 1 .. Len(s) + n : r[i] = IF i <= Len(s) THEN s[i] ELSE b[i - Len(s)]
  <2>1. s \in Seq(Byte) /\ b \in Seq(Byte) /\ Len(b) = n /\ r = s \o b
    BY <1>1, <1>2, <1>3
  <2>2. QED
    BY <2>1, ConcatProperties
<1>5. \A i \in 1 .. Len(s) : r[i] = s[i]
  BY <1>2, <1>3, <1>4
<1>6. \A i \in 1 .. n : r[Len(s) + i] = [msg |-> e + 1, at |-> i]
  <2>1. ASSUME NEW i \in 1 .. n PROVE r[Len(s) + i] = b[i]
    <3>1. /\ Len(s) + i \in 1 .. Len(s) + n /\ ~(Len(s) + i <= Len(s))
          /\ (Len(s) + i) - Len(s) = i
      BY <1>2, <1>3
    <3>2. QED
      BY <1>4, <3>1
  <2>2. QED
    BY <1>3, <2>1
<1>7. r # <<>> /\ d # e + 1 /\ d <= e + 1 /\ 1 \in 1 .. n /\ n \in 1 .. n
  BY <1>2, <1>3, <1>4, EmptySeq
<1>8. r[Len(r)] = [msg |-> e + 1, at |-> Length(e + 1)]
  BY <1>1, <1>4, <1>6, <1>7
<1>9. r[1] = [msg |-> d + 1, at |-> 1]
  <2>1. CASE s = <<>>
    <3>1. d = e /\ Len(s) + 1 = 1
      BY <1>2, <2>1
    <3>2. QED
      BY <1>6, <1>7, <3>1
  <2>2. CASE s # <<>>
    <3>1. 1 \in 1 .. Len(s)
      BY <1>2, <2>2, EmptySeq
    <3>2. QED
      BY <1>2, <1>5, <2>2, <3>1
  <2>3. QED
    BY <2>1, <2>2
<1>10. ASSUME NEW i \in 1 .. Len(r) - 1 PROVE r[i + 1] = After(r[i])
  <2>1. CASE i < Len(s)
    <3>1. i \in 1 .. Len(s) - 1 /\ i \in 1 .. Len(s) /\ i + 1 \in 1 .. Len(s)
      BY <1>2, <1>10, <2>1
    <3>2. QED
      BY <1>2, <1>5, <3>1
  <2>2. CASE i = Len(s)
    <3>1. s # <<>> /\ i \in 1 .. Len(s)
      BY <1>2, <1>10, <2>2
    <3>2. r[i] = [msg |-> e, at |-> Length(e)]
      BY <1>2, <1>5, <2>2, <3>1
    <3>3. e \in Msgs
      BY <1>2, <3>1, StreamAssumption DEF Msgs
    <3>4. Length(e) \in Nat
      BY <3>3, Lengths
    <3>5. After(r[i]) = [msg |-> e + 1, at |-> 1]
      BY <3>2, <3>4 DEF After
    <3>6. QED
      BY <1>6, <1>7, <2>2, <3>5
  <2>3. CASE i > Len(s)
    <3>1. PICK j : j = i - Len(s)
      OBVIOUS
    <3>2. /\ j \in 1 .. n /\ j + 1 \in 1 .. n /\ j < n
          /\ i = Len(s) + j /\ i + 1 = Len(s) + (j + 1)
      BY <1>2, <1>3, <1>4, <1>10, <2>3, <3>1
    <3>3. r[i] = [msg |-> e + 1, at |-> j] /\ r[i + 1] = [msg |-> e + 1, at |-> j + 1]
      BY <1>6, <3>2
    <3>4. QED
      BY <1>1, <3>2, <3>3 DEF After
  <2>4. QED
    BY <1>2, <1>10, <2>1, <2>2, <2>3
<1>11. QED
  BY <1>1, <1>2, <1>4, <1>7, <1>8, <1>9, <1>10 DEF Carries

\* Concatenation is associative.
LEMMA Together == \A s, t, u \in Seq(Byte) : (s \o t) \o u = s \o (t \o u)
<1>1. ASSUME NEW s \in Seq(Byte), NEW t \in Seq(Byte), NEW u \in Seq(Byte)
      PROVE  (s \o t) \o u = s \o (t \o u)
  <2>1. PICK a, b, x, y : a = s \o t /\ b = t \o u /\ x = a \o u /\ y = s \o b
    OBVIOUS
  <2>2. Len(s) \in Nat /\ Len(t) \in Nat /\ Len(u) \in Nat
    BY LenProperties
  <2>3. /\ a \in Seq(Byte) /\ Len(a) = Len(s) + Len(t)
        /\ \A i \in 1 .. Len(s) + Len(t) : a[i] = IF i <= Len(s) THEN s[i] ELSE t[i - Len(s)]
    BY <2>1, ConcatProperties
  <2>4. /\ b \in Seq(Byte) /\ Len(b) = Len(t) + Len(u)
        /\ \A i \in 1 .. Len(t) + Len(u) : b[i] = IF i <= Len(t) THEN t[i] ELSE u[i - Len(t)]
    BY <2>1, ConcatProperties
  <2>5. /\ x \in Seq(Byte) /\ Len(x) = Len(a) + Len(u)
        /\ \A i \in 1 .. Len(a) + Len(u) : x[i] = IF i <= Len(a) THEN a[i] ELSE u[i - Len(a)]
    BY <2>1, <2>3, ConcatProperties
  <2>6. /\ y \in Seq(Byte) /\ Len(y) = Len(s) + Len(b)
        /\ \A i \in 1 .. Len(s) + Len(b) : y[i] = IF i <= Len(s) THEN s[i] ELSE b[i - Len(s)]
    BY <2>1, <2>4, ConcatProperties
  <2>7. Len(x) = Len(y) /\ Len(x) = Len(s) + Len(t) + Len(u)
    BY <2>2, <2>3, <2>4, <2>5, <2>6
  <2>8. ASSUME NEW i \in 1 .. Len(x) PROVE x[i] = y[i]
    <3>1. CASE i <= Len(s)
      <4>1. i \in 1 .. Len(s) + Len(t) /\ i <= Len(a)
        BY <2>2, <2>3, <3>1
      <4>2. x[i] = s[i] /\ y[i] = s[i]
        BY <2>2, <2>3, <2>4, <2>5, <2>6, <2>7, <3>1, <4>1
      <4>3. QED
        BY <4>2
    <3>2. CASE Len(s) < i /\ i <= Len(s) + Len(t)
      <4>1. /\ i \in 1 .. Len(s) + Len(t) /\ i <= Len(a) /\ ~(i <= Len(s))
            /\ i - Len(s) \in 1 .. Len(t) + Len(u) /\ i - Len(s) <= Len(t)
        BY <2>2, <2>3, <3>2
      <4>2. x[i] = t[i - Len(s)]
        BY <2>2, <2>3, <2>5, <4>1
      <4>3. y[i] = t[i - Len(s)]
        BY <2>2, <2>4, <2>6, <2>7, <4>1
      <4>4. QED
        BY <4>2, <4>3
    <3>3. CASE Len(s) + Len(t) < i
      <4>1. /\ ~(i <= Len(a)) /\ ~(i <= Len(s)) /\ i - Len(a) = (i - Len(s)) - Len(t)
            /\ i - Len(s) \in 1 .. Len(t) + Len(u) /\ ~(i - Len(s) <= Len(t))
        BY <2>2, <2>3, <2>7, <3>3
      <4>2. x[i] = u[i - Len(a)]
        BY <2>2, <2>3, <2>5, <2>7, <4>1
      <4>3. y[i] = u[(i - Len(s)) - Len(t)]
        BY <2>2, <2>4, <2>6, <2>7, <4>1
      <4>4. QED
        BY <4>1, <4>2, <4>3
    <3>4. QED
      BY <2>2, <2>7, <3>1, <3>2, <3>3
  <2>9. x = y
    BY <2>5, <2>6, <2>7, <2>8, SeqEqual
  <2>10. QED
    BY <2>1, <2>9
<1>2. QED
  BY <1>1

\* Bytes cut off behind a part of the first of two sequences.
LEMMA CutFirst ==
  ASSUME NEW s \in Seq(Byte), NEW t \in Seq(Byte), NEW n \in 0 .. Len(s)
  PROVE  SubSeq(s, n + 1, Len(s)) \o t = SubSeq(s \o t, n + 1, Len(s \o t))
<1>1. PICK a, b, c, x : /\ a = SubSeq(s, n + 1, Len(s)) /\ b = s \o t
                        /\ c = SubSeq(b, n + 1, Len(b)) /\ x = a \o t
  OBVIOUS
<1>2. Len(s) \in Nat /\ Len(t) \in Nat /\ n \in Nat
  BY LenProperties
<1>3. /\ b \in Seq(Byte) /\ Len(b) = Len(s) + Len(t)
      /\ \A i \in 1 .. Len(s) + Len(t) : b[i] = IF i <= Len(s) THEN s[i] ELSE t[i - Len(s)]
  BY <1>1, ConcatProperties
<1>4. /\ a \in Seq(Byte) /\ Len(a) = Len(s) - n
      /\ \A i \in 1 .. Len(s) - n : a[i] = s[n + i]
  <2>1. \A i \in n + 1 .. Len(s) : s[i] \in Byte
    BY <1>2, ElementOfSeq
  <2>2. /\ a \in Seq(Byte)
        /\ Len(a) = IF n + 1 <= Len(s) THEN Len(s) - (n + 1) + 1 ELSE 0
        /\ \A i \in 1 .. Len(s) - (n + 1) + 1 : a[i] = s[(n + 1) + i - 1]
    BY <1>1, <1>2, <2>1, SubSeqProperties
  <2>3. Len(a) = Len(s) - n /\ Len(s) - (n + 1) + 1 = Len(s) - n
    BY <1>2, <2>2
  <2>4. \A i \in 1 .. Len(s) - n : (n + 1) + i - 1 = n + i
    BY <1>2
  <2>5. QED
    BY <2>2, <2>3, <2>4
<1>5. /\ c \in Seq(Byte) /\ Len(c) = Len(s) + Len(t) - n
      /\ \A i \in 1 .. Len(s) + Len(t) - n : c[i] = b[n + i]
  <2>1. \A i \in n + 1 .. Len(b) : b[i] \in Byte
    <3>1. \A i \in n + 1 .. Len(b) : i \in 1 .. Len(b)
      BY <1>2, <1>3
    <3>2. QED
      BY <1>3, <3>1, ElementOfSeq
  <2>2. n + 1 \in Int /\ Len(b) \in Int
    BY <1>2, <1>3
  <2>3. /\ c \in Seq(Byte)
        /\ Len(c) = IF n + 1 <= Len(b) THEN Len(b) - (n + 1) + 1 ELSE 0
        /\ \A i \in 1 .. Len(b) - (n + 1) + 1 : c[i] = b[(n + 1) + i - 1]
    BY <1>1, <2>1, <2>2, SubSeqProperties
  <2>4. /\ Len(c) = Len(s) + Len(t) - n
        /\ Len(b) - (n + 1) + 1 = Len(s) + Len(t) - n
    BY <1>2, <1>3, <2>3
  <2>5. \A i \in 1 .. Len(s) + Len(t) - n : (n + 1) + i - 1 = n + i
    BY <1>2
  <2>6. QED
    BY <2>3, <2>4, <2>5
<1>6. /\ x \in Seq(Byte) /\ Len(x) = Len(a) + Len(t)
      /\ \A i \in 1 .. Len(a) + Len(t) : x[i] = IF i <= Len(a) THEN a[i] ELSE t[i - Len(a)]
  <2>1. a \in Seq(Byte) /\ x = a \o t
    BY <1>1, <1>4
  <2>2. QED
    BY <2>1, ConcatProperties
<1>7. Len(x) = Len(c) /\ Len(x) = Len(s) + Len(t) - n
  BY <1>2, <1>4, <1>5, <1>6
<1>8. ASSUME NEW i \in 1 .. Len(x) PROVE x[i] = c[i]
  <2>1. /\ i \in 1 .. Len(a) + Len(t) /\ i \in 1 .. Len(s) + Len(t) - n
        /\ n + i \in 1 .. Len(s) + Len(t) /\ i \in Nat
    BY <1>2, <1>4, <1>7
  <2>2. c[i] = IF n + i <= Len(s) THEN s[n + i] ELSE t[(n + i) - Len(s)]
    BY <1>3, <1>5, <2>1
  <2>3. CASE i <= Len(a)
    <3>1. n + i <= Len(s) /\ i \in 1 .. Len(s) - n
      BY <1>2, <1>4, <2>1, <2>3
    <3>2. QED
      BY <1>4, <1>6, <2>1, <2>2, <2>3, <3>1
  <2>4. CASE ~(i <= Len(a))
    <3>1. ~(n + i <= Len(s)) /\ (n + i) - Len(s) = i - Len(a)
      BY <1>2, <1>4, <2>1, <2>4
    <3>2. QED
      BY <1>6, <2>1, <2>2, <2>4, <3>1
  <2>5. QED
    BY <2>3, <2>4
<1>9. x = c
  BY <1>5, <1>6, <1>7, <1>8, SeqEqual
<1>10. QED
  BY <1>1, <1>9

----------------------------------------------------------------------------
(* Inductiveness.                                                          *)

\* What the node chose to send stays, and so do the lengths.
LEMMA SameMessages ==
  ASSUME UNCHANGED chosen
  PROVE  /\ Chosen' <=> Chosen
         /\ \A m : Length(m)' = Length(m)
         /\ \A s, d, e : Carries(s, d, e)' <=> Carries(s, d, e)
<1>1. UNCHANGED <<kind, size, need>>
  BY DEF chosen
<1>2. Chosen' <=> Chosen
  BY <1>1 DEF Chosen
<1>3. \A m : Length(m)' = Length(m)
  BY <1>1 DEF Length
<1>4. \A b : After(b)' = After(b)
  BY <1>3 DEF After
<1>5. \A s, d, e : Carries(s, d, e)' <=> Carries(s, d, e)
  BY <1>3, <1>4 DEF Carries
<1>6. QED
  BY <1>2, <1>3, <1>5

\* The bytes left, and the last message taken, after a step.
LEMMA StreamNow ==
  ASSUME UNCHANGED chosen, NEW s, NEW d, NEW e, Carries(s, d, e),
         m_data' \o net' = s, sent' = e
  PROVE  Done' = d /\ Carries(Stream, Done, sent)'
<1>1. Stream' = s
  BY DEF Stream
<1>2. Done' = d
  BY <1>1, FirstBehind DEF Done
<1>3. Carries(s, d, e)'
  BY SameMessages
<1>4. QED
  BY <1>1, <1>2, <1>3

\* The pools, when nothing is taken.
LEMMA PoolsStay ==
  ASSUME UNCHANGED chosen, UNCHANGED pools, Taken(Done), Done' = Done
  PROVE  Taken(Done)'
<1>1. PICK d : d = Done
  OBVIOUS
<1>2. Taken(d)
  BY <1>1
<1>3. Taken(d)'
  BY <1>2 DEF Taken, Holds, pools, chosen
<1>4. QED
  BY <1>1, <1>3

\* Send: the message comes behind all others.
LEMMA SendKeeps ==
  ASSUME IInv, Send
  PROVE  IInv'
<1>1. Types /\ Chosen /\ Carries(Stream, Done, sent) /\ Taken(Done) /\ Stopped
  BY DEF IInv, Types
<1>2. /\ sent < NMsg /\ net' = net \o Bytes(sent + 1) /\ sent' = sent + 1
      /\ UNCHANGED chosen /\ UNCHANGED pools
      /\ UNCHANGED <<m_data, receiving, looping>>
  BY DEF Send
<1>3. /\ sent \in 0 .. NMsg /\ sent' \in 0 .. NMsg /\ sent + 1 \in Msgs
  BY <1>1, <1>2, StreamAssumption DEF Types, Msgs
<1>4. PICK b : b = Bytes(sent + 1)
  OBVIOUS
<1>5. b \in Seq(Byte) /\ net \in Seq(Byte) /\ m_data \in Seq(Byte)
  <2>1. PICK m : m = sent + 1
    OBVIOUS
  <2>2. Bytes(m) \in Seq(Byte)
    BY <1>1, <1>3, <2>1, OneMessage
  <2>3. QED
    BY <1>1, <1>4, <2>1, <2>2 DEF Types
<1>6. m_data' \o net' = Stream \o b
  <2>1. (m_data \o net) \o b = m_data \o (net \o b)
    BY <1>5, Together
  <2>2. QED
    BY <1>2, <1>4, <2>1 DEF Stream
<1>7. Done' = Done /\ Carries(Stream, Done, sent)'
  <2>1. PICK s, d, e : s = Stream /\ d = Done /\ e = sent
    OBVIOUS
  <2>2. Carries(s, d, e) /\ e < NMsg
    BY <1>1, <1>2, <2>1
  <2>3. Carries(s \o Bytes(e + 1), d, e + 1)
    BY <1>1, <2>2, MessageBehind
  <2>4. m_data' \o net' = s \o Bytes(e + 1) /\ sent' = e + 1
    BY <1>2, <1>4, <1>6, <2>1
  <2>5. Done' = d /\ Carries(Stream, Done, sent)'
    BY <1>2, <2>3, <2>4, StreamNow
  <2>6. QED
    BY <2>1, <2>5
<1>8. Types'
  <2>1. net' \in Seq(Byte)
    BY <1>2, <1>4, <1>5, ConcatProperties
  <2>2. Chosen'
    BY <1>1, <1>2, SameMessages
  <2>3. QED
    BY <1>1, <1>2, <1>3, <2>1, <2>2 DEF Types, pools
<1>9. Taken(Done)'
  BY <1>1, <1>2, <1>7, PoolsStay
<1>10. Stopped'
  BY <1>1, <1>2 DEF Stopped, HasMessage, Throws, has_buffer, nMessageSize, InStep, chosen
<1>11. QED
  BY <1>7, <1>8, <1>9, <1>10 DEF IInv

\* OnRecv: what has come grows by what the wire loses.
LEMMA OnRecvKeeps ==
  ASSUME IInv, NEW len \in 1 .. BufLen, OnRecv(len)
  PROVE  IInv'
<1>1. Types /\ Chosen /\ Carries(Stream, Done, sent) /\ Taken(Done) /\ Stopped
  BY DEF IInv, Types
<1>2. /\ looping' = TRUE /\ len <= Len(net)
      /\ m_data' = m_data \o SubSeq(net, 1, len)
      /\ net' = SubSeq(net, len + 1, Len(net))
      /\ UNCHANGED chosen /\ UNCHANGED pools /\ UNCHANGED <<sent, receiving>>
  BY DEF OnRecv
<1>3. net \in Seq(Byte) /\ m_data \in Seq(Byte) /\ Len(net) \in Nat /\ len \in 1 .. Len(net)
  BY <1>1, <1>2, LenProperties, StreamAssumption DEF Types
<1>4. PICK a, b : a = SubSeq(net, 1, len) /\ b = SubSeq(net, len + 1, Len(net))
  OBVIOUS
<1>5. a \in Seq(Byte) /\ b \in Seq(Byte) /\ a \o b = net
  <2>1. /\ \A i \in 1 .. len : net[i] \in Byte
        /\ \A i \in len + 1 .. Len(net) : net[i] \in Byte
    BY <1>3, ElementOfSeq
  <2>2. a \in Seq(Byte) /\ b \in Seq(Byte)
    BY <1>3, <1>4, <2>1, SubSeqProperties
  <2>3. SubSeq(net, 1, Len(net)) = net
    BY <1>3, SubSeqFull
  <2>4. a \o b = SubSeq(net, 1, Len(net))
    <3>1. /\ 1 \in 1 .. Len(net) + 1 /\ len \in 1 - 1 .. Len(net)
          /\ Len(net) \in len .. Len(net)
      BY <1>3
    <3>2. QED
      BY <1>3, <1>4, <3>1, ConcatAdjacentSubSeq
  <2>5. QED
    BY <2>2, <2>3, <2>4
<1>6. m_data' \o net' = Stream
  <2>1. (m_data \o a) \o b = m_data \o (a \o b)
    BY <1>3, <1>5, Together
  <2>2. QED
    BY <1>2, <1>4, <1>5, <2>1 DEF Stream
<1>7. Done' = Done /\ Carries(Stream, Done, sent)'
  <2>1. PICK s, d, e : s = Stream /\ d = Done /\ e = sent
    OBVIOUS
  <2>2. Carries(s, d, e) /\ m_data' \o net' = s /\ sent' = e
    BY <1>1, <1>2, <1>6, <2>1
  <2>3. Done' = d /\ Carries(Stream, Done, sent)'
    BY <1>2, <2>2, StreamNow
  <2>4. QED
    BY <2>1, <2>3
<1>8. Types'
  <2>1. m_data' \in Seq(Byte) /\ net' \in Seq(Byte)
    BY <1>2, <1>3, <1>4, <1>5, ConcatProperties
  <2>2. Chosen'
    BY <1>1, <1>2, SameMessages
  <2>3. QED
    BY <1>1, <1>2, <2>1, <2>2 DEF Types, pools
<1>9. Taken(Done)'
  BY <1>1, <1>2, <1>7, PoolsStay
<1>10. Stopped'
  BY <1>2 DEF Stopped
<1>11. QED
  BY <1>7, <1>8, <1>9, <1>10 DEF IInv

\* The pool of a kind, when the next message is taken.
LEMMA NextTaken ==
  ASSUME NEW pool \in Seq(Msgs), NEW d \in Nat, d + 1 \in Msgs, NEW k,
         Holds(pool, 1 .. d, k)
  PROVE  /\ kind[d + 1] = k => Holds(Append(pool, d + 1), 1 .. d + 1, k)
         /\ kind[d + 1] # k => Holds(pool, 1 .. d + 1, k)
<1>1. \A m : m \in 1 .. d + 1 <=> m \in 1 .. d \/ m = d + 1
  OBVIOUS
<1>2. /\ {pool[i] : i \in 1 .. Len(pool)} = {m \in 1 .. d : kind[m] = k}
      /\ \A i, j \in 1 .. Len(pool) : i < j => pool[i] < pool[j]
  BY DEF Holds
<1>3. ASSUME kind[d + 1] # k PROVE Holds(pool, 1 .. d + 1, k)
  <2>1. {m \in 1 .. d : kind[m] = k} = {m \in 1 .. d + 1 : kind[m] = k}
    BY <1>1, <1>3
  <2>2. QED
    BY <1>2, <2>1 DEF Holds
<1>4. ASSUME kind[d + 1] = k PROVE Holds(Append(pool, d + 1), 1 .. d + 1, k)
  <2>1. PICK p, n : p = Append(pool, d + 1) /\ n = Len(pool)
    OBVIOUS
  <2>2. /\ n \in Nat /\ Len(p) = n + 1
        /\ \A i \in 1 .. n : p[i] = pool[i]
        /\ p[n + 1] = d + 1
    BY <2>1, AppendProperties, LenProperties
  <2>3. \A i : i \in 1 .. n + 1 <=> i \in 1 .. n \/ i = n + 1
    BY <2>2
  <2>4. {p[i] : i \in 1 .. n + 1} = {pool[i] : i \in 1 .. n} \cup {d + 1}
    BY <2>2, <2>3
  <2>5. {m \in 1 .. d + 1 : kind[m] = k} = {m \in 1 .. d : kind[m] = k} \cup {d + 1}
    BY <1>1, <1>4
  <2>6. {p[i] : i \in 1 .. n + 1} = {m \in 1 .. d + 1 : kind[m] = k}
    BY <1>2, <2>1, <2>4, <2>5
  <2>7. ASSUME NEW i \in 1 .. n + 1, NEW j \in 1 .. n + 1, i < j PROVE p[i] < p[j]
    <3>1. i \in 1 .. n
      BY <2>2, <2>7
    <3>2. p[i] = pool[i] /\ pool[i] \in 1 .. d
      BY <1>2, <2>1, <2>2, <3>1
    <3>3. CASE j = n + 1
      BY <2>2, <3>2, <3>3
    <3>4. CASE j \in 1 .. n
      BY <1>2, <2>1, <2>2, <2>7, <3>1, <3>4
    <3>5. QED
      BY <2>3, <3>3, <3>4
  <2>8. Holds(p, 1 .. d + 1, k)
    BY <2>2, <2>6, <2>7 DEF Holds
  <2>9. QED
    BY <2>1, <2>8
<1>5. QED
  BY <1>3, <1>4

\* m_data begins as the bytes left begin.
LEMMA DataFirst ==
  ASSUME IInv, m_data # <<>>
  PROVE  /\ Stream # <<>> /\ Stream[1] = m_data[1]
         /\ Done + 1 \in Msgs /\ Done \in Nat
         /\ m_data[1] = [msg |-> Done + 1, at |-> 1]
         /\ nMessageSize = size[Done + 1] /\ Command = kind[Done + 1]
         /\ HeaderLen + nMessageSize = Length(Done + 1)
         /\ Len(m_data) \in Nat \ {0}
<1>1. Types /\ Chosen /\ Carries(Stream, Done, sent)
  BY DEF IInv, Types
<1>2. m_data \in Seq(Byte) /\ net \in Seq(Byte)
  BY <1>1 DEF Types
<1>3. /\ Len(m_data) \in Nat \ {0} /\ Len(net) \in Nat
      /\ Stream \in Seq(Byte) /\ Len(Stream) = Len(m_data) + Len(net)
      /\ \A i \in 1 .. Len(m_data) + Len(net) :
           Stream[i] = IF i <= Len(m_data) THEN m_data[i] ELSE net[i - Len(m_data)]
  BY <1>2, EmptySeq, LenProperties, ConcatProperties DEF Stream
<1>4. Stream # <<>> /\ Stream[1] = m_data[1]
  <2>1. 1 \in 1 .. Len(m_data) + Len(net) /\ 1 <= Len(m_data) /\ Len(Stream) # 0
    BY <1>3
  <2>2. QED
    BY <1>3, <2>1, EmptySeq
<1>5. Done + 1 \in Msgs /\ Done \in Nat /\ m_data[1] = [msg |-> Done + 1, at |-> 1]
  <2>1. PICK s, d, e : s = Stream /\ d = Done /\ e = sent
    OBVIOUS
  <2>2. Carries(s, d, e) /\ s # <<>>
    BY <1>1, <1>4, <2>1
  <2>3. d + 1 \in Msgs
    BY <1>1, <2>2, FirstMessage
  <2>4. d \in Nat /\ s[1] = [msg |-> d + 1, at |-> 1]
    BY <2>2 DEF Carries
  <2>5. QED
    BY <1>4, <2>1, <2>3, <2>4
<1>6. nMessageSize = size[Done + 1] /\ Command = kind[Done + 1]
  BY <1>5 DEF nMessageSize, Command, InStep
<1>7. QED
  BY <1>3, <1>4, <1>5, <1>6 DEF Length

\* TakeMessage: the first message goes to its place and is erased.
LEMMA TakeMessageKeeps ==
  ASSUME IInv, TakeMessage
  PROVE  IInv'
<1>1. Types /\ Chosen /\ Carries(Stream, Done, sent) /\ Taken(Done)
  BY DEF IInv, Types
<1>2. PICK s, d, e, n : s = Stream /\ d = Done /\ e = sent /\ n = Length(Done + 1)
  OBVIOUS
<1>3. /\ looping /\ HeaderLen <= Len(m_data)
      /\ HeaderLen + nMessageSize <= Len(m_data)
      /\ m_data' = SubSeq(m_data, HeaderLen + nMessageSize + 1, Len(m_data))
      /\ UNCHANGED chosen /\ UNCHANGED <<net, sent, receiving, looping>>
  BY DEF TakeMessage, HasMessage, has_buffer, Erase
<1>4. m_data \in Seq(Byte) /\ net \in Seq(Byte) /\ m_data # <<>>
  <2>1. Len(<<>>) = 0
    OBVIOUS
  <2>2. QED
    BY <1>1, <1>3, <2>1, StreamAssumption DEF Types
<1>5. /\ d + 1 \in Msgs /\ d \in Nat /\ s # <<>>
      /\ m_data[1].msg = d + 1 /\ Command = kind[d + 1]
      /\ n <= Len(m_data) /\ m_data' = SubSeq(m_data, n + 1, Len(m_data))
      /\ n = Length(d + 1) /\ Len(m_data) \in Nat
  <2>1. /\ Stream # <<>> /\ Done + 1 \in Msgs /\ Done \in Nat
        /\ m_data[1] = [msg |-> Done + 1, at |-> 1]
        /\ Command = kind[Done + 1] /\ Len(m_data) \in Nat
    BY <1>4, DataFirst
  <2>2. HeaderLen + nMessageSize = n
    BY <1>2, <1>4, DataFirst
  <2>3. m_data[1].msg = d + 1
    BY <1>2, <2>1
  <2>4. n <= Len(m_data) /\ m_data' = SubSeq(m_data, n + 1, Len(m_data))
    BY <1>3, <2>2
  <2>5. QED
    BY <1>2, <2>1, <2>3, <2>4
<1>6. n \in 0 .. Len(m_data)
  <2>1. n \in Nat
    BY <1>1, <1>5, Lengths
  <2>2. QED
    BY <1>5, <2>1
<1>7. Done' = d + 1 /\ Carries(Stream, Done, sent)'
  <2>1. SubSeq(m_data, n + 1, Len(m_data)) \o net = SubSeq(s, n + 1, Len(s))
    BY <1>2, <1>4, <1>6, CutFirst DEF Stream
  <2>2. PICK r : r = SubSeq(s, n + 1, Len(s))
    OBVIOUS
  <2>3. Carries(r, d + 1, e)
    BY <1>1, <1>2, <1>5, <2>2, FirstTaken
  <2>4. m_data' \o net' = r /\ sent' = e
    BY <1>2, <1>3, <1>5, <2>1, <2>2
  <2>5. QED
    BY <1>3, <2>3, <2>4, StreamNow
<1>8. /\ m_pDestVersion' = IF kind[d + 1] = "version" THEN d + 1 ELSE m_pDestVersion
      /\ m_block_pool' = IF kind[d + 1] = "block" THEN Append(m_block_pool, d + 1)
                                                  ELSE m_block_pool
      /\ m_headers_pool' = IF kind[d + 1] = "headers" THEN Append(m_headers_pool, d + 1)
                                                      ELSE m_headers_pool
  BY <1>5 DEF TakeMessage
<1>9. Types'
  <2>1. m_data' \in Seq(Byte)
    <3>1. \A i \in n + 1 .. Len(m_data) : m_data[i] \in Byte
      <4>1. \A i \in n + 1 .. Len(m_data) : i \in 1 .. Len(m_data)
        BY <1>5, <1>6
      <4>2. QED
        BY <1>4, <4>1, ElementOfSeq
    <3>2. QED
      BY <1>5, <1>6, <3>1, SubSeqProperties
  <2>2. m_block_pool' \in Seq(Msgs) /\ m_headers_pool' \in Seq(Msgs)
    BY <1>1, <1>5, <1>8, AppendProperties DEF Types
  <2>3. Chosen'
    BY <1>1, <1>3, SameMessages
  <2>4. QED
    BY <1>1, <1>3, <2>1, <2>2, <2>3 DEF Types
<1>10. Taken(d + 1)'
  <2>1. /\ Holds(m_block_pool, 1 .. d, "block")
        /\ Holds(m_headers_pool, 1 .. d, "headers")
        /\ m_pDestVersion \in 0 .. d
        /\ (\E m \in 1 .. d : kind[m] = "version") => m_pDestVersion # 0
        /\ m_block_pool \in Seq(Msgs) /\ m_headers_pool \in Seq(Msgs)
    BY <1>1, <1>2 DEF Taken, Types
  <2>2. PICK p, q : p = m_block_pool' /\ q = m_headers_pool'
    OBVIOUS
  <2>3. Holds(p, 1 .. d + 1, "block")
    BY <1>5, <1>8, <2>1, <2>2, NextTaken
  <2>4. Holds(q, 1 .. d + 1, "headers")
    BY <1>5, <1>8, <2>1, <2>2, NextTaken
  <2>5. UNCHANGED kind
    BY <1>3 DEF chosen
  <2>6. \A m : m \in 1 .. d + 1 <=> m \in 1 .. d \/ m = d + 1
    BY <1>5
  <2>7. m_pDestVersion' \in 0 .. d + 1
    BY <1>5, <1>8, <2>1
  <2>8. (\E m \in 1 .. d + 1 : kind[m] = "version") => m_pDestVersion' # 0
    BY <1>5, <1>8, <2>1, <2>6
  <2>9. QED
    BY <2>2, <2>3, <2>4, <2>5, <2>7, <2>8 DEF Taken, Holds
<1>11. Taken(Done)'
  <2>1. PICK f : f = d + 1
    OBVIOUS
  <2>2. Taken(f)' /\ Done' = f
    BY <1>7, <1>10, <2>1
  <2>3. QED
    BY <2>2
<1>12. Stopped'
  BY <1>3 DEF Stopped
<1>13. QED
  BY <1>7, <1>9, <1>11, <1>12 DEF IInv

\* LoopEnds, OnRecvClosed and stuttering change no byte and no pool.
LEMMA NoBytes ==
  ASSUME IInv, UNCHANGED chosen, UNCHANGED pools, UNCHANGED <<net, sent, m_data>>,
         receiving' \in BOOLEAN, looping' \in BOOLEAN
  PROVE  Types' /\ Carries(Stream, Done, sent)' /\ Taken(Done)'
<1>1. Types /\ Chosen /\ Carries(Stream, Done, sent) /\ Taken(Done)
  BY DEF IInv, Types
<1>2. Done' = Done /\ Carries(Stream, Done, sent)'
  <2>1. PICK s, d, e : s = Stream /\ d = Done /\ e = sent
    OBVIOUS
  <2>2. Carries(s, d, e) /\ m_data' \o net' = s /\ sent' = e
    BY <1>1, <2>1 DEF Stream
  <2>3. Done' = d /\ Carries(Stream, Done, sent)'
    BY <2>2, StreamNow
  <2>4. QED
    BY <2>1, <2>3
<1>3. Taken(Done)'
  BY <1>1, <1>2, PoolsStay
<1>4. Chosen'
  BY <1>1, SameMessages
<1>5. QED
  BY <1>1, <1>2, <1>3, <1>4 DEF Types, pools

\* At first nothing is sent, nothing taken.
LEMMA InitInductive == Init => IInv
<1> SUFFICES ASSUME Init PROVE IInv
  OBVIOUS
<1>1. /\ net = <<>> /\ sent = 0 /\ m_data = <<>> /\ m_pDestVersion = 0
      /\ m_block_pool = <<>> /\ m_headers_pool = <<>> /\ receiving = TRUE
      /\ looping = FALSE /\ Chosen
  BY DEF Init, Chosen
<1>2. /\ <<>> \in Seq(Byte) /\ <<>> \in Seq(Msgs) /\ Len(<<>>) = 0 /\ 1 .. 0 = {}
      /\ 1 .. 0 - 1 = {} /\ 0 \in 0 .. NMsg
  BY StreamAssumption
<1>3. Types
  BY <1>1, <1>2 DEF Types
<1>4. Stream = <<>> /\ Done = 0
  <2>1. Stream = <<>>
    BY <1>1, <1>2, ConcatEmptySeq DEF Stream
  <2>2. QED
    BY <1>1, <2>1 DEF Done
<1>5. Carries(Stream, Done, sent)
  BY <1>1, <1>2, <1>4 DEF Carries
<1>6. Taken(Done)
  BY <1>1, <1>2, <1>4 DEF Taken, Holds
<1>7. Stopped
  BY <1>1, <1>2, StreamAssumption DEF Stopped, HasMessage, has_buffer
<1>8. QED
  BY <1>3, <1>5, <1>6, <1>7 DEF IInv

\* Every step keeps it.
LEMMA Inductive == IInv /\ [Next]_vars => IInv'
<1> SUFFICES ASSUME IInv, [Next]_vars PROVE IInv'
  OBVIOUS
<1>1. CASE Send
  BY <1>1, SendKeeps
<1>2. CASE OnRecvClosed
  <2>1. /\ UNCHANGED chosen /\ UNCHANGED pools /\ UNCHANGED <<net, sent, m_data>>
        /\ receiving' \in BOOLEAN /\ looping' = looping
    BY <1>2 DEF OnRecvClosed
  <2>2. Stopped /\ looping \in BOOLEAN
    BY DEF IInv, Types
  <2>3. Stopped'
    BY <2>1, <2>2 DEF Stopped, HasMessage, Throws, has_buffer, nMessageSize, InStep, chosen
  <2>4. QED
    BY <2>1, <2>2, <2>3, NoBytes DEF IInv
<1>3. CASE TakeMessage
  BY <1>3, TakeMessageKeeps
<1>4. CASE LoopEnds
  <2>1. /\ UNCHANGED chosen /\ UNCHANGED pools /\ UNCHANGED <<net, sent, m_data>>
        /\ receiving' = receiving /\ looping' = FALSE /\ ~(HasMessage /\ ~Throws)
    BY <1>4 DEF LoopEnds
  <2>2. receiving \in BOOLEAN
    BY DEF IInv, Types
  <2>3. Stopped'
    BY <2>1 DEF Stopped, HasMessage, Throws, has_buffer, nMessageSize, InStep, chosen
  <2>4. QED
    BY <2>1, <2>2, <2>3, NoBytes DEF IInv
<1>5. CASE \E len \in 1 .. BufLen : OnRecv(len)
  BY <1>5, OnRecvKeeps
<1>6. CASE UNCHANGED vars
  <2>1. /\ UNCHANGED chosen /\ UNCHANGED pools /\ UNCHANGED <<net, sent, m_data>>
        /\ receiving' = receiving /\ looping' = looping
    BY <1>6 DEF vars
  <2>2. Stopped /\ looping \in BOOLEAN /\ receiving \in BOOLEAN
    BY DEF IInv, Types
  <2>3. Stopped'
    BY <2>1, <2>2 DEF Stopped, HasMessage, Throws, has_buffer, nMessageSize, InStep, chosen
  <2>4. QED
    BY <2>1, <2>2, <2>3, NoBytes DEF IInv
<1>7. QED
  BY <1>1, <1>2, <1>3, <1>4, <1>5, <1>6 DEF Next

LEMMA Always == Spec => []IInv
<1>1. Init => IInv
  BY InitInductive
<1>2. IInv /\ [Next]_vars => IInv'
  BY Inductive
<1>3. QED
  BY <1>1, <1>2, PTL DEF Spec

\* Between two calls the messages served are those taken.
LEMMA ServedAreTaken ==
  ASSUME IInv, ~looping
  PROVE  Served = 1 .. Done
<1>1. Types /\ Chosen /\ Carries(Stream, Done, sent) /\ Stopped
  BY DEF IInv, Types
<1>2. PICK s, d, e : s = Stream /\ d = Done /\ e = sent
  OBVIOUS
<1>3. Carries(s, d, e) /\ d \in Nat /\ e \in Nat /\ d <= e
  BY <1>1, <1>2 DEF Carries
<1>4. /\ m_data \in Seq(Byte) /\ net \in Seq(Byte) /\ s \in Seq(Byte)
      /\ Len(m_data) \in Nat /\ Len(net) \in Nat /\ Len(s) = Len(m_data) + Len(net)
      /\ \A i \in 1 .. Len(m_data) + Len(net) :
           s[i] = IF i <= Len(m_data) THEN m_data[i] ELSE net[i - Len(m_data)]
  BY <1>1, <1>2, LenProperties, ConcatProperties DEF Types, Stream
<1>5. \A i \in 1 .. Len(net) : /\ Len(m_data) + i \in 1 .. Len(s)
                               /\ s[Len(m_data) + i] = net[i]
                               /\ net[i].msg \in Nat /\ d + 1 <= net[i].msg
  <2> SUFFICES ASSUME NEW i \in 1 .. Len(net)
               PROVE  /\ Len(m_data) + i \in 1 .. Len(s)
                      /\ s[Len(m_data) + i] = net[i]
                      /\ net[i].msg \in Nat /\ d + 1 <= net[i].msg
    OBVIOUS
  <2>1. PICK j : j = Len(m_data) + i
    OBVIOUS
  <2>2. /\ j \in 1 .. Len(s) /\ j \in 1 .. Len(m_data) + Len(net)
        /\ ~(j <= Len(m_data)) /\ j - Len(m_data) = i
    BY <1>4, <2>1
  <2>3. s[j] = net[i]
    BY <1>4, <2>2
  <2>4. s # <<>> /\ s[1].msg = d + 1
    <3>1. s # <<>>
      BY <1>4, <2>2, EmptySeq
    <3>2. QED
      BY <1>3, <3>1 DEF Carries
  <2>5. s[j].msg \in Nat /\ s[1].msg <= s[j].msg
    BY <1>3, <1>4, <2>2, NoEarlier DEF Carries
  <2>6. QED
    BY <2>1, <2>2, <2>3, <2>4, <2>5
<1>6. \A m \in 1 .. d : m \in Arrived
  BY <1>2, <1>3, <1>5 DEF Arrived
<1>7. \A m \in Arrived : m \in 1 .. e /\ (m \notin 1 .. d => d + 1 \in Arrived /\ d < e)
  <2> SUFFICES ASSUME NEW m \in Arrived, m \notin 1 .. d
               PROVE  m \in 1 .. e /\ d + 1 \in Arrived /\ d < e
    BY <1>2 DEF Arrived
  <2>1. m \in 1 .. e /\ \A i \in 1 .. Len(net) : net[i].msg > m
    BY <1>2 DEF Arrived
  <2>2. d + 1 <= m /\ d + 1 \in 1 .. e
    BY <1>3, <2>1
  <2>3. \A i \in 1 .. Len(net) : net[i].msg > d + 1
    BY <1>3, <1>5, <2>1, <2>2
  <2>4. QED
    BY <1>2, <1>3, <2>1, <2>2, <2>3 DEF Arrived
<1>8. CASE d + 1 \in Arrived
  <2>1. d + 1 \in 1 .. e /\ \A i \in 1 .. Len(net) : net[i].msg > d + 1
    BY <1>2, <1>8 DEF Arrived
  <2>2. s # <<>>
    BY <1>3, <2>1 DEF Carries
  <2>3. PICK n : n = Length(d + 1)
    OBVIOUS
  <2>4. /\ d + 1 \in Msgs /\ n <= Len(s) /\ n \in Nat \ {0}
        /\ s[n] = [msg |-> d + 1, at |-> n]
    <3>1. d + 1 \in Msgs /\ n <= Len(s)
      BY <1>1, <1>3, <2>2, <2>3, FirstMessage
    <3>2. n \in Nat \ {0} /\ n \in 1 .. n
      BY <1>1, <2>3, <3>1, Lengths
    <3>3. s[n] = [msg |-> d + 1, at |-> n]
      BY <1>1, <1>3, <2>2, <2>3, <3>2, FirstMessage
    <3>4. QED
      BY <3>1, <3>2, <3>3
  <2>5. n <= Len(m_data)
    <3> SUFFICES ASSUME ~(n <= Len(m_data)) PROVE FALSE
      OBVIOUS
    <3>1. PICK i : i = n - Len(m_data)
      OBVIOUS
    <3>2. i \in 1 .. Len(net) /\ Len(m_data) + i = n
      BY <1>4, <2>4, <3>1
    <3>3. s[n] = net[i]
      BY <1>5, <3>2
    <3>4. net[i].msg = d + 1
      BY <2>4, <3>3
    <3>5. QED
      BY <1>3, <2>1, <3>2, <3>4
  <2>6. m_data # <<>>
    BY <2>4, <2>5, EmptySeq
  <2>7. /\ m_data[1].msg = d + 1 /\ HeaderLen + nMessageSize = n /\ HeaderLen <= n
    <3>1. /\ m_data[1] = [msg |-> Done + 1, at |-> 1]
          /\ HeaderLen + nMessageSize = Length(Done + 1)
      BY <2>6, DataFirst
    <3>2. HeaderLen <= Length(d + 1)
      BY <1>1, <2>4, Lengths
    <3>3. QED
      BY <1>2, <2>3, <3>1, <3>2
  <2>8. HasMessage
    BY <1>4, <2>4, <2>5, <2>7, StreamAssumption DEF HasMessage, has_buffer
  <2>9. Throws
    BY <1>1, <2>8 DEF Stopped
  <2>10. Stuck = {d + 1}
    BY <1>8, <2>6, <2>7, <2>9 DEF Stuck
  <2>11. \A m \in Arrived : m < d + 1 <=> m \in 1 .. d
    BY <1>3, <1>7
  <2>12. Served = 1 .. d
    BY <1>6, <2>10, <2>11 DEF Served
  <2>13. QED
    BY <1>2, <2>12
<1>9. CASE d + 1 \notin Arrived
  <2>1. Arrived = 1 .. d
    BY <1>6, <1>7, <1>9
  <2>2. Stuck = {}
    <3> SUFFICES ASSUME NEW m \in Arrived, m_data # <<>>, m_data[1].msg = m PROVE FALSE
      BY DEF Stuck
    <3>1. m_data[1].msg = d + 1
      BY <1>2, DataFirst
    <3>2. QED
      BY <1>9, <3>1
  <2>3. Served = 1 .. d
    BY <2>1, <2>2 DEF Served
  <2>4. QED
    BY <1>2, <2>3
<1>10. QED
  BY <1>8, <1>9

----------------------------------------------------------------------------
(* The theorems.                                                           *)

(* The variables hold what the code's hold, and what is left in m_data     *)
(* between two calls of on_recv is less than the largest message, or than  *)
(* what the most demanding body calls for: it does not grow without bound. *)
THEOREM StreamTypes == Spec => []TypeOK
<1>1. ASSUME IInv PROVE TypeOK
  <2>1. Types /\ Chosen /\ Carries(Stream, Done, sent) /\ Taken(Done) /\ Stopped
    BY <1>1 DEF IInv, Types
  <2>2. m_pDestVersion \in Msgs \cup {0}
    BY <2>1, StreamAssumption DEF Carries, Taken, Msgs
  <2>3. ASSUME ~looping PROVE Len(m_data) < Largest
    <3>1. CASE m_data = <<>>
      <4>1. Len(m_data) = 0
        BY <3>1
      <4>2. QED
        BY <4>1, StreamAssumption DEF Largest
    <3>2. CASE m_data # <<>>
      <4>1. PICK m, len : m = Done + 1 /\ len = Len(m_data)
        OBVIOUS
      <4>2. m \in Msgs /\ len \in Nat /\ m_data[1].msg = m /\ nMessageSize = size[m]
        BY <1>1, <3>2, <4>1, DataFirst
      <4>3. size[m] \in 0 .. MaxBody /\ need[m] \in 0 .. MaxNeed
        BY <2>1, <4>2 DEF Chosen
      <4>4. len < HeaderLen \/ len < HeaderLen + size[m] \/ HeaderLen + need[m] > len
        <5>1. ~(HasMessage /\ ~Throws)
          BY <2>1, <2>3 DEF Stopped
        <5>2. HasMessage <=> HeaderLen <= len /\ HeaderLen + size[m] <= len
          BY <4>1, <4>2 DEF HasMessage, has_buffer
        <5>3. Throws <=> HeaderLen + need[m] > len
          BY <4>1, <4>2 DEF Throws
        <5>4. QED
          BY <4>2, <4>3, <5>1, <5>2, <5>3, StreamAssumption
      <4>5. QED
        BY <4>1, <4>2, <4>3, <4>4, StreamAssumption DEF Largest
    <3>3. QED
      BY <3>1, <3>2
  <2>4. QED
    BY <2>1, <2>2, <2>3 DEF TypeOK, Types, Chosen
<1>2. QED
  BY <1>1, Always, PTL

(* However the bytes come in pieces, when on_recv returns the pools hold   *)
(* exactly the messages that arrived completely, each once and in order,   *)
(* but for one that calls for bytes which have not come and those behind.  *)
THEOREM ArrivedAreInPools == Spec => []PoolsHoldTheArrived
<1>1. ASSUME IInv PROVE PoolsHoldTheArrived
  <2> SUFFICES ASSUME ~looping
               PROVE  /\ Holds(m_block_pool, Served, "block")
                      /\ Holds(m_headers_pool, Served, "headers")
                      /\ m_pDestVersion \in Served \cup {0}
                      /\ (\E m \in Served : kind[m] = "version") => m_pDestVersion # 0
    BY DEF PoolsHoldTheArrived
  <2>1. Served = 1 .. Done
    BY <1>1, ServedAreTaken
  <2>2. Taken(Done) /\ Carries(Stream, Done, sent)
    BY <1>1 DEF IInv
  <2>3. m_pDestVersion \in (1 .. Done) \cup {0}
    BY <2>2 DEF Taken, Carries
  <2>4. QED
    BY <2>1, <2>2, <2>3 DEF Taken
<1>2. QED
  BY <1>1, Always, PTL

(* m_data begins with the first byte of a message and goes on as the       *)
(* stream was sent, also between two turns of the loop: no length on the   *)
(* wire makes on_recv erase a byte too many or too few.                    *)
THEOREM NeverOutOfStep == Spec => []StreamInStep
<1>1. ASSUME IInv, m_data # <<>>
      PROVE  /\ m_data[1].at = 1
             /\ \A i \in 1 .. Len(m_data) - 1 : m_data[i + 1] = After(m_data[i])
  <2>1. Types /\ Carries(Stream, Done, sent)
    BY <1>1 DEF IInv
  <2>2. m_data[1].at = 1
    BY <1>1, DataFirst
  <2>3. PICK s : s = Stream
    OBVIOUS
  <2>4. /\ Len(m_data) \in Nat /\ Len(net) \in Nat /\ Len(s) = Len(m_data) + Len(net)
        /\ \A i \in 1 .. Len(m_data) + Len(net) :
             s[i] = IF i <= Len(m_data) THEN m_data[i] ELSE net[i - Len(m_data)]
    BY <2>1, <2>3, LenProperties, ConcatProperties DEF Types, Stream
  <2>5. ASSUME NEW i \in 1 .. Len(m_data) - 1 PROVE m_data[i + 1] = After(m_data[i])
    <3>1. /\ i \in 1 .. Len(s) - 1
          /\ i \in 1 .. Len(m_data) + Len(net) /\ i <= Len(m_data)
          /\ i + 1 \in 1 .. Len(m_data) + Len(net) /\ i + 1 <= Len(m_data)
      BY <2>4
    <3>2. s[i] = m_data[i] /\ s[i + 1] = m_data[i + 1]
      BY <2>4, <3>1
    <3>3. s[i + 1] = After(s[i])
      BY <2>1, <2>3, <3>1 DEF Carries
    <3>4. QED
      BY <3>2, <3>3
  <2>6. QED
    BY <2>2, <2>5
<1>2. IInv => StreamInStep
  BY <1>1 DEF StreamInStep
<1>3. QED
  BY <1>2, Always, PTL
=============================================================================
