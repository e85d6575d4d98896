------------------------------- MODULE BigNum -------------------------------
(***************************************************************************)
(* CBigNum (bignum.h): how bytes, integers, the compact form of targets    *)
(* and hexadecimal texts become OpenSSL numbers and back.  The number is a *)
(* TLA+ integer; OpenSSL's mpi form, in which most conversions meet, is    *)
(* its bytes, the most significant first, with the sign in the first bit.  *)
(***************************************************************************)
EXTENDS Wire

CONSTANT Mantissa     \* the bytes of a compact number's mantissa: 3

ASSUME BigNumAssumption == Base % 2 = 0 /\ Mantissa \in Nat \ {0}

SignBit == Base \div 2            \* of a byte: 0x80

----------------------------------------------------------------------------
(* The digits of a number, the most significant first, none for 0.         *)

DigitsOf(n, base) ==
  LET f[m \in 0 .. n] == IF m = 0 THEN <<>> ELSE Append(f[m \div base], m % base)
  IN  f[n]

Magnitude(n) == IF n < 0 THEN -n ELSE n
Signed(fNegative, n) == IF fNegative THEN -n ELSE n

----------------------------------------------------------------------------
(* The mpi form.                                                           *)

mpi2bn(mpi) ==
  IF mpi = <<>> THEN 0
  ELSE Signed(mpi[1] >= SignBit,
              NumberOf(<<mpi[1] % SignBit>> \o Tail(mpi), Base))

\* setint64, setuint64 and setuint256 write it themselves: the leading zero
\* bytes are skipped and a byte is put in front when the first bit is taken.
MpiNoSignByte(fNegative, bytes) ==    \* mutated form: no byte put in front
  IF bytes = <<>> THEN <<>>
  ELSE IF fNegative THEN <<bytes[1] + SignBit>> \o Tail(bytes) ELSE bytes
Mpi(fNegative, bytes) ==
  IF bytes = <<>> THEN <<>>
  ELSE IF bytes[1] >= SignBit
       THEN <<IF fNegative THEN SignBit ELSE 0>> \o bytes
  ELSE IF fNegative THEN <<bytes[1] + SignBit>> \o Tail(bytes) ELSE bytes

setint64(sn) == mpi2bn(Mpi(sn < 0, DigitsOf(Magnitude(sn), Base)))

\* uint256 is its bytes, the least significant first.
setuint256(n) == mpi2bn(Mpi(FALSE, DigitsOf(NumberOf(Reverse(n), Base), Base)))

setvch(vch) == mpi2bn(Reverse(vch))
getvch(n) == Reverse(Mpi(n < 0, DigitsOf(Magnitude(n), Base)))

----------------------------------------------------------------------------
(* The compact form: one byte of size, and a mantissa whose first bit is   *)
(* the sign.                                                               *)

CompactSign == SignBit * Power[Mantissa - 1]

SetCompact(nCompact) ==
  LET nSize == nCompact \div Power[Mantissa]
      nWord == nCompact % CompactSign
  IN  Signed((nCompact \div CompactSign) % 2 = 1,
             IF nSize <= Mantissa THEN nWord \div Power[Mantissa - nSize]
                                  ELSE nWord * Power[nSize - Mantissa])

GetCompactTakesSign(n) ==         \* mutated form: the sign bit is not kept free
  LET nSize == Len(DigitsOf(Magnitude(n), Base))
      word == IF nSize <= Mantissa THEN Magnitude(n) * Power[Mantissa - nSize]
              ELSE Magnitude(n) \div Power[nSize - Mantissa]
  IN  nSize * Power[Mantissa] + word + (IF n < 0 THEN CompactSign ELSE 0)
GetCompact(n) ==
  LET nSize == Len(DigitsOf(Magnitude(n), Base))
      word == IF nSize <= Mantissa THEN Magnitude(n) * Power[Mantissa - nSize]
              ELSE Magnitude(n) \div Power[nSize - Mantissa]
      taken == word >= CompactSign
  IN  (nSize + (IF taken THEN 1 ELSE 0)) * Power[Mantissa]
        + (IF taken THEN word \div Base ELSE word)
        + (IF n < 0 THEN CompactSign ELSE 0)

----------------------------------------------------------------------------
(* Hexadecimal texts: a character is its digit, or one of these.           *)

HexBase == 16
Minus == HexBase
Space == HexBase + 1
LetterX == HexBase + 2

SkipSpaces(s) ==
  SubSeq(s, 1 + Cardinality({i \in DOMAIN s : \A j \in 1 .. i : s[j] = Space}), Len(s))
HexDigits(s) ==
  SubSeq(s, 1, Cardinality({i \in DOMAIN s : \A j \in 1 .. i : s[j] < HexBase}))

SetHex(str) ==
  LET psz == SkipSpaces(str)
      fNegative == psz # <<>> /\ psz[1] = Minus
      unsigned == IF fNegative THEN Tail(psz) ELSE psz
      prefixed == Len(unsigned) >= 2 /\ unsigned[1] = 0 /\ unsigned[2] = LetterX
      digits == IF prefixed THEN SubSeq(unsigned, 3, Len(unsigned)) ELSE unsigned
  IN  Signed(fNegative, NumberOf(HexDigits(SkipSpaces(digits)), HexBase))

BnToString(n, nBase) ==
  IF n = 0 THEN <<0>>
  ELSE (IF n < 0 THEN <<Minus>> ELSE <<>>) \o DigitsOf(Magnitude(n), nBase)
=============================================================================
