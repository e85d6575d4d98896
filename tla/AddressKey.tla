------------------------------ MODULE AddressKey ------------------------------
(***************************************************************************)
(* Addresses: the base58 text the user's book and the list window hold     *)
(* (util.cpp), the CoinKey the wallet compares (coin_helper.cpp), and the  *)
(* key an output script pays (script_get_coin_key).                        *)
(*                                                                         *)
(* A byte has Base values in place of 256, a text digit Radix in place of  *)
(* 58, a hash HashLen bytes in place of 20 and a checksum one in place of  *)
(* four.  Codecs checks these definitions.                                 *)
(***************************************************************************)
EXTENDS BigNum

CONSTANTS Radix, HashLen,
          Nibble,              \* half a byte, one hexadecimal digit: 16
          PubkeyStart          \* the coin's address type

ASSUME KeyAssumption == /\ Radix \in Nat /\ Radix > 1
                        /\ HashLen \in 1 .. Base - 1
                        /\ Nibble \in Nat /\ Base = Nibble * Nibble
                        /\ PubkeyStart \in Byte

KeyLen == 1 + HashLen + 1
Key == [1 .. KeyLen -> Byte]
Null == [i \in 1 .. KeyLen |-> 0]

\* A character that is no digit.  The book is split at white space, so that
\* no text holds any.
Other == Radix

----------------------------------------------------------------------------
(* base58 texts.                                                           *)

LeadingZeros(s) ==
  CHOOSE k \in 0 .. Len(s) : /\ \A i \in 1 .. k : s[i] = 0
                             /\ k < Len(s) => s[k + 1] # 0
Zeros(k) == [i \in 1 .. k |-> 0]

\* A zero byte behind the little-endian bytes keeps the number positive.
EncodeBase58(bytes) ==
  Zeros(LeadingZeros(bytes)) \o DigitsOf(setvch(Append(Reverse(bytes), 0)), Radix)

TrimSignLate(v) ==                \* mutated form: > for >= 0x80
  IF Len(v) >= 2 /\ v[1] = 0 /\ v[2] > Base \div 2 THEN Tail(v) ELSE v
TrimSign(v) ==
  IF Len(v) >= 2 /\ v[1] = 0 /\ v[2] >= Base \div 2 THEN Tail(v) ELSE v

\* A character that is no digit leaves the result empty.
DecodeBase58(text) ==
  IF Other \in ToSet(text) THEN <<>>
  ELSE Zeros(LeadingZeros(text))
         \o TrimSign(Reverse(getvch(NumberOf(text, Radix))))

----------------------------------------------------------------------------
(* CoinKey.                                                                *)

CoinKey(text) ==
  LET bin == DecodeBase58(text)
  IN  IF Len(bin) = KeyLen THEN bin ELSE Null

to_str(key) == EncodeBase58(key)

\* Some function of the other bytes, for the double hash of them.
Checksum(bytes) == FoldLeft(LAMBDA sum, b : sum + b, 1, bytes) % Base

hash160_to_CoinKey(hash) ==
  LET raddr == <<PubkeyStart>> \o hash IN raddr \o <<Checksum(raddr)>>

----------------------------------------------------------------------------
(* Hexadecimal texts of bytes (NetHead) and hashes (block hashes, the      *)
(* genesis block of the option file), two digits a byte.  Of the last the  *)
(* text begins with the last byte.                                         *)

to_hex(src) == FlattenSeq([i \in DOMAIN src |-> <<src[i] \div Nibble, src[i] % Nibble>>])

\* What is no digit ends strtol.
NoDigit == Nibble
strtol(high, low) == IF high = NoDigit THEN 0
                     ELSE IF low = NoDigit THEN high ELSE high * Nibble + low

from_hex(src) ==
  IF Len(src) % 2 = 1 THEN <<>>
  ELSE [i \in 1 .. Len(src) \div 2 |-> strtol(src[2 * i - 1], src[2 * i])]

uint256_to_rstr(src) == to_hex(Reverse(src))

rstr_to_uint256(s) == Reverse(from_hex(s))

----------------------------------------------------------------------------
(* script_get_coin_key.  The five hash operations it knows are two: the    *)
(* one whose hash it returns, and the rest.                                *)

OP_DUP == Base - 1
OP_HASH160 == Base - 2
OP_HASH256 == Base - 3
HashOps == {OP_HASH160, OP_HASH256}

\* The result of an exception: no bytes at all.
Thrown == <<>>

\* The script is read with a reader of Wire, so every read of it may throw.
\* What keeps them from it is the test of its first three bytes, and this one.
HasHashOffByOne(buflen, len) ==   \* mutated form: the last byte is not counted
  has_buffer(buflen, len - 1)
HasHash(buflen, len) == has_buffer(buflen, len)

script_get_coin_key(script) ==
  LET bi          == Read(script, 0, <<>>)
      op_dup      == pop_buffer(bi, 1)
      op_hashtype == pop_buffer(op_dup, 1)
      buflen      == pop_buffer(op_hashtype, 1)
      len         == buflen.value[1]
      buf         == pop_buffer(buflen, len)
  IN  IF ~has_buffer(bi, 3) THEN Null
      ELSE IF op_dup.thrown THEN Thrown
      ELSE IF op_dup.value[1] # OP_DUP THEN Null
      ELSE IF op_hashtype.thrown THEN Thrown
      ELSE IF op_hashtype.value[1] \notin HashOps THEN Null
      ELSE IF buflen.thrown THEN Thrown
      ELSE IF len = 0 \/ ~HasHash(buflen, len) THEN Null
      ELSE IF buf.thrown THEN Thrown
      ELSE IF op_hashtype.value[1] = OP_HASH160 /\ len = HashLen
           THEN hash160_to_CoinKey(buf.value) ELSE Null
=============================================================================
