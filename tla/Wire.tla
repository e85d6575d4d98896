-------------------------------- MODULE Wire --------------------------------
(***************************************************************************)
(* The encoding that messages and the .blocks file share (coin_stream.hpp, *)
(* binary_stream.hpp): little-endian integers, CompactSize, vectors, and   *)
(* the structures of coin_protocol.h made of them.                         *)
(*                                                                         *)
(* A byte has Base values in place of 256 and the tags of CompactSize are  *)
(* its three largest, as 253, 254 and 255 are, so that TLC reaches every   *)
(* width.  Codecs checks these definitions.                                 *)
(***************************************************************************)
EXTENDS Integers, Sequences, FiniteSets, SequencesExt

CONSTANT Base              \* the values of a byte: 256

ASSUME WireAssumption == Base \in Nat /\ Base > 3

Byte == 0 .. Base - 1

\* How many values k bytes have.
Power[k \in Nat] == IF k = 0 THEN 1 ELSE Base * Power[k - 1]

\* The number that has these digits, the most significant first.
NumberOf(ds, base) ==
  LET f[i \in 0 .. Len(ds)] == IF i = 0 THEN 0 ELSE f[i - 1] * base + ds[i]
  IN  f[Len(ds)]

----------------------------------------------------------------------------
(* Writing.                                                                *)

Pod(n, width) == [i \in 1 .. width |-> (n \div Power[i - 1]) % Base]

SaveSizeLoose(n) ==               \* mutated form: <= for < at the first tag
  IF n <= Base - 3 THEN Pod(n, 1)
  ELSE IF n < Power[2] - 1 THEN Pod(Base - 3, 1) \o Pod(n, 2)
  ELSE IF n < Power[4] - 1 THEN Pod(Base - 2, 1) \o Pod(n, 4)
  ELSE Pod(Base - 1, 1) \o Pod(n, 8)
SaveSize(n) ==
  IF n < Base - 3 THEN Pod(n, 1)
  ELSE IF n < Power[2] - 1 THEN Pod(Base - 3, 1) \o Pod(n, 2)
  ELSE IF n < Power[4] - 1 THEN Pod(Base - 2, 1) \o Pod(n, 4)
  ELSE Pod(Base - 1, 1) \o Pod(n, 8)

SaveBytes(v) == SaveSize(Len(v)) \o v

\* A vector of anything else, given the bytes of each element.
SaveVector(bins) == SaveSize(Len(bins)) \o FlattenSeq(bins)

\* The structures of the protocol, as the sequences of their fields.  A POD,
\* which goes out as it is in memory (prevout, a header of 80 bytes), is one
\* byte here.
SavePod(b) == <<b>>
SaveTxIn(txin) == SavePod(txin[1]) \o SaveBytes(txin[2]) \o SavePod(txin[3])
SaveTxOut(txout) == SavePod(txout[1]) \o SaveBytes(txout[2])
SaveTransaction(tx) ==
  SavePod(tx[1]) \o SaveVector([i \in DOMAIN tx[2] |-> SaveTxIn(tx[2][i])])
                 \o SaveVector([i \in DOMAIN tx[3] |-> SaveTxOut(tx[3][i])])
                 \o SavePod(tx[4])
SaveBlock(blk) ==
  SavePod(blk[1]) \o SaveVector([i \in DOMAIN blk[2] |-> SaveTransaction(blk[2][i])])
SaveScripts(v) == SaveVector([i \in DOMAIN v |-> SaveBytes(v[i])])
SaveHeaders(v) == SaveVector([i \in DOMAIN v |-> SaveBlock(v[i])])

\* The six PODs before ClientVersion as one.
SaveVersion(ver) == SavePod(ver[1]) \o SaveBytes(ver[2]) \o SavePod(ver[3])

----------------------------------------------------------------------------
(* Reading: a reader is the bytes it has, its offset and what it read; it  *)
(* throws when it wants more bytes than it has.                            *)

Read(data, offset, value) ==
  [data |-> data, offset |-> offset, value |-> value, thrown |-> FALSE]
Throws(r) == [r EXCEPT !.thrown = TRUE]

has_buffer(r, len) == r.offset + len <= Len(r.data)

Buffer(r, len) == SubSeq(r.data, r.offset + 1, r.offset + len)
pop_buffer_short(r, len) ==       \* mutated form: what there is, no throw
  Read(r.data, r.offset + len,
       [i \in 1 .. len |-> IF r.offset + i <= Len(r.data)
                           THEN r.data[r.offset + i] ELSE 0])
pop_buffer(r, len) ==
  IF has_buffer(r, len) THEN Read(r.data, r.offset + len, Buffer(r, len))
                        ELSE Throws(r)

\* Integers are little-endian.
Number(bytes) == NumberOf(Reverse(bytes), Base)

Width(hdr) == IF hdr = Base - 3 THEN 2 ELSE IF hdr = Base - 2 THEN 4
              ELSE IF hdr = Base - 1 THEN 8 ELSE 0

LoadSize(r) ==
  LET hdr == pop_buffer(r, 1)
      tmp == pop_buffer(hdr, Width(hdr.value[1]))
  IN  IF hdr.thrown THEN hdr
      ELSE IF Width(hdr.value[1]) = 0 THEN [hdr EXCEPT !.value = hdr.value[1]]
      ELSE IF tmp.thrown THEN tmp
      ELSE [tmp EXCEPT !.value = Number(tmp.value)]

\* size() of a CompactSize is a size_t: 32 bits.
Count(nsize) == nsize.value % Power[4]

LoadBytes(r) ==
  LET nsize == LoadSize(r)
  IN  IF nsize.thrown THEN nsize ELSE pop_buffer(nsize, Count(nsize))

\* What is read next goes behind what the reader has read of a structure.
Begin(r) == [r EXCEPT !.value = <<>>]
Field(r, one) == IF r.thrown THEN r
                 ELSE IF one.thrown THEN one
                 ELSE [one EXCEPT !.value = Append(r.value, one.value)]

\* A vector: its size, then as many elements.
Vector(r) == LET nsize == LoadSize(r)
             IN  IF nsize.thrown THEN nsize ELSE Begin(nsize)
Elements(r) == LET nsize == LoadSize(r)
               IN  IF nsize.thrown THEN 0 ELSE Count(nsize)

LoadPod(r) ==
  LET pod == pop_buffer(r, 1)
  IN  IF pod.thrown THEN pod ELSE [pod EXCEPT !.value = pod.value[1]]

LoadTxIn(r) ==
  LET prevout   == Field(Begin(r), LoadPod(r))
      scriptSig == Field(prevout, LoadBytes(prevout))
  IN  Field(scriptSig, LoadPod(scriptSig))
LoadTxOut(r) ==
  LET nValue == Field(Begin(r), LoadPod(r))
  IN  Field(nValue, LoadBytes(nValue))
LoadTxIns(r) ==
  LET load[i \in 0 .. Elements(r)] ==
        IF i = 0 THEN Vector(r)
        ELSE LET s == load[i - 1] IN Field(s, LoadTxIn(s))
  IN  load[Elements(r)]
LoadTxOuts(r) ==
  LET load[i \in 0 .. Elements(r)] ==
        IF i = 0 THEN Vector(r)
        ELSE LET s == load[i - 1] IN Field(s, LoadTxOut(s))
  IN  load[Elements(r)]
LoadTransaction(r) ==
  LET nVersion == Field(Begin(r), LoadPod(r))
      vin      == Field(nVersion, LoadTxIns(nVersion))
      vout     == Field(vin, LoadTxOuts(vin))
  IN  Field(vout, LoadPod(vout))
LoadTransactions(r) ==
  LET load[i \in 0 .. Elements(r)] ==
        IF i = 0 THEN Vector(r)
        ELSE LET s == load[i - 1] IN Field(s, LoadTransaction(s))
  IN  load[Elements(r)]
LoadBlock(r) ==
  LET header == Field(Begin(r), LoadPod(r))
  IN  Field(header, LoadTransactions(header))
LoadVersion(r) ==
  LET before        == Field(Begin(r), LoadPod(r))
      ClientVersion == Field(before, LoadBytes(before))
  IN  Field(ClientVersion, LoadPod(ClientVersion))
LoadScripts(r) ==
  LET load[i \in 0 .. Elements(r)] ==
        IF i = 0 THEN Vector(r)
        ELSE LET s == load[i - 1] IN Field(s, LoadBytes(s))
  IN  load[Elements(r)]
LoadHeaders(r) ==
  LET load[i \in 0 .. Elements(r)] ==
        IF i = 0 THEN Vector(r)
        ELSE LET s == load[i - 1] IN Field(s, LoadBlock(s))
  IN  load[Elements(r)]
=============================================================================
