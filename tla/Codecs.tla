-------------------------------- MODULE Codecs --------------------------------
(***************************************************************************)
(* The conversions of Wire, BigNum and AddressKey over bounded inputs,     *)
(* each called the way the program calls it: one process writes a value    *)
(* and another reads as much of it as has come; a text becomes a key, a    *)
(* key a text, a script a key, a number its bytes or digits.               *)
(*                                                                         *)
(* The reader is binary_istream, which on_recv reads messages with.  The   *)
(* .blocks file is read through win32_fstream, whose Read ignores a short  *)
(* read and does not throw: of all of a value it reads the same, of a part *)
(* of one it makes a value.  That reader is not modelled; BlockStore's     *)
(* SizeWithinFile is about what keeps it from parts.                       *)
(***************************************************************************)
EXTENDS AddressKey

CONSTANTS MaxSize,             \* bound: the sizes and numbers written
          MaxLen, MaxScripts,  \* bound: the vectors written
          MaxText, MaxScript   \* bounds: lengths of texts and scripts

ASSUME BoundAssumption == /\ MaxSize \in Nat /\ MaxSize < Power[8]
                          \* what a size_t counts
                          /\ MaxLen \in Nat /\ MaxLen < Power[4]
                          /\ MaxScripts \in Nat /\ MaxScripts < Power[4]
                          /\ MaxText \in Nat /\ MaxScript \in Nat

VARIABLES kind, input,
          bin,      \* the bytes that came of a value of the wire
          arrived,  \* how many of them the reader has
          output, pc
vars == <<kind, input, bin, arrived, output, pc>>

Edge == {0, Base - 1}          \* of a byte; the last one is also a tag
Bytes == BoundedSeq(Edge, MaxLen)
Short == BoundedSeq(Edge, 1)

\* Structures with at most one element in each vector.
AtMostOne(S) == {<<>>} \cup {<<x>> : x \in S}
TxIns  == Edge \X Short \X Edge
TxOuts == Edge \X Short
Transactions == {0} \X AtMostOne(TxIns) \X AtMostOne(TxOuts) \X Edge
BlocksOnWire == Edge \X AtMostOne(Transactions)
HeadersOnWire == Edge \X {<<>>}     \* a CBlock without transactions
Versions == Edge \X Bytes \X Edge

\* What is written and read back, and what is converted only.
OnWire ==
  [size |-> 0 .. MaxSize,
   scripts |-> BoundedSeq(Bytes, MaxScripts),
   block |-> BlocksOnWire,
   headers |-> BoundedSeq(HeadersOnWire, MaxScripts),
   version |-> Versions]
Converted ==
  [text |-> BoundedSeq(0 .. Other, MaxText),
   key |-> Key,
   script |-> BoundedSeq(Byte, MaxScript),
   number |-> -MaxSize .. MaxSize,
   compact |-> 0 .. Power[Mantissa + 1] - 1,
   hash |-> BoundedSeq(Byte, MaxLen),
   hex |-> [spaces : 0 .. 1, fNegative : BOOLEAN, x : BOOLEAN, inner : 0 .. 1,
            n : 0 .. MaxSize]]

Init == /\ \/ kind \in DOMAIN OnWire /\ input \in OnWire[kind]
           \/ kind \in DOMAIN Converted /\ input \in Converted[kind]
        /\ pc = "given" /\ bin = <<>> /\ arrived = 0 /\ output = Null

----------------------------------------------------------------------------
\* send_package; save_to_file writes the same bytes.
Save == /\ pc = "given" /\ pc' = "saved"
        /\ \/ kind = "size" /\ bin' = SaveSize(input)
           \/ kind = "scripts" /\ bin' = SaveScripts(input)
           \/ kind = "block" /\ bin' = SaveBlock(input)
           \/ kind = "headers" /\ bin' = SaveHeaders(input)
           \/ kind = "version" /\ bin' = SaveVersion(input)
        /\ UNCHANGED <<kind, input, arrived, output>>

\* on_recv; the reader may be given less than everything.
Load == /\ pc = "saved" /\ pc' = "loaded"
        /\ arrived' \in 0 .. Len(bin)
        /\ LET r == Read(SubSeq(bin, 1, arrived'), 0, <<>>)
           IN  \/ kind = "size" /\ output' = LoadSize(r)
               \/ kind = "scripts" /\ output' = LoadScripts(r)
               \/ kind = "block" /\ output' = LoadBlock(r)
               \/ kind = "headers" /\ output' = LoadHeaders(r)
               \/ kind = "version" /\ output' = LoadVersion(r)
        /\ UNCHANGED <<kind, input, bin>>

\* load_user_book and work_get_data: the key of a text.
KeyOfText == kind = "text" /\ output' = CoinKey(input)

\* work_get_books: the text of a key.
TextOfKey == kind = "key" /\ output' = to_str(input)

\* filter_block, load_tx_map and work_get_data: the key of an output.
KeyOfScript == kind = "script" /\ output' = script_get_coin_key(input)

\* What CBigNum and util.cpp offer.
NumberOfInt  == kind = "number" /\ output' = setint64(input)
Compact      == kind = "compact" /\ output' = SetCompact(input)
TextOfHash   == kind = "hash" /\ output' = uint256_to_rstr(input)
NumberOfText ==
  /\ kind = "hex"
  /\ output' = SetHex([i \in 1 .. input.spaces |-> Space]
                        \o (IF input.fNegative THEN <<Minus>> ELSE <<>>)
                        \o (IF input.x THEN <<0, LetterX>> ELSE <<>>)
                        \o [i \in 1 .. input.inner |-> Space]
                        \o BnToString(input.n, HexBase))

Convert == /\ pc = "given" /\ pc' = "converted"
           /\ \/ KeyOfText \/ TextOfKey \/ KeyOfScript
              \/ NumberOfInt \/ Compact \/ TextOfHash \/ NumberOfText
           /\ UNCHANGED <<kind, input, bin, arrived>>

Next == Save \/ Load \/ Convert

Spec == Init /\ [][Next]_vars

----------------------------------------------------------------------------
(* Properties.                                                             *)

Is(k) == pc = "converted" /\ kind = k

(* What was written is read back, to the last byte and no further: every   *)
(* width of CompactSize, whole blocks, headers and version messages, whose *)
(* bytes may look like tags.                                               *)
RoundTrip == pc = "loaded" /\ arrived = Len(bin) =>
               /\ ~output.thrown
               /\ output.value = input
               /\ output.offset = Len(bin)

(* on_recv's reader (binary_istream) that was given only a part throws: it *)
(* never takes the beginning of a value for a value, wherever the cut is   *)
(* and however the vectors are nested.                                     *)
PartThrows == pc = "loaded" /\ arrived < Len(bin) => output.thrown

(* A key survives the list window: work_get_books shows it as text, and    *)
(* work_get_data asks with that text; keys with leading zero bytes (the    *)
(* bitcoin address type is 0) and with a high bit after them included.  A  *)
(* text the book accepts is the one shown for its key: no two texts mean   *)
(* the same address.  A hash is read back from the text it is shown as,    *)
(* which begins with its last byte.                                        *)
TextsSurvive ==
  /\ Is("key") => CoinKey(output) = input
  /\ Is("text") /\ output # Null => to_str(output) = input
  /\ Is("hash") => rstr_to_uint256(output) = input

\* What an output that pays a hash begins with.
PaysHash(script) == /\ Len(script) >= 3 + HashLen
                    /\ script[1] = OP_DUP /\ script[2] = OP_HASH160
                    /\ script[3] = HashLen

(* script_get_coin_key gives the key of the hash to every script that pays *)
(* one, whatever follows it, and the null key to all others; whatever      *)
(* length a script claims and wherever it ends, no read of it throws: an   *)
(* exception there would drop the rest of the blocks filter_modal took.    *)
ScriptsPayHashes ==
  Is("script") =>
    /\ output # Thrown
    /\ output = IF PaysHash(input)
                THEN hash160_to_CoinKey(SubSeq(input, 4, 3 + HashLen)) ELSE Null

(* Integers of either sign become the number they are, though their bytes  *)
(* are written with a sign bit and stripped of zeroes by hand, and their   *)
(* bytes and digits give them back; spaces, a minus, 0x and spaces again   *)
(* before the digits change nothing but the sign.  The number of a hash is *)
(* that of its text.                                                       *)
NumberSurvives ==
  /\ Is("number") => /\ output = input
                     /\ setvch(getvch(input)) = input
  /\ Is("hex") => output = Signed(input.fNegative, input.n)
  /\ Is("hash") => setuint256(input) = NumberOf(output, Nibble)

(* The number of a compact form has a compact form that means the same,    *)
(* the sign and the mantissas that touch the sign bit included.            *)
CompactSurvives == Is("compact") => SetCompact(GetCompact(output)) = output
=============================================================================
