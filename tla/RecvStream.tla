----------------------------- MODULE RecvStream -----------------------------
(***************************************************************************)
(* The receive side of one CPeerNode: on_recv gets the bytes of the TCP    *)
(* stream in whatever pieces they come, collects them in m_data, and takes *)
(* every complete message out of it.  What ChainSync and PeerGroup call a  *)
(* message arriving is what this module delivers.                          *)
(*                                                                         *)
(* A byte is which message it belongs to and where in it; the header is    *)
(* HeaderLen bytes (24) and the body as many as the header says.  Decoding *)
(* reads what the body itself calls for, from all of m_data: fewer bytes   *)
(* than the body has, or more.  When more than there are, it throws out of *)
(* on_recv, with the next receive already pending and nothing erased, and  *)
(* the same message is tried again after that receive.                     *)
(***************************************************************************)
EXTENDS Integers, Sequences

CONSTANTS HeaderLen,   \* sizeof(CMessageHeader)
          BufLen,      \* the size of m_buffer: 1024
          NMsg,        \* bound: messages the remote node sends
          MaxBody,     \* bound: their sizes
          MaxNeed      \* bound: what their bodies call for

ASSUME StreamAssumption == /\ HeaderLen \in Nat \ {0} /\ BufLen \in Nat \ {0}
                           /\ NMsg \in Nat /\ MaxBody \in Nat
                           /\ MaxNeed \in Nat \ {0}

Msgs == 1 .. NMsg
Kind == {"version", "block", "headers", "empty headers", "other"}

VARIABLES kind, size, need,  \* what the remote node sends, in this order
          net,               \* the bytes on their way
          sent,              \* how many messages have been put there
          m_data,
          m_pDestVersion,    \* the message it came with, or 0
          m_block_pool, m_headers_pool,
          receiving,         \* a receive is pending; else the socket is closed
          looping            \* on_recv is in its loop
chosen == <<kind, size, need>>
pools == <<m_pDestVersion, m_block_pool, m_headers_pool>>
vars == <<chosen, net, sent, m_data, pools, receiving, looping>>

Length(m) == HeaderLen + size[m]
Byte == [msg : Msgs, at : 1 .. HeaderLen + MaxBody]
Bytes(m) == [i \in 1 .. Length(m) |-> [msg |-> m, at |-> i]]

\* Only a message the program ignores has no body (verack), and only its
\* body is not decoded.
Init == /\ kind \in [Msgs -> Kind] /\ size \in [Msgs -> 0 .. MaxBody]
        /\ \A m \in Msgs : size[m] = 0 => kind[m] = "other"
        /\ need \in [Msgs -> 0 .. MaxNeed]
        /\ \A m \in Msgs : need[m] = 0 <=> kind[m] = "other"
        /\ net = <<>> /\ sent = 0 /\ m_data = <<>>
        /\ m_pDestVersion = 0 /\ m_block_pool = <<>> /\ m_headers_pool = <<>>
        /\ receiving = TRUE /\ looping = FALSE

----------------------------------------------------------------------------
\* The remote node: several messages may be under way.
Send == /\ receiving /\ sent < NMsg
        /\ net' = net \o Bytes(sent + 1)
        /\ sent' = sent + 1
        /\ UNCHANGED <<chosen, m_data, pools, receiving, looping>>

----------------------------------------------------------------------------
(* on_recv: the bytes are appended and the next receive is posted, then    *)
(* the loop takes messages while it can.                                   *)

\* on_recv with len bytes.
OnRecv(len) ==
  /\ receiving /\ ~looping /\ len \in 1 .. BufLen /\ len <= Len(net)
  /\ m_data' = m_data \o SubSeq(net, 1, len)
  /\ net' = SubSeq(net, len + 1, Len(net))
  /\ looping' = TRUE
  /\ UNCHANGED <<chosen, sent, pools, receiving>>

\* on_recv with an error or no bytes: what is incomplete stays incomplete.
OnRecvClosed ==
  /\ receiving /\ ~looping /\ receiving' = FALSE
  /\ UNCHANGED <<chosen, net, sent, m_data, pools, looping>>

has_buffer(len) == len <= Len(m_data)

\* A header that does not start where a header starts is any bytes.
InStep == m_data[1].at = 1
nMessageSize == IF InStep THEN size[m_data[1].msg] ELSE 0
Command == IF InStep THEN kind[m_data[1].msg] ELSE "other"

HasMessage == has_buffer(HeaderLen) /\ has_buffer(HeaderLen + nMessageSize)

\* pop_buffer: the decoder reads past the end of m_data.
ThrowsPastBody ==                 \* mutated form: only the body is there to read
  need[m_data[1].msg] > nMessageSize
Throws == HeaderLen + need[m_data[1].msg] > Len(m_data)

EraseBody ==                      \* mutated form: sizeof(cmd) is forgotten
  SubSeq(m_data, nMessageSize + 1, Len(m_data))
Erase == SubSeq(m_data, HeaderLen + nMessageSize + 1, Len(m_data))

\* One turn of the loop takes a message.
TakeMessageKeepsEmpty ==          \* mutated form: pHeaders->size() is not tested
  /\ looping /\ HasMessage /\ ~Throws
  /\ LET m == m_data[1].msg
     IN  /\ m_pDestVersion' = IF Command = "version" THEN m ELSE m_pDestVersion
         /\ m_block_pool' = IF Command = "block" THEN Append(m_block_pool, m)
                                                 ELSE m_block_pool
         /\ m_headers_pool' = IF Command \in {"headers", "empty headers"}
                              THEN Append(m_headers_pool, m) ELSE m_headers_pool
  /\ m_data' = Erase
  /\ UNCHANGED <<chosen, net, sent, receiving, looping>>
TakeMessage ==
  /\ looping /\ HasMessage /\ ~Throws
  /\ LET m == m_data[1].msg
     IN  /\ m_pDestVersion' = IF Command = "version" THEN m ELSE m_pDestVersion
         /\ m_block_pool' = IF Command = "block" THEN Append(m_block_pool, m)
                                                 ELSE m_block_pool
         /\ m_headers_pool' = IF Command = "headers" THEN Append(m_headers_pool, m)
                                                     ELSE m_headers_pool
  /\ m_data' = Erase
  /\ UNCHANGED <<chosen, net, sent, receiving, looping>>

\* The loop breaks, or a decoder throws out of it.
LoopEnds ==
  /\ looping /\ ~(HasMessage /\ ~Throws) /\ looping' = FALSE
  /\ UNCHANGED <<chosen, net, sent, m_data, pools, receiving>>

Next == \/ Send \/ OnRecvClosed \/ TakeMessage \/ LoopEnds
        \/ \E len \in 1 .. BufLen : OnRecv(len)

Spec == Init /\ [][Next]_vars

----------------------------------------------------------------------------
(* Properties.                                                             *)

\* Between two calls m_data never holds as much as a whole message of the
\* largest size, or as what the most demanding body calls for.
Largest == HeaderLen + IF MaxBody > MaxNeed THEN MaxBody ELSE MaxNeed

TypeOK == /\ kind \in [Msgs -> Kind] /\ size \in [Msgs -> 0 .. MaxBody]
          /\ need \in [Msgs -> 0 .. MaxNeed]
          /\ sent \in 0 .. NMsg /\ receiving \in BOOLEAN /\ looping \in BOOLEAN
          /\ m_pDestVersion \in Msgs \cup {0}
          /\ m_block_pool \in Seq(Msgs) /\ m_headers_pool \in Seq(Msgs)
          /\ net \in Seq(Byte) /\ m_data \in Seq(Byte)
          /\ ~looping => Len(m_data) < Largest

\* The messages all of whose bytes have been received.
Arrived == {m \in 1 .. sent : \A i \in 1 .. Len(net) : net[i].msg > m}

\* A message that has arrived and calls for bytes that have not.
Stuck == {m \in Arrived : m_data # <<>> /\ m_data[1].msg = m /\ Throws}

\* Those not behind the one that is stuck.
Served == {m \in Arrived : \A n \in Stuck : m < n}

\* The messages of kind k among ms, each once and in order.
Holds(pool, ms, k) ==
  /\ {pool[i] : i \in 1 .. Len(pool)} = {m \in ms : kind[m] = k}
  /\ \A i, j \in 1 .. Len(pool) : i < j => pool[i] < pool[j]

(* However the bytes are cut into pieces and whatever the bodies call for, *)
(* the pools hold exactly the messages that arrived completely, each once  *)
(* and in order, when on_recv returns; only one that calls for bytes which *)
(* have not come waits, and those behind it.                               *)
PoolsHoldTheArrived ==
  ~looping =>
    /\ Holds(m_block_pool, Served, "block")
    /\ Holds(m_headers_pool, Served, "headers")
    /\ m_pDestVersion \in Served \cup {0}
    /\ (\E m \in Served : kind[m] = "version") => m_pDestVersion # 0

\* The byte the remote node sends after this one.
After(b) == IF b.at < Length(b.msg) THEN [msg |-> b.msg, at |-> b.at + 1]
                                    ELSE [msg |-> b.msg + 1, at |-> 1]

(* m_data begins with the first byte of a message and goes on as it was    *)
(* sent: no byte is lost or left behind, so the next header is read where  *)
(* a header is, in the loop and between two calls.                         *)
StreamInStep ==
  m_data # <<>> => /\ m_data[1].at = 1
                   /\ \A i \in 1 .. Len(m_data) - 1 : m_data[i + 1] = After(m_data[i])
=============================================================================
