------------------------------ MODULE ChainSync ------------------------------
(***************************************************************************)
(* One session with the current peer: the headers-first download that      *)
(* peer_start begins and that filter_heads and filter_block carry on, with *)
(* the pools of CPeerNode between the receive handler and filter_modal.    *)
(*                                                                         *)
(* A block is its height in the remote node's chain, its hash and its      *)
(* previous hash are h and h - 1, and height 0 is the block the wallet     *)
(* starts from.  The chain only grows: reorganisations are not modelled    *)
(* (the code does not look at hashPrevBlock).  All of it runs on the net   *)
(* thread, except the first request; PeerGroup shows why the ui thread     *)
(* sends nothing afterwards.                                               *)
(*                                                                         *)
(* The remote node answers its requests in the order it gets them, a       *)
(* getheaders with up to MaxHeaders headers after the locator, a getdata   *)
(* with one block after another in the order they were asked for, which is *)
(* that of their heights: hence the blocks of one getdata are a set.  It   *)
(* may also go away at any time, and what it sent may then be lost from    *)
(* some point on.                                                          *)
(***************************************************************************)
EXTENDS Integers, Sequences, FiniteSets, FiniteSetsExt, Functions

CONSTANTS MaxHeight,    \* bound: the length of the chain
          Times,        \* bound: the block times
          MaxHeaders,   \* headers of one reply (2000)
          MAX_SEND_INV_COUNT    \* blocks asked for in one message (500)

ASSUME ChainAssumption == /\ MaxHeight \in Nat /\ Times \subseteq Nat
                          /\ MaxHeaders \in Nat \ {0}
                          /\ MAX_SEND_INV_COUNT \in Nat \ {0}

VARIABLES
  nTime, tip,                        \* the remote chain
  startTime,                         \* last_block_time at the start
  last_block_hash, last_block_time,  \* of CLocalBlockDB
  requests,                          \* sent, not yet answered
  inbox,                             \* answers on their way
  m_block_pool, m_headers_pool,
  netPc, blocks, headers,            \* filter_modal and its two local lists
  connected,
  fed,                               \* history: what filter_block got, in order
  requested,                         \* history: the blocks ever asked for
  seenTip                            \* history: tip at the last headers reply

chainVars  == <<nTime, tip, startTime>>
dbVars     == <<last_block_hash, last_block_time, fed>>
wireVars   == <<requests, inbox, connected, requested, seenTip>>
poolVars   == <<m_block_pool, m_headers_pool>>
modalVars  == <<netPc, blocks, headers>>
vars == <<chainVars, dbVars, wireVars, poolVars, modalVars>>

Heights == 1 .. MaxHeight
filtered == Range(fed)            \* the blocks filter_block got

GetHeaders(h) == [type |-> "getheaders", from |-> h]
GetData(hs)   == [type |-> "getdata", hashs |-> hs]
Block(h)      == [type |-> "block", hash |-> h]
Headers(hs)   == [type |-> "headers", hashs |-> hs]

----------------------------------------------------------------------------
\* The state peer_start leaves: the first getheaders is on its way.  The
\* wallet's time need not be that of its last block: the option file sets
\* first_block_time and first_block_hash each on its own.
Init ==
  /\ nTime \in [Heights -> Times] /\ tip \in 0 .. MaxHeight
  /\ startTime \in Times
  /\ last_block_hash = 0 /\ last_block_time = startTime
  /\ requests = <<GetHeaders(0)>> /\ inbox = <<>>
  /\ m_block_pool = <<>> /\ m_headers_pool = <<>>
  /\ netPc = "poll" /\ blocks = <<>> /\ headers = <<>>
  /\ connected = TRUE
  /\ fed = <<>> /\ requested = {} /\ seenTip = 0

----------------------------------------------------------------------------
(* The remote node.                                                        *)

Mine == /\ tip < MaxHeight /\ tip' = tip + 1
        /\ UNCHANGED <<nTime, startTime, dbVars, wireVars, poolVars, modalVars>>

AnswerHeaders ==
  /\ connected /\ requests # <<>> /\ Head(requests).type = "getheaders"
  /\ LET from == Head(requests).from
         upTo == IF from + MaxHeaders < tip THEN from + MaxHeaders ELSE tip
     IN  inbox' = Append(inbox, Headers(from + 1 .. upTo))
  /\ requests' = Tail(requests)
  /\ seenTip' = tip
  /\ UNCHANGED <<connected, requested, chainVars, dbVars, poolVars, modalVars>>

AnswerData ==
  /\ connected /\ requests # <<>> /\ Head(requests).type = "getdata"
  /\ LET hs == Head(requests).hashs
         rest == hs \ {Min(hs)}
     IN  /\ inbox' = Append(inbox, Block(Min(hs)))
         /\ requests' = IF rest = {} THEN Tail(requests)
                        ELSE <<GetData(rest)>> \o Tail(requests)
  /\ UNCHANGED <<connected, requested, seenTip, chainVars, dbVars, poolVars,
                 modalVars>>

Disconnect ==
  /\ connected /\ connected' = FALSE
  /\ requests' = <<>>
  /\ \E n \in 0 .. Len(inbox) : inbox' = SubSeq(inbox, 1, n)
  /\ UNCHANGED <<requested, seenTip, chainVars, dbVars, poolVars, modalVars>>

----------------------------------------------------------------------------
(* The receive handler: an empty headers message goes no further.          *)

OnRecvKeepsEmpty ==               \* mutated form: pHeaders->size() is not tested
  /\ netPc = "poll" /\ inbox # <<>>
  /\ inbox' = Tail(inbox)
  /\ m_block_pool' = IF Head(inbox).type = "block"
                     THEN Append(m_block_pool, Head(inbox).hash)
                     ELSE m_block_pool
  /\ m_headers_pool' = IF Head(inbox).type = "headers"
                       THEN Append(m_headers_pool, Head(inbox).hashs)
                       ELSE m_headers_pool
  /\ UNCHANGED <<requests, connected, requested, seenTip, chainVars, dbVars,
                 modalVars>>
OnRecv ==
  /\ netPc = "poll" /\ inbox # <<>>
  /\ inbox' = Tail(inbox)
  /\ m_block_pool' = IF Head(inbox).type = "block"
                     THEN Append(m_block_pool, Head(inbox).hash)
                     ELSE m_block_pool
  /\ m_headers_pool' = IF Head(inbox).type = "headers" /\ Head(inbox).hashs # {}
                       THEN Append(m_headers_pool, Head(inbox).hashs)
                       ELSE m_headers_pool
  /\ UNCHANGED <<requests, connected, requested, seenTip, chainVars, dbVars,
                 modalVars>>

----------------------------------------------------------------------------
(* filter_modal: all blocks taken out and filtered, then all headers.      *)

TakeBlocksKeepsPool ==            \* mutated form: the pool is copied, not taken
  /\ netPc = "poll" /\ (m_block_pool # <<>> \/ m_headers_pool # <<>>)
  /\ blocks' = m_block_pool
  /\ netPc' = "blocks"
  /\ UNCHANGED <<poolVars, headers, chainVars, dbVars, wireVars>>
TakeBlocks ==
  /\ netPc = "poll" /\ (m_block_pool # <<>> \/ m_headers_pool # <<>>)
  /\ blocks' = m_block_pool /\ m_block_pool' = <<>>
  /\ netPc' = "blocks"
  /\ UNCHANGED <<m_headers_pool, headers, chainVars, dbVars, wireVars>>

\* The block's time and hash replace the wallet's whatever they were.
FilterBlock ==
  /\ netPc = "blocks" /\ blocks # <<>>
  /\ last_block_time' = nTime[Head(blocks)]
  /\ last_block_hash' = Head(blocks)
  /\ fed' = Append(fed, Head(blocks))
  /\ blocks' = Tail(blocks)
  /\ UNCHANGED <<netPc, headers, chainVars, wireVars, poolVars>>

TakeHeaders ==
  /\ netPc = "blocks" /\ blocks = <<>>
  /\ headers' = m_headers_pool /\ m_headers_pool' = <<>>
  /\ netPc' = "headers"
  /\ UNCHANGED <<m_block_pool, blocks, chainVars, dbVars, wireVars>>

\* The headers filter_heads accepts: its loop raises last_block_time to each
\* accepted header, so a header passes when none before it, nor the wallet,
\* is younger.
Accepted(hs) == {h \in hs : /\ nTime[h] >= last_block_time
                            /\ \A g \in hs : g < h => nTime[g] <= nTime[h]}

\* The next headers are asked after the last accepted one, or after the last
\* of the list if none was accepted.
LocatorFirst(hs) ==               \* mutated form: begin() for rbegin()
  IF Accepted(hs) # {} THEN Max(Accepted(hs)) ELSE Min(hs) - 1
Locator(hs) == IF Accepted(hs) # {} THEN Max(Accepted(hs)) ELSE Max(hs)

\* send_getblockdatas: full batches while there is more than one, the rest.
\* The accepted headers are in the order of their heights.
Rank(hs, h)  == Cardinality({g \in hs : g <= h})
Batch(hs, i) == {h \in hs : Rank(hs, h) \in (i - 1) * MAX_SEND_INV_COUNT + 1
                                            .. i * MAX_SEND_INV_COUNT}
DownloadBlocksFullOnly(hs) ==     \* mutated form: the rest is not sent
  [i \in 1 .. Cardinality(hs) \div MAX_SEND_INV_COUNT |-> GetData(Batch(hs, i))]
DownloadBlocks(hs) ==
  [i \in 1 .. (Cardinality(hs) + MAX_SEND_INV_COUNT - 1)
               \div MAX_SEND_INV_COUNT |-> GetData(Batch(hs, i))]

FilterHeadsGetDataLast ==         \* mutated form: headers are asked first
  /\ netPc = "headers" /\ headers # <<>> /\ connected
  /\ LET hs == Head(headers)
     IN  /\ requests' = (requests \o <<GetHeaders(Locator(hs))>>)
                          \o DownloadBlocks(Accepted(hs))
         /\ requested' = requested \cup Accepted(hs)
  /\ headers' = Tail(headers)
  /\ UNCHANGED <<netPc, blocks, inbox, connected, seenTip, chainVars, dbVars,
                 poolVars>>
FilterHeads ==
  /\ netPc = "headers" /\ headers # <<>> /\ connected
  /\ LET hs == Head(headers)
     IN  /\ requests' = requests \o DownloadBlocks(Accepted(hs))
                                 \o <<GetHeaders(Locator(hs))>>
         /\ requested' = requested \cup Accepted(hs)
  /\ headers' = Tail(headers)
  /\ UNCHANGED <<netPc, blocks, inbox, connected, seenTip, chainVars, dbVars,
                 poolVars>>

\* A send on the lost connection throws: the rest of the local list is lost.
FilterHeadsThrows ==
  /\ netPc = "headers" /\ headers # <<>> /\ ~connected
  /\ headers' = <<>> /\ netPc' = "poll"
  /\ UNCHANGED <<blocks, chainVars, dbVars, wireVars, poolVars>>

FilterModalDone ==
  /\ netPc = "headers" /\ headers = <<>>
  /\ netPc' = "poll"
  /\ UNCHANGED <<blocks, headers, chainVars, dbVars, wireVars, poolVars>>

----------------------------------------------------------------------------
Remote == AnswerHeaders \/ AnswerData
Net == \/ OnRecv \/ TakeBlocks \/ FilterBlock \/ TakeHeaders \/ FilterHeads
       \/ FilterHeadsThrows \/ FilterModalDone

Next == Mine \/ Remote \/ Disconnect \/ Net

Spec == Init /\ [][Next]_vars

\* domodal runs for ever; a remote node that is connected answers.
FairSpec == Spec /\ WF_vars(Remote) /\ WF_vars(Net)

----------------------------------------------------------------------------
(* Properties.                                                             *)

Message == [type : {"block"}, hash : Heights]
             \cup [type : {"headers"}, hashs : SUBSET Heights]
Request == [type : {"getheaders"}, from : 0 .. MaxHeight]
             \cup [type : {"getdata"}, hashs : (SUBSET Heights) \ {{}}]

TypeOK ==
  /\ nTime \in [Heights -> Times] /\ startTime \in Times
  /\ tip \in 0 .. MaxHeight /\ seenTip \in 0 .. tip
  /\ last_block_hash \in 0 .. tip /\ last_block_time \in Times
  /\ requests \in Seq(Request) /\ inbox \in Seq(Message)
  /\ m_block_pool \in Seq(Heights) /\ blocks \in Seq(Heights)
  /\ m_headers_pool \in Seq((SUBSET Heights) \ {{}})
  /\ headers \in Seq((SUBSET Heights) \ {{}})
  /\ netPc \in {"poll", "blocks", "headers"}
  /\ connected \in BOOLEAN
  /\ fed \in Seq(Heights) /\ requested \subseteq Heights

(* Nothing is asked, on its way, pooled or being filtered: the session is  *)
(* over, though the connection lasts.                                      *)
Quiet == /\ requests = <<>> /\ inbox = <<>>
         /\ m_block_pool = <<>> /\ m_headers_pool = <<>> /\ netPc = "poll"

(* The blocks reach filter_block in chain order, once each (its calls are  *)
(* the sequence fed, in which no block comes twice), none left out but the *)
(* ones older than a block before them, wherever the batches end and       *)
(* whenever filter_modal runs.                                             *)
Feed == INSTANCE BlockFeed
FeedsTheChain == Feed!Spec

(* When filter_heads compares times, every block asked for before has been *)
(* filtered: last_block_time is not that of an earlier batch.              *)
HeadersAfterBlocks == netPc = "headers" /\ headers # <<>> /\ connected
                        => filtered = requested

(* The session ends with every due block of the chain the last headers     *)
(* reply saw, whatever the batches were.                                   *)
QuietIsComplete == Quiet /\ connected
                     => filtered = {h \in 1 .. seenTip : Feed!Due(h)}

(* Every session comes to rest.                                            *)
SessionEnds == <>[]Quiet
=============================================================================
