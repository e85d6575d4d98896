--------------------------- MODULE ChainSyncProofs ---------------------------
(***************************************************************************)
(* Proofs about ChainSync, for chains of any length with any times and for *)
(* batches of any size: that the session feeds the wallet as BlockFeed     *)
(* says, that filter_heads never compares with the time of an older batch, *)
(* and that a session at rest has every due block the node told of.        *)
(*                                                                         *)
(* The inductive invariant follows the blocks through the stages of the    *)
(* session and the one headers exchange that is ever under way.            *)
(***************************************************************************)
EXTENDS ChainSync, NatLemmas, FunctionTheorems

----------------------------------------------------------------------------
(* The inductive invariant.                                                *)

\* The blocks at each stage of the session: asked for, answered, in the pool,
\* in filter_modal's list; and those asked for that no stage has any more.
Asked  == {h \in Heights : \E i \in 1 .. Len(requests) :
             requests[i].type = "getdata" /\ h \in requests[i].hashs}
OnWire == {h \in Heights : \E i \in 1 .. Len(inbox) : inbox[i] = Block(h)}
Pooled == {h \in Heights : \E i \in 1 .. Len(m_block_pool) : m_block_pool[i] = h}
Taken  == {h \in Heights : \E i \in 1 .. Len(blocks) : blocks[i] = h}
InFlight == Taken \cup Pooled \cup OnWire \cup Asked
Lost == requested \ (filtered \cup InFlight)

Below(S, T) == \A g \in S : \A h \in T : g < h
Increasing(s) == \A i, j \in 1 .. Len(s) : i < j => s[i] < s[j]

\* What filter_modal leaves in the pools and its lists between two steps.
Phases ==
  /\ netPc = "poll" => blocks = <<>>
  /\ netPc # "poll" => m_block_pool = <<>>
  /\ netPc = "headers" => blocks = <<>> /\ m_headers_pool = <<>>
  /\ netPc # "headers" => headers = <<>>
  /\ ~connected => requests = <<>>

\* The blocks are in chain order within a stage, and the nearer a stage is to
\* filter_block the lower are its blocks.
Order ==
  /\ Increasing(blocks) /\ Increasing(m_block_pool)
  /\ \A i, j \in 1 .. Len(inbox) :
       i < j /\ inbox[i].type = "block" /\ inbox[j].type = "block"
         => inbox[i].hash < inbox[j].hash
  /\ \A i, j \in 1 .. Len(requests) :
       i < j /\ requests[i].type = "getdata" /\ requests[j].type = "getdata"
         => Below(requests[i].hashs, requests[j].hashs)
  /\ Below(Taken, Pooled) /\ Below(Taken \cup Pooled, OnWire)
  /\ Below(Taken \cup Pooled \cup OnWire, Asked)

\* A block asked for is under way, or filtered; it gets lost only with the
\* connection, and then with all that were asked for after it.
Account ==
  /\ filtered \subseteq requested /\ InFlight \subseteq requested
  /\ Below(filtered, InFlight)
  /\ Below(filtered \cup InFlight, Lost)
  /\ connected => Lost = {}

\* The blocks asked for are the due ones of the first n.
Known(n) == requested = {h \in 1 .. n : Feed!Due(h)}

\* The wallet's hash and time are those of the last block it filtered.
LastBlock ==
  \/ filtered = {} /\ last_block_hash = 0 /\ last_block_time = startTime
  \/ /\ last_block_hash \in filtered
     /\ \A g \in filtered : g <= last_block_hash
     /\ last_block_time = nTime[last_block_hash]

\* Headers that follow on a block, or none because the node has no more.
Follow(hs, from) == \E upTo \in from .. seenTip :
                      hs = from + 1 .. upTo /\ (hs = {} => from = seenTip)

\* There is one headers exchange, behind all the blocks.  It is about what
\* follows one block, and over, asked for, answered, in the pool, or taken out
\* of it.
NoHeaders == /\ headers = <<>> /\ m_headers_pool = <<>>
             /\ \A i \in 1 .. Len(inbox) : inbox[i].type = "block"
             /\ \A i \in 1 .. Len(requests) : requests[i].type = "getdata"

HeadersGone(from) == NoHeaders /\ (connected => from = seenTip)

HeadersAsked(from) ==
  LET r == requests[Len(requests)]
  IN  /\ requests # <<>> /\ headers = <<>> /\ m_headers_pool = <<>>
      /\ \A i \in 1 .. Len(inbox) : inbox[i].type = "block"
      /\ \A i \in 1 .. Len(requests) - 1 : requests[i].type = "getdata"
      /\ r.type = "getheaders" /\ r.from = from

HeadersOnWire(from) ==
  LET m == inbox[Len(inbox)]
  IN  /\ requests = <<>> /\ headers = <<>> /\ m_headers_pool = <<>>
      /\ inbox # <<>>
      /\ \A i \in 1 .. Len(inbox) - 1 : inbox[i].type = "block"
      /\ m.type = "headers" /\ Follow(m.hashs, from)

HeadersPooled(from) ==
  /\ requests = <<>> /\ inbox = <<>> /\ headers = <<>>
  /\ Len(m_headers_pool) = 1 /\ Follow(m_headers_pool[1], from)

HeadersTaken(from) ==
  /\ requests = <<>> /\ inbox = <<>>
  /\ Len(headers) = 1 /\ Follow(headers[1], from)

Exchange(from) == \/ HeadersGone(from) \/ HeadersAsked(from) \/ HeadersOnWire(from)
                  \/ HeadersPooled(from) \/ HeadersTaken(from)

\* It is about what follows the blocks that are known.
Token == \E from \in 0 .. tip : Exchange(from) /\ Known(from)

IInv == TypeOK /\ Phases /\ Order /\ Account /\ LastBlock /\ Token

----------------------------------------------------------------------------
(* Numbers and sets.                                                       *)

\* Min and Max of the library, of a set of heights.
LEMMA MinOf ==
  ASSUME NEW S \in SUBSET Heights, S # {}
  PROVE  Min(S) \in S /\ \A y \in S : Min(S) <= y
<1>1. \E x \in S : \A y \in S : x <= y
  BY NatMin, ChainAssumption DEF Heights
<1>2. QED
  BY <1>1 DEF Min

\* Likewise the greatest, below a bound.
LEMMA MaxOf ==
  ASSUME NEW S \in SUBSET Heights, S # {}
  PROVE  Max(S) \in S /\ \A y \in S : Max(S) >= y
<1> DEFINE T == {MaxHeight - y : y \in S}
<1>1. PICK x \in T : \A y \in T : x <= y
  <2>1. \A y \in S : MaxHeight - y \in Nat
    BY ChainAssumption DEF Heights
  <2>2. T \subseteq Nat /\ T # {}
    BY <2>1, Zenon
  <2> HIDE DEF T
  <2>3. QED
    BY <2>2, NatMin
<1>2. PICK m \in S : x = MaxHeight - m
  BY <1>1
<1>3. \A y \in S : m >= y
  BY <1>1, <1>2, ChainAssumption DEF Heights
<1>4. QED
  BY <1>3 DEF Max

\* A block no younger than the start has a due block before it, or is one,
\* that is no younger: the first block as young as itself.
LEMMA DueBefore ==
  ASSUME nTime \in [Heights -> Times], startTime \in Times,
         NEW g \in Heights, nTime[g] >= startTime
  PROVE  \E d \in 1 .. g : Feed!Due(d) /\ nTime[d] >= nTime[g]
<1> DEFINE T == {x \in 1 .. g : nTime[x] >= nTime[g]}
<1>0. g \in Nat /\ MaxHeight \in Nat /\ Times \subseteq Nat
  BY ChainAssumption DEF Heights
<1>2. \A y \in 1 .. g : y \in Heights
  BY <1>0 DEF Heights
<1>3. \A y \in 1 .. g : nTime[y] \in Nat
  BY <1>0, <1>2
<1>1. PICK d \in T : \A y \in T : d <= y
  <2>1. g \in T
    BY <1>0, <1>3 DEF Heights
  <2>2. T \in SUBSET Nat
    BY <1>0
  <2>3. QED
    BY <2>1, <2>2, NatMin
<1>4. d \in 1 .. g /\ g \in 1 .. g
  BY <1>0 DEF Heights
<1>5. \A y \in 1 .. d - 1 : y \in 1 .. g /\ nTime[y] < nTime[g]
  BY <1>0, <1>1, <1>3, <1>4
<1>6. nTime[d] >= startTime
  BY <1>0, <1>1, <1>3, <1>4
<1>7. \A y \in 1 .. d - 1 : nTime[y] <= nTime[d]
  BY <1>1, <1>3, <1>4, <1>5
<1>8. Feed!Due(d)
  BY <1>6, <1>7 DEF Feed!Due
<1>9. QED
  BY <1>1, <1>4, <1>8

----------------------------------------------------------------------------
(* The batches of send_getblockdatas.                                      *)

\* A block's rank among those asked for counts up with its height.
LEMMA RankRises ==
  ASSUME NEW hs \in SUBSET Heights
  PROVE  /\ IsFiniteSet(hs) /\ Cardinality(hs) \in Nat
         /\ \A h \in hs : Rank(hs, h) \in 1 .. Cardinality(hs)
         /\ \A g, h \in hs : g < h => Rank(hs, g) < Rank(hs, h)
<1>1. IsFiniteSet(hs) /\ Cardinality(hs) \in Nat
  <2>1. IsFiniteSet(Heights)
    BY FS_Interval, ChainAssumption DEF Heights
  <2>2. QED
    BY <2>1, FS_Subset, FS_CardinalityType
<1> DEFINE upTo(h) == {g \in hs : g <= h}
<1>2. \A h \in hs : /\ IsFiniteSet(upTo(h))
                    /\ Rank(hs, h) = Cardinality(upTo(h))
                    /\ Rank(hs, h) \in Nat /\ Rank(hs, h) <= Cardinality(hs)
  <2> TAKE h \in hs
  <2>1. upTo(h) \in SUBSET hs
    OBVIOUS
  <2>2. IsFiniteSet(upTo(h)) /\ Cardinality(upTo(h)) <= Cardinality(hs)
    BY <1>1, <2>1, FS_Subset
  <2>3. QED
    BY <2>2, FS_CardinalityType DEF Rank
<1>3. \A h \in hs : Rank(hs, h) # 0
  <2> TAKE h \in hs
  <2>1. h \in upTo(h)
    BY DEF Heights
  <2>2. QED
    BY <1>2, <2>1, FS_EmptySet
<1>4. ASSUME NEW g \in hs, NEW h \in hs, g < h
      PROVE  Rank(hs, g) < Rank(hs, h)
  <2>a. \A x \in hs : x \in Nat
    BY DEF Heights
  <2>1. upTo(g) \in SUBSET upTo(h) /\ h \in upTo(h) /\ h \notin upTo(g)
    BY <1>4, <2>a
  <2>2. Cardinality(upTo(g)) <= Cardinality(upTo(h))
        /\ Cardinality(upTo(h)) # Cardinality(upTo(g))
    BY <1>2, <2>1, FS_Subset
  <2>3. Rank(hs, g) = Cardinality(upTo(g)) /\ Rank(hs, h) = Cardinality(upTo(h))
        /\ Rank(hs, g) \in Nat /\ Rank(hs, h) \in Nat
    BY <1>2
  <2> HIDE DEF upTo
  <2>4. QED
    BY <2>2, <2>3
<1>5. ASSUME NEW h \in hs PROVE Rank(hs, h) \in 1 .. Cardinality(hs)
  <2>1. Rank(hs, h) \in Nat /\ Rank(hs, h) <= Cardinality(hs)
    BY <1>2
  <2>2. QED
    BY <1>1, <1>3, <2>1
<1>6. QED
  BY <1>1, <1>4, <1>5

\* Every rank is taken.
LEMMA RankHits ==
  ASSUME NEW hs \in SUBSET Heights, NEW k \in 1 .. Cardinality(hs)
  PROVE  \E h \in hs : Rank(hs, h) = k
<1> DEFINE f == [h \in hs |-> Rank(hs, h)]
           N == 1 .. Cardinality(hs)
<1>1. f \in [hs -> N]
  BY RankRises
<1>2. \A a, b \in hs : f[a] = f[b] => a = b
  BY RankRises DEF Heights
<1>3. f \in Injection(hs, N)
  BY <1>1, <1>2, Fun_IsInj
<1>4. IsFiniteSet(N) /\ Cardinality(N) = Cardinality(hs)
  <2>1. Cardinality(hs) \in Nat
    BY RankRises
  <2>2. QED
    BY <2>1, FS_Interval
<1>5. f \in Surjection(hs, N)
  BY <1>3, <1>4, FS_Injection
<1>6. QED
  BY <1>5 DEF Surjection

\* The getdata messages hold all the blocks asked for, in their order, and
\* none is empty.
LEMMA BatchesCover ==
  ASSUME NEW hs \in SUBSET Heights
  PROVE  LET ds == DownloadBlocks(hs)
         IN  /\ ds \in Seq(Request)
             /\ \A i \in 1 .. Len(ds) : ds[i].type = "getdata"
             /\ \A h \in Heights : h \in hs <=> \E i \in 1 .. Len(ds) :
                                                  h \in ds[i].hashs
             /\ \A i, j \in 1 .. Len(ds) :
                  i < j => Below(ds[i].hashs, ds[j].hashs)
<1> DEFINE M == MAX_SEND_INV_COUNT
           C == Cardinality(hs)
           n == (C + M - 1) \div M
           ds == DownloadBlocks(hs)
<1>1. C \in Nat /\ M \in Nat \ {0} /\ n \in Nat
  BY RankRises, ChainAssumption
<1>2. n * M <= C + M - 1 /\ C + M - 1 < n * M + M
  BY <1>1
<1>3. \A i \in 1 .. n : /\ ds[i] = GetData(Batch(hs, i))
                        /\ Batch(hs, i) \in SUBSET Heights
  BY DEF DownloadBlocks, Batch
<1>4. Len(ds) = n
  BY <1>1 DEF DownloadBlocks
<1>5. \A i \in 1 .. n : Batch(hs, i) # {}
  <2> TAKE i \in 1 .. n
  <2>1. (i - 1) * M + 1 \in 1 .. C
    <3>1. (i - 1) * M + M <= n * M
      BY <1>1
    <3>2. (i - 1) * M \in Nat
      BY <1>1
    <3>3. QED
      BY <1>1, <1>2, <3>1, <3>2
  <2>2. PICK h \in hs : Rank(hs, h) = (i - 1) * M + 1
    BY <2>1, RankHits
  <2>3. (i - 1) * M + 1 \in (i - 1) * M + 1 .. i * M
    BY <1>1
  <2>4. QED
    BY <2>2, <2>3 DEF Batch
<1>6. ds \in Seq(Request)
  <2>1. ASSUME NEW i \in 1 .. n PROVE GetData(Batch(hs, i)) \in Request
    <3>1. Batch(hs, i) \in (SUBSET Heights) \ {{}}
      BY <1>3, <1>5
    <3>2. QED
      BY <3>1 DEF GetData, Request
  <2>2. ds = [i \in 1 .. n |-> GetData(Batch(hs, i))]
    BY DEF DownloadBlocks
  <2>3. ds \in [1 .. n -> Request]
    BY <2>1, <2>2
  <2> HIDE DEF ds, n
  <2>4. QED
    BY <1>1, <2>3
<1>7. \A i \in 1 .. n : ds[i].type = "getdata" /\ ds[i].hashs = Batch(hs, i)
  <2> TAKE i \in 1 .. n
  <2>1. ds[i] = [type |-> "getdata", hashs |-> Batch(hs, i)]
    BY <1>3 DEF GetData
  <2>2. QED
    BY <2>1
<1>8. ASSUME NEW h \in hs PROVE \E i \in 1 .. n : h \in Batch(hs, i)
  <2> DEFINE r == Rank(hs, h)
             i == (r - 1) \div M + 1
  <2>1. r \in 1 .. C
    BY RankRises
  <2>2. i \in Nat /\ (i - 1) * M <= r - 1 /\ r - 1 < (i - 1) * M + M
    BY <1>1, <2>1
  <2>3. (i - 1) * M + M = i * M
    BY <1>1, <2>2
  <2>4. r \in (i - 1) * M + 1 .. i * M
    BY <1>1, <2>1, <2>2, <2>3
  <2>5. i >= 1
    BY <1>1, <2>1
  <2>6. i <= n
    <3>1. SUFFICES ASSUME n < i PROVE FALSE
      BY <1>1, <2>2
    <3>2. n * M <= (i - 1) * M
      BY <1>1, <2>2, <3>1
    <3>3. QED
      BY <1>1, <1>2, <2>1, <2>2, <3>2
  <2>7. QED
    BY <1>1, <2>2, <2>4, <2>5, <2>6 DEF Batch
<1>9. ASSUME NEW i \in 1 .. n, NEW j \in 1 .. n, i < j
      PROVE  Below(Batch(hs, i), Batch(hs, j))
  <2> SUFFICES ASSUME NEW g \in Batch(hs, i), NEW h \in Batch(hs, j)
               PROVE  g < h
    BY DEF Below
  <2>1. i * M <= (j - 1) * M
    BY <1>1, <1>9
  <2>2. Rank(hs, g) <= i * M /\ (j - 1) * M + 1 <= Rank(hs, h)
    BY <1>1 DEF Batch
  <2>3. g \in hs /\ h \in hs
    BY DEF Batch
  <2>4. Rank(hs, g) < Rank(hs, h)
    BY <1>1, <2>1, <2>2, <2>3, RankRises
  <2>5. QED
    BY <2>3, <2>4, RankRises DEF Heights
<1>10. \A i \in 1 .. n : Batch(hs, i) \in SUBSET hs
  BY DEF Batch
<1>11. QED
  BY <1>4, <1>6, <1>7, <1>8, <1>9, <1>10

----------------------------------------------------------------------------
(* How the blocks move from stage to stage.                                *)

\* The messages and the requests, by their type.
LEMMA Shapes ==
  /\ \A m \in Message : \/ m.type = "block" /\ m.hash \in Heights
                           /\ m = Block(m.hash)
                        \/ m.type = "headers" /\ m.hashs \in SUBSET Heights
                           /\ m = Headers(m.hashs)
  /\ \A r \in Request : \/ r.type = "getheaders" /\ r.from \in 0 .. MaxHeight
                           /\ r = GetHeaders(r.from)
                        \/ r.type = "getdata" /\ r.hashs \in SUBSET Heights
                           /\ r.hashs # {} /\ r = GetData(r.hashs)
<1>1. ASSUME NEW m \in [type : {"block"}, hash : Heights]
      PROVE  m.type = "block" /\ m.hash \in Heights /\ m = Block(m.hash)
  BY DEF Block
<1>2. ASSUME NEW m \in [type : {"headers"}, hashs : SUBSET Heights]
      PROVE  m.type = "headers" /\ m.hashs \in SUBSET Heights
             /\ m = Headers(m.hashs)
  BY DEF Headers
<1>3. ASSUME NEW r \in [type : {"getheaders"}, from : 0 .. MaxHeight]
      PROVE  r.type = "getheaders" /\ r.from \in 0 .. MaxHeight
             /\ r = GetHeaders(r.from)
  BY DEF GetHeaders
<1>4. ASSUME NEW r \in [type : {"getdata"}, hashs : (SUBSET Heights) \ {{}}]
      PROVE  r.type = "getdata" /\ r.hashs \in SUBSET Heights
             /\ r.hashs # {} /\ r = GetData(r.hashs)
  BY DEF GetData
<1>5. QED
  BY <1>1, <1>2, <1>3, <1>4 DEF Message, Request

\* What the constructors make.
LEMMA Made ==
  /\ \A h : Block(h).type = "block" /\ Block(h).hash = h
  /\ \A hs : Headers(hs).type = "headers" /\ Headers(hs).hashs = hs
  /\ \A h : GetHeaders(h).type = "getheaders" /\ GetHeaders(h).from = h
  /\ \A hs : GetData(hs).type = "getdata" /\ GetData(hs).hashs = hs
  /\ \A h \in Heights : Block(h) \in Message
  /\ \A hs \in SUBSET Heights : Headers(hs) \in Message
  /\ \A h \in 0 .. MaxHeight : GetHeaders(h) \in Request
  /\ \A hs \in (SUBSET Heights) \ {{}} : GetData(hs) \in Request
BY DEF Block, Headers, GetHeaders, GetData, Message, Request

Stages == <<Taken, Pooled, OnWire, Asked>>

\* Only these variables hold blocks.
LEMMA SameStages ==
  ASSUME UNCHANGED <<blocks, m_block_pool, inbox, requests>>
  PROVE  UNCHANGED Stages
BY DEF Stages, Taken, Pooled, OnWire, Asked

\* on_recv: the lowest block on the wire goes to the end of the pool.
LEMMA OnRecvMoves ==
  ASSUME TypeOK, Order, OnRecv
  PROVE  /\ Head(inbox).type = "block" =>
              \E h \in OnWire :
                /\ OnWire' = OnWire \ {h} /\ Below({h}, OnWire')
                /\ Pooled' = Pooled \cup {h}
                /\ m_block_pool' = Append(m_block_pool, h)
         /\ Head(inbox).type # "block" =>
              UNCHANGED Pooled /\ UNCHANGED OnWire
         /\ UNCHANGED Taken /\ UNCHANGED Asked
<1> USE DEF OnRecv
<1>1. UNCHANGED Taken /\ UNCHANGED Asked
  BY DEF modalVars, Taken, Asked
<1>2. /\ inbox \in Seq(Message) /\ inbox # <<>> /\ Head(inbox) = inbox[1]
      /\ Len(inbox) \in Nat \ {0} /\ inbox[1] \in Message
      /\ Len(inbox') = Len(inbox) - 1
      /\ \A i \in 1 .. Len(inbox') : inbox'[i] = inbox[i + 1]
  BY DEF TypeOK
<1>3. CASE Head(inbox).type = "block"
  <2> DEFINE h == Head(inbox).hash
  <2>1. inbox[1] = Block(h) /\ h \in Heights
    BY <1>2, <1>3, Shapes, Made
  <2>2. h \in OnWire
    BY <1>2, <2>1 DEF OnWire
  <2>3. \A i \in 2 .. Len(inbox) : \A g \in Heights :
          inbox[i] = Block(g) => h < g
    BY <1>2, <2>1, Made DEF Order
  <2>4. \A g \in Heights : g \in OnWire' <=> g \in OnWire /\ g # h
    <3>1. ASSUME NEW g \in Heights, g \in OnWire' PROVE g \in OnWire /\ g # h
      <4>1. PICK i \in 1 .. Len(inbox') : inbox'[i] = Block(g)
        BY <3>1 DEF OnWire
      <4>2. i + 1 \in 2 .. Len(inbox) /\ inbox[i + 1] = Block(g)
        BY <1>2, <4>1
      <4>3. QED
        BY <1>2, <2>1, <2>3, <4>2 DEF OnWire, Heights
    <3>2. ASSUME NEW g \in OnWire, g # h PROVE g \in OnWire'
      <4>1. PICK i \in 1 .. Len(inbox) : inbox[i] = Block(g)
        BY DEF OnWire
      <4>2. i # 1
        BY <2>1, <3>2, <4>1, Made
      <4>3. i - 1 \in 1 .. Len(inbox') /\ inbox'[i - 1] = Block(g)
        BY <1>2, <4>1, <4>2
      <4>4. QED
        BY <4>3 DEF OnWire
    <3>3. QED
      BY <3>1, <3>2
  <2>5. OnWire' = OnWire \ {h}
    BY <2>4 DEF OnWire
  <2>6. Below({h}, OnWire')
    <3>1. ASSUME NEW g \in OnWire' PROVE h < g
      <4>1. PICK i \in 1 .. Len(inbox') : inbox'[i] = Block(g)
        BY DEF OnWire
      <4>2. i + 1 \in 2 .. Len(inbox) /\ inbox[i + 1] = Block(g)
        BY <1>2, <4>1
      <4>3. QED
        BY <2>3, <4>2 DEF OnWire
    <3>2. QED
      BY <3>1 DEF Below
  <2>7. m_block_pool' = Append(m_block_pool, h) /\ m_block_pool \in Seq(Heights)
    BY <1>3 DEF TypeOK
  <2>8. Pooled' = Pooled \cup {h}
    BY <2>1, <2>7 DEF Pooled
  <2>9. QED
    BY <1>1, <1>3, <2>2, <2>5, <2>6, <2>7, <2>8
<1>4. CASE Head(inbox).type # "block"
  <2>1. \A g \in Heights : inbox[1] # Block(g)
    BY <1>2, <1>4, Made
  <2>2. \A g \in Heights : g \in OnWire' <=> g \in OnWire
    <3>1. ASSUME NEW g \in Heights, g \in OnWire' PROVE g \in OnWire
      <4>1. PICK i \in 1 .. Len(inbox') : inbox'[i] = Block(g)
        BY <3>1 DEF OnWire
      <4>2. i + 1 \in 1 .. Len(inbox) /\ inbox[i + 1] = Block(g)
        BY <1>2, <4>1
      <4>3. QED
        BY <4>2 DEF OnWire
    <3>2. ASSUME NEW g \in OnWire PROVE g \in OnWire'
      <4>1. PICK i \in 1 .. Len(inbox) : inbox[i] = Block(g)
        BY DEF OnWire
      <4>2. i # 1 /\ g \in Heights
        BY <2>1, <4>1 DEF OnWire
      <4>3. i - 1 \in 1 .. Len(inbox') /\ inbox'[i - 1] = Block(g)
        BY <1>2, <4>1, <4>2
      <4>4. QED
        BY <4>2, <4>3 DEF OnWire
    <3>3. QED
      BY <3>1, <3>2
  <2>3. OnWire' = OnWire
    BY <2>2 DEF OnWire
  <2>4. Pooled' = Pooled
    BY <1>4 DEF Pooled
  <2>5. QED
    BY <1>1, <1>4, <2>3, <2>4
<1>5. QED
  BY <1>3, <1>4

\* filter_modal takes the whole pool into its list, which was empty.
LEMMA TakeBlocksMoves ==
  ASSUME TypeOK, Phases, TakeBlocks
  PROVE  /\ Taken = {} /\ Taken' = Pooled /\ Pooled' = {}
         /\ UNCHANGED OnWire /\ UNCHANGED Asked
BY DEF TakeBlocks, TypeOK, Phases, wireVars, Taken, Pooled, OnWire, Asked

\* filter_block gets the lowest block of the list, and the list only loses it.
LEMMA FilterBlockMoves ==
  ASSUME TypeOK, Order, blocks # <<>>, blocks' = Tail(blocks),
         UNCHANGED <<m_block_pool, inbox, requests>>
  PROVE  LET h == Head(blocks)
         IN  /\ h \in Taken /\ Taken' = Taken \ {h} /\ Below({h}, Taken')
             /\ Increasing(blocks')
             /\ UNCHANGED Pooled /\ UNCHANGED OnWire /\ UNCHANGED Asked
<1> DEFINE h == Head(blocks)
<1>1. /\ blocks \in Seq(Heights) /\ blocks # <<>> /\ h = blocks[1]
      /\ Len(blocks) \in Nat \ {0} /\ h \in Heights
      /\ Len(blocks') = Len(blocks) - 1
      /\ \A i \in 1 .. Len(blocks') : blocks'[i] = blocks[i + 1]
      /\ \A i \in 1 .. Len(blocks) : blocks[i] \in Heights
  BY DEF TypeOK
<1>2. \A i \in 2 .. Len(blocks) : h < blocks[i]
  BY <1>1 DEF Order, Increasing
<1>3. h \in Taken
  BY <1>1 DEF Taken
<1>4. \A g \in Taken' : g \in Taken /\ h < g
  <2> TAKE g \in Taken'
  <2>1. PICK i \in 1 .. Len(blocks') : blocks'[i] = g
    BY DEF Taken
  <2>2. i + 1 \in 2 .. Len(blocks) /\ blocks[i + 1] = g
    BY <1>1, <2>1
  <2>3. g \in Heights
    BY DEF Taken
  <2>4. QED
    BY <1>1, <1>2, <2>2, <2>3 DEF Taken
<1>5. \A g \in Taken : g # h => g \in Taken'
  <2> TAKE g \in Taken
  <2> HAVE g # h
  <2>1. PICK i \in 1 .. Len(blocks) : blocks[i] = g
    BY DEF Taken
  <2>2. i # 1 /\ g \in Heights
    BY <1>1, <2>1 DEF Taken
  <2>3. i - 1 \in 1 .. Len(blocks') /\ blocks'[i - 1] = g
    BY <1>1, <2>1, <2>2
  <2>4. QED
    BY <2>2, <2>3 DEF Taken
<1>6. Taken' = Taken \ {h}
  <2>1. h \notin Taken'
    BY <1>1, <1>4 DEF Heights
  <2>2. QED
    BY <1>4, <1>5, <2>1
<1>7. Increasing(blocks')
  <2> SUFFICES ASSUME NEW i \in 1 .. Len(blocks'), NEW j \in 1 .. Len(blocks'),
                      i < j
               PROVE  blocks'[i] < blocks'[j]
    BY DEF Increasing
  <2>1. i + 1 \in 1 .. Len(blocks) /\ j + 1 \in 1 .. Len(blocks) /\ i + 1 < j + 1
    BY <1>1
  <2>2. QED
    BY <1>1, <2>1 DEF Order, Increasing
<1>8. UNCHANGED Pooled /\ UNCHANGED OnWire /\ UNCHANGED Asked
  BY DEF Pooled, OnWire, Asked
<1>9. QED
  BY <1>3, <1>4, <1>6, <1>7, <1>8 DEF Below

\* Its variables.
LEMMA FilterBlockVars ==
  ASSUME FilterBlock
  PROVE  /\ blocks # <<>> /\ blocks' = Tail(blocks)
         /\ UNCHANGED <<m_block_pool, inbox, requests>>
BY DEF FilterBlock, poolVars, wireVars

\* A headers reply moves no block.
LEMMA AnswerHeadersMoves ==
  ASSUME TypeOK, AnswerHeaders
  PROVE  UNCHANGED <<Taken, Pooled, OnWire, Asked>>
<1>1. /\ requests \in Seq(Request) /\ requests # <<>>
      /\ Head(requests) = requests[1] /\ requests[1].type = "getheaders"
      /\ Len(requests) \in Nat \ {0}
      /\ Len(requests') = Len(requests) - 1
      /\ \A i \in 1 .. Len(requests') : requests'[i] = requests[i + 1]
  BY DEF TypeOK, AnswerHeaders
<1>2. \E hs : inbox' = Append(inbox, Headers(hs))
  BY DEF AnswerHeaders
<1>3. \A g \in Heights : g \in OnWire' <=> g \in OnWire
  <2>1. PICK hs : inbox' = Append(inbox, Headers(hs))
    BY <1>2
  <2>2. /\ inbox \in Seq(Message) /\ Len(inbox) \in Nat
        /\ Len(inbox') = Len(inbox) + 1
        /\ \A i \in 1 .. Len(inbox) : inbox'[i] = inbox[i]
        /\ inbox'[Len(inbox) + 1] = Headers(hs)
    BY <2>1 DEF TypeOK
  <2>3. \A g : inbox'[Len(inbox) + 1] # Block(g)
    BY <2>2, Made
  <2>4. QED
    BY <2>2, <2>3 DEF OnWire
<1>4. \A g \in Heights : g \in Asked' <=> g \in Asked
  <2>1. ASSUME NEW g \in Asked' PROVE g \in Asked
    <3>1. PICK i \in 1 .. Len(requests') :
            requests'[i].type = "getdata" /\ g \in requests'[i].hashs
      BY DEF Asked
    <3>2. i + 1 \in 1 .. Len(requests) /\ requests[i + 1] = requests'[i]
      BY <1>1
    <3>3. g \in Heights
      BY DEF Asked
    <3>4. QED
      BY <3>1, <3>2, <3>3 DEF Asked
  <2>2. ASSUME NEW g \in Asked PROVE g \in Asked'
    <3>1. PICK i \in 1 .. Len(requests) :
            requests[i].type = "getdata" /\ g \in requests[i].hashs
      BY DEF Asked
    <3>2. i # 1
      BY <1>1, <3>1
    <3>3. i - 1 \in 1 .. Len(requests') /\ requests'[i - 1] = requests[i]
      BY <1>1, <3>2
    <3>4. g \in Heights
      BY DEF Asked
    <3>5. QED
      BY <3>1, <3>3, <3>4 DEF Asked
  <2>3. QED
    BY <2>1, <2>2
<1>5. Taken' = Taken /\ Pooled' = Pooled
  BY DEF AnswerHeaders, poolVars, modalVars, Taken, Pooled
<1>6. OnWire' = OnWire /\ Asked' = Asked
  BY <1>3, <1>4 DEF OnWire, Asked
<1>7. QED
  BY <1>5, <1>6

\* The remote node sends the lowest block asked for, behind all it sent before.
LEMMA AnswerDataMoves ==
  ASSUME TypeOK, Order, AnswerData
  PROVE  LET hs == Head(requests).hashs
             h  == Min(hs)
         IN  /\ h \in Asked /\ Asked' = Asked \ {h} /\ Below({h}, Asked')
             /\ OnWire' = OnWire \cup {h}
             /\ UNCHANGED Taken /\ UNCHANGED Pooled
             /\ hs \in SUBSET Heights /\ h \in hs /\ \A g \in hs : h <= g
             /\ inbox' = Append(inbox, Block(h))
             /\ \/ /\ hs = {h}
                   /\ requests' = Tail(requests)
                \/ /\ hs \ {h} \in (SUBSET Heights) \ {{}}
                   /\ requests' = [requests EXCEPT ![1] = GetData(hs \ {h})]
<1> DEFINE hs == Head(requests).hashs
           h == Min(hs)
           rest == hs \ {h}
<1>1. /\ requests \in Seq(Request) /\ requests # <<>> /\ inbox \in Seq(Message)
      /\ Head(requests) = requests[1] /\ Len(requests) \in Nat \ {0}
      /\ requests[1] \in Request /\ requests[1].type = "getdata"
      /\ \A i \in 1 .. Len(requests) : requests[i] \in Request
  BY DEF TypeOK, AnswerData
<1>2. hs \in SUBSET Heights /\ hs # {}
  BY <1>1, Shapes
<1>3. h \in hs /\ \A g \in hs : h <= g
  BY <1>2, MinOf
<1>4. h \in Heights /\ \A g \in rest : h < g
  BY <1>2, <1>3 DEF Heights
<1>5. \A i \in 2 .. Len(requests) : requests[i].type = "getdata" =>
        \A g \in requests[i].hashs : h < g
  BY <1>1, <1>3 DEF Order, Below
<1>6. inbox' = Append(inbox, Block(h))
  BY DEF AnswerData
<1>7. OnWire' = OnWire \cup {h}
  <2>1. /\ Len(inbox) \in Nat /\ Len(inbox') = Len(inbox) + 1
        /\ \A i \in 1 .. Len(inbox) : inbox'[i] = inbox[i]
        /\ inbox'[Len(inbox) + 1] = Block(h)
    BY <1>1, <1>6
  <2>2. \A g \in Heights : g \in OnWire' <=> g \in OnWire \/ g = h
    BY <2>1, Made DEF OnWire
  <2>3. QED
    BY <1>4, <2>2 DEF OnWire
<1>8. Taken' = Taken /\ Pooled' = Pooled
  BY DEF AnswerData, poolVars, modalVars, Taken, Pooled
<1>9. CASE rest = {}
  <2>1. /\ requests' = Tail(requests)
        /\ Len(requests') = Len(requests) - 1
        /\ \A i \in 1 .. Len(requests') : requests'[i] = requests[i + 1]
    BY <1>1, <1>9 DEF AnswerData
  <2>2. \A g \in Asked' : g \in Asked /\ h < g
    <3> TAKE g \in Asked'
    <3>1. PICK i \in 1 .. Len(requests') :
            requests'[i].type = "getdata" /\ g \in requests'[i].hashs
      BY DEF Asked
    <3>2. i + 1 \in 2 .. Len(requests) /\ requests[i + 1] = requests'[i]
      BY <1>1, <2>1
    <3>3. g \in Heights
      BY DEF Asked
    <3>4. QED
      BY <1>1, <1>5, <3>1, <3>2, <3>3 DEF Asked
  <2>3. \A g \in Asked : g # h => g \in Asked'
    <3> TAKE g \in Asked
    <3> HAVE g # h
    <3>1. PICK i \in 1 .. Len(requests) :
            requests[i].type = "getdata" /\ g \in requests[i].hashs
      BY DEF Asked
    <3>2. i # 1
      BY <1>1, <1>9, <3>1
    <3>3. i - 1 \in 1 .. Len(requests') /\ requests'[i - 1] = requests[i]
      BY <1>1, <2>1, <3>2
    <3>4. g \in Heights
      BY DEF Asked
    <3>5. QED
      BY <3>1, <3>3, <3>4 DEF Asked
  <2>4. h \in Asked
    BY <1>1, <1>3, <1>4 DEF Asked
  <2>5. h \notin Asked'
    BY <1>4, <2>2 DEF Heights
  <2>6. Asked' = Asked \ {h} /\ Below({h}, Asked')
    BY <2>2, <2>3, <2>5 DEF Below
  <2>7. hs = {h}
    BY <1>3, <1>9
  <2>8. QED
    BY <1>2, <1>3, <1>6, <1>7, <1>8, <2>1, <2>4, <2>6, <2>7
<1>10. CASE rest # {}
  <2>1. requests' = <<GetData(rest)>> \o Tail(requests)
    BY <1>10 DEF AnswerData
  <2>2. /\ Len(requests') = Len(requests) /\ requests' \in Seq(Request)
        /\ requests'[1] = GetData(rest)
        /\ \A i \in 2 .. Len(requests) : requests'[i] = requests[i]
    <3>1. GetData(rest) \in Request
      BY <1>2, <1>10, Made
    <3>2. QED
      BY <1>1, <2>1, <3>1
  <2>3. requests' = [requests EXCEPT ![1] = GetData(rest)]
    BY <1>1, <2>2
  <2>4. \A g \in Heights : g \in Asked' <=> g \in Asked /\ g # h
    <3>1. ASSUME NEW g \in Asked' PROVE g \in Asked /\ h < g
      <4>1. PICK i \in 1 .. Len(requests') :
              requests'[i].type = "getdata" /\ g \in requests'[i].hashs
        BY DEF Asked
      <4>2. g \in Heights
        BY DEF Asked
      <4>3. CASE i = 1
        <5>1. g \in rest
          BY <2>2, <4>1, <4>3, Made
        <5>2. QED
          BY <1>1, <1>4, <4>2, <5>1 DEF Asked
      <4>4. CASE i # 1
        <5>1. i \in 2 .. Len(requests) /\ requests[i] = requests'[i]
          BY <1>1, <2>2, <4>4
        <5>2. QED
          BY <1>1, <1>5, <4>1, <4>2, <5>1 DEF Asked
      <4>5. QED
        BY <4>3, <4>4
    <3>2. ASSUME NEW g \in Asked, g # h PROVE g \in Asked'
      <4>1. PICK i \in 1 .. Len(requests) :
              requests[i].type = "getdata" /\ g \in requests[i].hashs
        BY DEF Asked
      <4>2. g \in Heights
        BY DEF Asked
      <4>3. CASE i = 1
        <5>1. g \in rest /\ 1 \in 1 .. Len(requests')
          BY <1>1, <2>2, <3>2, <4>1, <4>3
        <5>2. requests'[1].type = "getdata" /\ g \in requests'[1].hashs
          BY <2>2, <5>1, Made
        <5>3. QED
          BY <4>2, <5>1, <5>2 DEF Asked
      <4>4. CASE i # 1
        <5>1. i \in 1 .. Len(requests') /\ requests[i] = requests'[i]
          BY <1>1, <2>2, <4>4
        <5>2. QED
          BY <4>1, <4>2, <5>1 DEF Asked
      <4>5. QED
        BY <4>3, <4>4
    <3>3. QED
      BY <1>4, <3>1, <3>2 DEF Heights
  <2>5. h \in Asked
    BY <1>1, <1>3, <1>4 DEF Asked
  <2>6. Asked' = Asked \ {h}
    BY <2>4 DEF Asked
  <2>7. Below({h}, Asked')
    <3> SUFFICES ASSUME NEW g \in Asked' PROVE h < g
      BY DEF Below
    <3>1. PICK i \in 1 .. Len(requests') :
            requests'[i].type = "getdata" /\ g \in requests'[i].hashs
      BY DEF Asked
    <3>2. CASE i = 1
      BY <1>4, <2>2, <3>1, <3>2, Made
    <3>3. CASE i # 1
      <4>1. i \in 2 .. Len(requests) /\ requests[i] = requests'[i]
        BY <1>1, <2>2, <3>3
      <4>2. QED
        BY <1>5, <3>1, <4>1
    <3>4. QED
      BY <3>2, <3>3
  <2>8. rest \in (SUBSET Heights) \ {{}}
    BY <1>2, <1>10
  <2>9. QED
    BY <1>2, <1>3, <1>6, <1>7, <1>8, <2>3, <2>5, <2>6, <2>7, <2>8
<1>11. QED
  BY <1>9, <1>10

\* With the connection go the requests and the last of the answers.
LEMMA DisconnectMoves ==
  ASSUME TypeOK, Order, Disconnect
  PROVE  /\ Asked' = {} /\ UNCHANGED Taken /\ UNCHANGED Pooled
         /\ OnWire' \subseteq OnWire /\ Below(OnWire', OnWire \ OnWire')
         /\ Len(inbox') <= Len(inbox)
         /\ \A i \in 1 .. Len(inbox') : inbox'[i] = inbox[i]
<1>1. PICK n \in 0 .. Len(inbox) : inbox' = SubSeq(inbox, 1, n)
  BY DEF Disconnect
<1>2. /\ inbox \in Seq(Message) /\ Len(inbox) \in Nat /\ n \in Nat
      /\ \A i \in 1 .. Len(inbox) : inbox[i] \in Message
  BY DEF TypeOK
<1>3. Len(inbox') = n /\ \A i \in 1 .. n : inbox'[i] = inbox[i]
  BY <1>1, <1>2
<1>4. OnWire' \subseteq OnWire
  BY <1>2, <1>3 DEF OnWire
<1>5. ASSUME NEW g \in OnWire', NEW h \in OnWire \ OnWire' PROVE g < h
  <2>1. PICK i \in 1 .. n : inbox[i] = Block(g)
    BY <1>3 DEF OnWire
  <2>2. PICK j \in 1 .. Len(inbox) : inbox[j] = Block(h)
    BY DEF OnWire
  <2>3. j > n
    <3>1. SUFFICES ASSUME j <= n PROVE FALSE
      BY <1>2
    <3>2. j \in 1 .. Len(inbox') /\ inbox'[j] = Block(h)
      BY <1>2, <1>3, <2>2, <3>1
    <3>3. h \in Heights
      BY DEF OnWire
    <3>4. QED
      BY <3>2, <3>3 DEF OnWire
  <2>4. i \in 1 .. Len(inbox) /\ i < j
    BY <1>2, <2>3
  <2>5. QED
    BY <2>1, <2>2, <2>4, Made DEF Order
<1>6. Asked' = {} /\ UNCHANGED Taken /\ UNCHANGED Pooled
  BY DEF Disconnect, poolVars, modalVars, Asked, Taken, Pooled
<1>7. QED
  BY <1>2, <1>3, <1>4, <1>5, <1>6 DEF Below

\* The locator is a height, and the requests grow by the batches and by it.
LEMMA FilterHeadsMoves ==
  ASSUME TypeOK, FilterHeads
  PROVE  LET hs == Head(headers)
             ds == DownloadBlocks(Accepted(hs))
         IN  /\ hs \in SUBSET Heights /\ hs # {} /\ Locator(hs) \in hs
             /\ Accepted(hs) \in SUBSET Heights
             /\ requests' \in Seq(Request) /\ Len(ds) \in Nat
             /\ Len(requests') = Len(requests) + Len(ds) + 1
             /\ \A i \in 1 .. Len(requests) : requests'[i] = requests[i]
             /\ \A i \in 1 .. Len(ds) : requests'[Len(requests) + i] = ds[i]
             /\ requests'[Len(requests')] = GetHeaders(Locator(hs))
             /\ Asked' = Asked \cup Accepted(hs)
             /\ UNCHANGED Taken /\ UNCHANGED Pooled /\ UNCHANGED OnWire
<1> DEFINE hs == Head(headers)
           ds == DownloadBlocks(Accepted(hs))
           last == GetHeaders(Locator(hs))
<1>1. hs \in SUBSET Heights /\ hs # {}
  BY DEF TypeOK, FilterHeads
<1>2. Accepted(hs) \in SUBSET hs
  BY DEF Accepted
<1>3. Locator(hs) \in hs
  <2>1. CASE Accepted(hs) = {}
    BY <1>1, <2>1, MaxOf DEF Locator
  <2>2. CASE Accepted(hs) # {}
    <3>1. Max(Accepted(hs)) \in Accepted(hs)
      BY <1>1, <1>2, <2>2, MaxOf
    <3>2. QED
      BY <1>2, <2>2, <3>1 DEF Locator
  <2>3. QED
    BY <2>1, <2>2
<1>4. last \in Request
  <2>1. Locator(hs) \in 0 .. MaxHeight
    BY <1>1, <1>3 DEF Heights
  <2>2. QED
    BY <2>1, Made
<1>5. /\ ds \in Seq(Request)
      /\ \A i \in 1 .. Len(ds) : ds[i].type = "getdata"
      /\ \A h \in Heights : h \in Accepted(hs) <=>
           \E i \in 1 .. Len(ds) : h \in ds[i].hashs
  <2>1. Accepted(hs) \in SUBSET Heights
    BY <1>1, <1>2
  <2>2. QED
    BY <2>1, BatchesCover
<1>6. requests' = requests \o ds \o <<last>> /\ requests \in Seq(Request)
  BY DEF FilterHeads, TypeOK
<1>7. /\ requests' \in Seq(Request) /\ Len(ds) \in Nat /\ Len(requests) \in Nat
      /\ Len(requests') = Len(requests) + Len(ds) + 1
      /\ \A i \in 1 .. Len(requests) : requests'[i] = requests[i]
      /\ \A i \in 1 .. Len(ds) : requests'[Len(requests) + i] = ds[i]
      /\ requests'[Len(requests')] = last
  <2> DEFINE front == requests \o ds
  <2>1. /\ front \in Seq(Request) /\ Len(front) = Len(requests) + Len(ds)
        /\ Len(requests) \in Nat /\ Len(ds) \in Nat
        /\ \A i \in 1 .. Len(requests) : front[i] = requests[i]
        /\ \A i \in 1 .. Len(ds) : front[Len(requests) + i] = ds[i]
    BY <1>5, <1>6
  <2>2. /\ requests' \in Seq(Request) /\ Len(requests') = Len(front) + 1
        /\ \A i \in 1 .. Len(front) : requests'[i] = front[i]
        /\ requests'[Len(front) + 1] = last
    BY <1>4, <1>6, <2>1
  <2>3. \A i \in 1 .. Len(ds) : requests'[Len(requests) + i] = ds[i]
    <3> TAKE i \in 1 .. Len(ds)
    <3>1. Len(requests) + i \in 1 .. Len(front)
      BY <2>1
    <3>2. QED
      BY <2>1, <2>2, <3>1
  <2>4. \A i \in 1 .. Len(requests) : requests'[i] = requests[i]
    BY <2>1, <2>2
  <2>5. Len(requests') = Len(requests) + Len(ds) + 1
    BY <2>1, <2>2
  <2>6. requests'[Len(requests')] = last
    BY <2>2
  <2>7. QED
    BY <2>1, <2>2, <2>3, <2>4, <2>5, <2>6
<1>8. \A g \in Heights : g \in Asked' <=> g \in Asked \/ g \in Accepted(hs)
  <2>1. ASSUME NEW g \in Asked' PROVE g \in Asked \/ g \in Accepted(hs)
    <3>1. PICK i \in 1 .. Len(requests') :
            requests'[i].type = "getdata" /\ g \in requests'[i].hashs
      BY DEF Asked
    <3>2. g \in Heights
      BY DEF Asked
    <3>3. CASE i <= Len(requests)
      <4>1. i \in 1 .. Len(requests)
        BY <1>7, <3>3
      <4>2. QED
        BY <1>7, <3>1, <3>2, <4>1 DEF Asked
    <3>4. CASE i > Len(requests) /\ i < Len(requests')
      <4>1. i - Len(requests) \in 1 .. Len(ds)
        BY <1>7, <3>4
      <4>2. requests'[i] = ds[i - Len(requests)]
        BY <1>7, <4>1
      <4>3. QED
        BY <1>5, <3>1, <3>2, <4>1, <4>2
    <3>5. CASE i = Len(requests')
      BY <1>7, <3>1, <3>5, Made
    <3>6. Len(requests') \in Nat /\ Len(requests) \in Nat
      BY <1>7
    <3>7. QED
      BY <3>3, <3>4, <3>5, <3>6
  <2>2. ASSUME NEW g \in Asked PROVE g \in Asked'
    <3>1. PICK i \in 1 .. Len(requests) :
            requests[i].type = "getdata" /\ g \in requests[i].hashs
      BY DEF Asked
    <3>2. i \in 1 .. Len(requests') /\ requests'[i] = requests[i]
      BY <1>7
    <3>3. g \in Heights
      BY DEF Asked
    <3>4. QED
      BY <3>1, <3>2, <3>3 DEF Asked
  <2>3. ASSUME NEW g \in Accepted(hs) PROVE g \in Asked'
    <3>1. g \in Heights
      BY <1>1, <1>2
    <3>2. PICK i \in 1 .. Len(ds) : g \in ds[i].hashs
      BY <1>5, <3>1
    <3>3. Len(requests) + i \in 1 .. Len(requests')
          /\ requests'[Len(requests) + i] = ds[i]
      BY <1>7
    <3>4. QED
      BY <1>5, <3>1, <3>2, <3>3 DEF Asked
  <2>4. QED
    BY <2>1, <2>2, <2>3
<1>9. Asked' = Asked \cup Accepted(hs)
  <2>1. Asked \subseteq Heights /\ Asked' \subseteq Heights
        /\ Accepted(hs) \subseteq Heights
    BY <1>1, <1>2 DEF Asked
  <2>2. QED
    BY <1>8, <2>1
<1>10. UNCHANGED Taken /\ UNCHANGED Pooled /\ UNCHANGED OnWire
  BY DEF FilterHeads, poolVars, Taken, Pooled, OnWire
<1>11. QED
  BY <1>1, <1>2, <1>3, <1>7, <1>9, <1>10

----------------------------------------------------------------------------
(* The types.                                                              *)

\* The steps in which no block joins or leaves those under way, and all but
\* filter_block.
MoveOn == \/ Mine \/ Remote \/ OnRecv \/ TakeBlocks \/ TakeHeaders
          \/ FilterHeadsThrows \/ FilterModalDone
Others == MoveOn \/ Disconnect \/ FilterHeads

\* What has been asked for lies below the remote tip.
LEMMA AskedBelowTip ==
  ASSUME TypeOK, Token
  PROVE  requested \subseteq 1 .. tip
BY DEF TypeOK, Token, Known

\* Every such step keeps the types,
LEMMA TypeOthers ==
  ASSUME TypeOK, Order, Others
  PROVE  TypeOK'
<1> USE DEF chainVars, dbVars, wireVars, poolVars, modalVars
<1>1. ASSUME Mine PROVE TypeOK'
  <2>1. tip' \in 0 .. MaxHeight /\ seenTip' \in 0 .. tip'
        /\ last_block_hash' \in 0 .. tip'
    BY <1>1, ChainAssumption DEF Mine, TypeOK
  <2>2. QED
    BY <1>1, <2>1 DEF Mine, TypeOK
<1>2. ASSUME AnswerHeaders PROVE TypeOK'
  <2>1. PICK from \in 0 .. MaxHeight : Head(requests).from = from
    <3>1. Head(requests) \in Request
      BY <1>2 DEF AnswerHeaders, TypeOK
    <3>2. QED
      BY <1>2, <3>1, Shapes DEF AnswerHeaders
  <2> DEFINE upTo == IF from + MaxHeaders < tip THEN from + MaxHeaders ELSE tip
  <2>2. from + 1 .. upTo \in SUBSET Heights
    BY ChainAssumption DEF Heights, TypeOK
  <2>3. inbox' = Append(inbox, Headers(from + 1 .. upTo))
    BY <1>2, <2>1 DEF AnswerHeaders
  <2>4. inbox' \in Seq(Message)
    <3>1. Headers(from + 1 .. upTo) \in Message
      BY <2>2, Made
    <3>2. QED
      BY <2>3, <3>1 DEF TypeOK
  <2>5. requests' \in Seq(Request) /\ seenTip' \in 0 .. tip'
    BY <1>2 DEF AnswerHeaders, TypeOK
  <2>6. QED
    BY <1>2, <2>4, <2>5 DEF AnswerHeaders, TypeOK
<1>3. ASSUME AnswerData PROVE TypeOK'
  <2> DEFINE hs == Head(requests).hashs
             h == Min(hs)
  <2>1. /\ hs \in SUBSET Heights /\ h \in hs
        /\ inbox' = Append(inbox, Block(h))
        /\ \/ requests' = Tail(requests)
           \/ /\ hs \ {h} \in (SUBSET Heights) \ {{}}
              /\ requests' = [requests EXCEPT ![1] = GetData(hs \ {h})]
    BY <1>3, AnswerDataMoves
  <2>2. inbox' \in Seq(Message)
    <3>1. Block(h) \in Message
      BY <2>1, Made
    <3>2. QED
      BY <2>1, <3>1 DEF TypeOK
  <2>3. requests' \in Seq(Request)
    <3>1. requests \in Seq(Request) /\ requests # <<>>
      BY <1>3 DEF AnswerData, TypeOK
    <3>2. CASE requests' = Tail(requests)
      BY <3>1, <3>2
    <3>3. CASE /\ hs \ {h} \in (SUBSET Heights) \ {{}}
               /\ requests' = [requests EXCEPT ![1] = GetData(hs \ {h})]
      <4>1. GetData(hs \ {h}) \in Request
        BY <3>3, Made
      <4>2. QED
        BY <3>1, <3>3, <4>1
    <3>4. QED
      BY <2>1, <3>2, <3>3
  <2>4. QED
    BY <1>3, <2>2, <2>3 DEF AnswerData, TypeOK
<1>4. ASSUME Disconnect PROVE TypeOK'
  <2>1. inbox' \in Seq(Message) /\ requests' \in Seq(Request)
    BY <1>4 DEF Disconnect, TypeOK
  <2>2. QED
    BY <1>4, <2>1 DEF Disconnect, TypeOK
<1>5. ASSUME OnRecv PROVE TypeOK'
  <2>1. inbox \in Seq(Message) /\ inbox # <<>> /\ Head(inbox) \in Message
    BY <1>5 DEF OnRecv, TypeOK
  <2>2. inbox' \in Seq(Message)
    BY <1>5, <2>1 DEF OnRecv
  <2>3. m_block_pool' \in Seq(Heights)
    BY <1>5, <2>1, Shapes, Made DEF OnRecv, TypeOK
  <2>4. m_headers_pool' \in Seq((SUBSET Heights) \ {{}})
    <3>1. CASE Head(inbox).type = "headers" /\ Head(inbox).hashs # {}
      <4>1. Head(inbox).hashs \in (SUBSET Heights) \ {{}}
        BY <2>1, <3>1, Shapes
      <4>2. m_headers_pool' = Append(m_headers_pool, Head(inbox).hashs)
        BY <1>5, <3>1 DEF OnRecv
      <4>3. QED
        BY <4>1, <4>2 DEF TypeOK
    <3>2. CASE ~(Head(inbox).type = "headers" /\ Head(inbox).hashs # {})
      BY <1>5, <3>2 DEF OnRecv, TypeOK
    <3>3. QED
      BY <3>1, <3>2
  <2>5. QED
    BY <1>5, <2>2, <2>3, <2>4 DEF OnRecv, TypeOK
<1>6. ASSUME TakeBlocks PROVE TypeOK'
  BY <1>6 DEF TakeBlocks, TypeOK
<1>8. ASSUME TakeHeaders PROVE TypeOK'
  BY <1>8 DEF TakeHeaders, TypeOK
<1>9. ASSUME FilterHeads PROVE TypeOK'
  <2>1. requests' \in Seq(Request) /\ Accepted(Head(headers)) \in SUBSET Heights
    BY <1>9, FilterHeadsMoves
  <2>2. headers' \in Seq((SUBSET Heights) \ {{}})
    BY <1>9 DEF FilterHeads, TypeOK
  <2>3. requested' \subseteq Heights
    BY <1>9, <2>1 DEF FilterHeads, TypeOK
  <2>4. QED
    BY <1>9, <2>1, <2>2, <2>3 DEF FilterHeads, TypeOK
<1>10. ASSUME FilterHeadsThrows PROVE TypeOK'
  BY <1>10 DEF FilterHeadsThrows, TypeOK
<1>11. ASSUME FilterModalDone PROVE TypeOK'
  BY <1>11 DEF FilterModalDone, TypeOK
<1>12. QED
  BY <1>1, <1>2, <1>3, <1>4, <1>5, <1>6, <1>8, <1>9, <1>10, <1>11
     DEF Others, MoveOn, Remote

\* and so does filter_block.
LEMMA TypeStep ==
  ASSUME TypeOK, Order, Account, Token, [Next]_vars
  PROVE  TypeOK'
<1> USE DEF chainVars, dbVars, wireVars, poolVars, modalVars
<1>1. ASSUME FilterBlock PROVE TypeOK'
  <2>1. /\ Head(blocks) \in Heights /\ blocks' \in Seq(Heights)
        /\ Head(blocks) \in Taken
    BY <1>1, FilterBlockMoves, FilterBlockVars DEF FilterBlock, TypeOK
  <2>2. Head(blocks) \in 1 .. tip
    BY <2>1, AskedBelowTip DEF Account, InFlight
  <2>3. last_block_hash' \in 0 .. tip' /\ last_block_time' \in Times
    BY <1>1, <2>1, <2>2 DEF FilterBlock, TypeOK
  <2>4. fed' \in Seq(Heights)
    BY <1>1, <2>1 DEF FilterBlock, TypeOK
  <2>5. QED
    BY <1>1, <2>1, <2>3, <2>4 DEF FilterBlock, TypeOK
<1>2. ASSUME UNCHANGED vars PROVE TypeOK'
  BY <1>2 DEF vars, TypeOK
<1>3. QED
  BY <1>1, <1>2, TypeOthers DEF Next, Net, Others, MoveOn

----------------------------------------------------------------------------
(* The order and the account of the blocks.                                *)

\* Every step keeps what filter_modal leaves behind: the others,
LEMMA PhasesOthers ==
  ASSUME TypeOK, Phases, Others
  PROVE  Phases'
<1> USE DEF wireVars, poolVars, modalVars, Phases
<1>1. ASSUME Mine PROVE Phases'
  BY <1>1 DEF Mine
<1>2. ASSUME AnswerHeaders PROVE Phases'
  BY <1>2 DEF AnswerHeaders
<1>3. ASSUME AnswerData PROVE Phases'
  BY <1>3 DEF AnswerData
<1>4. ASSUME Disconnect PROVE Phases'
  BY <1>4 DEF Disconnect
<1>5. ASSUME OnRecv PROVE Phases'
  BY <1>5 DEF OnRecv
<1>6. ASSUME TakeBlocks PROVE Phases'
  BY <1>6 DEF TakeBlocks
<1>7. ASSUME TakeHeaders PROVE Phases'
  BY <1>7 DEF TakeHeaders
<1>8. ASSUME FilterHeads PROVE Phases'
  BY <1>8 DEF FilterHeads
<1>9. ASSUME FilterHeadsThrows PROVE Phases'
  BY <1>9 DEF FilterHeadsThrows
<1>10. ASSUME FilterModalDone PROVE Phases'
  BY <1>10 DEF FilterModalDone
<1>11. QED
  BY <1>1, <1>2, <1>3, <1>4, <1>5, <1>6, <1>7, <1>8, <1>9, <1>10
     DEF Others, MoveOn, Remote

\* and filter_block.
LEMMA PhasesStep ==
  ASSUME TypeOK, Phases, [Next]_vars
  PROVE  Phases'
<1>1. ASSUME FilterBlock \/ UNCHANGED vars PROVE Phases'
  BY <1>1 DEF FilterBlock, vars, wireVars, poolVars, modalVars, Phases
<1>2. QED
  BY <1>1, PhasesOthers DEF Next, Net, Others, MoveOn

\* When filter_heads runs on a list of headers nothing else is under way.
LEMMA HeadersAlone ==
  ASSUME TypeOK, Phases, NEW from, Exchange(from),
         netPc = "headers", headers # <<>>
  PROVE  /\ requests = <<>> /\ inbox = <<>> /\ m_headers_pool = <<>>
         /\ Len(headers) = 1 /\ Head(headers) = headers[1]
         /\ Follow(Head(headers), from)
         /\ InFlight = {}
<1>1. /\ requests = <<>> /\ inbox = <<>> /\ Len(headers) = 1
      /\ Follow(headers[1], from)
  BY DEF Exchange, HeadersGone, HeadersAsked, HeadersOnWire, HeadersPooled,
         HeadersTaken, NoHeaders
<1>2. blocks = <<>> /\ m_block_pool = <<>> /\ m_headers_pool = <<>>
  BY DEF Phases
<1>3. InFlight = {}
  BY <1>1, <1>2 DEF InFlight, Taken, Pooled, OnWire, Asked
<1>4. Head(headers) = headers[1]
  BY DEF TypeOK
<1>5. QED
  BY <1>1, <1>2, <1>3, <1>4

\* Then every block asked for has been filtered.
LEMMA AllFiltered ==
  ASSUME Account, InFlight = {}, connected
  PROVE  filtered = requested
BY DEF Account, Lost

\* on_recv keeps the order.
LEMMA OrderOnRecv ==
  ASSUME TypeOK, Order, OnRecv
  PROVE  Order'
<1>1. /\ inbox \in Seq(Message) /\ Len(inbox) \in Nat \ {0}
      /\ Len(inbox') = Len(inbox) - 1
      /\ \A i \in 1 .. Len(inbox') : inbox'[i] = inbox[i + 1]
  BY DEF TypeOK, OnRecv
<1>2. \A i, j \in 1 .. Len(inbox') :
        i < j /\ inbox'[i].type = "block" /\ inbox'[j].type = "block"
          => inbox'[i].hash < inbox'[j].hash
  <2> TAKE i, j \in 1 .. Len(inbox')
  <2>1. i + 1 \in 1 .. Len(inbox) /\ j + 1 \in 1 .. Len(inbox)
    BY <1>1
  <2>2. i < j => i + 1 < j + 1
    BY <1>1
  <2>3. QED
    BY <1>1, <2>1, <2>2 DEF Order
<1>3. UNCHANGED requests /\ UNCHANGED blocks
  BY DEF OnRecv, modalVars
<1>4. CASE Head(inbox).type = "block"
  <2>1. PICK h \in OnWire : /\ OnWire' = OnWire \ {h} /\ Below({h}, OnWire')
                            /\ Pooled' = Pooled \cup {h}
                            /\ m_block_pool' = Append(m_block_pool, h)
    BY <1>4, OnRecvMoves
  <2>2. UNCHANGED Taken /\ UNCHANGED Asked
    BY OnRecvMoves
  <2>3. Increasing(m_block_pool')
    <3>1. h \in Heights /\ m_block_pool \in Seq(Heights)
      BY DEF OnWire, TypeOK
    <3>2. \A i \in 1 .. Len(m_block_pool) : m_block_pool[i] < h
      BY <3>1 DEF Order, Below, Pooled
    <3>3. /\ Len(m_block_pool') = Len(m_block_pool) + 1
          /\ \A i \in 1 .. Len(m_block_pool) : m_block_pool'[i] = m_block_pool[i]
          /\ m_block_pool'[Len(m_block_pool) + 1] = h
          /\ Len(m_block_pool) \in Nat
      BY <2>1, <3>1
    <3>4. ASSUME NEW i \in 1 .. Len(m_block_pool'),
                 NEW j \in 1 .. Len(m_block_pool'), i < j
          PROVE  m_block_pool'[i] < m_block_pool'[j]
      <4>1. i \in 1 .. Len(m_block_pool)
        BY <3>3, <3>4
      <4>2. CASE j \in 1 .. Len(m_block_pool)
        BY <3>3, <3>4, <4>1, <4>2 DEF Order, Increasing
      <4>3. CASE j = Len(m_block_pool) + 1
        BY <3>2, <3>3, <4>1, <4>3
      <4>4. QED
        BY <3>3, <4>2, <4>3
    <3>5. QED
      BY <3>4 DEF Increasing
  <2>4. /\ Below(Taken', Pooled') /\ Below(Taken' \cup Pooled', OnWire')
        /\ Below(Taken' \cup Pooled' \cup OnWire', Asked')
    BY <2>1, <2>2 DEF Order, Below
  <2>5. QED
    BY <1>2, <1>3, <2>3, <2>4 DEF Order
<1>5. CASE Head(inbox).type # "block"
  <2>1. UNCHANGED m_block_pool
    BY <1>5 DEF OnRecv
  <2>2. UNCHANGED Taken /\ UNCHANGED Asked /\ UNCHANGED Pooled /\ UNCHANGED OnWire
    BY <1>5, OnRecvMoves
  <2>3. QED
    BY <1>2, <1>3, <2>1, <2>2 DEF Order
<1>6. QED
  BY <1>4, <1>5

\* So does a headers reply,
LEMMA OrderAnswerHeaders ==
  ASSUME TypeOK, Order, AnswerHeaders
  PROVE  Order'
<1>1. /\ requests \in Seq(Request) /\ requests # <<>> /\ Len(requests) \in Nat \ {0}
      /\ Len(requests') = Len(requests) - 1
      /\ \A i \in 1 .. Len(requests') : requests'[i] = requests[i + 1]
  BY DEF TypeOK, AnswerHeaders
<1>2. PICK hs : inbox' = Append(inbox, Headers(hs))
  BY DEF AnswerHeaders
<1>3. /\ inbox \in Seq(Message) /\ Len(inbox) \in Nat
      /\ Len(inbox') = Len(inbox) + 1
      /\ \A i \in 1 .. Len(inbox) : inbox'[i] = inbox[i]
      /\ inbox'[Len(inbox) + 1].type = "headers"
  BY <1>2, Made DEF TypeOK
<1>4. \A i, j \in 1 .. Len(inbox') :
        i < j /\ inbox'[i].type = "block" /\ inbox'[j].type = "block"
          => inbox'[i].hash < inbox'[j].hash
  BY <1>3 DEF Order
<1>5. \A i, j \in 1 .. Len(requests') :
        i < j /\ requests'[i].type = "getdata" /\ requests'[j].type = "getdata"
          => Below(requests'[i].hashs, requests'[j].hashs)
  <2> TAKE i, j \in 1 .. Len(requests')
  <2>1. i + 1 \in 1 .. Len(requests) /\ j + 1 \in 1 .. Len(requests)
        /\ (i < j => i + 1 < j + 1)
    BY <1>1
  <2>2. QED
    BY <1>1, <2>1 DEF Order
<1>6. UNCHANGED <<blocks, m_block_pool>>
  BY DEF AnswerHeaders, poolVars, modalVars
<1>7. UNCHANGED <<Taken, Pooled, OnWire, Asked>>
  BY AnswerHeadersMoves
<1>8. QED
  BY <1>4, <1>5, <1>6, <1>7 DEF Order

\* a block on its way,
LEMMA OrderAnswerData ==
  ASSUME TypeOK, Order, AnswerData
  PROVE  Order'
<1> DEFINE hs == Head(requests).hashs
           h == Min(hs)
<1>1. /\ h \in Asked /\ Asked' = Asked \ {h} /\ Below({h}, Asked')
      /\ OnWire' = OnWire \cup {h}
      /\ UNCHANGED Taken /\ UNCHANGED Pooled
      /\ inbox' = Append(inbox, Block(h))
  BY AnswerDataMoves
<1>2. \/ /\ hs = {h}
         /\ requests' = Tail(requests)
      \/ /\ hs \ {h} \in (SUBSET Heights) \ {{}}
         /\ requests' = [requests EXCEPT ![1] = GetData(hs \ {h})]
  BY AnswerDataMoves
<1>3. /\ requests \in Seq(Request) /\ requests # <<>> /\ Len(requests) \in Nat \ {0}
      /\ Head(requests) = requests[1] /\ requests[1].type = "getdata"
  BY DEF TypeOK, AnswerData
<1>4. \A i, j \in 1 .. Len(inbox') :
        i < j /\ inbox'[i].type = "block" /\ inbox'[j].type = "block"
          => inbox'[i].hash < inbox'[j].hash
  <2>1. /\ inbox \in Seq(Message) /\ Len(inbox) \in Nat
        /\ \A i \in 1 .. Len(inbox) : inbox[i] \in Message
        /\ Len(inbox') = Len(inbox) + 1
        /\ \A i \in 1 .. Len(inbox) : inbox'[i] = inbox[i]
        /\ inbox'[Len(inbox) + 1] = Block(h)
    BY <1>1 DEF TypeOK
  <2>2. \A i \in 1 .. Len(inbox) : inbox[i].type = "block" =>
          inbox[i].hash \in OnWire
    BY <2>1, Shapes DEF OnWire
  <2>3. \A i \in 1 .. Len(inbox) : inbox[i].type = "block" => inbox[i].hash < h
    BY <1>1, <2>2 DEF Order, Below
  <2>4. ASSUME NEW i \in 1 .. Len(inbox'), NEW j \in 1 .. Len(inbox'), i < j,
               inbox'[i].type = "block", inbox'[j].type = "block"
        PROVE  inbox'[i].hash < inbox'[j].hash
    <3>1. i \in 1 .. Len(inbox)
      BY <2>1, <2>4
    <3>2. CASE j \in 1 .. Len(inbox)
      BY <2>1, <2>4, <3>1, <3>2 DEF Order
    <3>3. CASE j = Len(inbox) + 1
      BY <2>1, <2>3, <2>4, <3>1, <3>3, Made
    <3>4. QED
      BY <2>1, <3>2, <3>3
  <2>5. QED
    BY <2>4
<1>5. \A i, j \in 1 .. Len(requests') :
        i < j /\ requests'[i].type = "getdata" /\ requests'[j].type = "getdata"
          => Below(requests'[i].hashs, requests'[j].hashs)
  <2>1. CASE requests' = Tail(requests)
    <3>1. /\ Len(requests') = Len(requests) - 1
          /\ \A i \in 1 .. Len(requests') : requests'[i] = requests[i + 1]
      BY <1>3, <2>1
    <3> TAKE i, j \in 1 .. Len(requests')
    <3>2. i + 1 \in 1 .. Len(requests) /\ j + 1 \in 1 .. Len(requests)
          /\ (i < j => i + 1 < j + 1)
      BY <1>3, <3>1
    <3>3. QED
      BY <3>1, <3>2 DEF Order
  <2>2. CASE /\ hs \ {h} \in (SUBSET Heights) \ {{}}
             /\ requests' = [requests EXCEPT ![1] = GetData(hs \ {h})]
    <3>0. GetData(hs \ {h}) \in Request
      BY <2>2, Made
    <3>1. /\ Len(requests') = Len(requests)
          /\ \A i \in 1 .. Len(requests) : i # 1 => requests'[i] = requests[i]
          /\ requests'[1] = GetData(hs \ {h})
      <4>1. requests' \in Seq(Request) /\ DOMAIN requests' = DOMAIN requests
        BY <1>3, <2>2, <3>0
      <4>2. 1 .. Len(requests') = 1 .. Len(requests)
        BY <1>3, <4>1
      <4>3. Len(requests') = Len(requests)
        BY <1>3, <4>1, <4>2
      <4>4. DOMAIN requests = 1 .. Len(requests)
        BY <1>3
      <4>5. 1 \in DOMAIN requests
        BY <1>3, <4>4
      <4>6. requests'[1] = GetData(hs \ {h})
        BY <2>2, <4>5
      <4>7. \A i \in DOMAIN requests : i # 1 => requests'[i] = requests[i]
        BY <2>2
      <4>8. QED
        BY <4>3, <4>4, <4>6, <4>7
    <3>2. requests'[1].hashs \subseteq requests[1].hashs
      BY <1>3, <3>1, Made
    <3> SUFFICES ASSUME NEW i \in 1 .. Len(requests), NEW j \in 1 .. Len(requests),
                        i < j, requests'[i].type = "getdata",
                        requests'[j].type = "getdata"
                 PROVE  Below(requests'[i].hashs, requests'[j].hashs)
      BY <3>1
    <3>3. j # 1 /\ requests'[j] = requests[j]
      BY <1>3, <3>1
    <3>4. requests[i].type = "getdata"
          /\ requests'[i].hashs \subseteq requests[i].hashs
      BY <1>3, <3>1, <3>2
    <3>5. Below(requests[i].hashs, requests[j].hashs)
      BY <3>3, <3>4 DEF Order
    <3>6. QED
      BY <3>3, <3>4, <3>5 DEF Below
  <2>3. QED
    BY <1>2, <2>1, <2>2
<1>6. /\ Below(Taken', Pooled') /\ Below(Taken' \cup Pooled', OnWire')
      /\ Below(Taken' \cup Pooled' \cup OnWire', Asked')
  BY <1>1 DEF Order, Below
<1>7. UNCHANGED <<blocks, m_block_pool>>
  BY DEF AnswerData, poolVars, modalVars
<1>8. QED
  BY <1>4, <1>5, <1>6, <1>7 DEF Order

\* the next batches, for nothing else is under way,
LEMMA OrderFilterHeads ==
  ASSUME TypeOK, Phases, Order, NEW from, Exchange(from), FilterHeads
  PROVE  Order'
<1> DEFINE hs == Head(headers)
           ds == DownloadBlocks(Accepted(hs))
<1>1. netPc = "headers" /\ headers # <<>>
  BY DEF FilterHeads
<1>2. requests = <<>> /\ inbox = <<>> /\ InFlight = {}
  BY <1>1, HeadersAlone
<1>3. /\ Accepted(hs) \in SUBSET Heights /\ Len(ds) \in Nat
      /\ Len(requests') = Len(requests) + Len(ds) + 1
      /\ \A i \in 1 .. Len(ds) : requests'[Len(requests) + i] = ds[i]
      /\ requests'[Len(requests')] = GetHeaders(Locator(hs))
      /\ UNCHANGED Taken /\ UNCHANGED Pooled /\ UNCHANGED OnWire
  BY FilterHeadsMoves
<1>4. /\ Len(requests') = Len(ds) + 1
      /\ \A i \in 1 .. Len(ds) : requests'[i] = ds[i]
      /\ requests'[Len(ds) + 1].type = "getheaders"
  BY <1>2, <1>3, Made
<1>5. \A i, j \in 1 .. Len(ds) : i < j => Below(ds[i].hashs, ds[j].hashs)
  BY <1>3, BatchesCover
<1>6. \A i, j \in 1 .. Len(requests') :
        i < j /\ requests'[i].type = "getdata" /\ requests'[j].type = "getdata"
          => Below(requests'[i].hashs, requests'[j].hashs)
  <2> HIDE DEF ds, hs
  <2> TAKE i, j \in 1 .. Len(requests')
  <2> HAVE i < j /\ requests'[i].type = "getdata" /\ requests'[j].type = "getdata"
  <2>1. i \in 1 .. Len(ds) /\ j \in 1 .. Len(ds)
    BY <1>3, <1>4
  <2>2. requests'[i] = ds[i] /\ requests'[j] = ds[j]
    BY <1>4, <2>1
  <2>3. QED
    BY <1>5, <2>1, <2>2
<1>7. Taken' = {} /\ Pooled' = {} /\ OnWire' = {}
  BY <1>2, <1>3 DEF InFlight
<1>8. UNCHANGED <<blocks, m_block_pool, inbox>>
  BY DEF FilterHeads, poolVars
<1>9. QED
  BY <1>6, <1>7, <1>8 DEF Order, Below

\* the end of the connection,
LEMMA OrderDisconnect ==
  ASSUME TypeOK, Order, Disconnect
  PROVE  Order'
<1>1. /\ Asked' = {} /\ UNCHANGED Taken /\ UNCHANGED Pooled
      /\ OnWire' \subseteq OnWire /\ Len(inbox') <= Len(inbox)
      /\ \A i \in 1 .. Len(inbox') : inbox'[i] = inbox[i]
  BY DisconnectMoves
<1>2. Len(inbox) \in Nat /\ Len(inbox') \in Nat
  BY DEF Disconnect, TypeOK
<1>3. \A i \in 1 .. Len(inbox') : i \in 1 .. Len(inbox)
  BY <1>1, <1>2
<1>4. \A i, j \in 1 .. Len(inbox') :
        i < j /\ inbox'[i].type = "block" /\ inbox'[j].type = "block"
          => inbox'[i].hash < inbox'[j].hash
  BY <1>1, <1>3 DEF Order
<1>5. requests' = <<>> /\ UNCHANGED <<blocks, m_block_pool>>
  BY DEF Disconnect, poolVars, modalVars
<1>6. QED
  BY <1>1, <1>4, <1>5 DEF Order, Below

\* a block for filter_block,
LEMMA OrderFilterBlock ==
  ASSUME TypeOK, Order, blocks # <<>>, blocks' = Tail(blocks),
         UNCHANGED <<m_block_pool, inbox, requests>>
  PROVE  Order'
<1>1. /\ Taken' \subseteq Taken /\ Increasing(blocks')
      /\ UNCHANGED Pooled /\ UNCHANGED OnWire /\ UNCHANGED Asked
  BY FilterBlockMoves
<1>2. QED
  BY <1>1 DEF Order, Below

\* and every other step.
LEMMA OrderOthers ==
  ASSUME TypeOK, Phases, Order, NEW from, Exchange(from), Others
  PROVE  Order'
<1>1. ASSUME UNCHANGED <<blocks, m_block_pool, inbox, requests>> PROVE Order'
  BY <1>1, SameStages DEF Stages, Order
<1>2. ASSUME TakeBlocks PROVE Order'
  <2>1. UNCHANGED <<inbox, requests>>
    BY <1>2 DEF TakeBlocks, wireVars
  <2>2. blocks' = m_block_pool /\ m_block_pool' = <<>>
    BY <1>2 DEF TakeBlocks
  <2>3. /\ Taken = {} /\ Taken' = Pooled /\ Pooled' = {}
        /\ UNCHANGED OnWire /\ UNCHANGED Asked
    BY <1>2, TakeBlocksMoves
  <2>4. Increasing(blocks') /\ Increasing(m_block_pool')
    BY <2>2 DEF Order, Increasing
  <2>5. QED
    BY <2>1, <2>3, <2>4 DEF Order, Below
<1>3. QED
  BY <1>1, <1>2, OrderOnRecv, OrderAnswerHeaders, OrderAnswerData,
     OrderFilterHeads, OrderDisconnect
     DEF Others, MoveOn, Remote, Mine, TakeHeaders, FilterHeadsThrows,
         FilterModalDone, wireVars, poolVars, modalVars

\* So they are in order after every step.
LEMMA OrderStep ==
  ASSUME TypeOK, Phases, Order, Token, [Next]_vars
  PROVE  Order'
<1>1. ASSUME UNCHANGED vars PROVE Order'
  BY <1>1, SameStages DEF Stages, Order, vars, wireVars, poolVars, modalVars
<1>2. QED
  BY <1>1, OrderFilterBlock, FilterBlockVars, OrderOthers
     DEF Next, Net, Others, MoveOn, Token

----------------------------------------------------------------------------
(* The blocks under way, and their account.                                *)

\* A step that only moves blocks on leaves as many under way.
LEMMA InFlightStays ==
  ASSUME TypeOK, Phases, Order, MoveOn
  PROVE  UNCHANGED InFlight
<1>1. ASSUME UNCHANGED Stages PROVE UNCHANGED InFlight
  BY <1>1 DEF Stages, InFlight
<1>2. ASSUME UNCHANGED <<blocks, m_block_pool, inbox, requests>>
      PROVE  UNCHANGED InFlight
  BY <1>1, <1>2, SameStages
<1>3. ASSUME AnswerHeaders PROVE UNCHANGED InFlight
  BY <1>1, <1>3, AnswerHeadersMoves DEF Stages
<1>4. ASSUME TakeBlocks PROVE UNCHANGED InFlight
  BY <1>4, TakeBlocksMoves DEF InFlight
<1>5. ASSUME OnRecv PROVE UNCHANGED InFlight
  <2>1. CASE Head(inbox).type = "block"
    <3>1. PICK h \in OnWire : OnWire' = OnWire \ {h} /\ Pooled' = Pooled \cup {h}
      BY <1>5, <2>1, OnRecvMoves
    <3>2. UNCHANGED Taken /\ UNCHANGED Asked
      BY <1>5, OnRecvMoves
    <3>3. QED
      BY <3>1, <3>2 DEF InFlight
  <2>2. CASE Head(inbox).type # "block"
    BY <1>5, <2>2, OnRecvMoves DEF InFlight
  <2>3. QED
    BY <2>1, <2>2
<1>6. ASSUME AnswerData PROVE UNCHANGED InFlight
  <2> DEFINE h == Min(Head(requests).hashs)
  <2>1. /\ h \in Asked /\ Asked' = Asked \ {h} /\ OnWire' = OnWire \cup {h}
        /\ UNCHANGED Taken /\ UNCHANGED Pooled
    BY <1>6, AnswerDataMoves
  <2>2. QED
    BY <2>1 DEF InFlight
<1>7. QED
  BY <1>2, <1>3, <1>4, <1>5, <1>6
     DEF MoveOn, Remote, Mine, TakeHeaders, FilterHeadsThrows, FilterModalDone,
         wireVars, poolVars, modalVars

\* filter_block gets the lowest block under way.
LEMMA LowestLeaves ==
  ASSUME TypeOK, Order, blocks # <<>>, blocks' = Tail(blocks),
         UNCHANGED <<m_block_pool, inbox, requests>>
  PROVE  LET h == Head(blocks)
         IN  h \in InFlight /\ InFlight' = InFlight \ {h} /\ Below({h}, InFlight')
<1> DEFINE h == Head(blocks)
<1>1. /\ h \in Taken /\ Taken' = Taken \ {h} /\ Below({h}, Taken')
      /\ UNCHANGED Pooled /\ UNCHANGED OnWire /\ UNCHANGED Asked
  BY FilterBlockMoves
<1>2. h \in Heights
  BY <1>1 DEF Taken
<1>3. h \notin Pooled /\ h \notin OnWire /\ h \notin Asked
  BY <1>1, <1>2 DEF Order, Below, Heights
<1>4. InFlight' = InFlight \ {h} /\ h \in InFlight
  BY <1>1, <1>3 DEF InFlight
<1>5. Below({h}, InFlight')
  BY <1>1 DEF Order, Below, InFlight
<1>6. QED
  BY <1>4, <1>5

\* The connection takes the highest ones with it.
LEMMA HighestAreLost ==
  ASSUME TypeOK, Order, Disconnect
  PROVE  InFlight' \subseteq InFlight /\ Below(InFlight', InFlight \ InFlight')
<1>1. /\ Asked' = {} /\ UNCHANGED Taken /\ UNCHANGED Pooled
      /\ OnWire' \subseteq OnWire /\ Below(OnWire', OnWire \ OnWire')
  BY DisconnectMoves
<1>2. /\ InFlight' = Taken \cup Pooled \cup OnWire'
      /\ InFlight \ InFlight' \subseteq Asked \cup (OnWire \ OnWire')
  BY <1>1 DEF InFlight
<1>3. Below(InFlight', Asked \cup (OnWire \ OnWire'))
  BY <1>1, <1>2 DEF Order, Below
<1>4. QED
  BY <1>1, <1>2, <1>3 DEF Below, InFlight

\* filter_heads asks for the accepted ones when there is none.
LEMMA AcceptedFollow ==
  ASSUME TypeOK, Phases, NEW from, Exchange(from), FilterHeads
  PROVE  InFlight = {} /\ InFlight' = Accepted(Head(headers))
<1>1. InFlight = {}
  BY HeadersAlone DEF FilterHeads
<1>2. Asked' = Asked \cup Accepted(Head(headers))
      /\ UNCHANGED Taken /\ UNCHANGED Pooled /\ UNCHANGED OnWire
  BY FilterHeadsMoves
<1>3. QED
  BY <1>1, <1>2 DEF InFlight

\* The account is the same while the blocks under way are.
LEMMA AccountStays ==
  ASSUME Account, UNCHANGED InFlight, UNCHANGED <<connected, requested, filtered>>
  PROVE  Account'
BY DEF Account, Lost

\* What filter_block got stays while its calls do.
LEMMA SameFiltered ==
  ASSUME UNCHANGED fed
  PROVE  UNCHANGED filtered
BY DEF filtered

\* A call of filter_block adds its block.
LEMMA FilteredGrows ==
  ASSUME TypeOK, FilterBlock
  PROVE  filtered' = filtered \cup {Head(blocks)}
<1>1. Head(blocks) \in Heights
  BY DEF TypeOK, FilterBlock
<1>2. PICK h \in Heights : h = Head(blocks)
  BY <1>1
<1>3. fed \in Seq(Heights) /\ fed' = Append(fed, h)
  BY <1>2 DEF TypeOK, FilterBlock
<1>4. /\ DOMAIN fed = 1 .. Len(fed) /\ Len(fed) \in Nat
      /\ DOMAIN fed' = 1 .. Len(fed) + 1 /\ fed'[Len(fed) + 1] = h
      /\ \A i \in 1 .. Len(fed) : fed'[i] = fed[i]
  BY <1>3
<1>5. filtered' \subseteq filtered \cup {h}
  <2>1. ASSUME NEW i \in 1 .. Len(fed) + 1 PROVE fed'[i] \in filtered \cup {h}
    <3>1. i \in 1 .. Len(fed) \/ i = Len(fed) + 1
      BY <1>4
    <3>2. QED
      BY <1>4, <3>1 DEF filtered, Range
  <2>2. QED
    BY <1>4, <2>1 DEF filtered, Range
<1>6. filtered \cup {h} \subseteq filtered'
  <2>1. ASSUME NEW i \in 1 .. Len(fed) PROVE fed[i] \in filtered'
    <3>1. i \in DOMAIN fed'
      BY <1>4
    <3>2. QED
      BY <1>4, <3>1 DEF filtered, Range
  <2>2. h \in filtered'
    <3>1. Len(fed) + 1 \in DOMAIN fed'
      BY <1>4
    <3>2. QED
      BY <1>4, <3>1 DEF filtered, Range
  <2>3. QED
    BY <1>4, <2>1, <2>2 DEF filtered, Range
<1>7. QED
  BY <1>2, <1>5, <1>6

\* The filtered block is the lowest one under way.
LEMMA AccountFilterBlock ==
  ASSUME TypeOK, Order, Account, FilterBlock
  PROVE  Account'
<1> DEFINE h == Head(blocks)
<1>1. h \in InFlight /\ InFlight' = InFlight \ {h} /\ Below({h}, InFlight')
  BY LowestLeaves, FilterBlockVars
<1>2. filtered' = filtered \cup {h} /\ UNCHANGED <<connected, requested>>
  BY FilteredGrows DEF FilterBlock, wireVars
<1>3. Lost' = Lost
  BY <1>1, <1>2 DEF Lost
<1>4. Below(filtered', InFlight')
  BY <1>1, <1>2 DEF Account, Below
<1>5. Below(filtered' \cup InFlight', Lost')
  BY <1>1, <1>2, <1>3 DEF Account, Below
<1>6. QED
  BY <1>1, <1>2, <1>3, <1>4, <1>5 DEF Account

\* What the connection takes with it is above all that is left.
LEMMA AccountDisconnect ==
  ASSUME TypeOK, Order, Account, Disconnect
  PROVE  Account'
<1>1. InFlight' \subseteq InFlight /\ Below(InFlight', InFlight \ InFlight')
  BY HighestAreLost
<1>2. connected /\ connected' = FALSE /\ UNCHANGED <<requested, filtered>>
  BY SameFiltered DEF Disconnect, dbVars
<1>3. Lost = {}
  BY <1>2 DEF Account
<1>4. Lost' \subseteq InFlight \ InFlight'
  BY <1>2, <1>3 DEF Lost
<1>5. Below(filtered' \cup InFlight', Lost')
  BY <1>1, <1>2, <1>4 DEF Account, Below
<1>6. QED
  BY <1>1, <1>2, <1>5 DEF Account, Below

\* The chain's due blocks and what is known stay so while the chain's times
\* and the history of requests do.
LEMMA SameDue ==
  ASSUME UNCHANGED <<nTime, startTime>>
  PROVE  \A h : Feed!Due(h)' <=> Feed!Due(h)
BY DEF Feed!Due

\* So does what is known.
LEMMA SameKnown ==
  ASSUME UNCHANGED <<nTime, startTime, requested>>
  PROVE  \A n : Known(n)' <=> Known(n)
BY SameDue DEF Known

\* No header is younger than a due one before it, so filter_heads accepts the
\* due ones: what it compares with is the last of them.
LEMMA AcceptedIsDue ==
  ASSUME TypeOK, LastBlock, NEW from \in 0 .. seenTip, NEW upTo \in from .. seenTip,
         filtered = {h \in 1 .. from : Feed!Due(h)}
  PROVE  Accepted(from + 1 .. upTo) = {h \in from + 1 .. upTo : Feed!Due(h)}
<1> DEFINE hs == from + 1 .. upTo
<1>1. /\ from \in Nat /\ upTo \in Nat /\ seenTip \in Nat /\ upTo <= MaxHeight
      /\ MaxHeight \in Nat /\ Times \subseteq Nat
  BY ChainAssumption DEF TypeOK
<1>2. /\ startTime \in Nat /\ last_block_time \in Nat
      /\ \A h \in 1 .. upTo : h \in Heights /\ nTime[h] \in Nat
  <2>1. startTime \in Times /\ last_block_time \in Times
        /\ \A h \in Heights : nTime[h] \in Times
    BY DEF TypeOK
  <2>2. \A h \in 1 .. upTo : h \in Heights
    BY <1>1 DEF Heights
  <2>3. QED
    BY <1>1, <2>1, <2>2
<1>3. last_block_time >= startTime
      /\ (last_block_hash \in filtered => last_block_time = nTime[last_block_hash])
  <2>1. CASE last_block_hash \in filtered
    <3>1. Feed!Due(last_block_hash) /\ last_block_hash \in 1 .. upTo
      BY <1>1, <2>1
    <3>2. last_block_time = nTime[last_block_hash]
      BY <2>1 DEF LastBlock
    <3>3. QED
      BY <1>2, <3>1, <3>2 DEF Feed!Due
  <2>2. CASE last_block_hash \notin filtered
    BY <1>2, <2>2 DEF LastBlock
  <2>3. QED
    BY <2>1, <2>2
<1>4. ASSUME NEW h \in hs, Feed!Due(h) PROVE h \in Accepted(hs)
  <2>1. h \in 1 .. upTo /\ \A g \in 1 .. h - 1 : nTime[g] <= nTime[h]
    BY <1>1, <1>4 DEF Feed!Due
  <2>2. nTime[h] >= startTime
    BY <1>4 DEF Feed!Due
  <2>3. nTime[h] >= last_block_time
    <3>1. CASE filtered = {}
      BY <1>2, <2>1, <2>2, <3>1 DEF LastBlock
    <3>2. CASE filtered # {}
      <4>1. last_block_hash \in filtered
        BY <3>2 DEF LastBlock
      <4>2. last_block_hash \in 1 .. h - 1
        BY <1>1, <4>1
      <4>3. QED
        BY <1>2, <1>3, <2>1, <4>1, <4>2
    <3>3. QED
      BY <3>1, <3>2
  <2>4. \A g \in hs : g < h => nTime[g] <= nTime[h]
    BY <1>1, <2>1
  <2>5. QED
    BY <2>3, <2>4 DEF Accepted
<1>5. ASSUME NEW h \in Accepted(hs) PROVE Feed!Due(h)
  <2>1. /\ h \in hs /\ nTime[h] >= last_block_time
        /\ \A g \in hs : g < h => nTime[g] <= nTime[h]
    BY DEF Accepted
  <2>2. h \in 1 .. upTo /\ nTime[h] >= startTime
    BY <1>1, <1>2, <1>3, <2>1
  <2>3. ASSUME NEW g \in 1 .. h - 1 PROVE nTime[g] <= nTime[h]
    <3>1. g \in 1 .. upTo /\ g \in Nat /\ g < h
      BY <1>1, <2>2
    <3>2. CASE g \in hs
      BY <2>1, <3>1, <3>2
    <3>3. CASE g \notin hs
      <4>1. g \in 1 .. from
        BY <1>1, <3>1, <3>3
      <4>2. CASE nTime[g] < startTime
        BY <1>2, <2>2, <3>1, <4>2
      <4>3. CASE nTime[g] >= startTime
        <5>1. PICK d \in 1 .. g : Feed!Due(d) /\ nTime[d] >= nTime[g]
          <6>1. g \in Heights /\ nTime \in [Heights -> Times] /\ startTime \in Times
            BY <1>2, <3>1 DEF TypeOK
          <6>2. QED
            BY <4>3, <6>1, DueBefore
        <5>2. d \in filtered
          BY <1>1, <4>1, <5>1
        <5>3. last_block_hash \in filtered /\ d <= last_block_hash
              /\ last_block_time = nTime[last_block_hash]
          BY <5>2 DEF LastBlock
        <5>4. last_block_hash \in 1 .. upTo /\ Feed!Due(last_block_hash)
          BY <1>1, <5>3
        <5>5. d \in 1 .. upTo
          BY <1>1, <3>1, <5>1
        <5>6. nTime[d] <= nTime[last_block_hash]
          <6>1. CASE d = last_block_hash
            BY <1>2, <5>5, <6>1
          <6>2. CASE d # last_block_hash
            <7>1. d \in 1 .. last_block_hash - 1
              BY <5>3, <5>4, <5>5, <6>2
            <7>2. QED
              BY <5>4, <7>1 DEF Feed!Due
          <6>3. QED
            BY <6>1, <6>2
        <5>7. QED
          BY <1>2, <2>1, <2>2, <3>1, <5>1, <5>3, <5>4, <5>5, <5>6
      <4>4. QED
        BY <1>2, <3>1, <4>2, <4>3
    <3>4. QED
      BY <3>2, <3>3
  <2>4. QED
    BY <2>2, <2>3 DEF Feed!Due
<1>6. Accepted(hs) \subseteq hs
  BY DEF Accepted
<1>7. QED
  BY <1>4, <1>5, <1>6

\* A list of headers filter_heads gets, and what it does to the history.
LEMMA FilterHeadsKnows ==
  ASSUME TypeOK, Phases, Account, LastBlock, FilterHeads,
         NEW from \in 0 .. tip, Exchange(from), Known(from)
  PROVE  \E upTo \in 0 .. seenTip :
           /\ Head(headers) = from + 1 .. upTo /\ from < upTo
           /\ requested = filtered /\ filtered \subseteq 1 .. from
           /\ Accepted(Head(headers)) \subseteq from + 1 .. upTo
           /\ requested' = {h \in 1 .. upTo : Feed!Due(h)}
           /\ requested' = {h \in 1 .. Locator(Head(headers)) : Feed!Due(h)}
           /\ Locator(Head(headers)) \in 0 .. tip
<1> DEFINE hs == Head(headers)
<1>1. netPc = "headers" /\ headers # <<>> /\ connected
  BY DEF FilterHeads
<1>2. Follow(hs, from) /\ filtered = requested
  BY <1>1, HeadersAlone, AllFiltered
<1>3. hs \in SUBSET Heights /\ hs # {}
  BY FilterHeadsMoves
<1>0. seenTip \in 0 .. tip /\ tip \in Nat /\ from \in Nat
  BY ChainAssumption DEF TypeOK
<1>40. requested = {h \in 1 .. from : Feed!Due(h)}
  BY DEF Known
<1>4. PICK upTo \in from .. seenTip : hs = from + 1 .. upTo
  BY <1>2 DEF Follow
<1>5. from \in Nat /\ upTo \in Nat /\ seenTip \in Nat /\ from < upTo
      /\ upTo \in from .. seenTip /\ upTo \in 0 .. seenTip
      /\ from \in 0 .. seenTip
  BY <1>0, <1>3, <1>4
<1>6. Accepted(hs) = {h \in from + 1 .. upTo : Feed!Due(h)}
  <2>1. filtered = {h \in 1 .. from : Feed!Due(h)}
    BY <1>2, <1>40
  <2>2. Accepted(from + 1 .. upTo) = {h \in from + 1 .. upTo : Feed!Due(h)}
    BY <1>5, <2>1, AcceptedIsDue
  <2>3. QED
    BY <1>4, <2>2
<1>7. requested' = {h \in 1 .. upTo : Feed!Due(h)}
  <2>1. requested' = requested \cup Accepted(hs)
    BY DEF FilterHeads
  <2>2. \A h : h \in 1 .. upTo <=> h \in 1 .. from \/ h \in from + 1 .. upTo
    BY <1>5
  <2>3. QED
    BY <1>40, <1>6, <2>1, <2>2
<1>8. Locator(hs) \in from + 1 .. upTo
      /\ \A h \in 1 .. upTo : Feed!Due(h) => h <= Locator(hs)
  <2>1. CASE Accepted(hs) = {}
    <3>1. Locator(hs) \in hs /\ \A y \in hs : Locator(hs) >= y
      BY <1>3, <2>1, MaxOf DEF Locator
    <3>2. upTo \in hs
      BY <1>4, <1>5
    <3>3. Locator(hs) = upTo
      BY <1>4, <1>5, <3>1, <3>2
    <3>4. QED
      BY <1>5, <3>3
  <2>2. CASE Accepted(hs) # {}
    <3>1. Locator(hs) \in Accepted(hs) /\ \A y \in Accepted(hs) : Locator(hs) >= y
      <4>1. Accepted(hs) \in SUBSET Heights
        BY <1>3 DEF Accepted
      <4>2. QED
        BY <2>2, <4>1, MaxOf DEF Locator
    <3>2. Locator(hs) \in from + 1 .. upTo
      BY <1>6, <3>1
    <3>3. ASSUME NEW h \in 1 .. upTo, Feed!Due(h) PROVE h <= Locator(hs)
      <4>1. CASE h \in from + 1 .. upTo
        BY <1>5, <1>6, <3>1, <3>2, <3>3, <4>1
      <4>2. CASE h \notin from + 1 .. upTo
        BY <1>5, <3>2, <4>2
      <4>3. QED
        BY <4>1, <4>2
    <3>4. QED
      BY <3>2, <3>3
  <2>3. QED
    BY <2>1, <2>2
<1>9. requested' = {h \in 1 .. Locator(hs) : Feed!Due(h)}
  BY <1>5, <1>7, <1>8
<1>10. Locator(hs) \in 0 .. tip
  BY <1>0, <1>5, <1>8
<1>11. QED
  BY <1>2, <1>4, <1>40, <1>5, <1>6, <1>7, <1>9, <1>10

\* The new batches lie above all that was filtered.
LEMMA AccountFilterHeads ==
  ASSUME TypeOK, Phases, Account, LastBlock, Token, FilterHeads
  PROVE  Account'
<1> DEFINE hs == Head(headers)
<1>0. PICK from \in 0 .. tip : Exchange(from) /\ Known(from)
  BY DEF Token
<1>1. PICK upTo \in 0 .. seenTip :
           /\ requested = filtered /\ filtered \subseteq 1 .. from
           /\ Accepted(hs) \subseteq from + 1 .. upTo
  BY <1>0, FilterHeadsKnows
<1>2. requested' = requested \cup Accepted(hs) /\ UNCHANGED filtered
  BY SameFiltered DEF FilterHeads, dbVars
<1>3. InFlight' = Accepted(hs)
  BY <1>0, AcceptedFollow
<1>4. Lost' = {}
  BY <1>1, <1>2, <1>3 DEF Lost
<1>5. Below(filtered', InFlight')
  <2>1. seenTip \in Nat /\ from \in Nat
    BY DEF TypeOK
  <2>2. QED
    BY <1>1, <1>2, <1>3, <2>1 DEF Below
<1>6. QED
  BY <1>1, <1>2, <1>3, <1>4, <1>5 DEF Account, Below

\* Every step keeps the account.
LEMMA AccountStep ==
  ASSUME TypeOK, Phases, Order, Account, LastBlock, Token, [Next]_vars
  PROVE  Account'
<1>1. ASSUME MoveOn PROVE Account'
  <2>1. UNCHANGED <<connected, requested, filtered>>
    <3>1. UNCHANGED <<connected, requested, fed>>
      BY <1>1 DEF MoveOn, Mine, Remote, AnswerHeaders, AnswerData, OnRecv,
        TakeBlocks, TakeHeaders, FilterHeadsThrows, FilterModalDone, wireVars, dbVars
    <3>2. QED
      BY <3>1, SameFiltered
  <2>2. QED
    BY <1>1, <2>1, InFlightStays, AccountStays
<1>2. ASSUME UNCHANGED vars PROVE Account'
  <2>1. UNCHANGED <<blocks, m_block_pool, inbox, requests, connected, requested,
                    filtered>>
    BY <1>2, SameFiltered DEF vars, wireVars, poolVars, modalVars, dbVars
  <2>2. QED
    BY <2>1, SameStages, AccountStays DEF Stages, InFlight
<1>3. QED
  BY <1>1, <1>2, AccountFilterBlock, AccountDisconnect, AccountFilterHeads
     DEF Next, Net, MoveOn

----------------------------------------------------------------------------
(* What is known, and the one headers exchange.                            *)

\* At every step the wallet's hash and time are those of one block.
LEMMA LastBlockStep ==
  ASSUME TypeOK, Order, Account, LastBlock, [Next]_vars
  PROVE  LastBlock'
<1>1. ASSUME UNCHANGED <<fed, last_block_hash, last_block_time, startTime, nTime>>
      PROVE  LastBlock'
  BY <1>1, SameFiltered DEF LastBlock
<1>2. ASSUME FilterBlock PROVE LastBlock'
  <2> DEFINE h == Head(blocks)
  <2>1. /\ last_block_time' = nTime'[h] /\ last_block_hash' = h
        /\ filtered' = filtered \cup {h}
    BY <1>2, FilteredGrows DEF FilterBlock, chainVars
  <2>2. h \in Taken
    BY <1>2, FilterBlockMoves, FilterBlockVars
  <2>3. h \in Heights /\ \A g \in filtered : g < h /\ g \in Heights
    BY <2>2 DEF Account, Below, InFlight, Taken, TypeOK
  <2>4. \A g \in filtered' : g <= last_block_hash'
    BY <2>1, <2>3 DEF Heights
  <2>5. QED
    BY <2>1, <2>4 DEF LastBlock
<1>3. QED
  BY <1>1, <1>2
     DEF Next, Mine, Remote, AnswerHeaders, AnswerData, Disconnect, Net, OnRecv,
         TakeBlocks, TakeHeaders, FilterHeads, FilterHeadsThrows, FilterModalDone,
         chainVars, dbVars, vars

\* A step that touches neither headers nor requests leaves the exchange where
\* it is.
LEMMA ExchangeStays ==
  ASSUME NEW from, Exchange(from),
         UNCHANGED <<seenTip, connected, requests, inbox, m_headers_pool, headers>>
  PROVE  Exchange(from)'
<1>1. HeadersGone(from) => HeadersGone(from)'
  BY DEF HeadersGone, NoHeaders
<1>2. HeadersAsked(from) => HeadersAsked(from)'
  BY DEF HeadersAsked
<1>3. HeadersOnWire(from) => HeadersOnWire(from)'
  BY DEF HeadersOnWire, Follow
<1>4. HeadersPooled(from) => HeadersPooled(from)'
  BY DEF HeadersPooled, Follow
<1>5. HeadersTaken(from) => HeadersTaken(from)'
  BY DEF HeadersTaken, Follow
<1>6. QED
  BY <1>1, <1>2, <1>3, <1>4, <1>5 DEF Exchange

\* The node answers with what follows.
LEMMA ExchangeAnswerHeaders ==
  ASSUME TypeOK, NEW from \in 0 .. tip, Exchange(from), AnswerHeaders
  PROVE  Exchange(from)'
<1>1. /\ requests \in Seq(Request) /\ requests # <<>> /\ Len(requests) \in Nat \ {0}
      /\ Head(requests) = requests[1] /\ requests[1].type = "getheaders"
  BY DEF TypeOK, AnswerHeaders
<1>2. HeadersAsked(from)
  BY <1>1 DEF Exchange, HeadersGone, NoHeaders, HeadersOnWire, HeadersPooled,
              HeadersTaken
<1>3. Len(requests) = 1
  <2>1. \A i \in 1 .. Len(requests) - 1 : requests[i].type = "getdata"
    BY <1>2 DEF HeadersAsked
  <2>2. SUFFICES ASSUME Len(requests) # 1 PROVE FALSE
    OBVIOUS
  <2>30. Len(requests) \in Nat \ {0}
    BY <1>1
  <2>3. \A n \in Nat \ {0} : n # 1 => 1 \in 1 .. n - 1
    OBVIOUS
  <2>4. 1 \in 1 .. Len(requests) - 1
    BY <2>2, <2>30, <2>3
  <2>5. QED
    BY <1>1, <2>1, <2>4
<1>4. from = requests[1].from
  BY <1>2, <1>3 DEF HeadersAsked
<1>40. PICK upTo :
         upTo = IF from + MaxHeaders < tip THEN from + MaxHeaders ELSE tip
  OBVIOUS
<1>41. PICK hs : hs = from + 1 .. upTo
  OBVIOUS
<1>5. inbox' = Append(inbox, Headers(hs)) /\ seenTip' = tip
  BY <1>1, <1>4, <1>40, <1>41 DEF AnswerHeaders
<1>6. requests' = <<>>
  BY <1>1, <1>3 DEF AnswerHeaders
<1>8. Follow(hs, from)'
  <2>1. /\ tip \in Nat /\ from \in 0 .. tip /\ MaxHeaders \in Nat \ {0}
    BY ChainAssumption DEF TypeOK
  <2>2. upTo \in from .. seenTip'
    BY <1>5, <1>40, <2>1
  <2>3. hs = {} => from = seenTip'
    <3>1. SUFFICES ASSUME from # tip PROVE from + 1 \in hs
      BY <1>5
    <3>2. QED
      BY <1>40, <1>41, <2>1, <3>1
  <2>4. QED
    BY <1>41, <2>2, <2>3 DEF Follow
<1>9. /\ inbox \in Seq(Message) /\ Len(inbox) \in Nat
      /\ Len(inbox') = Len(inbox) + 1
      /\ \A i \in 1 .. Len(inbox) : inbox'[i] = inbox[i]
      /\ inbox'[Len(inbox')] = Headers(hs)
  BY <1>5 DEF TypeOK
<1>10. \A i \in 1 .. Len(inbox') - 1 : inbox'[i].type = "block"
  BY <1>2, <1>9 DEF HeadersAsked
<1>11. headers' = <<>> /\ m_headers_pool' = <<>>
  BY <1>2 DEF HeadersAsked, AnswerHeaders, poolVars, modalVars
<1>12. inbox' # <<>>
  BY <1>9
<1>13. inbox'[Len(inbox')].type = "headers" /\ inbox'[Len(inbox')].hashs = hs
  BY <1>9, Made
<1>14. HeadersOnWire(from)'
  BY <1>6, <1>8, <1>10, <1>11, <1>12, <1>13 DEF HeadersOnWire
<1>15. QED
  BY <1>14 DEF Exchange

\* The request for headers stays the last one.
LEMMA ExchangeAnswerData ==
  ASSUME TypeOK, Order, NEW from, Exchange(from), AnswerData
  PROVE  Exchange(from)'
<1> DEFINE hs == Head(requests).hashs
           h == Min(hs)
<1>1. /\ requests \in Seq(Request) /\ requests # <<>> /\ Len(requests) \in Nat \ {0}
      /\ Head(requests) = requests[1] /\ requests[1].type = "getdata"
  BY DEF TypeOK, AnswerData
<1>2. HeadersGone(from) \/ HeadersAsked(from)
  BY <1>1 DEF Exchange, HeadersOnWire, HeadersPooled, HeadersTaken
<1>3. inbox' = Append(inbox, Block(h))
      /\ \/ requests' = Tail(requests)
         \/ /\ hs \ {h} \in (SUBSET Heights) \ {{}}
            /\ requests' = <<GetData(hs \ {h})>> \o Tail(requests)
  <2>1. hs \in SUBSET Heights
    BY AnswerDataMoves
  <2>2. QED
    BY <2>1 DEF AnswerData
<1>4. \A i \in 1 .. Len(inbox) : inbox[i].type = "block"
  BY <1>2 DEF HeadersGone, HeadersAsked, NoHeaders
<1>5. \A i \in 1 .. Len(inbox') : inbox'[i].type = "block"
  <2>1. inbox \in Seq(Message) /\ inbox' = Append(inbox, Block(h))
    BY <1>3 DEF TypeOK
  <2>2. Block(h).type = "block"
    BY Made
  <2>3. QED
    BY <1>4, <2>1, <2>2
<1>6. UNCHANGED <<seenTip, connected, headers, m_headers_pool>>
  BY DEF AnswerData, poolVars, modalVars
\* Where a request that stays was before.
<1>7. PICK k \in {0, 1} :
        /\ Len(requests') = Len(requests) - k /\ Len(requests') \in Nat
        /\ \A i \in 1 .. Len(requests') : requests'[i] = requests[i + k]
                                          \/ requests'[i].type = "getdata"
        /\ \A i \in 2 .. Len(requests') : requests'[i] = requests[i + k]
        /\ k = 1 => \A i \in 1 .. Len(requests') : requests'[i] = requests[i + k]
  <2>1. CASE requests' = Tail(requests)
    <3>1. /\ Len(requests') = Len(requests) - 1 /\ Len(requests') \in Nat
          /\ \A i \in 1 .. Len(requests') : requests'[i] = requests[i + 1]
      BY <1>1, <2>1
    <3>2. \A i \in 2 .. Len(requests') : i \in 1 .. Len(requests')
      BY <3>1
    <3>3. QED
      BY <3>1, <3>2
  <2>2. CASE /\ hs \ {h} \in (SUBSET Heights) \ {{}}
             /\ requests' = <<GetData(hs \ {h})>> \o Tail(requests)
    <3>1. GetData(hs \ {h}) \in Request
      BY <2>2, Made
    <3>2. /\ Len(requests') = Len(requests)
          /\ requests'[1] = GetData(hs \ {h})
          /\ \A i \in 2 .. Len(requests) : requests'[i] = requests[i]
      BY <1>1, <2>2, <3>1
    <3>3. requests'[1].type = "getdata"
      BY <3>2, Made
    <3>4. \A i \in 1 .. Len(requests') : i = 1 \/ i \in 2 .. Len(requests)
      BY <1>1, <3>2
    <3>5. \A i \in 2 .. Len(requests') : requests'[i] = requests[i + 0]
      BY <1>1, <3>2
    <3>6. \A i \in 1 .. Len(requests') : requests'[i] = requests[i + 0]
                                         \/ requests'[i].type = "getdata"
      BY <3>2, <3>3, <3>4, <3>5
    <3>7. QED
      BY <1>1, <3>2, <3>5, <3>6
  <2>3. QED
    BY <1>3, <2>1, <2>2
<1>8. CASE HeadersGone(from)
  <2>1. \A i \in 1 .. Len(requests') : requests'[i].type = "getdata"
    <3> TAKE i \in 1 .. Len(requests')
    <3>1. i + k \in 1 .. Len(requests)
      BY <1>1, <1>7
    <3>2. QED
      BY <1>7, <1>8, <3>1 DEF HeadersGone, NoHeaders
  <2>2. connected' => from = seenTip'
    BY <1>6, <1>8 DEF HeadersGone
  <2>3. headers' = <<>> /\ m_headers_pool' = <<>>
    BY <1>6, <1>8 DEF HeadersGone, NoHeaders
  <2>4. HeadersGone(from)'
    BY <1>5, <2>1, <2>2, <2>3 DEF HeadersGone, NoHeaders
  <2>5. QED
    BY <2>4 DEF Exchange
<1>9. CASE HeadersAsked(from)
  <2>0. PICK r : r = requests[Len(requests)]
    OBVIOUS
  <2>1. /\ headers' = <<>> /\ m_headers_pool' = <<>>
        /\ \A i \in 1 .. Len(requests) - 1 : requests[i].type = "getdata"
        /\ r.type = "getheaders" /\ r.from = from
    BY <1>6, <1>9, <2>0 DEF HeadersAsked
  <2>2. Len(requests) >= 2
    BY <1>1, <2>0, <2>1
  <2>3. requests'[Len(requests')] = r
    <3>1. CASE k = 1
      <4>1. Len(requests') \in 1 .. Len(requests')
        BY <1>7, <2>2, <3>1
      <4>2. QED
        BY <1>1, <1>7, <2>0, <3>1, <4>1
    <3>2. CASE k = 0
      <4>1. Len(requests') \in 2 .. Len(requests')
        BY <1>1, <1>7, <2>2, <3>2
      <4>2. requests'[Len(requests')] = requests[Len(requests') + k]
        BY <1>7, <4>1
      <4>3. Len(requests') + k = Len(requests)
        BY <1>1, <1>7, <3>2
      <4>4. QED
        BY <2>0, <4>2, <4>3
    <3>3. QED
      BY <3>1, <3>2
  <2>4. \A i \in 1 .. Len(requests') - 1 : requests'[i].type = "getdata"
    <3> TAKE i \in 1 .. Len(requests') - 1
    <3>1. i \in 1 .. Len(requests') /\ i + k \in 1 .. Len(requests) - 1
      BY <1>1, <1>7
    <3>2. QED
      BY <1>7, <2>1, <3>1
  <2>5. requests' # <<>>
    BY <1>7, <2>2
  <2>6. HeadersAsked(from)'
    BY <1>5, <2>1, <2>3, <2>4, <2>5 DEF HeadersAsked
  <2>7. QED
    BY <2>6 DEF Exchange
<1>10. QED
  BY <1>2, <1>8, <1>9

\* With the connection the exchange is over, unless the headers are here.
LEMMA ExchangeDisconnect ==
  ASSUME TypeOK, Order, NEW from, Exchange(from), Disconnect
  PROVE  Exchange(from)'
<1>1. /\ requests' = <<>> /\ connected' = FALSE
      /\ UNCHANGED <<seenTip, headers, m_headers_pool>>
  BY DEF Disconnect, poolVars, modalVars
<1>2. /\ Len(inbox') <= Len(inbox) /\ Len(inbox) \in Nat /\ Len(inbox') \in Nat
      /\ inbox' \in Seq(Message)
      /\ \A i \in 1 .. Len(inbox') : inbox'[i] = inbox[i] /\ i \in 1 .. Len(inbox)
  <2>1. inbox \in Seq(Message) /\ inbox' \in Seq(Message)
    BY DEF Disconnect, TypeOK
  <2>2. QED
    BY <2>1, DisconnectMoves
<1>3. ASSUME \A i \in 1 .. Len(inbox') : inbox[i].type = "block",
             headers = <<>>, m_headers_pool = <<>>
      PROVE  Exchange(from)'
  <2>1. HeadersGone(from)'
    BY <1>1, <1>2, <1>3 DEF HeadersGone, NoHeaders
  <2>2. QED
    BY <2>1 DEF Exchange
<1>4. CASE HeadersGone(from) \/ HeadersAsked(from)
  BY <1>2, <1>3, <1>4 DEF HeadersGone, HeadersAsked, NoHeaders
<1>5. CASE HeadersOnWire(from)
  <2>1. CASE Len(inbox') = Len(inbox)
    <3>1. inbox' = inbox
      <4>1. inbox \in Seq(Message)
        BY DEF TypeOK
      <4>2. inbox' \in [1 .. Len(inbox) -> Message]
        BY <1>2, <2>1
      <4>3. inbox \in [1 .. Len(inbox) -> Message]
        BY <4>1
      <4>4. \A i \in 1 .. Len(inbox) : inbox'[i] = inbox[i]
        BY <1>2, <2>1
      <4>5. QED
        BY <4>2, <4>3, <4>4
    <3>2. requests = <<>>
      BY <1>5 DEF HeadersOnWire
    <3>3. HeadersOnWire(from)'
      BY <1>1, <1>5, <3>1, <3>2 DEF HeadersOnWire, Follow
    <3>4. QED
      BY <3>3 DEF Exchange
  <2>2. CASE Len(inbox') < Len(inbox)
    <3>1. \A i \in 1 .. Len(inbox') : i \in 1 .. Len(inbox) - 1
      BY <1>2, <2>2
    <3>2. QED
      BY <1>3, <1>5, <3>1 DEF HeadersOnWire
  <2>3. QED
    BY <1>2, <2>1, <2>2
<1>6. CASE HeadersPooled(from) \/ HeadersTaken(from)
  <2>1. inbox = <<>> /\ requests = <<>>
    BY <1>6 DEF HeadersPooled, HeadersTaken
  <2>2. inbox' = <<>>
    BY <1>2, <2>1
  <2>3. HeadersPooled(from) => HeadersPooled(from)'
    BY <1>1, <2>1, <2>2 DEF HeadersPooled, Follow
  <2>4. HeadersTaken(from) => HeadersTaken(from)'
    BY <1>1, <2>1, <2>2 DEF HeadersTaken, Follow
  <2>5. QED
    BY <1>6, <2>3, <2>4 DEF Exchange
<1>7. QED
  BY <1>4, <1>5, <1>6 DEF Exchange

\* The headers come last, and empty ones end the exchange: the node has no more.
LEMMA ExchangeOnRecv ==
  ASSUME TypeOK, NEW from, Exchange(from), OnRecv
  PROVE  Exchange(from)'
<1>1. /\ inbox \in Seq(Message) /\ inbox # <<>> /\ Head(inbox) = inbox[1]
      /\ Len(inbox) \in Nat \ {0} /\ inbox[1] \in Message
      /\ Len(inbox') = Len(inbox) - 1
      /\ \A i \in 1 .. Len(inbox') : inbox'[i] = inbox[i + 1]
  BY DEF TypeOK, OnRecv
<1>2. UNCHANGED <<seenTip, connected, requests, headers>>
  BY DEF OnRecv, modalVars
<1>3. HeadersGone(from) \/ HeadersAsked(from) \/ HeadersOnWire(from)
  BY <1>1 DEF Exchange, HeadersPooled, HeadersTaken
<1>4. CASE \A i \in 1 .. Len(inbox) : inbox[i].type = "block"
  <2>1. \A i \in 1 .. Len(inbox') : inbox'[i].type = "block"
    <3> TAKE i \in 1 .. Len(inbox')
    <3>1. i + 1 \in 1 .. Len(inbox)
      BY <1>1
    <3>2. QED
      BY <1>1, <1>4, <3>1
  <2>2. UNCHANGED m_headers_pool
    <3>1. Head(inbox).type = "block"
      BY <1>1, <1>4
    <3>2. QED
      BY <3>1 DEF OnRecv
  <2>3. ~HeadersOnWire(from)
    <3>1. Len(inbox) \in 1 .. Len(inbox)
      BY <1>1
    <3>2. inbox[Len(inbox)].type = "block"
      BY <1>4, <3>1
    <3>3. QED
      BY <3>2 DEF HeadersOnWire
  <2>4. HeadersGone(from) => HeadersGone(from)'
    BY <1>2, <2>1, <2>2 DEF HeadersGone, NoHeaders
  <2>5. HeadersAsked(from) => HeadersAsked(from)'
    BY <1>2, <2>1, <2>2 DEF HeadersAsked
  <2>6. QED
    BY <1>3, <2>3, <2>4, <2>5 DEF Exchange
<1>5. CASE HeadersOnWire(from) /\ Len(inbox) # 1
  <2>1. 1 \in 1 .. Len(inbox) - 1
    BY <1>1, <1>5
  <2>2. inbox[1].type = "block"
    BY <1>5, <2>1 DEF HeadersOnWire
  <2>3. UNCHANGED m_headers_pool
    BY <1>1, <2>2 DEF OnRecv
  <2>4. \A i \in 1 .. Len(inbox') - 1 : inbox'[i].type = "block"
    <3> TAKE i \in 1 .. Len(inbox') - 1
    <3>1. i + 1 \in 1 .. Len(inbox) - 1 /\ i \in 1 .. Len(inbox')
      BY <1>1
    <3>2. QED
      BY <1>1, <1>5, <3>1 DEF HeadersOnWire
  <2>5. Len(inbox') \in 1 .. Len(inbox') /\ Len(inbox') + 1 = Len(inbox)
    BY <1>1, <1>5
  <2>6. inbox'[Len(inbox')] = inbox[Len(inbox)] /\ inbox' # <<>>
    BY <1>1, <2>5
  <2>7. HeadersOnWire(from)'
    BY <1>2, <1>5, <2>3, <2>4, <2>6 DEF HeadersOnWire, Follow
  <2>8. QED
    BY <2>7 DEF Exchange
<1>6. CASE HeadersOnWire(from) /\ Len(inbox) = 1
  <2>0. PICK hs : hs = inbox[1].hashs
    OBVIOUS
  <2>1. /\ inbox[1].type = "headers" /\ Follow(hs, from)
        /\ requests = <<>> /\ headers = <<>> /\ m_headers_pool = <<>>
    BY <1>6, <2>0 DEF HeadersOnWire
  <2>2. inbox' = <<>>
    BY <1>1, <1>6 DEF OnRecv
  <2>3. CASE hs = {}
    <3>1. UNCHANGED m_headers_pool
      BY <1>1, <2>0, <2>3 DEF OnRecv
    <3>2. from = seenTip
      BY <2>1, <2>3 DEF Follow
    <3>3. HeadersGone(from)'
      BY <1>2, <2>1, <2>2, <3>1, <3>2 DEF HeadersGone, NoHeaders
    <3>4. QED
      BY <3>3 DEF Exchange
  <2>4. CASE hs # {}
    <3>1. m_headers_pool' = <<hs>>
      BY <1>1, <2>0, <2>1, <2>4 DEF OnRecv
    <3>2. Follow(hs, from)'
      BY <1>2, <2>1 DEF Follow
    <3>3. m_headers_pool'[1] = hs /\ Len(m_headers_pool') = 1
      BY <3>1
    <3>4. HeadersPooled(from)'
      BY <1>2, <2>1, <2>2, <3>2, <3>3 DEF HeadersPooled, Follow
    <3>5. QED
      BY <3>4 DEF Exchange
  <2>5. QED
    BY <2>3, <2>4
<1>7. QED
  BY <1>3, <1>4, <1>5, <1>6 DEF HeadersGone, HeadersAsked, NoHeaders

\* filter_modal takes them.
LEMMA ExchangeTakeHeaders ==
  ASSUME TypeOK, Phases, NEW from, Exchange(from), TakeHeaders
  PROVE  Exchange(from)'
<1>1. /\ headers' = m_headers_pool /\ m_headers_pool' = <<>> /\ netPc = "blocks"
      /\ UNCHANGED <<seenTip, connected, requests, inbox>>
  BY DEF TakeHeaders, wireVars
<1>2. ~HeadersTaken(from)
  BY <1>1 DEF HeadersTaken, Phases
<1>3. HeadersGone(from) => HeadersGone(from)'
  BY <1>1 DEF HeadersGone, NoHeaders
<1>4. HeadersAsked(from) => HeadersAsked(from)'
  BY <1>1 DEF HeadersAsked
<1>5. HeadersOnWire(from) => HeadersOnWire(from)'
  BY <1>1 DEF HeadersOnWire, Follow
<1>6. HeadersPooled(from) => HeadersTaken(from)'
  BY <1>1 DEF HeadersPooled, HeadersTaken, Follow
<1>7. QED
  BY <1>2, <1>3, <1>4, <1>5, <1>6 DEF Exchange

\* A send on the lost connection ends it.
LEMMA ExchangeThrows ==
  ASSUME TypeOK, Phases, NEW from, Exchange(from), FilterHeadsThrows
  PROVE  Exchange(from)'
<1>1. /\ netPc = "headers" /\ headers # <<>> /\ ~connected /\ headers' = <<>>
      /\ UNCHANGED <<connected, requests, inbox, m_headers_pool>>
  BY DEF FilterHeadsThrows, wireVars, poolVars
<1>2. requests = <<>> /\ inbox = <<>> /\ m_headers_pool = <<>>
  BY <1>1, HeadersAlone
<1>3. HeadersGone(from)'
  BY <1>1, <1>2 DEF HeadersGone, NoHeaders
<1>4. QED
  BY <1>3 DEF Exchange

\* Every step but those of the two handlers is about the same block.
LEMMA ExchangeMoves ==
  ASSUME TypeOK, Phases, Order, NEW from \in 0 .. tip, Exchange(from),
         MoveOn \/ Disconnect
  PROVE  Exchange(from)'
BY ExchangeStays, ExchangeAnswerHeaders, ExchangeAnswerData, ExchangeDisconnect,
   ExchangeOnRecv, ExchangeTakeHeaders, ExchangeThrows
   DEF MoveOn, Mine, Remote, TakeBlocks, FilterModalDone, wireVars, poolVars,
       modalVars

\* filter_heads asks for what follows its locator.
LEMMA ExchangeFilterHeads ==
  ASSUME TypeOK, Phases, NEW from, Exchange(from), FilterHeads,
         NEW loc, loc = Locator(Head(headers))
  PROVE  Exchange(loc)'
<1>0. PICK hs : hs = Head(headers)
  OBVIOUS
<1>1. netPc = "headers" /\ headers # <<>>
      /\ UNCHANGED <<inbox, m_headers_pool>>
  BY DEF FilterHeads, poolVars
<1>2. /\ requests = <<>> /\ inbox = <<>> /\ m_headers_pool = <<>>
      /\ Len(headers) = 1
  BY <1>1, HeadersAlone
<1>3. headers' = <<>>
  BY <1>2 DEF FilterHeads, TypeOK
<1>4. PICK ds :
        /\ Len(ds) \in Nat /\ \A i \in 1 .. Len(ds) : ds[i].type = "getdata"
        /\ Len(requests') = Len(ds) + 1
        /\ \A i \in 1 .. Len(ds) : requests'[i] = ds[i]
        /\ requests'[Len(requests')] = GetHeaders(loc)
  <2> DEFINE ds == DownloadBlocks(Accepted(hs))
  <2>1. /\ Accepted(hs) \in SUBSET Heights /\ Len(ds) \in Nat
        /\ Len(requests') = Len(requests) + Len(ds) + 1
        /\ \A i \in 1 .. Len(ds) : requests'[Len(requests) + i] = ds[i]
        /\ requests'[Len(requests')] = GetHeaders(Locator(hs))
    BY <1>0, FilterHeadsMoves
  <2>2. \A i \in 1 .. Len(ds) : ds[i].type = "getdata"
    BY <2>1, BatchesCover
  <2>3. Len(requests) = 0
    BY <1>2
  <2>4. /\ Len(requests') = Len(ds) + 1
        /\ \A i \in 1 .. Len(ds) : requests'[i] = ds[i]
        /\ requests'[Len(requests')] = GetHeaders(loc)
    BY <1>0, <2>1, <2>3
  <2> HIDE DEF ds
  <2>5. QED
    BY <2>1, <2>2, <2>4
<1>7. requests'[Len(requests')].type = "getheaders"
      /\ requests'[Len(requests')].from = loc
  BY <1>4, Made
<1>8. \A i \in 1 .. Len(requests') - 1 : requests'[i].type = "getdata"
  BY <1>4
<1>9. requests' # <<>>
  BY <1>4
<1>10. \A i \in 1 .. Len(inbox') : inbox'[i].type = "block"
  BY <1>1, <1>2
<1>11. m_headers_pool' = <<>>
  BY <1>1, <1>2
<1>12. HeadersAsked(loc)'
  BY <1>3, <1>7, <1>8, <1>9, <1>10, <1>11 DEF HeadersAsked
<1>13. QED
  BY <1>12 DEF Exchange

\* Every step keeps what is known and the exchange together.
LEMMA TokenStep ==
  ASSUME TypeOK, Phases, Order, Account, LastBlock, Token, [Next]_vars
  PROVE  Token'
<1>1. PICK from \in 0 .. tip : Exchange(from) /\ Known(from)
  BY DEF Token
<1>2. UNCHANGED <<nTime, startTime>>
  BY DEF Next, Mine, Remote, AnswerHeaders, AnswerData, Disconnect, Net, OnRecv,
         TakeBlocks, FilterBlock, TakeHeaders, FilterHeads, FilterHeadsThrows,
         FilterModalDone, chainVars, vars
<1>3. tip' \in Nat /\ tip <= tip' /\ tip \in Nat
  <2>1. tip \in Nat
    BY ChainAssumption DEF TypeOK
  <2>2. tip' = tip \/ tip' = tip + 1
    BY DEF Next, Mine, Remote, AnswerHeaders, AnswerData, Disconnect, Net, OnRecv,
           TakeBlocks, FilterBlock, TakeHeaders, FilterHeads, FilterHeadsThrows,
           FilterModalDone, chainVars, vars
  <2>3. QED
    BY <2>1, <2>2
<1>4. ASSUME Exchange(from)', UNCHANGED requested PROVE Token'
  <2>1. Known(from)'
    BY <1>1, <1>2, <1>4, SameKnown
  <2>2. from \in 0 .. tip'
    BY <1>3
  <2>3. QED
    BY <1>4, <2>1, <2>2 DEF Token
<1>5. ASSUME MoveOn \/ Disconnect PROVE Token'
  <2>1. UNCHANGED requested
    BY <1>5 DEF MoveOn, Mine, Remote, AnswerHeaders, AnswerData, Disconnect, OnRecv,
      TakeBlocks, TakeHeaders, FilterHeadsThrows, FilterModalDone, wireVars
  <2>2. QED
    BY <1>1, <1>4, <1>5, <2>1, ExchangeMoves
<1>6. ASSUME FilterBlock \/ UNCHANGED vars PROVE Token'
  <2>1. UNCHANGED <<requested, seenTip, connected, requests, inbox, m_headers_pool,
                    headers>>
    BY <1>6 DEF FilterBlock, vars, wireVars, poolVars, modalVars
  <2>2. QED
    BY <1>1, <1>4, <2>1, ExchangeStays
<1>7. ASSUME FilterHeads PROVE Token'
  <2>1. PICK loc : loc = Locator(Head(headers))
    OBVIOUS
  <2>2. requested' = {h \in 1 .. loc : Feed!Due(h)} /\ loc \in 0 .. tip
    BY <1>1, <1>7, <2>1, FilterHeadsKnows
  <2>3. Known(loc)'
    <3>1. requested' = {h \in 1 .. loc : Feed!Due(h)'}
      BY <1>2, <2>2, SameDue
    <3>2. QED
      BY <3>1 DEF Known
  <2>4. Exchange(loc)'
    BY <1>1, <1>7, <2>1, ExchangeFilterHeads
  <2>5. loc \in 0 .. tip'
    BY <1>3, <2>2
  <2>6. QED
    BY <2>3, <2>4, <2>5 DEF Token
<1>8. QED
  BY <1>5, <1>6, <1>7 DEF Next, Net, MoveOn

----------------------------------------------------------------------------
(* The theorems.                                                           *)

\* peer_start establishes the invariant.
LEMMA IInvInit == Init => IInv
<1> SUFFICES ASSUME Init PROVE IInv
  OBVIOUS
<1>1. /\ requests = <<GetHeaders(0)>> /\ inbox = <<>> /\ blocks = <<>>
      /\ m_block_pool = <<>> /\ m_headers_pool = <<>> /\ headers = <<>>
      /\ netPc = "poll" /\ connected = TRUE /\ fed = <<>> /\ requested = {}
      /\ seenTip = 0 /\ last_block_hash = 0 /\ last_block_time = startTime
      /\ tip \in 0 .. MaxHeight /\ MaxHeight \in Nat
  BY ChainAssumption DEF Init
<1>20. filtered = {}
  BY <1>1 DEF filtered, Range
<1>2. GetHeaders(0) \in Request
  BY <1>1, Made
<1>3. TypeOK
  BY <1>1, <1>2 DEF Init, TypeOK
<1>4. Phases /\ LastBlock
  BY <1>1, <1>20 DEF Phases, LastBlock
<1>5. Taken = {} /\ Pooled = {} /\ OnWire = {} /\ Asked = {}
  <2>1. \A i \in 1 .. Len(requests) : requests[i].type # "getdata"
    BY <1>1, Made
  <2>2. QED
    BY <1>1, <2>1 DEF Taken, Pooled, OnWire, Asked
<1>6. Order
  BY <1>1, <1>5 DEF Order, Below, Increasing
<1>7. Account
  BY <1>1, <1>20, <1>5 DEF Account, Below, InFlight, Lost
<1>8. Known(0)
  BY <1>1 DEF Known
<1>9. HeadersAsked(0)
  BY <1>1, Made DEF HeadersAsked
<1>10. 0 \in 0 .. tip
  BY <1>1
<1>11. QED
  BY <1>3, <1>4, <1>6, <1>7, <1>8, <1>9, <1>10 DEF IInv, Token, Exchange

\* Every step keeps it.
LEMMA IInvStep == IInv /\ [Next]_vars => IInv'
<1> SUFFICES ASSUME IInv, [Next]_vars PROVE IInv'
  OBVIOUS
<1>1. TypeOK'
  BY TypeStep DEF IInv
<1>2. Phases' /\ Order' /\ Account' /\ LastBlock' /\ Token'
  BY PhasesStep, OrderStep, AccountStep, LastBlockStep, TokenStep DEF IInv
<1>3. QED
  BY <1>1, <1>2 DEF IInv

\* So it holds throughout a session.
LEMMA IInvHolds == Spec => []IInv
BY IInvInit, IInvStep, PTL DEF Spec

\* The types: every list of headers that reaches filter_heads has a header, so
\* that rbegin() is defined, and the wallet never holds a hash the node does not
\* have.
THEOREM Typing == Spec => []TypeOK
<1>1. IInv => TypeOK
  BY DEF IInv
<1>2. QED
  BY <1>1, IInvHolds, PTL

\* When filter_heads compares times, every block asked for before has been
\* filtered (HeadersAfterBlocks): filter_modal takes the blocks first and the
\* next headers are asked for last.
THEOREM HeadersWait == Spec => []HeadersAfterBlocks
<1>1. IInv => HeadersAfterBlocks
  BY HeadersAlone, AllFiltered DEF IInv, Token, HeadersAfterBlocks
<1>2. QED
  BY <1>1, IInvHolds, PTL

\* A session at rest on a live connection has filtered every due block of the
\* chain the last headers reply saw (QuietIsComplete), whatever the sizes of the
\* replies and batches.
THEOREM NothingMissed == Spec => []QuietIsComplete
<1>1. IInv => QuietIsComplete
  <2> SUFFICES ASSUME IInv, Quiet, connected
               PROVE  filtered = {h \in 1 .. seenTip : Feed!Due(h)}
    BY DEF QuietIsComplete
  <2>1. /\ requests = <<>> /\ inbox = <<>> /\ m_block_pool = <<>>
        /\ m_headers_pool = <<>> /\ blocks = <<>> /\ headers = <<>>
    BY DEF IInv, Quiet, Phases
  <2>2. InFlight = {}
    BY <2>1 DEF InFlight, Taken, Pooled, OnWire, Asked
  <2>3. filtered = requested
    BY <2>2 DEF IInv, Account, Lost
  <2>4. Known(seenTip)
    BY <2>1 DEF IInv, Token, Exchange, HeadersGone, HeadersAsked, HeadersOnWire,
               HeadersPooled, HeadersTaken
  <2>5. QED
    BY <2>3, <2>4 DEF Known
<1>2. QED
  BY <1>1, IInvHolds, PTL

\* Every step feeds the wallet the next due block, or is not seen by it.
LEMMA FeedStep ==
  ASSUME IInv, [Next]_vars
  PROVE  [Feed!Next]_(Feed!vars)
<1>1. ASSUME UNCHANGED <<nTime, startTime, tip, fed>>
      PROVE  [Feed!Next]_(Feed!vars)
  BY <1>1 DEF Feed!vars
<1>2. ASSUME Mine PROVE Feed!Next
  BY <1>2 DEF Mine, dbVars, Feed!Next, Feed!Mine
<1>3. ASSUME FilterBlock PROVE Feed!Next
  <2>0. PICK h : h = Head(blocks)
    OBVIOUS
  <2>1. /\ fed' = Append(fed, h)
        /\ UNCHANGED <<nTime, startTime, tip>>
    BY <1>3, <2>0 DEF FilterBlock, chainVars
  <2>2. h \in InFlight /\ InFlight' = InFlight \ {h} /\ Below({h}, InFlight')
    BY <1>3, <2>0, LowestLeaves, FilterBlockVars DEF IInv
  <2>3. h \in requested
    BY <2>2 DEF IInv, Account
  <2>4. \A g \in InFlight : g = h \/ h < g
    BY <2>2 DEF Below
  <2>5. PICK n \in 0 .. tip : requested = {g \in 1 .. n : Feed!Due(g)}
    BY DEF IInv, Token, Known
  <2>6. tip \in Nat
    BY ChainAssumption DEF IInv, TypeOK
  <2>7. h \in 1 .. n /\ h \in 1 .. tip /\ Feed!Due(h)
    BY <2>3, <2>5, <2>6
  <2>8. \A g \in filtered : g < h
    BY <2>2 DEF IInv, Account, Below
  <2>9. ASSUME NEW g \in 1 .. h - 1, Feed!Due(g) PROVE g \in filtered
    <3>1. g \in 1 .. n /\ g \in Nat /\ g < h
      BY <2>6, <2>7
    <3>2. g \in requested
      BY <2>5, <2>9, <3>1
    <3>3. g \notin InFlight
      BY <2>4, <2>7, <3>1
    <3>4. g \notin Lost
      <4>1. SUFFICES ASSUME g \in Lost PROVE FALSE
        OBVIOUS
      <4>2. h < g
        BY <2>2, <4>1 DEF IInv, Account, Below
      <4>3. QED
        BY <2>7, <3>1, <4>2
    <3>5. QED
      BY <3>2, <3>3, <3>4 DEF Lost
  <2>10. Feed!Feed
    <3>1. Feed!Range(fed) = filtered
      BY DEF filtered, Range, Feed!Range
    <3>2. QED
      BY <2>1, <2>7, <2>8, <2>9, <3>1 DEF Feed!Feed
  <2>11. QED
    BY <2>10 DEF Feed!Next
<1>4. QED
  BY <1>1, <1>2, <1>3
     DEF Next, Remote, AnswerHeaders, AnswerData, Disconnect, Net, OnRecv,
         TakeBlocks, TakeHeaders, FilterHeads, FilterHeadsThrows, FilterModalDone,
         chainVars, dbVars, vars

\* The session implements BlockFeed (FeedsTheChain): the calls of filter_block are
\* the due blocks in chain order, each once (a second call with a block would be
\* a step BlockFeed does not have), none left out.
THEOREM Feeds == Spec => FeedsTheChain
<1>1. Init => Feed!Init
  BY DEF Init, Heights, Feed!Init, Feed!Heights
<1>2. IInv /\ [Next]_vars => [Feed!Next]_(Feed!vars)
  BY FeedStep
<1>3. QED
  BY <1>1, <1>2, IInvHolds, PTL DEF Spec, FeedsTheChain, Feed!Spec

==============================================================================
