---------------------------- MODULE LedgerProofs ----------------------------
(***************************************************************************)
(* Proofs about Ledger, for every chain: any number of transactions in any *)
(* blocks, with any outputs and inputs, any set of watched addresses, and  *)
(* any number of restarts.                                                 *)
(***************************************************************************)
EXTENDS Ledger, NatLemmas

----------------------------------------------------------------------------
(* The inductive invariant.                                                *)

Exact == IF runs = 1 THEN PlainWallet ELSE UnlinkedWallet

\* An input spends an earlier transaction, and blocks follow each other.
Chain ==
  /\ pays \in [Tx -> [Out -> Watched \cup {Nobody}]]
  /\ vin \in [Tx -> SUBSET Outpoint] /\ blockOf \in [Tx -> Tx]
  /\ \A t \in Tx : \A o \in vin[t] : o.hash < t
  /\ \A s, t \in Tx : s <= t => blockOf[s] <= blockOf[t]

\* What is before netTx is what is in the blocks so far.
Place ==
  /\ \A t \in Tx : /\ blockOf[t] < netBlock => t < netTx
                   /\ t < netTx => blockOf[t] <= netBlock
  /\ Len(save_blk) < netTx

IsSaved(t) == \E i \in 1 .. Len(save_blk) : save_blk[i] = t
IsKept(t) == t \in Kept(blocks) \/ IsSaved(t)

\* The blocks kept hold transactions of theirs, and so does the one in work.
BlocksInv ==
  /\ \A h \in DOMAIN blocks :
       /\ h < netBlock /\ Len(blocks[h]) \in 1 .. NTx
       /\ \A i \in 1 .. Len(blocks[h]) : blockOf[blocks[h][i]] = h
  /\ \A i \in 1 .. Len(save_blk) : /\ blockOf[save_blk[i]] = netBlock
                                   /\ save_blk[i] < netTx

\* No transaction that pays the wallet is left out, and, where the books are
\* right, none that spends from it; no other is kept.
KeptInv ==
  /\ \A t \in Tx : t < netTx /\ WatchedOuts(t) # {} => IsKept(t)
  /\ \A t \in Tx : IsKept(t) => WatchedOuts(t) # {} \/ SpendsWallet(t)
  /\ Exact => \A t \in Tx : t < netTx /\ SpendsWallet(t) => IsKept(t)

\* load_tx_map stands at a transaction of a block; it comes after a restart.
LoadInv ==
  /\ Loaded => unread = {}
  /\ ~Loaded => /\ bit \in DOMAIN blocks \ unread /\ unread \subseteq DOMAIN blocks
                /\ tit \in 1 .. Len(blocks[bit]) /\ save_blk = <<>> /\ runs # 1

\* The place of a transaction whose entry is written.
Read(h, i) ==
  h \in DOMAIN blocks \ unread /\ i \in 1 .. Len(blocks[h]) /\ (h = bit => i < tit)

\* Each is indexed, each entry leads to its transaction, and an out_index is
\* that of a watched output: where the books are right, of the only one.
IndexInv ==
  /\ \A h \in DOMAIN blocks : \A i \in 1 .. Len(blocks[h]) :
       Read(h, i) => blocks[h][i] \in DOMAIN m_TxMap
  /\ \A i \in 1 .. Len(save_blk) : save_blk[i] \in DOMAIN m_TxMap
  /\ \A t \in DOMAIN m_TxMap :
       LET e == m_TxMap[t]
       IN  /\ \/ Read(e.block_hash, e.tx_index + 1)
                   /\ blocks[e.block_hash][e.tx_index + 1] = t
              \/ /\ e.block_hash = netBlock /\ e.tx_index + 1 \in 1 .. Len(save_blk)
                 /\ save_blk[e.tx_index + 1] = t
           /\ e.out_index \in WatchedOuts(t) \cup {-1}
           /\ Exact /\ WatchedOuts(t) # {} => e.out_index = FirstWatched(t)

\* The copied blocks are those up to the height they were copied at.
UiInv == uiPc = "txmap" =>
  /\ uiAddr \in Watched /\ uiHeight < netBlock
  /\ DOMAIN uiBlocks = {h \in DOMAIN blocks : h <= uiHeight}
  /\ \A h \in DOMAIN uiBlocks : uiBlocks[h] = blocks[h]

IInv == /\ TypeOK /\ Chain /\ Place /\ BlocksInv /\ KeptInv /\ LoadInv /\ IndexInv
        /\ UiInv /\ NeverTooLow /\ PlainWalletsExact

----------------------------------------------------------------------------
(* The operators.                                                          *)

\* An std::map after insert.
LEMMA Inserted ==
  ASSUME NEW map, NEW key, NEW value
  PROVE  /\ DOMAIN Insert(map, key, value) = DOMAIN map \cup {key}
         /\ \A k \in DOMAIN map : Insert(map, key, value)[k] = map[k]
         /\ key \notin DOMAIN map => Insert(map, key, value)[key] = value
  BY DEF Insert

\* The first of a transaction's outputs that pay the wallet, if there is one.
LEMMA FirstWatchedIs ==
  ASSUME NEW t \in Tx
  PROVE  /\ WatchedOuts(t) \subseteq Out /\ Out \subseteq Nat
         /\ WatchedOuts(t) = {} => FirstWatched(t) = -1
         /\ WatchedOuts(t) # {} => FirstWatched(t) \in WatchedOuts(t)
         /\ FirstWatched(t) \in -1 .. NOut - 1
<1>1. WatchedOuts(t) \subseteq Out /\ Out \subseteq Nat
  BY LedgerAssumption DEF WatchedOuts, Out
<1>2. WatchedOuts(t) # {} => FirstWatched(t) \in WatchedOuts(t)
  BY <1>1, MinIs DEF FirstWatched
<1>3. WatchedOuts(t) = {} => FirstWatched(t) = -1
  BY DEF FirstWatched
<1>4. FirstWatched(t) \in -1 .. NOut - 1
  BY <1>1, <1>2, <1>3, LedgerAssumption DEF Out
<1>5. QED
  BY <1>1, <1>2, <1>3, <1>4

\* What is appended comes behind what is there.
LEMMA AppendedTx ==
  ASSUME NEW s \in Seq(Tx), NEW t \in Tx
  PROVE  /\ Append(s, t) \in Seq(Tx)
         /\ Len(s) \in Nat /\ Len(Append(s, t)) = Len(s) + 1
         /\ \A i \in 1 .. Len(s) : Append(s, t)[i] = s[i]
         /\ Append(s, t)[Len(s) + 1] = t
  OBVIOUS

\* An output that pays the wallet, seen from it and from its spender.
LEMMA WatchedSpent ==
  ASSUME Chain, NEW t \in Tx, NEW o \in vin[t]
  PROVE  /\ o \in Outpoint /\ o.hash \in Tx /\ o.n \in Out /\ o.hash < t
         /\ o.n \in WatchedOuts(o.hash) <=> pays[o.hash][o.n] \in Watched
         /\ o.n \in WatchedOuts(o.hash) => SpendsWallet(t)
<1>1. o \in Outpoint /\ o.hash \in Tx /\ o.n \in Out /\ o.hash < t
  BY DEF Chain, Outpoint
<1>2. QED
  BY <1>1 DEF WatchedOuts, SpendsWallet

\* Where the books are right, a transaction that pays the wallet has one
\* watched output and spends none.
LEMMA PlainTx ==
  ASSUME Exact, NEW t \in Tx, WatchedOuts(t) # {}
  PROVE  /\ ~SpendsWallet(t)
         /\ \A n \in WatchedOuts(t) : n = FirstWatched(t)
<1>1. PlainWallet
  BY DEF Exact, UnlinkedWallet
<1>2. IsFiniteSet(WatchedOuts(t))
  <2>1. IsFiniteSet(Out)
    BY LedgerAssumption, FS_Interval DEF Out
  <2>2. QED
    BY <2>1, FirstWatchedIs, FS_Subset
<1>3. Cardinality(WatchedOuts(t)) <= 1
  BY <1>1 DEF PlainWallet
<1>4. ASSUME NEW m \in WatchedOuts(t), NEW n \in WatchedOuts(t) PROVE m = n
  <2>1. Cardinality(WatchedOuts(t)) = 0 \/ Cardinality(WatchedOuts(t)) = 1
    BY <1>2, <1>3, FS_CardinalityType
  <2>2. CASE Cardinality(WatchedOuts(t)) = 0
    BY <1>2, <2>2, FS_EmptySet
  <2>3. CASE Cardinality(WatchedOuts(t)) = 1
    <3>1. \E x : WatchedOuts(t) = {x}
      BY <1>2, <2>3, FS_Singleton
    <3>2. QED
      BY <3>1
  <2>4. QED
    BY <2>1, <2>2, <2>3
<1>5. QED
  BY <1>1, <1>4, FirstWatchedIs DEF PlainWallet

----------------------------------------------------------------------------
(* The chain.                                                              *)

\* It begins as a chain, its blocks in order.
LEMMA InitChain == Init => Chain
<1> SUFFICES ASSUME Init PROVE Chain
  OBVIOUS
<1>1. PICK spender \in [Outpoint -> 0 .. NTx] :
             /\ \A o \in Outpoint : spender[o] # 0 => spender[o] > o.hash
             /\ vin = [t \in Tx |-> SpentBy(spender, t)]
  BY DEF Init
<1>2. /\ vin \in [Tx -> SUBSET Outpoint]
      /\ \A t \in Tx : \A o \in vin[t] : o.hash < t
  <2>1. ASSUME NEW t \in Tx, NEW o \in vin[t] PROVE o \in Outpoint /\ o.hash < t
    <3>1. o \in Outpoint /\ spender[o] = t
      BY <1>1 DEF SpentBy
    <3>2. spender[o] > o.hash /\ o.hash \in Int /\ t \in Int
      BY <1>1, <3>1, LedgerAssumption DEF Tx, Outpoint
    <3>3. QED
      BY <3>1, <3>2
  <2>2. QED
    BY <1>1, <2>1 DEF SpentBy
<1>3. /\ blockOf \in [Tx -> Tx]
      /\ \A t \in 1 .. NTx - 1 : blockOf[t + 1] \in {blockOf[t], blockOf[t] + 1}
  BY DEF Init
<1>4. ASSUME NEW s \in Tx, NEW u \in Tx, s <= u, ~(blockOf[s] <= blockOf[u]) PROVE FALSE
  <2> DEFINE wrong == {x \in Tx : s <= x /\ ~(blockOf[s] <= blockOf[x])}
  <2>1. wrong \in SUBSET Nat /\ wrong # {}
    BY <1>4, LedgerAssumption DEF Tx
  <2>2. PICK t \in wrong : \A y \in wrong : t <= y
    BY <2>1, NatMin
  <2>3. /\ t - 1 \in 1 .. NTx - 1 /\ t - 1 \in Tx /\ s <= t - 1
    <3>1. t # s
      BY <1>3, <2>2 DEF Tx
    <3>2. QED
      BY <2>2, <3>1, LedgerAssumption DEF Tx
  <2>4. t - 1 \notin wrong
    BY <2>2 DEF Tx
  <2>5. blockOf[s] <= blockOf[t - 1]
    BY <2>3, <2>4
  <2>6. (t - 1) + 1 = t
    BY <2>2 DEF Tx
  <2>7. blockOf[t] \in {blockOf[t - 1], blockOf[t - 1] + 1}
    BY <1>3, <2>3, <2>6
  <2>8. blockOf[s] \in Int /\ blockOf[t - 1] \in Int /\ ~(blockOf[s] <= blockOf[t])
    BY <1>3, <2>2, <2>3 DEF Tx
  <2>9. QED
    BY <2>5, <2>7, <2>8
<1>5. QED
  BY <1>2, <1>3, <1>4 DEF Init, Chain

\* And it stays, with all that is said of it alone.
LEMMA SameChain ==
  ASSUME [Next]_vars
  PROVE  /\ UNCHANGED <<pays, vin, blockOf>>
         /\ Chain => Chain'
         /\ \A t \in Tx : /\ WatchedOuts(t)' = WatchedOuts(t)
                          /\ FirstWatched(t)' = FirstWatched(t)
                          /\ SpendsWallet(t)' <=> SpendsWallet(t)
         /\ PlainWallet' <=> PlainWallet
         /\ UnlinkedWallet' <=> UnlinkedWallet
<1>1. UNCHANGED <<pays, vin, blockOf>>
  BY DEF Next, Net, Loader, Ui, FilterTx, InsertBlock, Restart, LoadTx, CopyBlocks,
    CopyTxMap, vars, chainVars
<1>2. \A t \in Tx : /\ WatchedOuts(t)' = WatchedOuts(t)
                    /\ FirstWatched(t)' = FirstWatched(t)
                    /\ SpendsWallet(t)' <=> SpendsWallet(t)
  BY <1>1 DEF WatchedOuts, FirstWatched, SpendsWallet
<1>3. PlainWallet' <=> PlainWallet
  BY <1>2 DEF PlainWallet
<1>4. UnlinkedWallet' <=> UnlinkedWallet
  BY <1>1, <1>3 DEF UnlinkedWallet, WatchedOuts, SpendsWallet
<1>5. Chain => Chain'
  BY <1>1 DEF Chain
<1>6. QED
  BY <1>1, <1>2, <1>3, <1>4, <1>5

----------------------------------------------------------------------------
(* Inductiveness.                                                          *)

\* Where the books are right stays right, and gets no wider by a restart.
LEMMA ExactStays ==
  ASSUME [Next]_vars, Exact'
  PROVE  (runs' = runs \/ runs = 1) => Exact
  BY SameChain DEF Exact, UnlinkedWallet

\* A block that is kept is below netBlock, so the one in work is not kept yet.
LEMMA KeptBelow ==
  ASSUME IInv
  PROVE  /\ netBlock \notin DOMAIN blocks
         /\ \A t \in Kept(blocks) : t \in Tx /\ blockOf[t] < netBlock /\ t < netTx
         /\ \A t : IsSaved(t) => t \in Tx /\ blockOf[t] = netBlock /\ t < netTx
<1>1. TypeOK /\ Chain /\ Place /\ BlocksInv
  BY DEF IInv
<1>2. netBlock \notin DOMAIN blocks
  BY <1>1 DEF BlocksInv, TypeOK
<1>3. ASSUME NEW t \in Kept(blocks)
        PROVE  t \in Tx /\ blockOf[t] < netBlock /\ t < netTx
  <2>1. PICK h \in DOMAIN blocks : \E i \in 1 .. Len(blocks[h]) : t = blocks[h][i]
    BY DEF Kept
  <2>2. t \in Tx /\ blockOf[t] = h /\ h < netBlock
    BY <1>1, <2>1 DEF BlocksInv, TypeOK
  <2>3. QED
    BY <1>1, <2>2 DEF Place
<1>4. \A t : IsSaved(t) => t \in Tx /\ blockOf[t] = netBlock /\ t < netTx
  BY <1>1 DEF IsSaved, BlocksInv, TypeOK
<1>5. QED
  BY <1>2, <1>3, <1>4

\* What a step that leaves a report and the chain alone says of the report.
LEMMA ReportStays ==
  ASSUME [Next]_vars, NeverTooLow, PlainWalletsExact, UNCHANGED report, UNCHANGED runs
  PROVE  NeverTooLow' /\ PlainWalletsExact'
<1>1. /\ UNCHANGED <<pays, vin, blockOf>>
      /\ PlainWallet' <=> PlainWallet
      /\ UnlinkedWallet' <=> UnlinkedWallet
  BY SameChain
<1>2. /\ Balance(report.addr, report.height)' = Balance(report.addr, report.height)
      /\ Counted' = Counted
  BY <1>1 DEF Balance, UpTo, Pays, Counted
<1>3. QED
  <2>1. NeverTooLow'
    BY <1>2 DEF NeverTooLow
  <2>2. PlainWalletsExact'
    BY <1>1, <1>2 DEF PlainWalletsExact
  <2>3. QED
    BY <2>1, <2>2

\* The copies of the ui thread while blocks are only added at netBlock.
LEMMA CopiesStay ==
  ASSUME UiInv, UNCHANGED <<uiPc, uiAddr, uiBlocks, uiHeight>>,
         netBlock \in Nat, netBlock' \in Nat, uiHeight \in Nat, netBlock <= netBlock',
         DOMAIN blocks \subseteq DOMAIN blocks',
         DOMAIN blocks' \subseteq DOMAIN blocks \cup {netBlock},
         \A h \in DOMAIN blocks : blocks'[h] = blocks[h],
         netBlock \notin DOMAIN blocks
  PROVE  UiInv'
  BY DEF UiInv

\* What has an entry is kept, and the other way round once the loader is done.
LEMMA IndexedAreKept ==
  ASSUME IInv
  PROVE  /\ \A t \in DOMAIN m_TxMap : IsKept(t) /\ t \in Tx /\ t < netTx
         /\ Loaded => \A t : IsKept(t) => t \in DOMAIN m_TxMap
<1>1. TypeOK /\ BlocksInv /\ LoadInv /\ IndexInv
  BY DEF IInv
<1>2. ASSUME NEW t \in DOMAIN m_TxMap PROVE IsKept(t)
  <2>1. PICK e : e = m_TxMap[t]
    OBVIOUS
  <2>2. \/ Read(e.block_hash, e.tx_index + 1)
             /\ blocks[e.block_hash][e.tx_index + 1] = t
        \/ /\ e.tx_index + 1 \in 1 .. Len(save_blk)
           /\ save_blk[e.tx_index + 1] = t
    BY <1>1, <2>1 DEF IndexInv
  <2>3. QED
    BY <2>2 DEF IsKept, IsSaved, Kept, Read
<1>3. ASSUME Loaded, NEW t, IsKept(t) PROVE t \in DOMAIN m_TxMap
  <2>1. CASE IsSaved(t)
    BY <1>1, <2>1 DEF IsSaved, IndexInv
  <2>2. CASE t \in Kept(blocks)
    <3>1. PICK h \in DOMAIN blocks : \E i \in 1 .. Len(blocks[h]) : t = blocks[h][i]
      BY <2>2 DEF Kept
    <3>2. PICK i \in 1 .. Len(blocks[h]) : t = blocks[h][i]
      BY <3>1
    <3>3. Read(h, i)
      BY <1>1, <1>3 DEF Read, LoadInv, Loaded, TypeOK, Tx
    <3>4. QED
      BY <1>1, <3>2, <3>3 DEF IndexInv
  <2>3. QED
    BY <1>3, <2>1, <2>2 DEF IsKept
<1>4. QED
  BY <1>2, <1>3, KeptBelow DEF IsKept

\* An entry names an output only if it pays the wallet.
LEMMA KnownSpends ==
  ASSUME IInv, NEW t \in Tx, SpendsKnown(t)
  PROVE  SpendsWallet(t)
<1>1. PICK o \in vin[t] : /\ o.hash \in DOMAIN m_TxMap
                          /\ m_TxMap[o.hash].out_index = o.n
  BY DEF SpendsKnown
<1>2. Chain /\ IndexInv
  BY DEF IInv
<1>3. o.n \in Out /\ Out \subseteq Nat
  BY <1>2, WatchedSpent, FirstWatchedIs
<1>4. o.n \in WatchedOuts(o.hash) \cup {-1}
  BY <1>1, <1>2 DEF IndexInv
<1>5. QED
  BY <1>2, <1>3, <1>4, WatchedSpent

\* Where the books are right, every spender is noticed: the output it spends
\* is the one its transaction's entry names.
LEMMA SpenderIsKnown ==
  ASSUME IInv, Loaded, Exact, netTx \in Tx, SpendsWallet(netTx)
  PROVE  SpendsKnown(netTx)
<1>1. PICK o \in vin[netTx] : pays[o.hash][o.n] \in Watched
  BY DEF SpendsWallet
<1>2. Chain /\ KeptInv /\ IndexInv
  BY DEF IInv
<1>3. /\ o.hash \in Tx /\ o.hash < netTx /\ o.n \in WatchedOuts(o.hash)
  BY <1>1, <1>2, WatchedSpent
<1>4. o.hash \in DOMAIN m_TxMap
  BY <1>2, <1>3, IndexedAreKept DEF KeptInv
<1>5. m_TxMap[o.hash].out_index = FirstWatched(o.hash)
  BY <1>2, <1>3, <1>4 DEF IndexInv
<1>6. o.n = FirstWatched(o.hash)
  BY <1>3, PlainTx
<1>7. QED
  BY <1>4, <1>5, <1>6 DEF SpendsKnown

\* FilterTx: a transaction that pays the wallet is kept, and one that spends
\* what an entry names.
LEMMA FilterTxKeeps ==
  ASSUME IInv, FilterTx
  PROVE  IInv'
<1> DEFINE t == netTx
           n == IF SpendsKnown(netTx) THEN -1 ELSE FirstWatched(netTx)
           keep == SpendsKnown(netTx) \/ n # -1
<1>1. /\ TypeOK /\ Chain /\ Place /\ BlocksInv /\ KeptInv /\ LoadInv /\ IndexInv
      /\ UiInv /\ NeverTooLow /\ PlainWalletsExact
  BY DEF IInv
<1>2. /\ Loaded /\ netTx' = netTx + 1
      /\ UNCHANGED <<netBlock, pays, vin, blockOf, blocks, bit, tit, unread, uiPc,
                     uiAddr, uiBlocks, uiHeight, report, runs>>
  BY DEF FilterTx, chainVars, loadVars, uiVars
<1>3. [Next]_vars
  BY DEF Next, Net
<1>4. t \in Tx /\ blockOf[t] = netBlock /\ netTx \in Nat
  BY <1>1, LedgerAssumption DEF FilterTx, InBlock, TypeOK, Tx
<1>5. /\ keep => /\ save_blk' = Append(save_blk, t)
                 /\ m_TxMap' = Insert(m_TxMap, t, Index(netBlock, Len(save_blk), n))
      /\ ~keep => UNCHANGED <<save_blk, m_TxMap>>
  BY DEF FilterTx
<1>6. /\ WatchedOuts(t) \subseteq Out /\ Out \subseteq Nat
      /\ n \in -1 .. NOut - 1 /\ n \in WatchedOuts(t) \cup {-1}
  BY <1>4, FirstWatchedIs, LedgerAssumption
<1>7. t \notin DOMAIN m_TxMap
  BY <1>4, IndexedAreKept
<1>8. /\ WatchedOuts(t) # {} => keep
      /\ keep => WatchedOuts(t) # {} \/ SpendsWallet(t)
      /\ Exact /\ SpendsWallet(t) => keep
      /\ Exact /\ WatchedOuts(t) # {} => n = FirstWatched(t)
  <2>1. SpendsKnown(t) => SpendsWallet(t)
    BY <1>4, KnownSpends
  <2>2. Exact /\ WatchedOuts(t) # {} => ~SpendsWallet(t)
    BY <1>4, PlainTx
  <2>3. Exact /\ SpendsWallet(t) => SpendsKnown(t)
    BY <1>2, <1>4, SpenderIsKnown
  <2>4. /\ WatchedOuts(t) # {} => FirstWatched(t) # -1
        /\ WatchedOuts(t) = {} => FirstWatched(t) = -1
    BY <1>4, <1>6, FirstWatchedIs
  <2>5. QED
    BY <2>1, <2>2, <2>3, <2>4
<1>9. /\ save_blk \in Seq(Tx) /\ Len(save_blk) \in Nat /\ Len(save_blk) < netTx
      /\ netTx <= NTx
      /\ save_blk' \in Seq(Tx) /\ Len(save_blk') \in Nat /\ Len(save_blk') < netTx'
      /\ Len(save_blk) <= Len(save_blk')
      /\ \A i \in 1 .. Len(save_blk) : save_blk'[i] = save_blk[i]
      /\ keep => Len(save_blk') = Len(save_blk) + 1 /\ save_blk'[Len(save_blk) + 1] = t
      /\ ~keep => save_blk' = save_blk
  <2>1. /\ save_blk \in Seq(Tx) /\ Len(save_blk) \in Nat /\ Len(save_blk) < netTx
        /\ netTx <= NTx
    BY <1>1, <1>4, LedgerAssumption DEF TypeOK, Place, Tx
  <2> HIDE DEF n, keep
  <2>2. CASE keep
    <3>1. /\ save_blk' \in Seq(Tx) /\ Len(save_blk') = Len(save_blk) + 1
          /\ \A i \in 1 .. Len(save_blk) : save_blk'[i] = save_blk[i]
          /\ save_blk'[Len(save_blk) + 1] = t
      BY <1>4, <1>5, <2>1, <2>2, AppendedTx
    <3>2. QED
      BY <1>2, <1>4, <2>1, <2>2, <3>1
  <2>3. CASE ~keep
    BY <1>2, <1>4, <1>5, <2>1, <2>3
  <2>4. QED
    BY <2>2, <2>3
<1> HIDE DEF n, keep
<1>10. /\ DOMAIN m_TxMap' = DOMAIN m_TxMap \cup (IF keep THEN {t} ELSE {})
       /\ \A s \in DOMAIN m_TxMap : m_TxMap'[s] = m_TxMap[s]
       /\ keep => m_TxMap'[t] = Index(netBlock, Len(save_blk), n)
  <2>1. CASE keep
    <3>1. m_TxMap' = Insert(m_TxMap, t, Index(netBlock, Len(save_blk), n))
      BY <1>5, <2>1
    <3>2. /\ DOMAIN m_TxMap' = DOMAIN m_TxMap \cup {t}
          /\ \A s \in DOMAIN m_TxMap : m_TxMap'[s] = m_TxMap[s]
          /\ m_TxMap'[t] = Index(netBlock, Len(save_blk), n)
      BY <1>7, <3>1 DEF Insert
    <3>3. QED
      BY <2>1, <3>2
  <2>2. CASE ~keep
    BY <1>5, <2>2
  <2>3. QED
    BY <2>1, <2>2
<1>11. TypeOK'
  <2>1. \A s \in DOMAIN m_TxMap' : m_TxMap'[s] \in Entry
    <3>1. \A s \in DOMAIN m_TxMap : m_TxMap[s] \in Entry
      BY <1>1 DEF TypeOK
    <3>2. keep => Index(netBlock, Len(save_blk), n) \in Entry
      <4>1. netBlock \in Tx /\ Len(save_blk) \in 0 .. NTx - 1
        BY <1>1, <1>4, <1>9, LedgerAssumption DEF Chain
      <4>2. QED
        BY <1>6, <4>1 DEF Index, Entry
    <3>3. QED
      BY <1>10, <3>1, <3>2
  <2>2. DOMAIN m_TxMap' \subseteq Tx /\ netTx' \in 1 .. NTx + 1
    <3>1. DOMAIN m_TxMap \subseteq Tx /\ netTx \in 1 .. NTx + 1
      BY <1>1 DEF TypeOK
    <3>2. DOMAIN m_TxMap' \subseteq Tx
      BY <1>4, <1>10, <3>1
    <3>3. netTx' \in 1 .. NTx + 1
      BY <1>2, <1>9, <3>1, LedgerAssumption
    <3>4. QED
      BY <3>2, <3>3
  <2>3. QED
    BY <1>1, <1>2, <1>9, <2>1, <2>2 DEF TypeOK
<1>12. Chain'
  BY <1>1, <1>3, SameChain
<1>13. Place'
  <2>1. ASSUME NEW s \in Tx
        PROVE  /\ blockOf[s] < netBlock => s < netTx + 1
               /\ s < netTx + 1 => blockOf[s] <= netBlock
    <3>1. /\ blockOf[s] < netBlock => s < netTx
          /\ s < netTx => blockOf[s] <= netBlock
      BY <1>1 DEF Place
    <3>2. s < netTx + 1 => s < netTx \/ s = netTx
      BY <1>4, LedgerAssumption DEF Tx
    <3>3. blockOf[netTx] <= netBlock
      <4>1. netBlock \in Nat
        BY <1>1, LedgerAssumption DEF TypeOK
      <4>2. QED
        BY <1>4, <4>1
    <3>4. s < netTx => s < netTx + 1
      BY <1>4, LedgerAssumption DEF Tx
    <3>5. QED
      BY <3>1, <3>2, <3>3, <3>4
  <2>2. QED
    BY <1>2, <1>9, <2>1 DEF Place
<1>14. BlocksInv'
  <2>1. \A h \in DOMAIN blocks : h < netBlock /\ Len(blocks[h]) \in 1 .. NTx
          /\ \A i \in 1 .. Len(blocks[h]) : blockOf[blocks[h][i]] = h
    BY <1>1 DEF BlocksInv
  <2>2. ASSUME NEW i \in 1 .. Len(save_blk')
        PROVE  blockOf[save_blk'[i]] = netBlock /\ save_blk'[i] < netTx'
    <3>1. CASE i \in 1 .. Len(save_blk)
      <4>1. /\ blockOf[save_blk[i]] = netBlock /\ save_blk[i] < netTx
            /\ save_blk[i] \in Nat
        <5>1. blockOf[save_blk[i]] = netBlock /\ save_blk[i] < netTx
          BY <1>1, <3>1 DEF BlocksInv
        <5>2. save_blk[i] \in Tx
          BY <1>9, <3>1
        <5>3. Tx \subseteq Nat
          BY DEF Tx
        <5>4. QED
          BY <5>1, <5>2, <5>3
      <4>2. QED
        BY <1>2, <1>4, <1>9, <3>1, <4>1
    <3>2. CASE i \notin 1 .. Len(save_blk)
      <4>1. keep /\ i = Len(save_blk) + 1
        BY <1>9, <3>2
      <4>2. QED
        BY <1>2, <1>4, <1>9, <4>1
    <3>3. QED
      BY <3>1, <3>2
  <2>3. QED
    BY <1>2, <2>1, <2>2 DEF BlocksInv
<1>15. \A s \in Tx : IsKept(s)' <=> IsKept(s) \/ (keep /\ s = t)
  <2>1. \A s : IsSaved(s)' <=> IsSaved(s) \/ (keep /\ s = t)
    BY <1>9 DEF IsSaved
  <2>2. Kept(blocks)' = Kept(blocks)
    BY <1>2 DEF Kept
  <2>3. QED
    BY <2>1, <2>2 DEF IsKept
<1>16. Exact' => Exact
  BY <1>2, <1>3, ExactStays
<1>17. KeptInv'
  <2>1. \A s \in Tx : s < netTx' => s < netTx \/ s = t
    BY <1>2, <1>4, LedgerAssumption DEF Tx
  <2>2. \A s \in Tx : /\ WatchedOuts(s)' = WatchedOuts(s)
                      /\ SpendsWallet(s)' <=> SpendsWallet(s)
    BY <1>3, SameChain
  <2>3. QED
    BY <1>1, <1>8, <1>15, <1>16, <2>1, <2>2 DEF KeptInv
<1>18. LoadInv'
  BY <1>1, <1>2 DEF LoadInv, Loaded
<1>19. IndexInv'
  <2>1. \A h, i : Read(h, i)' <=> Read(h, i)
    BY <1>2 DEF Read
  <2>2. \A s \in Tx : /\ WatchedOuts(s)' = WatchedOuts(s)
                      /\ FirstWatched(s)' = FirstWatched(s)
    BY <1>3, SameChain
  <2>3. \A h \in DOMAIN blocks' : \A i \in 1 .. Len(blocks'[h]) :
          Read(h, i)' => blocks'[h][i] \in DOMAIN m_TxMap'
    BY <1>1, <1>2, <1>10, <2>1 DEF IndexInv
  <2>4. \A i \in 1 .. Len(save_blk') : save_blk'[i] \in DOMAIN m_TxMap'
    <3>1. \A i \in 1 .. Len(save_blk) : save_blk[i] \in DOMAIN m_TxMap
      BY <1>1 DEF IndexInv
    <3>2. QED
      BY <1>9, <1>10, <3>1
  <2>5. ASSUME NEW s \in DOMAIN m_TxMap', NEW e, e = m_TxMap'[s]
        PROVE  /\ \/ Read(e.block_hash, e.tx_index + 1)
                       /\ blocks[e.block_hash][e.tx_index + 1] = s
                  \/ /\ e.block_hash = netBlock /\ e.tx_index + 1 \in 1 .. Len(save_blk')
                     /\ save_blk'[e.tx_index + 1] = s
               /\ e.out_index \in WatchedOuts(s) \cup {-1}
               /\ Exact /\ WatchedOuts(s) # {} => e.out_index = FirstWatched(s)
    <3>1. CASE s \in DOMAIN m_TxMap
      <4>1. e = m_TxMap[s]
        BY <1>10, <2>5, <3>1
      <4>2. /\ \/ Read(e.block_hash, e.tx_index + 1)
                    /\ blocks[e.block_hash][e.tx_index + 1] = s
               \/ /\ e.block_hash = netBlock /\ e.tx_index + 1 \in 1 .. Len(save_blk)
                  /\ save_blk[e.tx_index + 1] = s
            /\ e.out_index \in WatchedOuts(s) \cup {-1}
            /\ Exact /\ WatchedOuts(s) # {} => e.out_index = FirstWatched(s)
        BY <1>1, <3>1, <4>1 DEF IndexInv
      <4>3. e.tx_index + 1 \in 1 .. Len(save_blk) =>
              /\ e.tx_index + 1 \in 1 .. Len(save_blk')
              /\ save_blk'[e.tx_index + 1] = save_blk[e.tx_index + 1]
        BY <1>9
      <4>4. QED
        BY <4>2, <4>3
    <3>2. CASE s \notin DOMAIN m_TxMap
      <4>1. keep /\ s = t /\ e = Index(netBlock, Len(save_blk), n)
        BY <1>10, <2>5, <3>2
      <4>2. e.block_hash = netBlock /\ e.tx_index = Len(save_blk) /\ e.out_index = n
        BY <4>1 DEF Index
      <4>3. Len(save_blk) + 1 \in 1 .. Len(save_blk') /\ save_blk'[Len(save_blk) + 1] = s
        BY <1>9, <4>1
      <4>4. QED
        BY <1>6, <1>8, <4>1, <4>2, <4>3
    <3>3. QED
      BY <3>1, <3>2
  <2>6. DOMAIN m_TxMap' \subseteq Tx
    BY <1>11 DEF TypeOK
  <2>7. QED
    BY <1>2, <1>16, <2>1, <2>2, <2>3, <2>4, <2>5, <2>6 DEF IndexInv
<1>20. UiInv'
  BY <1>1, <1>2 DEF UiInv
<1>21. NeverTooLow' /\ PlainWalletsExact'
  BY <1>1, <1>2, <1>3, ReportStays
<1>22. QED
  BY <1>11, <1>12, <1>13, <1>14, <1>17, <1>18, <1>19, <1>20, <1>21 DEF IInv

\* InsertBlock: what was kept of the block is in its place.
LEMMA InsertBlockKeeps ==
  ASSUME IInv, InsertBlock
  PROVE  IInv'
<1>1. /\ TypeOK /\ Chain /\ Place /\ BlocksInv /\ KeptInv /\ LoadInv /\ IndexInv
      /\ UiInv /\ NeverTooLow /\ PlainWalletsExact
  BY DEF IInv
<1>2. /\ Loaded /\ netBlock' = netBlock + 1 /\ save_blk' = <<>>
      /\ blocks' = IF save_blk = <<>> THEN blocks ELSE Insert(blocks, netBlock, save_blk)
      /\ UNCHANGED <<netTx, pays, vin, blockOf, m_TxMap, bit, tit, unread, uiPc,
                     uiAddr, uiBlocks, uiHeight, report, runs>>
  BY DEF InsertBlock, chainVars, loadVars, uiVars
<1>3. [Next]_vars
  BY DEF Next, Net
<1>4. /\ netBlock \in Tx /\ netBlock \in Nat /\ netBlock + 1 \in 1 .. NTx + 1
      /\ netTx \in 1 .. NTx + 1
  <2>1. \E t \in Tx : blockOf[t] = netBlock
    BY DEF InsertBlock
  <2>2. netBlock \in Tx
    BY <1>1, <2>1 DEF Chain
  <2>3. QED
    BY <1>1, <2>2, LedgerAssumption DEF Tx, TypeOK
<1>5. netBlock \notin DOMAIN blocks
  BY KeptBelow
<1>6. /\ save_blk \in Seq(Tx) /\ Len(save_blk) \in 0 .. NTx
      /\ save_blk # <<>> => Len(save_blk) \in 1 .. NTx
      /\ save_blk = <<>> => Len(save_blk) = 0
  BY <1>1, <1>4, LedgerAssumption DEF TypeOK, Place
<1>7. /\ DOMAIN blocks' = DOMAIN blocks \cup (IF save_blk = <<>> THEN {} ELSE {netBlock})
      /\ \A h \in DOMAIN blocks : blocks'[h] = blocks[h]
      /\ save_blk # <<>> => blocks'[netBlock] = save_blk
  <2>1. CASE save_blk = <<>>
    BY <1>2, <2>1
  <2>2. CASE save_blk # <<>>
    <3>1. blocks' = Insert(blocks, netBlock, save_blk)
      BY <1>2, <2>2
    <3>2. /\ DOMAIN blocks' = DOMAIN blocks \cup {netBlock}
          /\ \A h \in DOMAIN blocks : blocks'[h] = blocks[h]
          /\ blocks'[netBlock] = save_blk
      BY <1>5, <3>1 DEF Insert
    <3>3. QED
      BY <2>2, <3>2
  <2>3. QED
    BY <2>1, <2>2
<1>8. \A h \in DOMAIN blocks' : h \in DOMAIN blocks \/ (h = netBlock /\ save_blk # <<>>)
  BY <1>7
<1>9. TypeOK'
  <2>1. DOMAIN blocks' \subseteq Tx /\ \A h \in DOMAIN blocks' : blocks'[h] \in Seq(Tx)
    BY <1>1, <1>4, <1>6, <1>7, <1>8 DEF TypeOK
  <2>2. <<>> \in Seq(Tx)
    OBVIOUS
  <2>3. QED
    BY <1>1, <1>2, <1>4, <2>1, <2>2 DEF TypeOK
<1>10. Chain'
  BY <1>1, <1>3, SameChain
<1>11. Place'
  <2>1. ASSUME NEW t \in Tx
        PROVE  /\ blockOf[t] < netBlock + 1 => t < netTx
               /\ t < netTx => blockOf[t] <= netBlock + 1
    <3>1. /\ t \in Int /\ blockOf[t] \in Int /\ netTx \in Int
          /\ netTx <= NTx => netTx \in Tx /\ blockOf[netTx] \in Int
      BY <1>1, <1>4, LedgerAssumption DEF Chain, Tx
    <3>2. t < netTx => blockOf[t] <= netBlock + 1
      BY <1>1, <1>4, <3>1 DEF Place
    <3>3. ASSUME blockOf[t] = netBlock, ~(t < netTx) PROVE FALSE
      <4>1. netTx <= t /\ netTx <= NTx /\ netTx \in Tx
        BY <3>1, <3>3, <1>4, LedgerAssumption DEF Tx
      <4>2. blockOf[netTx] # netBlock
        BY <4>1 DEF InsertBlock, InBlock
      <4>3. ~(blockOf[netTx] < netBlock)
        BY <1>1, <4>1, <1>4 DEF Place
      <4>4. blockOf[netTx] <= blockOf[t]
        BY <1>1, <4>1 DEF Chain
      <4>5. QED
        BY <1>4, <3>1, <3>3, <4>1, <4>2, <4>3, <4>4
    <3>4. blockOf[t] < netBlock => t < netTx
      BY <1>1 DEF Place
    <3>5. QED
      BY <1>4, <3>1, <3>2, <3>3, <3>4
  <2>2. Len(<<>>) < netTx
    BY <1>4
  <2>3. QED
    BY <1>2, <2>1, <2>2 DEF Place
<1>12. BlocksInv'
  <2>1. ASSUME NEW h \in DOMAIN blocks'
        PROVE  /\ h < netBlock + 1 /\ Len(blocks'[h]) \in 1 .. NTx
               /\ \A i \in 1 .. Len(blocks'[h]) : blockOf[blocks'[h][i]] = h
    <3>1. CASE h \in DOMAIN blocks
      <4>1. /\ h < netBlock /\ Len(blocks[h]) \in 1 .. NTx /\ blocks'[h] = blocks[h]
            /\ \A i \in 1 .. Len(blocks[h]) : blockOf[blocks[h][i]] = h
        BY <1>1, <1>7, <3>1 DEF BlocksInv
      <4>2. h \in Nat
        BY <1>1, <3>1, LedgerAssumption DEF TypeOK, Tx
      <4>3. QED
        BY <1>4, <4>1, <4>2
    <3>2. CASE h = netBlock /\ save_blk # <<>>
      BY <1>1, <1>4, <1>6, <1>7, <3>2 DEF BlocksInv
    <3>3. QED
      BY <1>8, <3>1, <3>2
  <2>2. 1 .. Len(<<>>) = {}
    OBVIOUS
  <2>3. QED
    BY <1>2, <2>1, <2>2 DEF BlocksInv
<1>13. \A t : IsKept(t)' <=> IsKept(t)
  <2>1. \A t : ~IsSaved(t)'
    BY <1>2 DEF IsSaved
  <2>2. \A t : t \in Kept(blocks') <=> t \in Kept(blocks) \/ IsSaved(t)
    <3>1. ASSUME NEW t \in Kept(blocks') PROVE t \in Kept(blocks) \/ IsSaved(t)
      <4>1. PICK h \in DOMAIN blocks' : \E i \in 1 .. Len(blocks'[h]) : t = blocks'[h][i]
        BY <3>1 DEF Kept
      <4>2. QED
        BY <1>7, <1>8, <4>1 DEF Kept, IsSaved
    <3>2. ASSUME NEW t \in Kept(blocks) PROVE t \in Kept(blocks')
      <4>1. PICK h \in DOMAIN blocks : \E i \in 1 .. Len(blocks[h]) : t = blocks[h][i]
        BY <3>2 DEF Kept
      <4>2. h \in DOMAIN blocks' /\ blocks'[h] = blocks[h]
        BY <1>7
      <4>3. QED
        BY <4>1, <4>2 DEF Kept
    <3>3. ASSUME NEW t, IsSaved(t) PROVE t \in Kept(blocks')
      <4>1. PICK i \in 1 .. Len(save_blk) : save_blk[i] = t
        BY <3>3 DEF IsSaved
      <4>2. save_blk # <<>>
        BY <1>6, <4>1
      <4>3. netBlock \in DOMAIN blocks' /\ blocks'[netBlock] = save_blk
        BY <1>7, <4>2
      <4>4. QED
        BY <4>1, <4>3 DEF Kept
    <3>4. QED
      BY <3>1, <3>2, <3>3
  <2>3. QED
    BY <2>1, <2>2 DEF IsKept
<1>14. Exact' => Exact
  BY <1>2, <1>3, ExactStays
<1>15. KeptInv'
  <2>1. \A s \in Tx : /\ WatchedOuts(s)' = WatchedOuts(s)
                      /\ SpendsWallet(s)' <=> SpendsWallet(s)
    BY <1>3, SameChain
  <2>2. QED
    BY <1>1, <1>2, <1>13, <1>14, <2>1 DEF KeptInv
<1>16. LoadInv'
  BY <1>1, <1>2 DEF LoadInv, Loaded
<1>17. /\ bit = 0 /\ unread = {}
       /\ \A h, i : Read(h, i) <=> h \in DOMAIN blocks /\ i \in 1 .. Len(blocks[h])
       /\ \A h, i : Read(h, i)' <=> h \in DOMAIN blocks' /\ i \in 1 .. Len(blocks'[h])
  <2>1. bit = 0 /\ unread = {} /\ bit' = 0 /\ unread' = {}
    BY <1>1, <1>2 DEF LoadInv, Loaded
  <2>2. 0 \notin DOMAIN blocks /\ 0 \notin DOMAIN blocks'
    <3>1. DOMAIN blocks \subseteq Tx /\ DOMAIN blocks' \subseteq Tx
      BY <1>1, <1>9 DEF TypeOK, Tx
    <3>2. 0 \notin Tx
      BY DEF Tx
    <3>3. QED
      BY <3>1, <3>2
  <2>3. QED
    BY <2>1, <2>2 DEF Read
<1>18. IndexInv'
  <2>1. \A s \in Tx : /\ WatchedOuts(s)' = WatchedOuts(s)
                      /\ FirstWatched(s)' = FirstWatched(s)
    BY <1>3, SameChain
  <2>2. ASSUME NEW h \in DOMAIN blocks', NEW i \in 1 .. Len(blocks'[h])
        PROVE  blocks'[h][i] \in DOMAIN m_TxMap
    BY <1>1, <1>7, <1>8, <1>17 DEF IndexInv
  <2>3. ASSUME NEW s \in DOMAIN m_TxMap, NEW e, e = m_TxMap[s]
        PROVE  /\ Read(e.block_hash, e.tx_index + 1)'
               /\ blocks'[e.block_hash][e.tx_index + 1] = s
               /\ e.out_index \in WatchedOuts(s) \cup {-1}
               /\ Exact /\ WatchedOuts(s) # {} => e.out_index = FirstWatched(s)
    <3>1. /\ \/ Read(e.block_hash, e.tx_index + 1)
                  /\ blocks[e.block_hash][e.tx_index + 1] = s
             \/ /\ e.block_hash = netBlock /\ e.tx_index + 1 \in 1 .. Len(save_blk)
                /\ save_blk[e.tx_index + 1] = s
          /\ e.out_index \in WatchedOuts(s) \cup {-1}
          /\ Exact /\ WatchedOuts(s) # {} => e.out_index = FirstWatched(s)
      BY <1>1, <2>3 DEF IndexInv
    <3>2. CASE Read(e.block_hash, e.tx_index + 1)
               /\ blocks[e.block_hash][e.tx_index + 1] = s
      BY <1>7, <1>17, <3>1, <3>2
    <3>3. CASE /\ e.block_hash = netBlock /\ e.tx_index + 1 \in 1 .. Len(save_blk)
               /\ save_blk[e.tx_index + 1] = s
      <4>1. save_blk # <<>>
        BY <1>6, <3>3
      <4>2. netBlock \in DOMAIN blocks' /\ blocks'[netBlock] = save_blk
        BY <1>7, <4>1
      <4>3. QED
        BY <1>17, <3>1, <3>3, <4>2
    <3>4. QED
      BY <3>1, <3>2, <3>3
  <2>4. 1 .. Len(<<>>) = {}
    OBVIOUS
  <2>5. DOMAIN m_TxMap \subseteq Tx
    BY <1>1 DEF TypeOK
  <2>6. QED
    BY <1>2, <1>14, <2>1, <2>2, <2>3, <2>4, <2>5 DEF IndexInv
<1>19. UiInv'
  <2>1. uiHeight \in Nat
    BY <1>1, LedgerAssumption DEF TypeOK
  <2>2. QED
    BY <1>1, <1>2, <1>4, <1>5, <1>7, <2>1, CopiesStay
<1>20. NeverTooLow' /\ PlainWalletsExact'
  BY <1>1, <1>2, <1>3, ReportStays
<1>21. QED
  BY <1>9, <1>10, <1>11, <1>12, <1>15, <1>16, <1>18, <1>19, <1>20 DEF IInv

\* A set of blocks, and where the loader goes from them.
LEMMA NextBlockIs ==
  ASSUME NEW bs \in SUBSET DOMAIN blocks, TypeOK, BlocksInv, NextBlock(bs),
         UNCHANGED blocks
  PROVE  /\ bit' \in 0 .. NTx /\ tit' \in 0 .. NTx /\ unread' \subseteq bs
         /\ bit' = 0 => unread' = {} /\ bs = {}
         /\ bit' # 0 => /\ bit' \in bs \ unread' /\ bs = unread' \cup {bit'}
                        /\ tit' = 1 /\ tit' \in 1 .. Len(blocks[bit'])
<1>1. CASE bs = {} /\ bit' = 0 /\ tit' = 0 /\ unread' = {}
  BY <1>1, LedgerAssumption
<1>2. CASE bit' \in bs /\ tit' = 1 /\ unread' = bs \ {bit'}
  <2>1. /\ bit' \in Tx /\ Len(blocks[bit']) \in 1 .. NTx
    BY <1>2 DEF TypeOK, BlocksInv
  <2>2. bit' \in 0 .. NTx /\ bit' # 0 /\ tit' \in 0 .. NTx /\ tit' \in 1 .. Len(blocks[bit'])
    BY <1>2, <2>1, LedgerAssumption DEF Tx
  <2>3. QED
    BY <1>2, <2>2
<1>3. QED
  BY <1>1, <1>2 DEF NextBlock

\* Restart: the index is gone, the kept blocks are not, and netTx goes back to
\* the first transaction behind them.
LEMMA RestartKeeps ==
  ASSUME IInv, Restart
  PROVE  IInv'
<1>1. /\ TypeOK /\ Chain /\ Place /\ BlocksInv /\ KeptInv /\ LoadInv /\ IndexInv
      /\ UiInv /\ NeverTooLow /\ PlainWalletsExact
  BY DEF IInv
<1>2. /\ runs' = runs + 1 /\ runs < MaxRuns /\ m_TxMap' = EmptyMap /\ save_blk' = <<>>
      /\ NextBlock(DOMAIN blocks)
      /\ netTx' = Min({t \in Tx : blockOf[t] >= netBlock} \cup {NTx + 1})
      /\ uiPc' = "idle" /\ uiBlocks' = EmptyMap /\ uiAddr' = Nobody /\ uiHeight' = 0
      /\ report' = NoReport
      /\ UNCHANGED <<netBlock, pays, vin, blockOf, blocks>>
  BY DEF Restart, chainVars
<1>3. [Next]_vars
  BY DEF Next, Loader
<1>4. /\ bit' \in 0 .. NTx /\ tit' \in 0 .. NTx /\ unread' \subseteq DOMAIN blocks
      /\ bit' = 0 => unread' = {} /\ DOMAIN blocks = {}
      /\ bit' # 0 => /\ bit' \in DOMAIN blocks \ unread'
                     /\ DOMAIN blocks = unread' \cup {bit'}
                     /\ tit' = 1 /\ tit' \in 1 .. Len(blocks[bit'])
  BY <1>1, <1>2, NextBlockIs
<1>5. /\ netTx' \in 1 .. NTx + 1
      /\ \A t \in Tx : t < netTx' <=> blockOf[t] < netBlock
  <2> DEFINE behind == {t \in Tx : blockOf[t] >= netBlock} \cup {NTx + 1}
  <2>1. behind \subseteq 1 .. NTx + 1 /\ behind \subseteq Nat /\ behind # {}
    BY LedgerAssumption DEF Tx
  <2>2. netTx' \in behind /\ \A y \in behind : netTx' <= y
    BY <1>2, <2>1, MinIs
  <2>3. \A t \in Tx : t \in Nat /\ blockOf[t] \in Nat /\ t < NTx + 1
    BY <1>1, LedgerAssumption DEF Chain, Tx
  <2>4. netBlock \in Nat
    BY <1>1, LedgerAssumption DEF TypeOK
  <2>5. ASSUME NEW t \in Tx, t < netTx' PROVE blockOf[t] < netBlock
    <3>1. netTx' \in Nat
      BY <2>1, <2>2
    <3>2. t \notin behind
      BY <2>2, <2>3, <2>5, <3>1
    <3>3. QED
      BY <2>3, <2>4, <3>2
  <2>6. ASSUME NEW t \in Tx, blockOf[t] < netBlock PROVE t < netTx'
    <3>1. CASE netTx' = NTx + 1
      BY <2>3, <3>1
    <3>2. CASE netTx' \in Tx /\ blockOf[netTx'] >= netBlock
      <4>1. netTx' <= t => blockOf[netTx'] <= blockOf[t]
        BY <1>1, <3>2 DEF Chain
      <4>2. QED
        BY <2>3, <2>4, <2>6, <3>2, <4>1
    <3>3. QED
      BY <2>2, <3>1, <3>2
  <2>7. QED
    BY <2>1, <2>2, <2>5, <2>6
<1>6. Len(<<>>) = 0 /\ <<>> \in Seq(Tx) /\ 1 .. 0 = {}
  OBVIOUS
<1>7. DOMAIN EmptyMap = {}
  BY DEF EmptyMap
<1>8. TypeOK'
  <2>1. /\ report'.addr = Nobody /\ report'.height = 0 /\ report'.received = {}
        /\ report'.spent = {} /\ report'.settled = FALSE
    BY <1>2 DEF NoReport
  <2>2. runs' \in 1 .. MaxRuns
    BY <1>1, <1>2, LedgerAssumption DEF TypeOK
  <2>3. DOMAIN blocks \subseteq Tx /\ unread' \subseteq Tx
    BY <1>1, <1>4 DEF TypeOK
  <2>4. 0 \in 0 .. NTx
    BY LedgerAssumption
  <2>5. QED
    BY <1>1, <1>2, <1>4, <1>5, <1>6, <1>7, <2>1, <2>2, <2>3, <2>4 DEF TypeOK
<1>9. Chain'
  BY <1>1, <1>3, SameChain
<1>10. Place'
  <2>1. \A t \in Tx : blockOf[t] < netBlock => blockOf[t] <= netBlock
    BY <1>1, LedgerAssumption DEF Chain, Tx, TypeOK
  <2>2. 0 < netTx'
    BY <1>5
  <2>3. QED
    BY <1>2, <1>5, <1>6, <2>1, <2>2 DEF Place
<1>11. BlocksInv'
  BY <1>1, <1>2, <1>6 DEF BlocksInv
<1>12. /\ \A t : IsKept(t)' <=> t \in Kept(blocks)
       /\ \A t \in Tx : t < netTx' /\ IsKept(t) => t \in Kept(blocks)
  <2>1. \A t : ~IsSaved(t)'
    BY <1>2, <1>6 DEF IsSaved
  <2>2. \A t \in Tx : t < netTx' => ~IsSaved(t)
    <3>1. netBlock \in Int
      BY <1>1 DEF TypeOK
    <3>2. QED
      BY <1>5, <3>1, KeptBelow
  <2>3. Kept(blocks)' = Kept(blocks)
    BY <1>2 DEF Kept
  <2>4. QED
    BY <2>1, <2>2, <2>3 DEF IsKept
<1>13. Exact' => Exact
  <2>1. runs = 1 \/ (runs # 1 /\ runs' # 1)
    BY <1>1, <1>2 DEF TypeOK
  <2>2. /\ PlainWallet' <=> PlainWallet
        /\ UnlinkedWallet' <=> UnlinkedWallet
    BY <1>3, SameChain
  <2>3. UnlinkedWallet => PlainWallet
    BY DEF UnlinkedWallet
  <2>4. runs' # 1
    BY <1>1, <1>2 DEF TypeOK
  <2>5. QED
    BY <2>1, <2>2, <2>3, <2>4 DEF Exact
<1>14. KeptInv'
  <2>1. \A s \in Tx : /\ WatchedOuts(s)' = WatchedOuts(s)
                      /\ SpendsWallet(s)' <=> SpendsWallet(s)
    BY <1>3, SameChain
  <2>2. \A s \in Tx : s < netTx' => s < netTx
    BY <1>1, <1>5 DEF Place
  <2>3. \A s \in Tx : s \in Kept(blocks) => IsKept(s)
    BY DEF IsKept
  <2>4. QED
    BY <1>1, <1>12, <1>13, <2>1, <2>2, <2>3 DEF KeptInv
<1>15. LoadInv'
  <2>1. runs' # 1
    BY <1>1, <1>2 DEF TypeOK
  <2>2. QED
    BY <1>2, <1>4, <2>1 DEF LoadInv, Loaded
<1>16. IndexInv'
  <2>1. \A h, i : ~Read(h, i)'
    <3>1. ASSUME NEW h, NEW i, Read(h, i)' PROVE FALSE
      <4>1. h \in DOMAIN blocks \ unread' /\ i \in 1 .. Len(blocks[h]) /\ (h = bit' => i < tit')
        BY <1>2, <3>1 DEF Read
      <4>2. h = bit' /\ tit' = 1
        BY <1>4, <4>1
      <4>3. QED
        BY <4>1, <4>2
    <3>2. QED
      BY <3>1
  <2>2. QED
    BY <1>2, <1>6, <1>7, <2>1 DEF IndexInv
<1>17. UiInv' /\ NeverTooLow' /\ PlainWalletsExact'
  <2>1. report'.addr = Nobody /\ report'.settled = FALSE
    BY <1>2 DEF NoReport
  <2>2. QED
    BY <1>2, <2>1, LedgerAssumption DEF UiInv, NeverTooLow, PlainWalletsExact
<1>18. QED
  BY <1>8, <1>9, <1>10, <1>11, <1>14, <1>15, <1>16, <1>17 DEF IInv

\* LoadTx: where the books are right, no parent of a transaction that pays the
\* wallet is kept, so its entry names the output.
LEMMA LoadedOutIs ==
  ASSUME IInv, runs # 1, NEW t \in Tx
  PROVE  /\ LoadedOut(t) \in WatchedOuts(t) \cup {-1}
         /\ LoadedOut(t) \in -1 .. NOut - 1
         /\ Exact /\ WatchedOuts(t) # {} => LoadedOut(t) = FirstWatched(t)
<1>1. LoadedOut(t) \in WatchedOuts(t) \cup {-1} /\ LoadedOut(t) \in -1 .. NOut - 1
  BY FirstWatchedIs, LedgerAssumption DEF LoadedOut
<1>2. ASSUME Exact, WatchedOuts(t) # {} PROVE ~IsFind(t)
  <2> SUFFICES ASSUME NEW o \in vin[t], o.hash \in DOMAIN m_TxMap PROVE FALSE
    BY DEF IsFind
  <2>1. Chain /\ KeptInv
    BY DEF IInv
  <2>2. o.hash \in Tx
    BY <2>1, WatchedSpent
  <2>3. WatchedOuts(o.hash) = {} /\ ~SpendsWallet(o.hash)
    BY <1>2 DEF Exact, UnlinkedWallet
  <2>4. IsKept(o.hash)
    BY IndexedAreKept
  <2>5. QED
    BY <2>1, <2>2, <2>3, <2>4 DEF KeptInv
<1>3. QED
  BY <1>1, <1>2 DEF LoadedOut

LEMMA LoadTxKeeps ==
  ASSUME IInv, LoadTx
  PROVE  IInv'
<1>1. /\ TypeOK /\ Chain /\ Place /\ BlocksInv /\ KeptInv /\ LoadInv /\ IndexInv
      /\ UiInv /\ NeverTooLow /\ PlainWalletsExact
  BY DEF IInv
<1>2. PICK t : t = blocks[bit][tit]
  OBVIOUS
<1>3. /\ ~Loaded
      /\ m_TxMap' = Insert(m_TxMap, t, Index(bit, tit - 1, LoadedOut(t)))
      /\ \/ tit < Len(blocks[bit]) /\ tit' = tit + 1 /\ UNCHANGED <<bit, unread>>
         \/ ~(tit < Len(blocks[bit])) /\ NextBlock(unread)
      /\ UNCHANGED <<pays, vin, blockOf, blocks, netBlock, netTx, save_blk, uiPc,
                     uiAddr, uiBlocks, uiHeight, report, runs>>
  BY <1>2 DEF LoadTx, chainVars, netVars, uiVars
<1>4. [Next]_vars
  BY DEF Next, Loader
<1>5. /\ bit \in DOMAIN blocks \ unread /\ unread \subseteq DOMAIN blocks
      /\ tit \in 1 .. Len(blocks[bit]) /\ save_blk = <<>> /\ runs # 1
      /\ blocks[bit] \in Seq(Tx) /\ Len(blocks[bit]) \in 1 .. NTx
  BY <1>1, <1>3 DEF LoadInv, BlocksInv, TypeOK
<1>6. t \in Tx /\ bit \in Tx /\ tit \in Nat /\ tit - 1 \in 0 .. NTx - 1
  <2>1. PICK s : s = blocks[bit]
    OBVIOUS
  <2>2. s \in Seq(Tx) /\ tit \in 1 .. Len(s) /\ Len(s) \in 1 .. NTx /\ t = s[tit]
    BY <1>2, <1>5, <2>1
  <2>3. t \in Tx
    BY <2>2
  <2>4. bit \in Tx
    BY <1>1, <1>5 DEF TypeOK
  <2>5. tit \in Nat /\ tit - 1 \in 0 .. NTx - 1
    BY <2>2, LedgerAssumption
  <2>6. QED
    BY <2>3, <2>4, <2>5
<1>7. /\ LoadedOut(t) \in WatchedOuts(t) \cup {-1}
      /\ LoadedOut(t) \in -1 .. NOut - 1
      /\ Exact /\ WatchedOuts(t) # {} => LoadedOut(t) = FirstWatched(t)
  BY <1>5, <1>6, LoadedOutIs
<1>8. PICK e : e = Index(bit, tit - 1, LoadedOut(t))
  OBVIOUS
<1>9. /\ e \in Entry /\ e.block_hash = bit /\ e.tx_index + 1 = tit
      /\ e.out_index = LoadedOut(t)
  BY <1>6, <1>7, <1>8 DEF Index, Entry
<1>10. /\ DOMAIN m_TxMap' = DOMAIN m_TxMap \cup {t}
       /\ \A s \in DOMAIN m_TxMap : m_TxMap'[s] = m_TxMap[s]
       /\ t \notin DOMAIN m_TxMap => m_TxMap'[t] = e
  BY <1>3, <1>8 DEF Insert
<1>11. /\ bit' \in 0 .. NTx /\ tit' \in 0 .. NTx /\ unread' \subseteq DOMAIN blocks
       /\ bit' = 0 => unread' = {}
       /\ bit' # 0 => /\ bit' \in DOMAIN blocks \ unread'
                      /\ tit' \in 1 .. Len(blocks[bit'])
       /\ \A h, i : Read(h, i)' <=> (Read(h, i) \/ (h = bit /\ i = tit))
  <2>1. \A h, i : Read(h, i)' <=> /\ h \in DOMAIN blocks \ unread'
                                  /\ i \in 1 .. Len(blocks[h]) /\ (h = bit' => i < tit')
    BY <1>3 DEF Read
  <2>2. CASE tit < Len(blocks[bit]) /\ tit' = tit + 1 /\ UNCHANGED <<bit, unread>>
    <3>1. bit # 0 /\ bit' \in 0 .. NTx /\ tit' \in 0 .. NTx /\ tit' \in 1 .. Len(blocks[bit])
      BY <1>5, <1>6, <2>2, LedgerAssumption DEF Tx
    <3>2. \A i \in 1 .. Len(blocks[bit]) : i < tit' <=> i < tit \/ i = tit
      BY <1>6, <2>2
    <3>3. QED
      BY <1>5, <2>1, <2>2, <3>1, <3>2 DEF Read
  <2>3. CASE ~(tit < Len(blocks[bit])) /\ NextBlock(unread)
    <3>1. /\ bit' \in 0 .. NTx /\ tit' \in 0 .. NTx /\ unread' \subseteq unread
          /\ bit' = 0 => unread' = {} /\ unread = {}
          /\ bit' # 0 => /\ bit' \in unread \ unread' /\ unread = unread' \cup {bit'}
                         /\ tit' = 1 /\ tit' \in 1 .. Len(blocks[bit'])
      BY <1>1, <1>3, <1>5, <2>3, NextBlockIs
    <3>2. tit = Len(blocks[bit])
      BY <1>5, <2>3
    <3>3. \A i \in 1 .. Len(blocks[bit]) : i < tit \/ i = tit
      BY <1>5, <3>2
    <3>4. 0 \notin DOMAIN blocks
      BY <1>1 DEF TypeOK, Tx
    <3>5. \A h, i : ~(h = bit' /\ bit' # 0 /\ i \in 1 .. Len(blocks[h]) /\ i < tit')
      BY <3>1
    <3>6. ASSUME NEW h, NEW i PROVE Read(h, i)' <=> (Read(h, i) \/ (h = bit /\ i = tit))
      <4>1. CASE h = bit
        <5>1. bit # bit' /\ bit \in DOMAIN blocks \ unread'
          BY <1>1, <1>5, <3>1, <3>4
        <5>2. Read(h, i)' <=> i \in 1 .. Len(blocks[bit])
          BY <2>1, <4>1, <5>1
        <5>3. Read(h, i) <=> i \in 1 .. Len(blocks[bit]) /\ i < tit
          BY <1>5, <4>1 DEF Read
        <5>4. QED
          BY <1>5, <3>3, <4>1, <5>2, <5>3
      <4>2. CASE h # bit
        BY <1>5, <2>1, <3>1, <3>4, <3>5, <4>2 DEF Read
      <4>3. QED
        BY <4>1, <4>2
    <3>7. QED
      BY <1>5, <3>1, <3>6
  <2>4. QED
    BY <1>3, <2>2, <2>3
<1>12. TypeOK'
  <2>1. \A s \in DOMAIN m_TxMap' : m_TxMap'[s] \in Entry
    BY <1>1, <1>9, <1>10 DEF TypeOK
  <2>2. DOMAIN m_TxMap' \subseteq Tx /\ unread' \subseteq Tx
    BY <1>1, <1>6, <1>10, <1>11 DEF TypeOK
  <2>3. QED
    BY <1>1, <1>3, <1>11, <2>1, <2>2 DEF TypeOK
<1>13. Chain'
  BY <1>1, <1>4, SameChain
<1>14. Place' /\ BlocksInv'
  BY <1>1, <1>3 DEF Place, BlocksInv
<1>15. Exact' <=> Exact
  BY <1>3, <1>4, SameChain DEF Exact
<1>16. KeptInv'
  <2>1. \A s \in Tx : /\ WatchedOuts(s)' = WatchedOuts(s)
                      /\ SpendsWallet(s)' <=> SpendsWallet(s)
    BY <1>4, SameChain
  <2>2. \A s : IsKept(s)' <=> IsKept(s)
    BY <1>3 DEF IsKept, IsSaved, Kept
  <2>3. QED
    BY <1>1, <1>3, <1>15, <2>1, <2>2 DEF KeptInv
<1>17. LoadInv'
  BY <1>3, <1>5, <1>11 DEF LoadInv, Loaded
<1>18. IndexInv'
  <2>1. \A s \in Tx : /\ WatchedOuts(s)' = WatchedOuts(s)
                      /\ FirstWatched(s)' = FirstWatched(s)
    BY <1>4, SameChain
  <2>2. ASSUME NEW h \in DOMAIN blocks, NEW i \in 1 .. Len(blocks[h]), Read(h, i)'
        PROVE  blocks[h][i] \in DOMAIN m_TxMap'
    <3>1. CASE Read(h, i)
      BY <1>1, <1>10, <3>1 DEF IndexInv
    <3>2. CASE h = bit /\ i = tit
      BY <1>2, <1>10, <3>2
    <3>3. QED
      BY <1>11, <2>2, <3>1, <3>2
  <2>3. ASSUME NEW s \in DOMAIN m_TxMap', NEW f, f = m_TxMap'[s]
        PROVE  /\ Read(f.block_hash, f.tx_index + 1)'
               /\ blocks[f.block_hash][f.tx_index + 1] = s
               /\ f.out_index \in WatchedOuts(s) \cup {-1}
               /\ Exact /\ WatchedOuts(s) # {} => f.out_index = FirstWatched(s)
    <3>1. CASE s \in DOMAIN m_TxMap
      <4>1. f = m_TxMap[s]
        BY <1>10, <2>3, <3>1
      <4>2. /\ \/ Read(f.block_hash, f.tx_index + 1)
                    /\ blocks[f.block_hash][f.tx_index + 1] = s
               \/ f.tx_index + 1 \in 1 .. Len(save_blk)
            /\ f.out_index \in WatchedOuts(s) \cup {-1}
            /\ Exact /\ WatchedOuts(s) # {} => f.out_index = FirstWatched(s)
        BY <1>1, <3>1, <4>1 DEF IndexInv
      <4>3. 1 .. Len(save_blk) = {}
        BY <1>5
      <4>4. QED
        BY <1>11, <4>2, <4>3
    <3>2. CASE s \notin DOMAIN m_TxMap
      <4>1. s = t /\ f = e
        BY <1>10, <2>3, <3>2
      <4>2. \A h, i : h = bit /\ i = tit => Read(h, i)'
        BY <1>11
      <4>3. PICK b, j : b = bit /\ j = tit
        OBVIOUS
      <4>4. Read(b, j)'
        BY <4>2, <4>3
      <4>5. f.block_hash = b /\ f.tx_index + 1 = j
        BY <1>9, <4>1, <4>3
      <4>6. Read(f.block_hash, f.tx_index + 1)'
        BY <4>4, <4>5
      <4>7. QED
        BY <1>2, <1>7, <1>9, <4>1, <4>3, <4>5, <4>6
    <3>3. QED
      BY <3>1, <3>2
  <2>4. 1 .. Len(save_blk) = {} /\ DOMAIN m_TxMap' \subseteq Tx
    BY <1>5, <1>12 DEF TypeOK
  <2>5. QED
    BY <1>3, <1>15, <2>1, <2>2, <2>3, <2>4 DEF IndexInv
<1>19. UiInv'
  BY <1>1, <1>3 DEF UiInv
<1>20. NeverTooLow' /\ PlainWalletsExact'
  BY <1>1, <1>3, <1>4, ReportStays
<1>21. QED
  BY <1>12, <1>13, <1>14, <1>16, <1>17, <1>18, <1>19, <1>20 DEF IInv

\* The ui thread changes nothing of the books.
LEMMA UiKeepsBooks ==
  ASSUME IInv, [Next]_vars,
         UNCHANGED <<blocks, m_TxMap, netBlock, netTx, save_blk, bit, tit, unread, runs>>
  PROVE  Chain' /\ Place' /\ BlocksInv' /\ KeptInv' /\ LoadInv' /\ IndexInv'
<1>1. /\ Chain /\ Place /\ BlocksInv /\ KeptInv /\ LoadInv /\ IndexInv
      /\ DOMAIN m_TxMap \subseteq Tx
  BY DEF IInv, TypeOK
<1>2. /\ UNCHANGED <<pays, vin, blockOf>>
      /\ Chain'
      /\ \A t \in Tx : /\ WatchedOuts(t)' = WatchedOuts(t)
                       /\ FirstWatched(t)' = FirstWatched(t)
                       /\ SpendsWallet(t)' <=> SpendsWallet(t)
      /\ Exact' <=> Exact
  BY <1>1, SameChain DEF Exact
<1>3. Place' /\ BlocksInv'
  BY <1>1, <1>2 DEF Place, BlocksInv
<1>4. KeptInv'
  <2>1. \A t : IsKept(t)' <=> IsKept(t)
    BY DEF IsKept, IsSaved, Kept
  <2>2. QED
    BY <1>1, <1>2, <2>1 DEF KeptInv
<1>5. LoadInv'
  BY <1>1 DEF LoadInv, Loaded
<1>6. IndexInv'
  <2>1. \A h, i : Read(h, i)' <=> Read(h, i)
    BY DEF Read
  <2>2. QED
    BY <1>1, <1>2, <2>1 DEF IndexInv
<1>7. QED
  BY <1>2, <1>3, <1>4, <1>5, <1>6

\* CopyBlocks: the blocks so far are those below netBlock.
LEMMA CopyBlocksKeeps ==
  ASSUME IInv, NEW addr \in Watched, CopyBlocks(addr)
  PROVE  IInv'
<1>1. TypeOK /\ BlocksInv /\ NeverTooLow /\ PlainWalletsExact
  BY DEF IInv
<1>2. /\ uiPc' = "txmap" /\ uiAddr' = addr /\ uiBlocks' = blocks
      /\ uiHeight' = netBlock - 1
      /\ UNCHANGED <<report, pays, vin, blockOf, blocks, m_TxMap, netBlock, netTx,
                     save_blk, bit, tit, unread, runs>>
  BY DEF CopyBlocks, chainVars, netVars, loadVars
<1>3. [Next]_vars
  BY DEF Next, Ui
<1>4. netBlock \in 1 .. NTx + 1 /\ netBlock - 1 \in 0 .. NTx
  BY <1>1, LedgerAssumption DEF TypeOK
<1>5. TypeOK'
  BY <1>1, <1>2, <1>4 DEF TypeOK
<1>6. UiInv'
  <2>1. ASSUME NEW h \in DOMAIN blocks PROVE h <= netBlock - 1
    BY <1>1, <1>4 DEF BlocksInv, TypeOK, Tx
  <2>2. netBlock - 1 < netBlock
    BY <1>4
  <2>3. QED
    BY <1>2, <2>1, <2>2 DEF UiInv
<1>7. NeverTooLow' /\ PlainWalletsExact'
  BY <1>1, <1>2, <1>3, ReportStays
<1>8. QED
  BY <1>2, <1>3, <1>5, <1>6, <1>7, UiKeepsBooks DEF IInv

\* What the copied blocks hold.
LEMMA CopiedAre ==
  ASSUME IInv, uiPc = "txmap"
  PROVE  \A t \in Tx : /\ t \in Kept(uiBlocks) => blockOf[t] <= uiHeight
                       /\ t \in Kept(uiBlocks) => IsKept(t)
                       /\ blockOf[t] <= uiHeight => t < netTx
                       /\ IsKept(t) /\ blockOf[t] <= uiHeight => t \in Kept(uiBlocks)
<1>1. TypeOK /\ Chain /\ Place /\ BlocksInv /\ UiInv
  BY DEF IInv
<1>2. /\ uiHeight < netBlock /\ uiHeight \in Nat /\ netBlock \in Nat
      /\ DOMAIN uiBlocks = {h \in DOMAIN blocks : h <= uiHeight}
      /\ \A h \in DOMAIN uiBlocks : uiBlocks[h] = blocks[h]
  BY <1>1, LedgerAssumption DEF UiInv, TypeOK
<1>3. ASSUME NEW t \in Kept(uiBlocks) PROVE blockOf[t] <= uiHeight /\ t \in Kept(blocks)
  <2>1. PICK h \in DOMAIN uiBlocks : \E i \in 1 .. Len(uiBlocks[h]) : t = uiBlocks[h][i]
    BY DEF Kept
  <2>2. PICK i \in 1 .. Len(blocks[h]) : t = blocks[h][i]
    BY <1>2, <2>1
  <2>3. h \in DOMAIN blocks /\ h <= uiHeight
    BY <1>2, <2>1
  <2>4. blockOf[t] = h
    BY <1>1, <2>2, <2>3 DEF BlocksInv
  <2>5. QED
    BY <2>2, <2>3, <2>4 DEF Kept
<1>4. ASSUME NEW t \in Tx, IsKept(t), blockOf[t] <= uiHeight PROVE t \in Kept(uiBlocks)
  <2>1. ~IsSaved(t)
    BY <1>2, <1>4, KeptBelow
  <2>2. t \in Kept(blocks)
    BY <1>4, <2>1 DEF IsKept
  <2>3. PICK h \in DOMAIN blocks : \E i \in 1 .. Len(blocks[h]) : t = blocks[h][i]
    BY <2>2 DEF Kept
  <2>4. blockOf[t] = h
    BY <1>1, <2>3 DEF BlocksInv
  <2>5. h \in DOMAIN uiBlocks /\ uiBlocks[h] = blocks[h]
    BY <1>2, <1>4, <2>4
  <2>6. QED
    BY <2>3, <2>5 DEF Kept
<1>5. ASSUME NEW t \in Tx, blockOf[t] <= uiHeight PROVE t < netTx
  <2>1. blockOf[t] \in Nat
    BY <1>1 DEF Chain, Tx
  <2>2. blockOf[t] < netBlock
    BY <1>2, <1>5, <2>1
  <2>3. QED
    BY <1>1, <2>2 DEF Place
<1>6. QED
  BY <1>3, <1>4, <1>5 DEF IsKept

\* GetTransactionOut finds the output itself or nothing; it finds it when its
\* transaction is in both copies.
LEMMA FoundIs ==
  ASSUME IInv, uiPc = "txmap", NEW S \in SUBSET DOMAIN m_TxMap, NEW o \in Outpoint
  PROVE  LET found == Found(uiBlocks, Restrict(m_TxMap, S), o)
         IN  /\ \A p \in found : p = o /\ o.hash \in Kept(uiBlocks)
             /\ o.hash \in S /\ o.hash \in Kept(uiBlocks) => o \in found
<1>1. TypeOK /\ Chain /\ Place /\ BlocksInv /\ IndexInv /\ UiInv
  BY DEF IInv
<1>2. /\ uiHeight < netBlock /\ uiHeight \in Nat /\ netBlock \in Nat
      /\ DOMAIN uiBlocks = {h \in DOMAIN blocks : h <= uiHeight}
      /\ \A h \in DOMAIN uiBlocks : uiBlocks[h] = blocks[h]
  BY <1>1, LedgerAssumption DEF UiInv, TypeOK
<1>3. PICK x : x = o.hash
  OBVIOUS
<1>4. o = [hash |-> x, n |-> o.n] /\ x \in Tx
  BY <1>3 DEF Outpoint
<1>5. PICK tm : tm = Restrict(m_TxMap, S)
  OBVIOUS
<1>6. DOMAIN tm = S /\ \A t \in S : tm[t] = m_TxMap[t]
  BY <1>5 DEF Restrict
<1>7. CASE x \notin S
  <2>1. Found(uiBlocks, tm, o) = {}
    BY <1>3, <1>6, <1>7 DEF Found
  <2>2. QED
    BY <1>3, <1>5, <1>7, <2>1
<1>8. CASE x \in S
  <2>1. PICK e : e = m_TxMap[x]
    OBVIOUS
  <2>2. /\ e \in Entry /\ e.tx_index \in Nat
        /\ \/ /\ e.block_hash \in DOMAIN blocks
              /\ e.tx_index + 1 \in 1 .. Len(blocks[e.block_hash])
              /\ blocks[e.block_hash][e.tx_index + 1] = x
           \/ /\ e.block_hash = netBlock /\ e.tx_index + 1 \in 1 .. Len(save_blk)
              /\ save_blk[e.tx_index + 1] = x
    <3>1. x \in DOMAIN m_TxMap
      BY <1>8
    <3>2. e \in Entry
      BY <1>1, <2>1, <3>1 DEF TypeOK
    <3>3. e.tx_index \in Nat
      BY <3>2, LedgerAssumption DEF Entry
    <3>4. QED
      BY <1>1, <2>1, <3>1, <3>2, <3>3 DEF IndexInv, Read
  <2>3. Found(uiBlocks, tm, o) =
          IF e.block_hash \in DOMAIN uiBlocks /\ e.tx_index < Len(uiBlocks[e.block_hash])
          THEN {[hash |-> uiBlocks[e.block_hash][e.tx_index + 1], n |-> o.n]} ELSE {}
    BY <1>3, <1>6, <1>8, <2>1 DEF Found
  <2>4. CASE /\ e.block_hash \in DOMAIN blocks
             /\ e.tx_index + 1 \in 1 .. Len(blocks[e.block_hash])
             /\ blocks[e.block_hash][e.tx_index + 1] = x
    <3>1. blockOf[x] = e.block_hash
      BY <1>1, <2>4 DEF BlocksInv
    <3>2. x \in Kept(uiBlocks) => e.block_hash \in DOMAIN uiBlocks
      BY <1>2, <1>4, <2>4, <3>1, CopiedAre
    <3>3. e.block_hash \in DOMAIN uiBlocks =>
            /\ uiBlocks[e.block_hash][e.tx_index + 1] = x
            /\ e.tx_index + 1 \in 1 .. Len(uiBlocks[e.block_hash])
      BY <1>2, <2>4
    <3>4. e.block_hash \in DOMAIN uiBlocks => x \in Kept(uiBlocks)
      BY <3>3 DEF Kept
    <3>5. e.block_hash \in DOMAIN uiBlocks => e.tx_index < Len(uiBlocks[e.block_hash])
      <4>1. HAVE e.block_hash \in DOMAIN uiBlocks
      <4>2. Len(uiBlocks[e.block_hash]) \in Nat
        BY <1>1, <4>1 DEF TypeOK
      <4>3. QED
        BY <2>2, <3>3, <4>1, <4>2
    <3>6. Found(uiBlocks, tm, o) = IF x \in Kept(uiBlocks) THEN {o} ELSE {}
      BY <1>4, <2>3, <3>2, <3>3, <3>4, <3>5
    <3>7. QED
      BY <1>3, <1>5, <3>6
  <2>5. CASE /\ e.block_hash = netBlock /\ e.tx_index + 1 \in 1 .. Len(save_blk)
             /\ save_blk[e.tx_index + 1] = x
    <3>1. e.block_hash \notin DOMAIN uiBlocks
      BY <2>5, <1>2, KeptBelow
    <3>2. Found(uiBlocks, tm, o) = {}
      BY <2>3, <3>1
    <3>3. blockOf[x] = netBlock
      BY <1>1, <2>5 DEF BlocksInv
    <3>4. x \notin Kept(uiBlocks)
      BY <1>2, <1>4, <3>3, CopiedAre
    <3>5. QED
      BY <1>3, <1>5, <3>2, <3>4
  <2>6. QED
    BY <2>2, <2>4, <2>5
<1>9. QED
  BY <1>7, <1>8

\* What an input is found to spend is an output of the copied blocks that was
\* added, the one the input names; so no two inputs are found to spend one.
LEMMA SpentAre ==
  ASSUME IInv, uiPc = "txmap", NEW S \in SUBSET DOMAIN m_TxMap, NEW addr,
         NEW s \in Spent(addr, uiBlocks, Restrict(m_TxMap, S))
  PROVE  /\ s = [input |-> s.out, out |-> s.out]
         /\ s.out \in Received(addr, uiBlocks) /\ s.out \in Outpoint
         /\ \E t \in Kept(uiBlocks) : s.out \in vin[t]
<1>1. PICK tm : tm = Restrict(m_TxMap, S)
  OBVIOUS
<1>2. PICK i \in Inputs(uiBlocks) :
        \E p \in Found(uiBlocks, tm, i) : Pays(p, addr) /\ s = [input |-> i, out |-> p]
  BY <1>1 DEF Spent
<1>3. PICK t \in Kept(uiBlocks) : i \in vin[t]
  BY <1>2 DEF Inputs
<1>4. i \in Outpoint /\ Kept(uiBlocks) \subseteq Tx
  <2>1. TypeOK
    BY DEF IInv
  <2>2. Kept(uiBlocks) \subseteq Tx
    BY <2>1 DEF TypeOK, Kept
  <2>3. QED
    BY <1>3, <2>1, <2>2 DEF TypeOK
<1>5. s = [input |-> i, out |-> i] /\ Pays(i, addr) /\ i.hash \in Kept(uiBlocks)
  BY <1>1, <1>2, <1>4, FoundIs
<1>6. i \in [hash : Kept(uiBlocks), n : Out]
  BY <1>4, <1>5 DEF Outpoint
<1>7. QED
  BY <1>3, <1>4, <1>5, <1>6 DEF Received

\* CopyTxMap: the sum of the copies, where they are exact and where not.
LEMMA CopyTxMapKeeps ==
  ASSUME IInv, CopyTxMap
  PROVE  IInv'
<1>1. TypeOK /\ Chain /\ KeptInv /\ UiInv
  BY DEF IInv
<1>2. PICK addr, h, bs : addr = uiAddr /\ h = uiHeight /\ bs = uiBlocks
  OBVIOUS
<1>3. PICK S \in SUBSET DOMAIN m_TxMap :
        /\ Loaded => S = DOMAIN m_TxMap
        /\ report' = [addr |-> addr, height |-> h, received |-> Received(addr, bs),
                      spent |-> Spent(addr, bs, Restrict(m_TxMap, S)),
                      settled |-> Loaded]
  BY <1>2 DEF CopyTxMap
<1>4. PICK got, gone : /\ got = Received(addr, bs)
                       /\ gone = Spent(addr, bs, Restrict(m_TxMap, S))
  OBVIOUS
<1>5. /\ uiPc = "txmap" /\ uiPc' = "idle" /\ uiBlocks' = EmptyMap /\ uiAddr' = Nobody
      /\ uiHeight' = 0
      /\ report'.addr = addr /\ report'.height = h /\ report'.received = got
      /\ report'.spent = gone /\ report'.settled = Loaded
      /\ UNCHANGED <<pays, vin, blockOf, blocks, m_TxMap, netBlock, netTx, save_blk,
                     bit, tit, unread, runs>>
  BY <1>3, <1>4 DEF CopyTxMap, chainVars, netVars, loadVars
<1>6. [Next]_vars
  BY DEF Next, Ui
<1>7. addr \in Watched /\ h \in 0 .. NTx /\ Kept(bs) \subseteq Tx
  <2>1. Kept(bs) \subseteq Tx
    BY <1>1, <1>2 DEF TypeOK, Kept
  <2>2. QED
    BY <1>1, <1>2, <1>5, <2>1 DEF UiInv, TypeOK
<1>8. \A s \in gone : /\ s = [input |-> s.out, out |-> s.out]
                      /\ s.out \in got /\ s.out \in Outpoint
                      /\ \E t \in Kept(bs) : s.out \in vin[t]
  BY <1>2, <1>4, <1>5, SpentAre
<1>9. \A t \in Tx : /\ t \in Kept(bs) => t \in UpTo(h)
                    /\ t \in UpTo(h) => t < netTx
                    /\ IsKept(t) /\ t \in UpTo(h) => t \in Kept(bs)
  BY <1>2, <1>5, CopiedAre DEF UpTo
<1>10. UpTo(h) \subseteq Tx
  BY DEF UpTo
<1>11. \A o : o \in got <=> /\ o \in Outpoint /\ o.hash \in Kept(bs)
                            /\ pays[o.hash][o.n] = addr
  BY <1>4, <1>7 DEF Received, Pays, Outpoint
<1>12. PICK owns : owns = Balance(addr, h)
  OBVIOUS
<1>13. \A o : o \in owns <=> /\ o \in Outpoint /\ o.hash \in UpTo(h)
                             /\ pays[o.hash][o.n] = addr
                             /\ \A t \in UpTo(h) : o \notin vin[t]
  BY <1>10, <1>12 DEF Balance, Pays, Outpoint
<1>14. Balance(report.addr, report.height)' = owns
       /\ Counted' = got \ {s.out : s \in gone}
  BY <1>5, <1>12 DEF Balance, UpTo, Pays, Counted
<1>15. owns \subseteq got \ {s.out : s \in gone}
  <2>1. ASSUME NEW o \in owns PROVE o \in got
    <3>1. /\ o \in Outpoint /\ o.hash \in Tx /\ o.n \in Out
          /\ o.hash \in UpTo(h) /\ pays[o.hash][o.n] \in Watched
      BY <1>7, <1>13 DEF Outpoint
    <3>2. WatchedOuts(o.hash) # {} /\ o.hash < netTx
      BY <1>9, <3>1 DEF WatchedOuts
    <3>3. IsKept(o.hash)
      BY <1>1, <3>1, <3>2 DEF KeptInv
    <3>4. QED
      BY <1>9, <1>11, <1>13, <3>1, <3>3
  <2>2. ASSUME NEW o \in owns, NEW s \in gone, s.out = o PROVE FALSE
    <3>1. PICK t \in Kept(bs) : o \in vin[t]
      BY <1>8, <2>2
    <3>2. t \in UpTo(h)
      BY <1>7, <1>9
    <3>3. QED
      BY <1>13, <3>1, <3>2
  <2>3. QED
    BY <2>1, <2>2
<1>16. ASSUME Loaded, Exact, NEW o \in got, o \notin {s.out : s \in gone}
       PROVE  o \in owns
  <2>1. /\ o \in Outpoint /\ o.hash \in Tx /\ o.hash \in Kept(bs)
        /\ pays[o.hash][o.n] = addr
    BY <1>11, <1>16 DEF Outpoint
  <2>2. ASSUME NEW t \in UpTo(h), o \in vin[t] PROVE FALSE
    <3>1. t \in Tx /\ SpendsWallet(t)
      BY <1>7, <1>10, <2>1, <2>2 DEF SpendsWallet
    <3>2. t \in Kept(bs)
      BY <1>1, <1>9, <1>16, <2>2, <3>1 DEF KeptInv
    <3>3. o.hash \in DOMAIN m_TxMap
      <4>1. IsKept(o.hash)
        BY <1>2, <1>5, <2>1, CopiedAre
      <4>2. QED
        BY <1>16, <4>1, IndexedAreKept
    <3>4. o \in Found(bs, Restrict(m_TxMap, S), o)
      BY <1>2, <1>3, <1>5, <1>16, <2>1, <3>3, FoundIs
    <3>5. o \in Inputs(bs) /\ Pays(o, addr)
      BY <2>1, <2>2, <3>2 DEF Inputs, Pays
    <3>6. [input |-> o, out |-> o] \in gone
      BY <1>4, <3>4, <3>5 DEF Spent
    <3>7. QED
      BY <1>16, <3>6
  <2>3. QED
    BY <1>9, <1>13, <2>1, <2>2
<1>17. TypeOK'
  <2>1. got \subseteq Outpoint
    BY <1>11
  <2>2. gone \subseteq [input : Outpoint, out : Outpoint]
    BY <1>8
  <2>3. Loaded \in BOOLEAN /\ DOMAIN EmptyMap = {} /\ 0 \in 0 .. NTx
    BY LedgerAssumption DEF Loaded, EmptyMap
  <2>4. QED
    BY <1>1, <1>5, <1>7, <2>1, <2>2, <2>3 DEF TypeOK
<1>18. UiInv'
  BY <1>5 DEF UiInv
<1>19. NeverTooLow'
  <2>1. \A r, s \in gone : r.out \in got /\ (r.out = s.out => r = s)
    BY <1>8
  <2>2. QED
    BY <1>5, <1>14, <1>15, <2>1 DEF NeverTooLow
<1>20. PlainWalletsExact'
  <2>1. Exact' => Exact
    BY <1>5, <1>6, ExactStays
  <2>2. report'.settled /\ Exact' => Counted' = owns
    BY <1>5, <1>14, <1>15, <1>16, <2>1
  <2>3. QED
    BY <1>14, <2>2 DEF PlainWalletsExact, Exact
<1>21. QED
  BY <1>5, <1>6, <1>17, <1>18, <1>19, <1>20, UiKeepsBooks DEF IInv

\* Before the first transaction nothing is kept, indexed or reported.
LEMMA InitInductive == Init => IInv
<1> SUFFICES ASSUME Init PROVE IInv
  OBVIOUS
<1>1. Chain
  BY InitChain
<1>2. /\ blocks = EmptyMap /\ m_TxMap = EmptyMap /\ netBlock = 1 /\ netTx = 1
      /\ save_blk = <<>> /\ bit = 0 /\ tit = 0 /\ unread = {} /\ uiPc = "idle"
      /\ uiAddr = Nobody /\ uiBlocks = EmptyMap /\ uiHeight = 0 /\ report = NoReport
      /\ runs = 1 /\ DOMAIN EmptyMap = {}
  BY DEF Init, EmptyMap
<1>3. Len(<<>>) = 0 /\ <<>> \in Seq(Tx) /\ 1 .. 0 = {}
  OBVIOUS
<1>4. 1 \in 1 .. NTx + 1 /\ 0 \in 0 .. NTx /\ 1 \in 1 .. MaxRuns
  BY LedgerAssumption
<1>5. /\ report.addr = Nobody /\ report.height = 0 /\ report.received = {}
      /\ report.spent = {} /\ report.settled = FALSE
  BY <1>2 DEF NoReport
<1>6. TypeOK
  BY <1>1, <1>2, <1>3, <1>4, <1>5 DEF TypeOK, Chain
<1>7. \A t \in Tx : ~(t < 1) /\ blockOf[t] \in Tx /\ ~(blockOf[t] < 1)
  BY <1>1 DEF Chain, Tx
<1>8. Place /\ BlocksInv
  BY <1>2, <1>3, <1>7 DEF Place, BlocksInv
<1>9. KeptInv
  <2>1. \A t : ~IsKept(t)
    BY <1>2, <1>3 DEF IsKept, IsSaved, Kept
  <2>2. QED
    BY <1>2, <1>7, <2>1 DEF KeptInv
<1>10. LoadInv /\ IndexInv /\ UiInv
  BY <1>2, <1>3 DEF LoadInv, Loaded, IndexInv, UiInv
<1>11. NeverTooLow /\ PlainWalletsExact
  BY <1>5, LedgerAssumption DEF NeverTooLow, PlainWalletsExact
<1>12. QED
  BY <1>1, <1>6, <1>8, <1>9, <1>10, <1>11 DEF IInv

\* Every step keeps it.
LEMMA Inductive == IInv /\ [Next]_vars => IInv'
<1> SUFFICES ASSUME IInv, [Next]_vars PROVE IInv'
  OBVIOUS
<1>1. CASE FilterTx
  BY <1>1, FilterTxKeeps
<1>2. CASE InsertBlock
  BY <1>2, InsertBlockKeeps
<1>3. CASE Restart
  BY <1>3, RestartKeeps
<1>4. CASE LoadTx
  BY <1>4, LoadTxKeeps
<1>5. CASE \E addr \in Watched : CopyBlocks(addr)
  BY <1>5, CopyBlocksKeeps
<1>6. CASE CopyTxMap
  BY <1>6, CopyTxMapKeeps
<1>7. CASE UNCHANGED vars
  <2>1. /\ UNCHANGED <<pays, vin, blockOf, blocks, m_TxMap, netBlock, netTx, save_blk>>
        /\ UNCHANGED <<bit, tit, unread, uiPc, uiAddr, uiBlocks, uiHeight, report, runs>>
    BY <1>7 DEF vars, chainVars, netVars, loadVars, uiVars
  <2>2. TypeOK /\ UiInv /\ NeverTooLow /\ PlainWalletsExact
    BY DEF IInv
  <2>3. TypeOK' /\ UiInv'
    BY <2>1, <2>2 DEF TypeOK, UiInv
  <2>4. NeverTooLow' /\ PlainWalletsExact'
    BY <2>1, <2>2, ReportStays
  <2>5. QED
    BY <2>1, <2>3, <2>4, UiKeepsBooks DEF IInv
<1>8. QED
  BY <1>1, <1>2, <1>3, <1>4, <1>5, <1>6, <1>7 DEF Next, Net, Loader, Ui

LEMMA Always == Spec => []IInv
<1>1. Init => IInv
  BY InitInductive
<1>2. IInv /\ [Next]_vars => IInv'
  BY Inductive
<1>3. QED
  BY <1>1, <1>2, PTL DEF Spec

----------------------------------------------------------------------------
(* The theorems.                                                           *)

(* The variables of the three threads hold what the code's hold.           *)
THEOREM Types == Spec => []TypeOK
<1>1. IInv => TypeOK
  BY DEF IInv
<1>2. QED
  BY <1>1, Always, PTL

(* While work_get_data has copied the blocks and not yet the index, every  *)
(* transaction of its blocks is found through the index as it is then,     *)
(* however many steps filter_block took in between.                        *)
THEOREM TheCopiesFit == Spec => []CopiesFit
<1>1. ASSUME IInv, uiPc = "txmap", Loaded, NEW t \in Kept(uiBlocks), NEW n \in Out
      PROVE  Found(uiBlocks, m_TxMap, [hash |-> t, n |-> n]) = {[hash |-> t, n |-> n]}
  <2>1. TypeOK
    BY <1>1 DEF IInv
  <2>2. t \in Tx
    BY <2>1 DEF TypeOK, Kept
  <2>3. PICK o : o = [hash |-> t, n |-> n]
    OBVIOUS
  <2>4. o \in Outpoint /\ o.hash = t
    BY <2>2, <2>3 DEF Outpoint
  <2>5. t \in DOMAIN m_TxMap
    BY <1>1, <2>2, CopiedAre, IndexedAreKept
  <2>6. PICK all : all = Restrict(m_TxMap, DOMAIN m_TxMap)
    OBVIOUS
  <2>7. DOMAIN all = DOMAIN m_TxMap /\ \A s \in DOMAIN m_TxMap : all[s] = m_TxMap[s]
    BY <2>6 DEF Restrict
  <2>8. Found(uiBlocks, all, o) = Found(uiBlocks, m_TxMap, o)
    BY <2>7 DEF Found
  <2>9. \A p : p \in Found(uiBlocks, all, o) <=> p = o
    BY <1>1, <2>4, <2>5, <2>6, FoundIs
  <2>10. QED
    BY <2>3, <2>8, <2>9
<1>2. IInv => CopiesFit
  BY <1>1 DEF CopiesFit
<1>3. QED
  BY <1>2, Always, PTL

(* No report is too low: every unspent output of the address is in its     *)
(* sum, also while load_tx_map rebuilds the index, and no output is        *)
(* subtracted twice or that has not been added.                            *)
THEOREM NothingIsLost == Spec => []NeverTooLow
<1>1. IInv => NeverTooLow
  BY DEF IInv
<1>2. QED
  BY <1>1, Always, PTL

(* For a plain wallet a report made with the whole index is the balance at *)
(* the height of its blocks; after a restart, for an unlinked one.         *)
THEOREM PlainWalletsAreExact == Spec => []PlainWalletsExact
<1>1. IInv => PlainWalletsExact
  BY DEF IInv
<1>2. QED
  BY <1>1, Always, PTL
=============================================================================
