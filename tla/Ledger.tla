------------------------------- MODULE Ledger -------------------------------
(***************************************************************************)
(* The wallet's books of coin_kernel.cpp: filter_block chooses the         *)
(* transactions to keep and indexes them in m_TxMap, load_tx_map rebuilds  *)
(* that index after a start, and work_get_data computes a balance from     *)
(* copies of the two maps, taken one after the other.                      *)
(*                                                                         *)
(* A transaction is its place in the chain: number t is before t + 1.  Its *)
(* outputs pay watched addresses or Nobody (any script script_get_coin_key *)
(* gives no watched key for), its inputs are outpoints of earlier          *)
(* transactions, and no outpoint is spent twice.  A block is its height.   *)
(* Which blocks survive a restart is the business of BlockStore: here a    *)
(* restart finds all that were inserted.                                   *)
(***************************************************************************)
EXTENDS Integers, Sequences, FiniteSets, FiniteSetsExt

CONSTANTS NTx,        \* bound: transactions of the chain
          NOut,       \* bound: outputs of a transaction
          Watched,    \* RecvCoinList
          Nobody,
          MaxRuns     \* bound: how often the program is started

ASSUME LedgerAssumption == /\ NTx \in Nat \ {0} /\ NOut \in Nat
                           /\ MaxRuns \in Nat \ {0}
                           /\ Nobody \notin Watched

Tx == 1 .. NTx
Out == 0 .. NOut - 1
Outpoint == [hash : Tx, n : Out]

VARIABLES
  pays, vin, blockOf,        \* the chain
  blocks,                    \* [height -> vtx of the kept block]
  m_TxMap,                   \* [tx -> its transaction_map_index]
  netBlock, netTx, save_blk, \* filter_block: height, next tx, kept so far
  bit, tit, unread,          \* load_tx_map: its block (0: it is done), the
                             \* transaction in it, and the blocks it leaves
  uiPc, uiAddr, uiBlocks, uiHeight,   \* work_get_data
  report,                    \* what it returned last
  runs

chainVars == <<pays, vin, blockOf>>
netVars   == <<netBlock, netTx, save_blk>>
loadVars  == <<bit, tit, unread>>
uiVars    == <<uiPc, uiAddr, uiBlocks, uiHeight, report>>
vars == <<chainVars, blocks, m_TxMap, netVars, loadVars, uiVars, runs>>

\* A std::map, and insert: a key that is there keeps its value.
EmptyMap == [h \in {} |-> <<>>]
Insert(map, key, value) ==
  [k \in DOMAIN map \cup {key} |-> IF k \in DOMAIN map THEN map[k] ELSE value]

NoReport == [addr |-> Nobody, height |-> 0, received |-> {}, spent |-> {},
             settled |-> FALSE]

----------------------------------------------------------------------------
(* The choice of filter_block: a transaction is kept because it spends the *)
(* one output its parent's entry names, or else for its first output that  *)
(* pays a watched address; only the second kind is given an out_index.     *)

SpendsKnown(t) ==
  \E o \in vin[t] : /\ o.hash \in DOMAIN m_TxMap
                    /\ m_TxMap[o.hash].out_index = o.n

WatchedOutsSkipFirst(t) ==        \* mutated form: the loop starts at 1
  {n \in Out : n > 0 /\ pays[t][n] \in Watched}
WatchedOutsOneBased(t) ==         \* mutated form: ++out_index before the test
  {n \in 1 .. NOut : pays[t][n - 1] \in Watched}
WatchedOuts(t) == {n \in Out : pays[t][n] \in Watched}

FirstWatched(t) == IF WatchedOuts(t) = {} THEN -1 ELSE Min(WatchedOuts(t))

Index(h, i, n) == [block_hash |-> h, tx_index |-> i, out_index |-> n]

----------------------------------------------------------------------------
(* What work_get_data computes from a copy bs of blocks and tm of m_TxMap. *)

Kept(bs) == UNION {{bs[h][i] : i \in 1 .. Len(bs[h])} : h \in DOMAIN bs}

\* The outpoint whose output GetTransactionOut returns, if it finds one.
Found(bs, tm, o) ==
  {[hash |-> bs[tm[x].block_hash][tm[x].tx_index + 1], n |-> o.n] :
     x \in {y \in {o.hash} \cap DOMAIN tm :
              /\ tm[y].block_hash \in DOMAIN bs
              /\ tm[y].tx_index < Len(bs[tm[y].block_hash])}}

Pays(o, addr) == pays[o.hash][o.n] = addr

\* The two kinds of transaction_data: an output is added, and for an input
\* the output it is found to spend is subtracted.  RecvMoney is their sum.
Received(addr, bs) == {o \in [hash : Kept(bs), n : Out] : Pays(o, addr)}
Inputs(bs) == UNION {vin[t] : t \in Kept(bs)}
Spent(addr, bs, tm) ==
  UNION {{[input |-> i, out |-> o] : o \in {p \in Found(bs, tm, i) : Pays(p, addr)}} :
           i \in Inputs(bs)}

----------------------------------------------------------------------------
(* The chain, and what its balances really are.                            *)

SpentBy(spender, t) == {o \in Outpoint : spender[o] = t}

Init ==
  /\ pays \in [Tx -> [Out -> Watched \cup {Nobody}]]
  /\ \E spender \in [Outpoint -> 0 .. NTx] :
       /\ \A o \in Outpoint : spender[o] # 0 => spender[o] > o.hash
       /\ vin = [t \in Tx |-> SpentBy(spender, t)]
  /\ blockOf \in {b \in [Tx -> Tx] :
                    /\ b[1] = 1
                    /\ \A t \in 1 .. NTx - 1 : b[t + 1] \in {b[t], b[t] + 1}}
  /\ blocks = EmptyMap /\ m_TxMap = EmptyMap
  /\ netBlock = 1 /\ netTx = 1 /\ save_blk = <<>>
  /\ bit = 0 /\ tit = 0 /\ unread = {}
  /\ uiPc = "idle" /\ uiAddr = Nobody /\ uiBlocks = EmptyMap /\ uiHeight = 0
  /\ report = NoReport
  /\ runs = 1

\* The unspent outputs that pay addr in the blocks up to height h.
UpTo(h) == {t \in Tx : blockOf[t] <= h}
Balance(addr, h) ==
  {o \in [hash : UpTo(h), n : Out] :
     Pays(o, addr) /\ \A t \in UpTo(h) : o \notin vin[t]}

----------------------------------------------------------------------------
(* net: filter_block, one transaction at a time.  The entry is in m_TxMap  *)
(* before the next transaction is looked at and before the block is kept.  *)

Loaded == bit = 0
InBlock == netTx <= NTx /\ blockOf[netTx] = netBlock

FilterTxBlkIndex ==               \* mutated form: the index in blk.vtx
  /\ Loaded /\ InBlock
  /\ LET index == Cardinality({t \in Tx : t < netTx /\ blockOf[t] = netBlock})
         known == SpendsKnown(netTx)
         n == IF known THEN -1 ELSE FirstWatched(netTx)
     IN  IF known \/ n # -1
         THEN /\ save_blk' = Append(save_blk, netTx)
              /\ m_TxMap' = Insert(m_TxMap, netTx, Index(netBlock, index, n))
         ELSE UNCHANGED <<save_blk, m_TxMap>>
  /\ netTx' = netTx + 1
  /\ UNCHANGED <<netBlock, chainVars, blocks, loadVars, uiVars, runs>>
FilterTx ==
  /\ Loaded /\ InBlock
  /\ LET known == SpendsKnown(netTx)
         n == IF known THEN -1 ELSE FirstWatched(netTx)
     IN  IF known \/ n # -1
         THEN /\ save_blk' = Append(save_blk, netTx)
              /\ m_TxMap' = Insert(m_TxMap, netTx,
                                   Index(netBlock, Len(save_blk), n))
         ELSE UNCHANGED <<save_blk, m_TxMap>>
  /\ netTx' = netTx + 1
  /\ UNCHANGED <<netBlock, chainVars, blocks, loadVars, uiVars, runs>>

InsertBlock ==
  /\ Loaded /\ ~InBlock /\ \E t \in Tx : blockOf[t] = netBlock
  /\ blocks' = IF save_blk = <<>> THEN blocks ELSE Insert(blocks, netBlock, save_blk)
  /\ save_blk' = <<>> /\ netBlock' = netBlock + 1
  /\ UNCHANGED <<netTx, chainVars, m_TxMap, loadVars, uiVars, runs>>

----------------------------------------------------------------------------
(* A restart, and the loader's load_tx_map: it takes the blocks in the     *)
(* order of their hashes, which is any order.  The net thread starts when  *)
(* it is done.                                                             *)

\* bit goes to any of these blocks, or to the end.
NextBlock(bs) ==
  \/ bs = {} /\ bit' = 0 /\ tit' = 0 /\ unread' = {}
  \/ bit' \in bs /\ tit' = 1 /\ unread' = bs \ {bit'}

Restart ==
  /\ runs < MaxRuns /\ runs' = runs + 1
  /\ m_TxMap' = EmptyMap
  /\ NextBlock(DOMAIN blocks)
  /\ save_blk' = <<>>
  /\ netTx' = Min({t \in Tx : blockOf[t] >= netBlock} \cup {NTx + 1})
  /\ uiPc' = "idle" /\ uiBlocks' = EmptyMap /\ uiAddr' = Nobody /\ uiHeight' = 0
  /\ report' = NoReport
  /\ UNCHANGED <<netBlock, chainVars, blocks>>

\* A transaction with any indexed parent gets no out_index.
IsFind(t) == \E o \in vin[t] : o.hash \in DOMAIN m_TxMap
LoadedOutNone(t) == -1            \* mutated form: out_index stays -1
LoadedOut(t) == IF IsFind(t) THEN -1 ELSE FirstWatched(t)

LoadTx ==
  /\ ~Loaded
  /\ LET t == blocks[bit][tit]
     IN  m_TxMap' = Insert(m_TxMap, t, Index(bit, tit - 1, LoadedOut(t)))
  /\ IF tit < Len(blocks[bit]) THEN tit' = tit + 1 /\ UNCHANGED <<bit, unread>>
                               ELSE NextBlock(unread)
  /\ UNCHANGED <<chainVars, blocks, netVars, uiVars, runs>>

----------------------------------------------------------------------------
(* ui: work_get_data copies blocks under its mutex, then m_TxMap under     *)
(* its own.                                                                *)

CopyBlocks(addr) ==
  /\ uiPc = "idle" /\ uiPc' = "txmap"
  /\ uiAddr' = addr /\ uiBlocks' = blocks /\ uiHeight' = netBlock - 1
  /\ UNCHANGED <<report, chainVars, blocks, m_TxMap, netVars, loadVars, runs>>

\* load_tx_map does not lock: a copy made meanwhile may miss any entries.
CopyTxMap ==
  /\ uiPc = "txmap" /\ uiPc' = "idle"
  /\ \E S \in SUBSET DOMAIN m_TxMap :
       /\ Loaded => S = DOMAIN m_TxMap
       /\ report' = [addr |-> uiAddr, height |-> uiHeight,
                     received |-> Received(uiAddr, uiBlocks),
                     spent |-> Spent(uiAddr, uiBlocks, Restrict(m_TxMap, S)),
                     settled |-> Loaded]
  /\ uiBlocks' = EmptyMap /\ uiAddr' = Nobody /\ uiHeight' = 0
  /\ UNCHANGED <<chainVars, blocks, m_TxMap, netVars, loadVars, runs>>

----------------------------------------------------------------------------
Net == FilterTx \/ InsertBlock
Loader == Restart \/ LoadTx
Ui == CopyTxMap \/ \E addr \in Watched : CopyBlocks(addr)

Next == Net \/ Loader \/ Ui

Spec == Init /\ [][Next]_vars

----------------------------------------------------------------------------
(* Properties.                                                             *)

Entry == [block_hash : Tx, tx_index : 0 .. NTx - 1, out_index : -1 .. NOut - 1]

TypeOK ==
  /\ pays \in [Tx -> [Out -> Watched \cup {Nobody}]]
  /\ vin \in [Tx -> SUBSET Outpoint] /\ blockOf \in [Tx -> Tx]
  /\ DOMAIN blocks \subseteq Tx /\ \A h \in DOMAIN blocks : blocks[h] \in Seq(Tx)
  /\ DOMAIN m_TxMap \subseteq Tx /\ \A t \in DOMAIN m_TxMap : m_TxMap[t] \in Entry
  /\ netBlock \in 1 .. NTx + 1 /\ netTx \in 1 .. NTx + 1 /\ save_blk \in Seq(Tx)
  /\ bit \in 0 .. NTx /\ tit \in 0 .. NTx /\ unread \subseteq Tx
  /\ uiPc \in {"idle", "txmap"} /\ uiAddr \in Watched \cup {Nobody}
  /\ uiHeight \in 0 .. NTx
  /\ DOMAIN uiBlocks \subseteq Tx
  /\ \A h \in DOMAIN uiBlocks : uiBlocks[h] \in Seq(Tx)
  /\ report.addr \in Watched \cup {Nobody} /\ report.height \in 0 .. NTx
  /\ report.received \subseteq Outpoint /\ report.settled \in BOOLEAN
  /\ report.spent \subseteq [input : Outpoint, out : Outpoint]
  /\ runs \in 1 .. MaxRuns

(* The two copies of work_get_data fit together although other steps come  *)
(* between them: every transaction of the copied blocks has an entry in    *)
(* m_TxMap that leads back to it through the copied blocks.                *)
CopiesFit ==
  uiPc = "txmap" /\ Loaded =>
    \A t \in Kept(uiBlocks) : \A n \in Out :
      Found(uiBlocks, m_TxMap, [hash |-> t, n |-> n]) = {[hash |-> t, n |-> n]}

(* What the reported sum is made of, whatever the amounts are.             *)
Counted == report.received \ {s.out : s \in report.spent}

(* A balance is never reported lower than it is at the reported height,    *)
(* also while load_tx_map runs: every unspent output is in the sum, and    *)
(* nothing is subtracted twice or that has not been added.                 *)
NeverTooLow ==
  report.addr \in Watched =>
    /\ Balance(report.addr, report.height) \subseteq Counted
    /\ \A r, s \in report.spent : r.out \in report.received
                                  /\ (r.out = s.out => r = s)

(* Wallets for which the books are right: no transaction pays two watched  *)
(* outputs, and none that spends from the wallet pays it (no change).      *)
SpendsWallet(t) == \E o \in vin[t] : pays[o.hash][o.n] \in Watched
PlainWallet == \A t \in Tx : /\ Cardinality(WatchedOuts(t)) <= 1
                             /\ SpendsWallet(t) => WatchedOuts(t) = {}

(* After a restart no transaction that pays the wallet may even spend an   *)
(* output of a kept transaction.                                           *)
UnlinkedWallet ==
  /\ PlainWallet
  /\ \A t \in Tx : WatchedOuts(t) # {} =>
       \A o \in vin[t] : WatchedOuts(o.hash) = {} /\ ~SpendsWallet(o.hash)

(* For those wallets a report is the balance at the height of the copied   *)
(* blocks, also when a transaction and its spender are in one block and    *)
(* in whatever order load_tx_map reads.                                    *)
PlainWalletsExact ==
  report.settled /\ (IF runs = 1 THEN PlainWallet ELSE UnlinkedWallet)
    => Counted = Balance(report.addr, report.height)

(* The README's promise for every wallet: the balance of the address.      *)
BalanceExact ==
  report.settled => Counted = Balance(report.addr, report.height)
=============================================================================
