# A verification development for coin_looker

coin_looker is a Windows program that looks up the balance of Bitcoin and
Litecoin addresses without a full node: it connects to the nodes the DNS seeds
name, downloads headers and then blocks, keeps the transactions that touch the
addresses of a text file, and shows balances and transactions in a window. This
directory holds TLA+ modules of that program, the TLC configurations that check
them, and TLAPS proofs of all their safety properties.

Contents: 1 the system, 2 plan, 3 the modules and the code, 4 the runs,
5 fairness, 6 the proofs, 7 findings, 8 what is not modelled, 9 how to run.

Line numbers are those of `src/src/coin_peer.cpp` (`peer`) and
`src/src/coin_kernel.cpp` (`kernel`) unless another file is named.

## 1. The system

### Threads

| thread | what it runs | started by |
|---|---|---|
| ui | the MFC message loop; a 5 s timer calls `CUserContext::modal`; closing the window calls `uninit` | `WinMain` |
| loader | `CUserContext::load_db`: options, books, blocks, then one `async_connect` per endpoint | `OnInitDialog` (`coin_lookerDlg.cpp:71`) |
| net | `CPeerGroup::domodal`: all asio handlers, then `filter_modal` of the working nodes | the first `async_connect`, through `check_state` |

### Components

**Peer group and peer nodes** (`coin_peer.cpp`, `coin_peer.hpp`).
State: `m_checking_list`, `m_idle`, `m_working`, `m_busy_count`, `m_is_start`;
per node the socket, `m_pDestVersion`, two ticks, two pools.
Operations: `async_connect`, `check_state`, `domodal`, `on_connect`, `on_recv`,
`pop_idle`, `filter_modal`, `send_package`.
Hard: all three threads change it and only some accesses are locked
(`m_mutex` for the push at 313-315 and for all of `pop_idle`); a 60 s timeout in
32-bit ticks that wrap; the version may arrive between the two tests of
`pop_idle`; sends are two writes without a lock.
Correct if: the counter is the number of nodes in progress; no node is on two
lists; only a node that told its version is used; none is given up early; each
connection is settled; what the current node answers finds its slot; the two
threads never mix their sends.

**Receive stream of a node** (`on_recv` 131-198, `binary_stream.hpp`).
State: `m_data`, `m_buffer`, the pools. Hard: TCP cuts the stream anywhere.
Correct if: every message that arrived completely is delivered, once, in order,
and no byte gets out of step.

**Chain synchronisation** (`peer_start`, `filter_heads`, `filter_block`,
`send_getblockdatas`).
State: `last_block_hash`, `last_block_time`, the pools, what is in flight.
Hard: block times need not grow; the wallet's time is compared while blocks
asked for earlier may be on their way; batches of 2000 headers and 500 blocks.
Correct if: the due blocks reach `filter_block` in order, once, and the session
comes to rest with none missing.

**Block database and its file** (`CLocalBlockDB`, `save_check`, `uninit`,
`load_db_block`, `win32_fstream.hpp`).
State: the map of blocks, the last hash and time, `m_bChange`,
`m_last_save_time`, the `.blocks` and `.tmp` files.
Hard: the net thread changes what the ui thread writes and only a part is under
`mutex_blocks`; the process may end at any moment; the move may fail; an old
`.tmp` is continued.
Correct if: no file promises more blocks than it has; no save loses saved
blocks; every kept block is saved in the end; a restart loses no block. The code
does the first always and the others under conditions, which sections 4 and 7
give.

**A wallet** (`CWorkContext`): the two above together. State: both. Hard: the
session begins with a hash and a time that a file held, moves them while the ui
thread saves them, and there is one session in a run. Correct if: the blocks
come as the database assumes, whatever the file held; a session that is over has
every block it was told of; and those get into the file.

**Books: transaction index and balances** (`filter_block`'s choice,
`load_tx_map`, `work_get_data`).
State: `blocks`, `m_TxMap`, and the copies the ui thread makes of them.
Hard: the two maps are copied under two locks one after the other; the index is
rebuilt by other rules, in another order, after a start.
Correct if: the two copies fit together, and a balance is what the chain says.

**Wire and file encoding** (`coin_stream.hpp`, `stream_t.hpp`,
`binary_stream.hpp`, the structures of `coin_protocol.h`). Hard: the boundaries
of CompactSize, nested vectors. Correct if: what is written is read back, and
`on_recv` does not take a part of it for the whole.

**Addresses, keys, scripts and hashes** (`util.cpp`, `coin_helper.cpp`).
Hard: leading zero bytes and sign bytes of the mpi form; short scripts; texts
that begin with the last byte. Correct if: a key and its text, and a hash and its
text, determine each other; a script that pays a hash gives that hash's key, any other
none, and reading a script never throws.

**Big numbers** (`bignum.h`): conversions to and from OpenSSL's numbers. Hard:
the mpi form is written by hand, with a sign bit that a byte may already take,
and so is the compact form of targets. Correct if: each conversion has the
inverse its callers assume.

**User interface** (`coin_lookerDlg.cpp`, `RecvDialog.cpp`, `coin_looker.cpp`)
and **coin options** (`JsonCoinOption.cpp`).
State: the options, one worker, loader thread, dialog and tab for each, the
chosen tab, the dialogs that hold their worker.
Hard: tabs and dialogs are two lists; a dialog may be ended by a key; the
program ends in two ways, of which one does not call `uninit` itself; timers
outlive workers. Correct if: only the chosen dialog shows; a timer finds its
worker; every worker is told once to save.

**Library adapters** (`sdk/boost_lib`): a resolution that throws ends the
process; the rest is external, see section 8.

### Interaction

```
 ui --modal-- pop_idle, peer_start --> PeerGroup <-- async_connect -- loader
 ui --save_check, uninit--> BlockStore <-- load_db_block ----------- loader
 ui --work_get_data-------> Ledger     <-- load_tx_map ------------- loader
 Looker: options --> workers, loaders, dialogs and their timers; uninit
 net: RecvStream --> pools --> filter_modal --> filter_heads --> send_package
                                            \--> filter_block --> BlockStore
                                                             \--> Ledger
```

`Wallet` is the composition of the session (`ChainSync`) with `BlockStore`.

The slots `pfn_OnNewBlock` and `pfn_OnNewHeaderList` are called synchronously
on the net thread, by `filter_modal`.

## 2. Plan

Order of the work, the most important behaviour first.

| step | modules | abstract specification | state |
|---|---|---|---|
| 1 | `PeerGroup`, `MCPeerGroup`, `PeerGroupProofs` | `PeerLifecycle` | done, all safety and the refinement proved |
| 2 | `ChainSync`, `ChainSyncProofs` | `BlockFeed` | done, all safety and the refinement proved |
| 3 | `BlockStore`, and the first part of `WalletProofs` | - | done, all safety proved |
| 4 | `Ledger`, `LedgerProofs` | - | done, all safety proved |
| 5 | `RecvStream`, `RecvStreamProofs` | - | done, all safety proved |
| 6 | `Wire`, `BigNum`, `AddressKey`, `Codecs`, `CodecsProofs` | - | done, all proved |
| 7 | `Wallet`, which composes `ChainSync` and `BlockStore`, and `WalletProofs` | `BlockStore` | done, all safety and the refinement proved |
| 8 | `Looker`, the program around the wallets, and `LookerProofs` | - | done, all safety proved |

`NatLemmas` has the facts about numbers, induction and recursion that several
proof modules use. The order and the dates of the list of transactions are left
out of `Ledger` (section 8).

No module declares a RECURSIVE operator: recursion is written with the folds of
the community modules or with functions, so that any of them can be proved
about.

## 3. The modules and the code

`PROJECT.json` ("map") names the lines of every definition. In each module an
operator marked "mutated form" is a variant of the definition after it, with a
plausible mistake; it is used nowhere in the module and serves to show that
the properties notice that mistake.

The release build is modelled: assertions do not stop the program, they are
properties.

### PeerGroup

The state is that of the code, the lists as sets (their order only breaks ties),
with one program counter per thread:

- `loaderPc`: `AsyncConnect` (281-301) issues the connect, `CountBusy` (302)
  raises the counter afterwards, `CheckState` (398-408) starts the net thread.
- `netPc`: `"poll"` is the loop of `domodal`; a handler is one action up to the
  next access to something shared. `OnConnectOk` runs up to the lock and
  `PushChecking` needs it; `OnRecvVersion` stores the pointer (159) and
  `StampVersion` the tick (160), because `pop_idle` reads both; `FilterBlocks`
  and `FilterHeaders` are the two halves of `filter_modal`; `NetSendHdr` and
  `NetSendBody` are the two sends of `send_package`.
- `uiPc`: `PopIdle` takes the lock (and only while there is no current peer,
  `kernel` 449), `ScanVersion`, `ScanSilent` and `ScanTimeout` are the loop of
  327-345 with the gap between its two tests, `PickIdle` is the choice of
  347-370, `Install`, `HookBlock`, `HookHeaders`, `UiSendHdr`, `UiSendBody` are
  `modal` and `peer_start`. An exception of that send is not caught before the
  message loop: `UiSendFails` ends the process.

`OnConnectThrow` is the catch of `on_connect`: `start_check` has armed the
receive before it throws, so the node lives on though it is on no list.
Ticks are 32-bit: `GetTickCount` is true time modulo `TickMod`, a difference is
taken modulo `TickMod`. True time and the true birth of a node are history.
Remote nodes are free, with two restrictions the protocol gives: the version is
told once, and blocks or headers come only in reply to a complete request.

**PeerLifecycle** says the same without lists, locks and threads: a node goes
`new`, `connecting`, `checking`, `ready`, `serving`, or is `gone`; only a node
that answered becomes ready, and at most one serves. `StageOf` is the mapping.

### ChainSync

One session. A block is its height in the remote chain, which grows; times are
arbitrary. `requests` and `inbox` are the two directions of the connection.
`OnRecv` fills the pools (an empty headers message is dropped, 190);
`TakeBlocks`, `FilterBlock`, `TakeHeaders`, `FilterHeads` are `filter_modal`
with the two handlers; `Accepted` is the loop of `filter_heads` and
`Locator` its choice of the next request; `DownloadBlocks` is the cutting of
`send_getblockdatas` (92-105), where `Batch` takes the accepted headers by
their `Rank`. A getdata request is the set of the heights it asks for; the node
answers it one block at a time, the lowest first (the request lists them so).
`Disconnect` may lose any part of what was under
way; `FilterHeadsThrows` is the exception of a send after it.

**BlockFeed** is what the wallet is promised: the due blocks (as young as the
start and as every block before them) are fed one at a time, in chain order,
each once: `fed` is the sequence of the calls of `filter_block`, a history
variable of `ChainSync`, so that a second call for a block is a step which
`BlockFeed` does not have.

### BlockStore

`Load`, `SetTime`, `SetHash` (a hash is 32 bytes and can be read half done),
`Insert`, the save field by field (`SaveStart` .. `ClearChange`), `MoveFails`,
`Close`, `ProcessEnds` (by a crash at any step, or after `uninit`), `Restart`.
`Saving` is the section under `mutex_blocks`. A file is its header and its
entries; `LoadedBlocks` reads as many as the header says, and garbage past the
end. Five variables are history:

- `due` is what the program was ever given a chance to have: the relevant blocks
  that a loaded file held or that the session started from one would be fed. A
  relevant block that `filter_heads` skips for its time (`kernel` 286) is not
  due. The end of a process does not change it.
- `missing` is what of `due` was lost before this run loaded; `Lost(f)` is what of
  `due` a run that loads `f` will never have.
- `late` are the blocks inserted between a move and the clearing of `m_bChange`.
- `clean` says of this run that it has loaded, and that each of its saves followed
  the load and began with an empty `.tmp` file or with one this run had left.
- `failed` says that a move of this run has failed.

### Wallet

EXTENDS `BlockStore` and instantiates `ChainSync` (`Session`), whose
`last_block_hash` and `last_block_time` are those of the database. `Connect` is
`modal` and `peer_start`; it happens once in a run, because nothing makes
`m_pCurrentPeer` null again. `FeedBlock` is the call of `filter_block` by
`filter_modal`, the step the two modules share; it takes whatever block is next
in the list, and that this is the block `SetTime` of `BlockStore` would take is
what `ImplementsStore` says: it is the `Spec` of `BlockStore` itself, whose
variables the wallet has all of. The other steps are
those of one module with the variables of the other unchanged. The chain grows
between the runs. `WalletSpec` has all steps of both modules, the interrupted
saves and failed moves included, and the proofs are about it. The run checks
`WalletFairSpec`, which has one bound more, `Undisturbed`: no move fails, no process
ends during a save, and no window is closed before its file is loaded. Without
it there are two million states, too many for a liveness check.

### Ledger

`FilterTx` is one turn of the loop of `filter_block` (transactions kept, entry
in `m_TxMap` before the next turn), `InsertBlock` its end. `Restart` begins
`load_tx_map` and `LoadTx` is a turn of it: `bit` and `tit` are its iterators,
the next block is any of `unread`, because the map is ordered by hashes.
`CopyBlocks` and `CopyTxMap` are the two copies of `work_get_data`. What it adds
and subtracts are the sets `Received` (the outputs that pay the address) and
`Spent` (the inputs, each with the output it is found to spend); a balance is
right when the outputs added and not subtracted are the unspent ones and none is
subtracted twice, whatever the amounts are. The chain is any chain: outputs,
spendings and block boundaries are chosen freely in `Init`.

### RecvStream

A byte is which message it belongs to and where in it, so that a message cut or
read out of step is visible. `OnRecv(len)` appends what a receive brought and
posts the next; `TakeMessage` is a turn of the loop that takes a message,
`LoopEnds` the break or the exception that leaves it. No handler runs before the
loop is left (`looping`). A body is decoded from all of `m_data`: `need` is how
many bytes it calls for, fewer or more than it has; when they have not come
`Throws` holds, nothing is erased, and the next receive, already posted, tries
again. `OnRecvClosed` is the end of the connection.

### Wire, BigNum, AddressKey, Codecs

The first three are operators only. `Wire`: `SaveSize`/`LoadSize` are
CompactSize, `SaveVector` and `Vector`/`Elements` the vectors, whatever their
elements are, `SaveBlock`/`LoadBlock` and the like the structures; a
reader is its bytes, offset and whether it has thrown. A loop over elements
(`LoadTransactions`) and a number's digits (`NumberOf`, `DigitsOf`) are recursive
functions, and `Power[k]` is how many values k bytes have. `BigNum`: the functions
of `CBigNum` of the same names; `Mpi` is the form they write by hand and `mpi2bn`
is what OpenSSL makes of it. `AddressKey`: `EncodeBase58`, `DecodeBase58`,
`CoinKey`, `script_get_coin_key`, `to_hex`, `from_hex`, `uint256_to_rstr`,
`rstr_to_uint256`; `script_get_coin_key` reads with the reader of `Wire`, so each
of its reads may throw, and `HasHash` is the test before the last. The reader is
`binary_istream`, which throws at the end of its bytes; that of the file,
`win32_fstream`, does not, and is in `BlockStore` (`LoadedBlocks`). `Codecs` calls them over bounded inputs. Bytes have fewer
values than 256 there, and the tags of CompactSize are the three largest values
as in the code, which keeps every boundary and brings it into reach.

### Looker

`FindFile` is a turn of `LoadCoinList`, `AddCoin` a turn of `OnInitDialog` with
all it creates, `OnTcnSelchanging` and `OnTcnSelchange` the two notifications of a
tab, `EndDialog` the enter or escape key in a list (`CRecvDialog` overrides
neither `OnOK` nor `OnCancel`, so that those of `CDialog` hide it), `CloseDialog`
and `ClearDialogs` the loop and the end of `OnClose`, `OnCancel` and `OnDestroy`
the other way out. `ClearDialogs` destroys windows in `~CDialog`, where the
message map of `CRecvDialog` is gone, so that `OnDestroy` does not run there.

## 4. The runs

| run | bounds | states | shows |
|---|---|---|---|
| `PeerGroup_safety` | 3 nodes, 2 ticks of time over a wrap, timeout 1 | 1163234 | all safety properties and `ImplementsLifecycle` |
| `PeerGroup_live` | 2 nodes, 1 tick, timeout 0 | 62984 | `ConnectionsSettle`, `VersionLeadsToSession` |
| `PeerGroup_send` | 1 node | violation | finding 1 |
| `ChainSync` | 4 blocks, 3 times, 3 headers, 2 blocks per message | 198387 | safety, `FeedsTheChain` (refinement), `SessionEnds` |
| `BlockStore_safety` | 2 blocks, 2 times, 2 runs, ended anywhere | 178060 | `SizeWithinFile`, `LossIsTheRacingBlock`, `FileOnlyGrows`, `ChangeIsSaved` |
| `BlockStore_lost` | the same, 1 run | violation | finding 2 |
| `Wallet` | 2 blocks, 2 times, 2 runs, 2 headers, 1 block per message, `Undisturbed` | 388855 | `CaughtUp`, `ImplementsStore` (refinement), `ChainReachesFile` |
| `Ledger_safety` | 3 transactions, 2 outputs, 1 address, 2 runs | 1293822 | `CopiesFit`, `NeverTooLow`, `PlainWalletsExact` |
| `Ledger_balance` | the same, 1 run | violation | finding 3 |
| `RecvStream` | 3 messages, header 2, body 0..2, need 0..3, buffer 4 | 1630445 | `PoolsHoldTheArrived`, `StreamInStep` |
| `Codecs` | base 4, sizes to 300, texts to 7, vectors to 3 | 153874 | round trips of encodings, addresses, numbers, targets and hashes |
| `Looker` | 3 files | 2834 | `OnlyChosenShows`, `TimersFindWorkers`, `EndSaves` |

Why these bounds are enough for the cases that matter:

- *PeerGroup.* Three nodes let one serve, one be ready and one be in any other
  stage at once; two suffice for every tie and every overtaking. `TickBase = 3`
  and `TickMod = 4` put the wrap between a connect and its timeout, and make a
  finish tick of 0 happen. `LastConnect` only stops new connections so that each
  has time to time out (assumed in `MCPeerGroup`). The safety properties do not
  rest on these bounds: they are proved (section 6). Endpoints are
  interchangeable and the safety run uses that symmetry; the liveness run does
  not.
- *ChainSync.* A chain of four with headers messages of three needs two messages
  and an overlap of blocks and headers in flight; getdata messages of two have a
  full one and a rest. Three times give every order of times that the
  comparison can see on a run of three.
- *BlockStore.* Two blocks are one in the file or being filtered and one
  to come; two times give a later block that is older, as old and younger. Two
  runs are a save, done, cut short or failed, and a load of the result with a
  save that continues what is left. `SizeWithinFile`, `LossIsTheRacingBlock` and
  `FileOnlyGrows` were also checked with three blocks (4.6 million states), and are
  proved for any number.
- *Wallet.* Blocks, times and runs as before; batches of one block and of two
  headers split the blocks of one headers message. `Undisturbed` bounds this run
  only: `CaughtUp` and `ImplementsStore` are proved without it, and what
  interrupted and failed saves do to a file is in `BlockStore_safety`.
- *Ledger.* Three transactions are a payment, its spending and a later one in
  between or after; two outputs are needed for the second watched output.
  One watched address is enough because a report is about one address; the
  others matter only through `out_index`.
- *RecvStream.* A buffer of four spans a message boundary; headers can be cut. A
  body of two that calls for three needs a byte of the next message.
- *Codecs.* 300 is beyond `Base^4 - 1`, so that all four widths are used. Blocks
  have at most one transaction and that at most one input and output: the
  vectors of more elements are those of scripts and headers. Every compact
  number of one size byte and two bytes of mantissa is taken.
- *Looker.* Three files give no, one, two and three coins, in every place.

Deadlock is not checked where the system may stop: the process has ended
(`PeerGroup`, `BlockStore`, `Wallet`, `Looker`), the session is over (`ChainSync`), the connection
has closed (`RecvStream`), or the conversion is done (`Codecs`).

`PlainWalletsExact` and `NeverTooLow` say together what the balance is worth: it
is never too low, and it is exact before a restart if no transaction pays the
wallet twice and none that spends from the wallet pays it, and after a restart
if moreover no transaction that pays the wallet spends an output of a kept one.

Which saves each property of `BlockStore` is about:

| property | which |
|---|---|
| `SizeWithinFile` | all, wherever one was cut short and whatever `.tmp` was left |
| `FileOnlyGrows` | those of a `clean` run: also after a failed move, when its own `.tmp` is continued, and after a crash that left an empty `.tmp` or none |
| `LossIsTheRacingBlock` | those of a `clean` run none of whose moves has failed |
| `ChangeIsSaved` | the same, and blocks that are not `late` |

The conditions are needed: section 7 says what happens without each.
`LossIsTheRacingBlock` bounds finding 2 from the other side: a save can lose only
the one due block that `filter_block` is working on, neither what comes between
the move and the clearing of `m_bChange` nor what a close within 16.7 hours of a
save leaves out.

`CaughtUp` and `ChainReachesFile` are about the blocks that are `due`. A relevant
block that is older than the time the session began with, or than a block before
it, is skipped by `filter_heads` in any run and is not due: the wallet never has
it, and no property says it would. Exempt is also what the file had lost when
this run loaded it (`missing`): that happens by finding 2.

## 5. Fairness

- *PeerGroup.* Weak fairness of each thread: the loader's started call, the net
  thread's own steps, the timer and the code after it, and the clock. Strong
  fairness of `PushChecking`, because the net thread waits for a lock that the
  ui thread takes for a moment every 5 s, and of `OnConnect(p)`, because the
  operating system completes every connect and `poll_one` runs every completed
  handler sooner or later, while other handlers of the same thread run before
  it. Nothing is assumed of remote nodes: they may be silent, close, or answer.
- *ChainSync.* The net thread runs, and a connected remote node answers; the
  chain need not grow and the connection need not last. `SessionEnds` is about
  the exchange of messages, which could go round in circles.
- *BlockStore.* The timer fires and time passes (`Save`, `HoursPass`). Nothing
  is assumed of the session, and the process may end.
- *Wallet.* Those of `ChainSync` and of `BlockStore`. `ChainReachesFile` exempts a lost
  connection and the end of the process, and is checked where saves are not
  disturbed.
- *Looker.* The ui thread goes on with what it has begun. The user need do
  nothing.

All of it is the scheduling of the operating system; nothing in the code has
priorities.

## 6. The proofs

`PeerGroupProofs` proves every safety property of `PeerGroup`, for any finite
set of endpoints, any tick modulus, start tick and timeout:

| theorem | property |
|---|---|
| `TypeCorrect` | `TypeOK` |
| `ListsAreDisjoint` | `ListedOnce` |
| `StartAssertsHold` | `StartAsserts` |
| `BusyCountIsExact` | `BusyCount` |
| `NoEarlyTimeoutHolds` | `NoEarlyTimeout` |
| `CurrentPeerServesAlways` | `CurrentPeerServes` |
| `RepliesAlwaysHaveSlots` | `RepliesHaveSlots` |
| `PackagesAreNotMixed` | `NoMixedPackages` |
| `GroupImplementsLifecycle` | `ImplementsLifecycle` |

Assumptions: `PeerAssumption` (finitely many endpoints, `NoPeer` is none) and
`TickAssumption` (the system is watched for less than a whole turn of the tick
counter, 49.7 days; it may wrap once in that time). The bound is needed: after
exactly one turn a node would look newly connected.

The argument, invariant by invariant; each is used by the next:

1. `TypeOK` is inductive because it also says that a thread which is about to
   touch a node has one (`uiPeer`, `netPeer`).
2. `ListInv` adds to `ListedOnce` that every listed or receiving node was
   connected, that a node about to be pushed is on no list yet, and that what
   `pop_idle` has still to scan is on the checking list. Without the second a
   push could put a served node back; without the third a scan could move a
   node twice.
3. `StartInv`: before the net thread polls nothing is on the checking list and
   the counter is not negative, so the assertions of a positive counter hold
   although the counter is raised after the connect is issued.
4. `BusyCount` is inductive with 2 and 3: each step adds or removes one node of
   `Counted` with the counter, or neither. The lemmas `NodeAdded`, `NodeRemoved`
   and `NodesSame` do the counting once.
5. `BornInv`: the start tick of a node is its true birth, reduced. With
   `TickDiffIsTrueTime`, the unsigned difference of two ticks is the true time
   between them, and the timeout is not early across a wrap.
6. `SessionInv` follows the session through `modal` and `peer_start`: until
   `HookHeaders` no slot set is complete and nothing has been asked; a request
   exists only after both; the ui thread sends only before the first one is
   complete, the net thread only in reply. This gives the three session
   properties.
7. The refinement has one step per action: `StageOf` of the node acted on moves
   as `PeerLifecycle` allows, and of all others not at all.

`ChainSyncProofs` proves, for a chain of any length with any times, replies of
any size and batches of any size:

| theorem | property |
|---|---|
| `Typing` | `TypeOK` |
| `HeadersWait` | `HeadersAfterBlocks` |
| `NothingMissed` | `QuietIsComplete` |
| `Feeds` | `FeedsTheChain`, the refinement of `BlockFeed` |

The assumption is `ChainAssumption` (times are naturals, a reply and a batch hold
at least one). The invariant follows the blocks through the session:

1. `Phases`: what `filter_modal` leaves in the pools and lists between two steps.
2. `Order`: a block is asked for, on the wire, in the pool, or taken out of it
   (`Asked`, `OnWire`, `Pooled`, `Taken`); each stage is in chain order, and the
   nearer a stage is to `filter_block` the lower are its blocks. This is why the
   head of the list is the next block.
3. `Account`: a block asked for is filtered or in one of the stages; it gets lost
   only with the connection, and then with all that were asked for after it. What is
   filtered (the elements of `fed`) is below all that is under way: so a block
   appended to `fed` is a new one.
4. `LastBlock`: the wallet's hash and time are those of the last block filtered.
5. `Token`: there is one headers exchange, never two, and it is behind all the
   blocks: over, asked for, on the wire, in the pool, or taken out of it. It is
   about what follows some block `from`, and the blocks asked for so far are
   exactly the due ones up to `from`. When it reaches `filter_heads` nothing is
   in flight, so the time compared is that of the last due block
   (`HeadersAfterBlocks`), what is accepted is what is due next, and the request
   that follows is about the next `from`.

`WalletProofs` proves of `BlockStore`, for chains of any length with any times and for any
number of runs of the program, each ended at any moment:

| theorem | property |
|---|---|
| `StoreTypeCorrect` | `TypeOK` |
| `SizesWithinFiles` | `SizeWithinFile` |
| `SavedBlocksStay` | `FileOnlyGrows` |
| `LossBounded` | `LossIsTheRacingBlock` |

The assumption is `StoreAssumption` (the bounds are naturals and the program is
started once at least). The invariants:

1. `StoreInv` has types and sizes together, because what a run loads are blocks
   only if no header counts too much. It adds that a save has a file, that what
   it has appended is not counted before `WriteSize`, and that it appends no
   more blocks than there are. The count is right although a `.tmp` file may have
   been left by a save that was cut short after its blocks or after its header.
2. `RunInv`: a marked change or a block in work means that the file is loaded,
   and before that the hash is one no node knows.
3. `KeepInv`, of a `clean` run: it has every block of the file it has loaded. Its
   `.tmp` file is its `Own` during a save and after a failed move; all its entries
   are then blocks of the map, its header counts all of them (during a save, with
   those appended so far), and the blocks of the file are in it or still to be
   appended. Then the move keeps them. A save that continues its own `.tmp` skips
   blocks by the time in its header, but none of the file: those are in it
   already. Of a `.tmp` that another run left neither the count nor that is known.
4. `LossInv` adds what a loss is measured by. `FeedPlace` ties the stored hash and
   time to the block in work. `FeedInv`, of a run that has loaded: every due block
   was lost before, is kept, is in work, or is still ahead of the hash and time;
   and while `filter_block` has stored the new time but not the new hash, the old
   hash with the new time still has all of it ahead. `HeaderInv` says the same of
   the header a save is writing, whose hash may be older than its time, and that
   a save before the load writes an unknown hash. `FreshInv`, of a `clean` run none
   of whose moves has failed: its `.tmp` begins empty with time 0, so that every
   block of the map is in it or still to be appended. Then the loaded file with
   what the next session feeds lacks only what was lost before and the block in
   work.

`FeedPlace`, `FeedInv` and `HeaderInv` hold of all runs, however saves were cut
short or moves failed.

`WalletProofs` proves of `WalletSpec`, for any chain, batches of any size and any
number of runs:

| theorem | property |
|---|---|
| `WalletIsABlockStore` | `ImplementsStore`, the refinement of `BlockStore` |
| `RestIsCaughtUp` | `CaughtUp` |
| `WalletLosesOneBlock` | `LossIsTheRacingBlock`, a corollary of the refinement |

The assumptions are `WalletAssumption` (a reply and a batch hold at least one) and
`StoreAssumption`. The lemmas of `ChainSyncProofs` are used for the wallet's session
and those above for its database; `SessionAssumption` shows that the
session's constants are as `ChainSync` assumes. Nothing is asked of the saves:
sessions begin with whatever a file holds after interrupted saves, failed moves
and saves before the load. `WalletInv` is `LossInv` and

1. `HashInv`: every hash the database or a file holds is of a block that the node
   has, or the half-stored one. So a session that begins with it is answered from
   a place the database is not ahead of.
2. `SessionInv`: the session has the shape `ChainSync` gives it (`Phases`, `Order`
   and its types), and `Link`: the blocks in flight are the first of those ahead
   of the database and, while the connection lasts, all of them up to the block
   the headers exchange is about.

`RestIsCaughtUp` is about the due blocks, so not about those `filter_heads` skips for
their time; its other exemption is what the file loaded had lost.

From `Link`, the block at the head of the list is the first ahead of the database,
which is the one `SetTime` takes (`FeedsTheFirst`); and what `filter_heads` accepts
is what is ahead (`AcceptedAreAhead`), which keeps `Link`.

`LedgerProofs` proves, for any number of transactions with any outputs and inputs
in any blocks, any set of watched addresses and any number of restarts:

| theorem | property |
|---|---|
| `Types` | `TypeOK` |
| `TheCopiesFit` | `CopiesFit` |
| `NothingIsLost` | `NeverTooLow` |
| `PlainWalletsAreExact` | `PlainWalletsExact` |

The assumption is `LedgerAssumption` (there is a transaction and a run, and `Nobody`
is not watched). The invariant, part by part: `Chain` (an input spends an earlier
transaction, and the blocks follow each other), `Place` and `BlocksInv` (what is kept
so far is what comes before `netTx`, each in its block), `KeptInv` (no transaction
that pays the wallet is left out and no other kind is kept but one that spends from
it; in the named wallets none of those is left out either), `LoadInv` (where
`load_tx_map` stands), `IndexInv` (every kept transaction whose entry is due has
one, each entry leads to its transaction, and an `out_index` is that of a watched
output: in the named wallets of the only one), and `UiInv` (the copied blocks are
those up to the height they were copied at, unchanged since). `CopiesFit` follows
from the last two: entries are never removed or changed in a run, so the later copy
of `m_TxMap` covers the earlier copy of `blocks`.

`RecvStreamProofs` proves, for any number of messages of any kinds and sizes, any
demands of their bodies, any size of the buffer, and any pieces:

| theorem | property |
|---|---|
| `StreamTypes` | `TypeOK` |
| `ArrivedAreInPools` | `PoolsHoldTheArrived` |
| `NeverOutOfStep` | `StreamInStep` |

The assumption is `StreamAssumption` (a header and the buffer have a byte at least).
The invariant looks at `m_data` and what is on its way as one stream: it `Carries`
exactly the messages behind the last one taken, from the first byte of one to the
last byte of the last one sent, each byte followed by the one the node sends
`After` it; the pools hold what was `Taken`; and the loop is left only where it
cannot take another (`Stopped`).

`LookerProofs` proves, for any number of files of any kinds, tabs chosen, dialogs
dismissed and the program ended in any order:

| theorem | property |
|---|---|
| `OneDialogShows` | `OnlyChosenShows` |
| `TimersAreServed` | `TimersFindWorkers` |
| `EveryoneIsToldOnce` | `ToldOnce`, the safety half of `EndSaves` |

The assumption is `FilesAssumption` (a natural number of files). The invariant: each
file is found once (`Found`), the two lists that a tab's number indexes agree
(`Tabs`), what shows between the notifications of a tab (`Showing`), and `Told`:
every worker is held by its dialog or has been told exactly once, and a dialog
that holds one has a window, so that `OnDestroy` reaches whatever `OnClose` did not.

`CodecsProofs` proves, for any number of values of a byte, sizes of hash and
mantissa, radix of a text, bounds on the inputs, and any part a reader was given:

| theorem | property |
|---|---|
| `ValuesRoundTrip` | `RoundTrip` |
| `PartsThrow` | `PartThrows` |
| `KeysSurvive` | `TextsSurvive` |
| `ScriptsAreRead` | `ScriptsPayHashes` |
| `NumbersSurvive` | `NumberSurvives` |
| `CompactsSurvive` | `CompactSurvives` |
| `BlockRead` | every `CBlock` is read back, or throws when the data end before it |

The assumptions are `WireAssumption` (a byte has more than three values),
`BigNumAssumption` (an even number of them, one of which is the sign bit's; a
mantissa has a byte), `KeyAssumption` (a text digit has two values or more, a
hash's length fits a byte, two hexadecimal digits are a byte) and
`BoundAssumption`: a written size fits eight bytes and a vector has fewer elements
than a `size_t` of four bytes counts, as any vector of the program has. `Codecs`
writes values whose bytes are the two `Edge` ones; the lemmas about the
structures, of which `BlockRead` is listed, hold for all bytes.

The invariant `CodecsInv` only says that what was written, read or converted came of
the input by the operation of its kind; the work is in the lemmas about the
operations, which are functions of data of any length:

1. *Recursive functions.* `Recursion` (in `NatLemmas`) gives the function a
   recursion defines. With it `PowerIs`, `NumberSolves` and `DigitsAre` say what
   `Power`, `NumberOf` and `DigitsOf` satisfy, `FlattenIs` what `FlattenSeq` is,
   and `LoadTransactionsIs` and the like what a loop over elements is. A claim
   about all lengths is the set of lengths it holds for, and `NatInduct` or
   `StrongInduct` show that the set is all of Nat: so no theorem that takes an
   operator as a parameter is needed.
2. *Digits.* `DigitsType` and `DigitsBack`: `NumberOf` undoes `DigitsOf`, and
   `DigitsOf` undoes `NumberOf` on digits without a leading zero; zeros in front do
   not count (`NumberZeros`). `PodBack`: a little-endian integer that fits its
   width is read as it was written.
3. *The mpi form.* `MpiOfNumber`: what `setint64` and `getvch` write by hand, with
   the byte put in front when the sign bit is taken, is the number; `IntBack`,
   `VchBack` and `UnsignedMpi` follow.
4. *Texts.* `Encodes` and `Decodes`: both directions of base58, with the sign
   bytes they add and trim, are one function `InBase` (the leading zeros, then the
   digits of the number), and `InBaseBack` says that the function from one base to
   another undoes the one back. `KeyBack` and `TextBack` follow. `HexBack`,
   `HexNumber` and `SetHexIs` are the hexadecimal side.
5. *Compact form.* A size and a word mean a magnitude (`Meant`, `SetCompactIs`).
   `GetCompactKeeps`: of such a magnitude `GetCompact` makes another size and word,
   which keep the sign bit free and mean the same: what they drop is zero.
6. *Readers.* Data `Carry` some bytes from an offset on as far as the data go;
   reading `Gives` the value and moves the offset behind them if they are all
   there, and throws if not. `SizeGives` shows it of CompactSize by the four widths.
   `NextRead` puts fields one behind another and `VectorRead` elements; each
   structure is a chain of these (`TxInRead` up to `BlockRead`, `HeadersRead` and
   `ScriptsRead`). With the whole of the data this is `RoundTrip`, with a part of
   them `PartThrows`.

`NatLemmas`: `NatMin`, that a set of naturals has a least element, from the
well-foundedness of the subsets of a finite set. A least counterexample does where
an induction would be needed: the library's induction theorems take an operator as
a parameter and cannot be used here. `NatInduct`, `StrongInduct` and `Recursion`
follow from it. The rest is products, quotients and remainders, stated so that
the solver takes each step.

Only model-checked is liveness: `ConnectionsSettle`, `VersionLeadsToSession`,
`SessionEnds`, `ChangeIsSaved`, `ChainReachesFile`, `EndSaves`. Fairness is out of
the proof system's reach.

## 7. Findings

1. *Send on a closed socket* (`PeerGroup_send`, `SendOnOpenSocket`).
   `send_package` asserts `m_sk.is_open()` (39). A node that told its version
   and then closed stays on the checking list; `pop_idle` looks at the version
   only (330) and makes it the current peer. In a release build the send throws
   out of the timer.
2. *A block lost across a restart* (`BlockStore_lost`, `NothingIsLost`).
   `filter_block` stores hash and time (`kernel` 317-318) before it inserts the
   block (392). A save in between writes a file that names the block as its last
   and does not hold it: a session that starts from the file is never fed it. The
   trace is of one run: it loads, `filter_block` stores time and hash of the first
   block, the window is closed and `uninit` saves before the insertion. The
   property is asked only of `clean` runs, so nothing else is the cause.
3. *Balances too high* (`Ledger_balance`, `BalanceExact`). Only the first watched
   output of a transaction is indexed (371), and none of a transaction that spends
   a watched one, so the spending of the others is not noticed.

What the models contain besides, and no text speaks about:

- `filter_heads` skips a header older than the last block time (`kernel` 286), which
  block times may be, so that the next block filtered does not follow the last
  one. A relevant block among those skipped is never had.
- A save that continues the `.tmp` of another run appends what that run may have
  appended already, and counts only its own. With the file `<<3, 1, 2>>` and a
  `.tmp` left with `<<3, 1>>` before its header was written, the next save makes
  `<<3, 1, 3, 1, 2>>` with a size of 3: block 2 was saved, and is no longer loaded.
  This is why `FileOnlyGrows` asks for a `clean` run.
- After a failed move the change is marked as saved, and the next save continues
  the `.tmp` from the time in its header: blocks that came since with an equal or
  a lower time are skipped. This is why `LossIsTheRacingBlock` and `ChangeIsSaved`
  ask that no move has failed.
- A window closed before its file is loaded replaces the file by an empty one
  (`kernel` 466), whose time is not initialised.
- Enter or escape in a list hides its dialog, whose tab stays empty until another
  one was chosen.

## 8. What is not modelled

- Reorganisations of the chain: the code does not look at `hashPrevBlock`, and
  `ChainSync` has one growing chain.
- Write and read errors: the results of `WriteFile` and `ReadFile` are ignored by
  the code, so every later step is unconstrained after one. A move that fails is
  modelled. A crash leaves whole fields and whole entries, not torn ones. A short
  read of `win32_fstream` does not throw: it leaves the rest of the value as it
  was. `LoadedBlocks` has that for whole blocks (garbage past the end);
  `SizeWithinFile` says that it does not come to it.
- DNS: the endpoints are the constant `Peer`; a seed that does not resolve may
  end the process at any moment (`ResolveFails`, `LoaderThrows`).
- Undefined behaviour of unlocked data: `on_recv` sets the shared pointer
  `m_pDestVersion` while `pop_idle` copies it, `domodal` iterates `m_working`
  while `pop_idle` pushes to it, and `load_tx_map` fills `m_TxMap` while the
  window may copy it. The models take such an access as one step that sees
  the element or does not (in `Ledger`, any part of the map); a broken list or
  tree is not a state of the models.
- `io_service` running out of work, exceptions from memory, and the ui's
  layout, printing and dates.
- Of the list of transactions `work_get_data` returns beside the balance: its
  order, its dates and its amounts. Which outputs and inputs are in it is
  modelled.
- `send_getblock` and `send_getblockdata`, which have no caller.
- The values of the coin options: `Looker` takes a file as good or bad, and the
  first hash and time are inputs of `BlockStore`. A value of the wrong length
  (a `NetHead` that is not four bytes, a short `first_block_hash`) and two files
  with one name are listed as hazards without a property.
- What no code of the program calls is not a hazard of it: `GetCompact` and
  `SetCompact` of `CBigNum` and most of its conversions. They are modelled all the
  same, as part of a file the program is built from.
- The operators of `CBigNum`, hash functions, JSON parser, and the adapters of
  boost and of the Windows API: external code or pure I/O.
- Layout, drawing and the texts of the windows.

## 9. How to run

    tlc -workers 2 -config PeerGroup_safety.cfg MCPeerGroup
    tlc -workers 2 -config ChainSync.cfg ChainSync
    tlapm PeerGroupProofs.tla

and likewise for the other configurations, whose modules `PROJECT.json` names,
and for `ChainSyncProofs`, `WalletProofs`, `LedgerProofs`, `RecvStreamProofs`,
`LookerProofs`, `CodecsProofs` and `NatLemmas`. Every run ends within three minutes on two cores.
