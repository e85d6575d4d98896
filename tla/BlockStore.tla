----------------------------- MODULE BlockStore -----------------------------
(***************************************************************************)
(* CLocalBlockDB and its file: filter_block of the net thread, save_check  *)
(* and uninit of the ui thread, load_db_block of the loader, and the       *)
(* process ending at any moment.                                           *)
(*                                                                         *)
(* mutex_blocks is held from the opening of the .tmp file to its move over *)
(* the .blocks file, by filter_block around the insertion only, and by the *)
(* loader while it reads.  last_block_time and last_block_hash are written *)
(* by filter_block without it.  A hash is 32 bytes: a copy of it can be    *)
(* seen half done, as a hash no block has.                                 *)
(*                                                                         *)
(* Blocks are heights, and only the relevant ones are kept.  What order    *)
(* the session feeds them in is taken from ChainSync, and Wallet, which    *)
(* composes the two, implements this module.                               *)
(***************************************************************************)
EXTENDS Integers, Sequences, FiniteSets

CONSTANTS NBlocks,       \* bound: the length of the chain
          MaxTime,       \* bound: the block times are 1 .. MaxTime
          NoFile,
          MaxRuns        \* bound: how often the program is started

ASSUME StoreAssumption == NBlocks \in Nat /\ MaxTime \in Nat
                          /\ MaxRuns \in Nat \ {0}

VARIABLES
  nTime, relevant,                           \* the chain
  last_block_hash, last_block_time, blocks,  \* CLocalBlockDB
  m_bChange, longAgo,      \* longAgo: m_last_save_time is over 60000 s ago
  dat, tmp,                                  \* the two files
  loaded,                                    \* load_db_block is over
  netPc, netBlock,                           \* filter_block
  uiPc, todo, added, must,                   \* save
  due,      \* history: the relevant blocks a session or a file had for us
  missing,  \* history: those of them lost before this run loaded the file
  late,     \* history: inserted after the last move, unmarked
  clean,    \* history: this run's saves follow its load, on no other's .tmp
  failed,   \* history: a move of this run has failed
  runs

chainVars  == <<nTime, relevant>>
lastVars   == <<last_block_hash, last_block_time>>
changeVars == <<m_bChange, longAgo>>
fileVars   == <<dat, tmp>>
netVars    == <<netPc, netBlock>>
saveVars   == <<uiPc, todo, added, must>>
runVars    == <<loaded, due, missing, late, clean, failed, runs>>
vars == <<chainVars, lastVars, blocks, changeVars, fileVars, netVars, saveVars,
          runVars>>

Blocks == 1 .. NBlocks
Unknown == NBlocks + 1             \* a hash that is no block's

----------------------------------------------------------------------------
(* The file: last_block_hash, last_block_time, the number of blocks, and   *)
(* the blocks.  A header over 72 bytes of file means at least one block.   *)

EmptyFile == [hash |-> 0, time |-> 0, size |-> 0, entries |-> <<>>]

\* load reads as many blocks as the header says; past the end of the file
\* it reads garbage.
LoadedBlocksOneMore(f) ==         \* mutated form: <= for <
  {IF i <= Len(f.entries) THEN f.entries[i] ELSE Unknown : i \in 1 .. f.size + 1}
LoadedBlocks(f) ==
  {IF i <= Len(f.entries) THEN f.entries[i] ELSE Unknown : i \in 1 .. f.size}

\* What a session that starts from this hash and time is fed: the blocks
\* after it as young as the time and as every block between.  A remote node
\* that does not know the hash starts from its first block.
After(hash) == {b \in Blocks : hash = Unknown \/ b > hash}
Resumed(hash, time) ==
  {b \in After(hash) : /\ nTime[b] >= time
                       /\ \A c \in After(hash) : c < b => nTime[c] <= nTime[b]}

\* The due blocks a run that loads file f will never have.
Lost(f) == due \ (LoadedBlocks(f) \cup Resumed(f.hash, f.time))

----------------------------------------------------------------------------
Init ==
  /\ nTime \in [Blocks -> 1 .. MaxTime]
  /\ relevant \in SUBSET Blocks
  /\ last_block_hash = Unknown /\ last_block_time = 0
  /\ blocks = {} /\ m_bChange = FALSE /\ longAgo = TRUE
  /\ dat = NoFile /\ tmp = NoFile
  /\ loaded = FALSE /\ due = {} /\ missing = {} /\ late = {}
  /\ clean = TRUE /\ failed = FALSE /\ runs = 1
  /\ netPc = "idle" /\ netBlock = 0
  /\ uiPc = "idle" /\ todo = {} /\ added = 0 /\ must = FALSE

Saving == uiPc \in {"append", "hash", "time", "size", "move"}
MutexAlwaysFree == TRUE           \* mutated form: save_to_file does not lock
MutexFree == ~Saving
Running == uiPc # "off"
Ending == uiPc \in {"exit", "off"}

\* The loader.  Without a file the option file's first block and time count;
\* a negative time there is relative to the present.  A block is due when the
\* session of some run would be fed it, or a file that is loaded has it: one
\* older than the option's time, or than a block before it, is not.
Load ==
  /\ Running /\ ~loaded /\ MutexFree
  /\ loaded' = TRUE /\ clean' = TRUE /\ failed' = FALSE
  /\ \/ /\ dat = NoFile
        /\ last_block_hash' = 0 /\ last_block_time' \in 0 .. MaxTime
        /\ due' = relevant \cap Resumed(0, last_block_time')
        /\ UNCHANGED blocks
     \/ /\ dat # NoFile
        /\ last_block_hash' = dat.hash /\ last_block_time' = dat.time
        /\ blocks' = LoadedBlocks(dat)
        /\ due' = due \cup (relevant \cap (blocks' \cup Resumed(dat.hash, dat.time)))
  /\ missing' = due' \ (blocks' \cup Resumed(last_block_hash', last_block_time'))
  /\ UNCHANGED <<late, runs, chainVars, changeVars, fileVars, netVars, saveVars>>

----------------------------------------------------------------------------
(* net: filter_block of the next block of the session.                     *)

SetTime ==
  /\ Running /\ loaded /\ netPc = "idle"
  /\ \E b \in Resumed(last_block_hash, last_block_time) :
       /\ \A c \in Resumed(last_block_hash, last_block_time) : b <= c
       /\ netBlock' = b
       /\ last_block_time' = nTime[b]
  /\ netPc' = "hash"
  /\ UNCHANGED <<last_block_hash, blocks, chainVars, changeVars, fileVars,
                 saveVars, runVars>>

SetHash ==
  /\ Running
  /\ \/ netPc = "hash" /\ netPc' = "half" /\ last_block_hash' = Unknown
     \/ netPc = "half" /\ netPc' = "match" /\ last_block_hash' = netBlock
  /\ UNCHANGED <<last_block_time, netBlock, blocks, chainVars, changeVars,
                 fileVars, saveVars, runVars>>

\* Its transactions matched: a relevant block is kept.
InsertTryLock ==                  \* mutated form: a block is not kept during a save
  /\ Running /\ netPc = "match"
  /\ IF netBlock \in relevant /\ MutexFree
     THEN /\ blocks' = blocks \cup {netBlock}
          /\ m_bChange' = TRUE
          /\ late' = IF uiPc = "clear" THEN late \cup {netBlock} ELSE late
     ELSE UNCHANGED <<blocks, m_bChange, late>>
  /\ netPc' = "idle" /\ netBlock' = 0
  /\ UNCHANGED <<longAgo, loaded, due, missing, clean, failed, runs, chainVars,
                 lastVars, fileVars, saveVars>>
Insert ==
  /\ Running /\ netPc = "match"
  /\ IF netBlock \in relevant
     THEN /\ MutexFree
          /\ blocks' = blocks \cup {netBlock}
          /\ m_bChange' = TRUE
          /\ late' = IF uiPc = "clear" THEN late \cup {netBlock} ELSE late
     ELSE UNCHANGED <<blocks, m_bChange, late>>
  /\ netPc' = "idle" /\ netBlock' = 0
  /\ UNCHANGED <<longAgo, loaded, due, missing, clean, failed, runs, chainVars,
                 lastVars, fileVars, saveVars>>

----------------------------------------------------------------------------
(* ui: save_check and save.                                                *)

SaveWantedBoth == m_bChange /\ must     \* mutated form: && for ||
SaveWanted == m_bChange \/ must

\* The .tmp file an interrupted save has left is continued, not truncated.
OpenTmpAfterDat ==                \* mutated form: the old header is that of dat
  /\ tmp' = IF tmp = NoFile \/ tmp.entries = <<>> THEN EmptyFile ELSE tmp
  /\ todo' = {b \in blocks : dat = NoFile \/ nTime[b] > dat.time}
OpenTmp ==
  /\ tmp' = IF tmp = NoFile \/ tmp.entries = <<>> THEN EmptyFile ELSE tmp
  /\ todo' = {b \in blocks : nTime[b] > tmp'.time}

SaveStart ==
  /\ uiPc \in {"idle", "closing"}
  /\ SaveWanted /\ longAgo
  /\ OpenTmp
  /\ added' = 0 /\ uiPc' = "append"
  /\ clean' = (clean /\ loaded /\ (failed \/ tmp'.entries = <<>>))
  /\ UNCHANGED <<must, dat, chainVars, lastVars, blocks, changeVars, netVars,
                 loaded, due, missing, late, failed, runs>>

\* The map is in the order of the hashes, which is any order.
AppendEntry ==
  /\ uiPc = "append"
  /\ IF todo = {}
     THEN uiPc' = "hash" /\ UNCHANGED <<tmp, todo, added>>
     ELSE /\ \E b \in todo :
               /\ tmp' = [tmp EXCEPT !.entries = Append(@, b)]
               /\ todo' = todo \ {b}
          /\ added' = added + 1 /\ UNCHANGED uiPc
  /\ UNCHANGED <<must, dat, chainVars, lastVars, blocks, changeVars, netVars,
                 runVars>>

\* The header, field by field, from what filter_block may be changing.  The
\* constructor leaves hash and time uninitialised: before the loader sets
\* them they are anything (a random hash is unknown to every node).
WriteHash ==
  /\ uiPc = "hash" /\ uiPc' = "time"
  /\ tmp' = [tmp EXCEPT !.hash = last_block_hash]
  /\ UNCHANGED <<todo, added, must, dat, chainVars, lastVars, blocks,
                 changeVars, netVars, runVars>>

WriteTime ==
  /\ uiPc = "time" /\ uiPc' = "size"
  /\ \E t \in IF loaded THEN {last_block_time} ELSE 0 .. MaxTime :
       tmp' = [tmp EXCEPT !.time = t]
  /\ UNCHANGED <<todo, added, must, dat, chainVars, lastVars, blocks,
                 changeVars, netVars, runVars>>

WriteSizeOfMap ==                 \* mutated form: blocks.size() for append_count
  /\ uiPc = "size" /\ uiPc' = "move"
  /\ tmp' = [tmp EXCEPT !.size = @ + Cardinality(blocks)]
  /\ UNCHANGED <<todo, added, must, dat, chainVars, lastVars, blocks,
                 changeVars, netVars, runVars>>
WriteSize ==
  /\ uiPc = "size" /\ uiPc' = "move"
  /\ tmp' = [tmp EXCEPT !.size = @ + added]
  /\ UNCHANGED <<todo, added, must, dat, chainVars, lastVars, blocks,
                 changeVars, netVars, runVars>>

Move ==
  /\ uiPc = "move" /\ uiPc' = "clear"
  /\ dat' = tmp /\ tmp' = NoFile
  /\ late' = {}
  /\ UNCHANGED <<todo, added, must, loaded, due, missing, clean, failed, runs,
                 chainVars, lastVars, blocks, changeVars, netVars>>

\* MoveFileEx fails (another program has the file open): nobody looks.
MoveFails ==
  /\ uiPc = "move" /\ uiPc' = "clear"
  /\ failed' = TRUE
  /\ UNCHANGED <<todo, added, must, loaded, due, missing, late, clean, runs,
                 chainVars, lastVars, blocks, changeVars, fileVars, netVars>>

\* mutex_blocks is free again when the change is marked as saved.
ClearChange ==
  /\ uiPc = "clear" /\ uiPc' = IF must THEN "exit" ELSE "idle"
  /\ m_bChange' = FALSE /\ longAgo' = FALSE
  /\ UNCHANGED <<todo, added, must, chainVars, lastVars, blocks, fileVars,
                 netVars, runVars>>

----------------------------------------------------------------------------
(* The window is closed: uninit saves, unless the last save is too recent. *)

\* Before the file has been loaded there is nothing to save, and it is saved.
\* The net thread goes on until the process ends.
Close ==
  /\ uiPc = "idle"
  /\ must' = TRUE
  /\ uiPc' = IF longAgo THEN "closing" ELSE "exit"
  /\ UNCHANGED <<todo, added, chainVars, lastVars, blocks, changeVars, fileVars,
                 netVars, runVars>>

\* At any moment, by a crash or after uninit: only the files remain.
ProcessEnds ==
  /\ Running
  /\ last_block_hash' = Unknown /\ last_block_time' = 0
  /\ blocks' = {} /\ m_bChange' = FALSE /\ longAgo' = TRUE
  /\ loaded' = FALSE /\ late' = {} /\ failed' = FALSE
  /\ netPc' = "idle" /\ netBlock' = 0
  /\ uiPc' = "off" /\ todo' = {} /\ added' = 0 /\ must' = FALSE
  /\ UNCHANGED <<due, missing, clean, runs, chainVars, fileVars>>

Restart ==
  /\ uiPc = "off" /\ runs < MaxRuns
  /\ uiPc' = "idle" /\ runs' = runs + 1
  /\ UNCHANGED <<todo, added, must, loaded, due, missing, late, clean, failed,
                 chainVars, lastVars, blocks, changeVars, fileVars, netVars>>

HoursPass ==
  /\ Running /\ ~longAgo /\ longAgo' = TRUE
  /\ UNCHANGED <<m_bChange, chainVars, lastVars, blocks, fileVars, netVars,
                 saveVars, runVars>>

Save == SaveStart \/ AppendEntry \/ WriteHash \/ WriteTime \/ WriteSize \/ Move
          \/ MoveFails \/ ClearChange
Next == \/ Load \/ SetTime \/ SetHash \/ Insert
        \/ Save \/ Close \/ ProcessEnds \/ Restart \/ HoursPass

Spec == Init /\ [][Next]_vars

\* The timer fires every 5 seconds and time passes.
FairSpec == Spec /\ WF_vars(Save) /\ WF_vars(HoursPass)

----------------------------------------------------------------------------
(* Properties.                                                             *)

File == [hash : 0 .. Unknown, time : 0 .. MaxTime, size : Nat,
         entries : Seq(Blocks)]

TypeOK ==
  /\ nTime \in [Blocks -> 1 .. MaxTime] /\ relevant \subseteq Blocks
  /\ last_block_hash \in 0 .. Unknown /\ last_block_time \in 0 .. MaxTime
  /\ blocks \subseteq Blocks
  /\ m_bChange \in BOOLEAN /\ longAgo \in BOOLEAN
  /\ dat \in File \cup {NoFile} /\ tmp \in File \cup {NoFile}
  /\ loaded \in BOOLEAN /\ clean \in BOOLEAN /\ failed \in BOOLEAN
  /\ runs \in 1 .. MaxRuns
  /\ due \subseteq Blocks /\ missing \subseteq Blocks /\ late \subseteq Blocks
  /\ netPc \in {"idle", "hash", "half", "match"} /\ netBlock \in 0 .. NBlocks
  /\ uiPc \in {"idle", "closing", "append", "hash", "time", "size", "move",
               "clear", "exit", "off"}
  /\ todo \subseteq Blocks /\ added \in 0 .. NBlocks /\ must \in BOOLEAN

(* Wherever saves were interrupted and whatever a leftover .tmp holds, a   *)
(* header never counts more blocks than its file has: nothing checks a     *)
(* read past the end.                                                      *)
SizeWithinFile ==
  \A f \in {dat, tmp} \ {NoFile} : f.size <= Len(f.entries)

(* A save loses at most one block that is due: the one whose hash          *)
(* filter_block has stored and which it has not inserted.  What is kept    *)
(* after the save, what a close within 16.7 hours of it does not save, and *)
(* what ClearChange unmarks is fed again by the next session.  This is for *)
(* a save that follows the load, in a run none of whose moves has failed,  *)
(* and that finds no .tmp of a run cut short: what continuing one skips,   *)
(* by the time in its header, can be more.                                 *)
LossIsTheRacingBlock ==
  [][dat' # dat /\ clean' /\ ~failed' => Lost(dat') \subseteq missing \cup {netBlock}]_vars

(* A save keeps every block an earlier one had saved, also after a failed  *)
(* move, when it continues its own .tmp, and in a run that follows a crash *)
(* during a save if that left the .tmp empty.  Not so a save that begins   *)
(* before the load, and those of a run that continues the .tmp another run *)
(* has left: entries appended twice, and counted once, push others out of  *)
(* what is loaded.                                                         *)
FileOnlyGrows ==
  [][dat # NoFile /\ clean' => LoadedBlocks(dat) \subseteq LoadedBlocks(dat')]_vars

(* A block that is kept is in the file in the end, unless the process ends *)
(* before, or it came between the move and the clearing of m_bChange, or a *)
(* move has failed (the change is cleared all the same), or the save began *)
(* before the load or on another run's .tmp.                               *)
ChangeIsSaved ==
  \A b \in Blocks :
    b \in blocks ~> \/ dat # NoFile /\ b \in LoadedBlocks(dat)
                    \/ b \in late \/ Ending \/ failed \/ ~clean

(* The balance of an address is that of the chain: every block that is due *)
(* is in the file or fed to the session that starts from it.               *)
NothingIsLost == dat # NoFile /\ clean => Lost(dat) \subseteq missing
=============================================================================
