---------------------------- MODULE WalletProofs ----------------------------
(***************************************************************************)
(* Proofs about BlockStore, the database of a wallet, for chains of any    *)
(* length with any times and any number of runs of the program, each ended *)
(* at any moment (Spec is its specification here); and about Wallet: that  *)
(* the session and the database, run together, implement BlockStore, whose *)
(* SetTime is fed by rule, and that a session at rest has caught up, for   *)
(* batches of any size.                                                    *)
(*                                                                         *)
(* For the second part the lemmas of ChainSyncProofs are used for the      *)
(* wallet's session, those of the first part for its database; what is new *)
(* is the link: which blocks are under way, and which are ahead of the     *)
(* database.                                                               *)
(***************************************************************************)
EXTENDS Wallet, NatLemmas

----------------------------------------------------------------------------
(* The file.                                                               *)

EntriesOf(f) == {f.entries[i] : i \in 1 .. Len(f.entries)}

\* A header that counts no more than the file has is read without garbage.
LEMMA LoadedAreEntries ==
  ASSUME NEW f \in File, f.size <= Len(f.entries)
  PROVE  /\ LoadedBlocks(f) \subseteq EntriesOf(f)
         /\ LoadedBlocks(f) \subseteq Blocks
<1>1. f.size \in Nat /\ f.entries \in Seq(Blocks)
  BY DEF File
<1>2. \A i \in 1 .. f.size : i \in 1 .. Len(f.entries) /\ f.entries[i] \in Blocks
  BY <1>1
<1>3. QED
  BY <1>1, <1>2 DEF LoadedBlocks, EntriesOf

\* One that counts all of them reads all of them.
LEMMA AllEntriesLoaded ==
  ASSUME NEW f \in File, f.size = Len(f.entries)
  PROVE  LoadedBlocks(f) = EntriesOf(f)
  BY DEF File, LoadedBlocks, EntriesOf

\* A set of blocks is finite and no larger than the chain.
LEMMA BlockSets ==
  ASSUME NEW S \in SUBSET Blocks
  PROVE  IsFiniteSet(S) /\ Cardinality(S) \in 0 .. NBlocks
<1>1. IsFiniteSet(Blocks) /\ Cardinality(Blocks) = NBlocks
  BY FS_Interval, StoreAssumption DEF Blocks
<1>2. IsFiniteSet(S) /\ Cardinality(S) <= Cardinality(Blocks)
  BY <1>1, FS_Subset
<1>3. Cardinality(S) \in Nat
  BY <1>2, FS_CardinalityType
<1>4. QED
  BY <1>1, <1>2, <1>3, StoreAssumption

\* What is appended comes behind what is there.
LEMMA AppendedEntry ==
  ASSUME NEW f \in File, NEW b \in Blocks,
         NEW g, g = [f EXCEPT !.entries = Append(@, b)]
  PROVE  /\ g \in File /\ g.size = f.size
         /\ Len(g.entries) = Len(f.entries) + 1
         /\ EntriesOf(g) = EntriesOf(f) \cup {b}
<1>1. f.entries \in Seq(Blocks) /\ Append(f.entries, b) \in Seq(Blocks)
  BY DEF File
<1>2. /\ g = [hash |-> f.hash, time |-> f.time, size |-> f.size,
              entries |-> Append(f.entries, b)]
      /\ f.hash \in 0 .. Unknown /\ f.time \in 0 .. MaxTime /\ f.size \in Nat
  BY DEF File
<1>3. g \in File /\ g.size = f.size /\ g.entries = Append(f.entries, b)
  BY <1>1, <1>2 DEF File
<1>4. /\ Len(g.entries) = Len(f.entries) + 1
      /\ Len(f.entries) \in Nat
      /\ \A i \in 1 .. Len(f.entries) : g.entries[i] = f.entries[i]
      /\ g.entries[Len(f.entries) + 1] = b
  BY <1>1, <1>3
<1>5. EntriesOf(g) = EntriesOf(f) \cup {b}
  BY <1>4 DEF EntriesOf
<1>6. QED
  BY <1>3, <1>4, <1>5

----------------------------------------------------------------------------
(* Types and sizes: one invariant, since the blocks a run loads are blocks *)
(* only if no header counts too much.                                      *)

Counting == {"append", "hash", "time", "size"}

\* A save has a file, and appends no more blocks than there are.
StoreType ==
  /\ TypeOK
  /\ Saving => tmp \in File
  /\ uiPc = "append" => added + Cardinality(todo) <= NBlocks

\* What has been appended is not counted yet.
StoreSize ==
  /\ SizeWithinFile
  /\ uiPc \in Counting => tmp.size + added <= Len(tmp.entries)
  /\ uiPc = "move" => tmp.size <= Len(tmp.entries)

StoreInv == StoreType /\ StoreSize

\* The first run begins without files.
LEMMA InitStore == Init => StoreInv
<1> SUFFICES ASSUME Init PROVE StoreInv
  OBVIOUS
<1>1. /\ Unknown \in 0 .. Unknown /\ 0 \in 0 .. MaxTime /\ 0 \in 0 .. NBlocks
      /\ 1 \in 1 .. MaxRuns
  BY StoreAssumption DEF Unknown
<1>2. TypeOK
  BY <1>1 DEF Init, TypeOK
<1>3. QED
  BY <1>2 DEF Init, StoreInv, StoreType, StoreSize, SizeWithinFile, Saving, Counting

\* The loader.
LEMMA LoadStore == StoreInv /\ Load => StoreInv'
<1> SUFFICES ASSUME StoreInv, Load PROVE StoreInv'
  OBVIOUS
<1>1. TypeOK /\ SizeWithinFile
  BY DEF StoreInv, StoreType, StoreSize
<1>2. /\ last_block_hash' \in 0 .. Unknown /\ last_block_time' \in 0 .. MaxTime
      /\ blocks' \subseteq Blocks
  <2>1. CASE dat = NoFile /\ last_block_hash' = 0
             /\ last_block_time' \in 0 .. MaxTime /\ UNCHANGED blocks
    BY <2>1, <1>1, StoreAssumption DEF TypeOK, Unknown
  <2>2. CASE dat # NoFile /\ last_block_hash' = dat.hash
             /\ last_block_time' = dat.time /\ blocks' = LoadedBlocks(dat)
    <3>1. dat \in File /\ dat.size <= Len(dat.entries)
      BY <2>2, <1>1 DEF TypeOK, SizeWithinFile
    <3>2. dat.hash \in 0 .. Unknown /\ dat.time \in 0 .. MaxTime
      BY <3>1 DEF File
    <3>3. QED
      BY <2>2, <3>1, <3>2, LoadedAreEntries
  <2>3. QED
    BY <2>1, <2>2 DEF Load
<1>3. due' \subseteq Blocks /\ missing' \subseteq Blocks
  BY <1>1 DEF Load, TypeOK
<1>4. TypeOK'
  BY <1>1, <1>2, <1>3
  DEF Load, TypeOK, chainVars, changeVars, fileVars, netVars, saveVars
<1>5. QED
  BY <1>4 DEF StoreInv, StoreType, StoreSize, SizeWithinFile, Load, Saving,
              fileVars, saveVars

\* The net thread.
LEMMA FeedStore == StoreInv /\ (SetTime \/ SetHash \/ Insert) => StoreInv'
<1> SUFFICES ASSUME StoreInv, SetTime \/ SetHash \/ Insert PROVE StoreInv'
  OBVIOUS
<1>1. TypeOK /\ UNCHANGED <<chainVars, fileVars, saveVars>>
  BY DEF StoreInv, StoreType, SetTime, SetHash, Insert, chainVars, fileVars,
         saveVars
<1>2. TypeOK'
  <2>1. CASE SetTime
    <3>1. PICK b \in Blocks : netBlock' = b /\ last_block_time' = nTime[b]
      BY <2>1 DEF SetTime, Resumed, After
    <3>2. netBlock' \in 0 .. NBlocks /\ last_block_time' \in 0 .. MaxTime
      <4>1. nTime[b] \in 1 .. MaxTime
        BY <1>1, <3>1 DEF TypeOK
      <4>2. QED
        BY <3>1, <4>1, StoreAssumption DEF Blocks
    <3>3. QED
      BY <1>1, <2>1, <3>2
      DEF SetTime, TypeOK, chainVars, changeVars, fileVars, saveVars, runVars
  <2>2. CASE SetHash
    <3>1. last_block_hash' \in 0 .. Unknown
      BY <2>2, <1>1, StoreAssumption DEF SetHash, TypeOK, Unknown
    <3>2. QED
      BY <1>1, <2>2, <3>1
      DEF SetHash, TypeOK, chainVars, changeVars, fileVars, saveVars, runVars
  <2>3. CASE Insert
    <3>1. blocks' \subseteq Blocks /\ late' \subseteq Blocks /\ m_bChange' \in BOOLEAN
      <4>1. /\ blocks \subseteq Blocks /\ late \subseteq Blocks
            /\ relevant \subseteq Blocks /\ m_bChange \in BOOLEAN
        BY <1>1 DEF TypeOK
      <4>2. /\ blocks' \subseteq blocks \cup relevant
            /\ late' \subseteq late \cup relevant
            /\ m_bChange' = m_bChange \/ m_bChange' = TRUE
        <5>1. CASE netBlock \in relevant
          BY <2>3, <5>1 DEF Insert
        <5>2. CASE netBlock \notin relevant
          BY <2>3, <5>2 DEF Insert
        <5>3. QED
          BY <5>1, <5>2
      <4>3. QED
        BY <4>1, <4>2
    <3>2. QED
      BY <1>1, <2>3, <3>1, StoreAssumption
      DEF Insert, TypeOK, chainVars, lastVars, fileVars, saveVars
  <2>4. QED
    BY <2>1, <2>2, <2>3
<1>3. QED
  BY <1>1, <1>2 DEF StoreInv, StoreType, StoreSize, SizeWithinFile, Saving,
                    fileVars, saveVars

\* The steps of a save.
LEMMA SaveStore == StoreInv /\ Save => StoreInv'
<1> SUFFICES ASSUME StoreInv, Save PROVE StoreInv'
  OBVIOUS
<1>1. /\ TypeOK /\ SizeWithinFile
      /\ Saving => tmp \in File
      /\ uiPc = "append" => added + Cardinality(todo) <= NBlocks
      /\ uiPc \in Counting => tmp.size + added <= Len(tmp.entries)
      /\ uiPc = "move" => tmp.size <= Len(tmp.entries)
  BY DEF StoreInv, StoreType, StoreSize
<1> USE DEF StoreInv, StoreType, StoreSize, SizeWithinFile, Saving, Counting
<1>2. CASE SaveStart
  <2>1. tmp' \in File /\ tmp'.size <= Len(tmp'.entries)
    <3>1. EmptyFile \in File /\ EmptyFile.size = 0 /\ Len(EmptyFile.entries) = 0
      BY StoreAssumption DEF EmptyFile, File, Unknown
    <3>2. CASE tmp = NoFile \/ tmp.entries = <<>>
      BY <1>2, <3>1, <3>2 DEF SaveStart, OpenTmp
    <3>3. CASE ~(tmp = NoFile \/ tmp.entries = <<>>)
      BY <1>2, <1>1, <3>3 DEF SaveStart, OpenTmp, TypeOK
    <3>4. QED
      BY <3>2, <3>3
  <2>2. todo' \subseteq Blocks /\ added' = 0 /\ uiPc' = "append"
    BY <1>2, <1>1 DEF SaveStart, OpenTmp, TypeOK
  <2>3. added' + Cardinality(todo') <= NBlocks
    BY <2>2, BlockSets, StoreAssumption
  <2>4. TypeOK'
    BY <1>1, <1>2, <2>1, <2>2, StoreAssumption
    DEF SaveStart, TypeOK, chainVars, lastVars, changeVars, netVars
  <2>5. tmp'.size + added' <= Len(tmp'.entries)
    BY <2>1, <2>2 DEF File
  <2>6. dat' = dat
    BY <1>2 DEF SaveStart
  <2>7. QED
    BY <1>1, <2>1, <2>2, <2>3, <2>4, <2>5, <2>6
<1>3. CASE AppendEntry
  <2>1. CASE todo = {}
    BY <1>1, <1>3, <2>1
    DEF AppendEntry, TypeOK, chainVars, lastVars, changeVars, netVars, runVars
  <2>2. CASE todo # {}
    <3>1. PICK b \in todo : /\ tmp' = [tmp EXCEPT !.entries = Append(@, b)]
                            /\ todo' = todo \ {b}
      BY <1>3, <2>2 DEF AppendEntry
    <3>2. added' = added + 1 /\ uiPc' = "append" /\ dat' = dat
      BY <1>3, <2>2 DEF AppendEntry
    <3>3. /\ IsFiniteSet(todo) /\ Cardinality(todo) \in Nat
          /\ Cardinality(todo') = Cardinality(todo) - 1
          /\ todo' \subseteq Blocks
      <4>1. todo \in SUBSET Blocks
        BY <1>1 DEF TypeOK
      <4>2. IsFiniteSet(todo) /\ Cardinality(todo) \in Nat
        BY <4>1, BlockSets
      <4>3. QED
        BY <3>1, <4>1, <4>2, FS_RemoveElement
    <3>4. /\ tmp' \in File /\ tmp'.size = tmp.size
          /\ Len(tmp'.entries) = Len(tmp.entries) + 1
      <4>1. b \in Blocks /\ tmp \in File
        BY <1>1, <1>3, <3>1 DEF TypeOK, AppendEntry
      <4>2. QED
        BY <3>1, <4>1, AppendedEntry
    <3>5. /\ added \in Nat /\ tmp.size \in Nat /\ Len(tmp.entries) \in Nat
          /\ added + Cardinality(todo) <= NBlocks
          /\ tmp.size + added <= Len(tmp.entries)
      BY <1>1, <1>3 DEF TypeOK, AppendEntry, File
    <3>6. /\ added' + Cardinality(todo') <= NBlocks
          /\ tmp'.size + added' <= Len(tmp'.entries)
          /\ tmp'.size <= Len(tmp'.entries)
      BY <3>2, <3>3, <3>4, <3>5, StoreAssumption
    <3>7. added' \in 0 .. NBlocks
      <4>1. Cardinality(todo') \in Nat
        BY <3>3, BlockSets
      <4>2. QED
        BY <3>2, <3>5, <3>6, <4>1, StoreAssumption
    <3>8. TypeOK'
      BY <1>1, <1>3, <3>2, <3>3, <3>4, <3>7
      DEF AppendEntry, TypeOK, chainVars, lastVars, changeVars, netVars, runVars
    <3>9. QED
      BY <1>1, <3>2, <3>4, <3>6, <3>8
  <2>3. QED
    BY <2>1, <2>2
<1>4. CASE WriteHash \/ WriteTime
  <2>1. /\ tmp' \in File /\ tmp'.size = tmp.size /\ tmp'.entries = tmp.entries
        /\ uiPc \in {"hash", "time"} /\ uiPc' \in {"time", "size"}
    <3>1. tmp \in File /\ last_block_hash \in 0 .. Unknown
          /\ last_block_time \in 0 .. MaxTime
      BY <1>1, <1>4 DEF TypeOK, WriteHash, WriteTime
    <3>2. CASE WriteHash
      BY <3>1, <3>2 DEF WriteHash, File
    <3>3. CASE WriteTime
      <4>1. PICK t \in 0 .. MaxTime : tmp' = [tmp EXCEPT !.time = t]
        BY <3>1, <3>3 DEF WriteTime
      <4>2. QED
        BY <3>1, <3>3, <4>1 DEF WriteTime, File
    <3>4. QED
      BY <1>4, <3>2, <3>3
  <2>2. UNCHANGED <<todo, added, must, dat, chainVars, lastVars, blocks,
                    changeVars, netVars, runVars>>
    BY <1>4 DEF WriteHash, WriteTime
  <2>3. TypeOK'
    BY <1>1, <2>1, <2>2
    DEF TypeOK, chainVars, lastVars, changeVars, netVars, runVars
  <2>4. tmp.size \in Nat /\ added \in Nat /\ Len(tmp.entries) \in Nat
    BY <1>1, <2>1 DEF TypeOK, File
  <2>5. QED
    BY <1>1, <2>1, <2>2, <2>3, <2>4
<1>5. CASE WriteSize
  <2>1. tmp \in File /\ added \in Nat /\ tmp.size + added <= Len(tmp.entries)
    BY <1>1, <1>5 DEF TypeOK, WriteSize
  <2>2. /\ tmp' \in File /\ tmp'.size = tmp.size + added
        /\ tmp'.entries = tmp.entries
    BY <1>5, <2>1 DEF WriteSize, File
  <2>3. TypeOK'
    BY <1>1, <1>5, <2>2
    DEF WriteSize, TypeOK, chainVars, lastVars, changeVars, netVars, runVars
  <2>4. QED
    BY <1>1, <1>5, <2>1, <2>2, <2>3 DEF WriteSize
<1>6. CASE Move
  <2>1. tmp \in File /\ tmp.size <= Len(tmp.entries)
    BY <1>1, <1>6 DEF Move
  <2>2. TypeOK'
    BY <1>1, <1>6, <2>1
    DEF Move, TypeOK, chainVars, lastVars, changeVars, netVars
  <2>3. QED
    BY <1>1, <1>6, <2>1, <2>2 DEF Move
<1>7. CASE MoveFails \/ ClearChange
  <2>1. TypeOK'
    BY <1>1, <1>7
    DEF MoveFails, ClearChange, TypeOK, chainVars, lastVars, changeVars,
        fileVars, netVars, runVars
  <2>2. QED
    BY <1>1, <1>7, <2>1 DEF MoveFails, ClearChange, fileVars
<1>8. QED
  BY <1>2, <1>3, <1>4, <1>5, <1>6, <1>7 DEF Save

\* The window, the process and the clock.
LEMMA ProcessStore ==
  StoreInv /\ (Close \/ ProcessEnds \/ Restart \/ HoursPass) => StoreInv'
<1> SUFFICES ASSUME StoreInv, Close \/ ProcessEnds \/ Restart \/ HoursPass
             PROVE  StoreInv'
  OBVIOUS
<1>1. TypeOK
  BY DEF StoreInv, StoreType
<1>2. TypeOK'
  <2>1. CASE Close
    BY <1>1, <2>1
    DEF Close, TypeOK, chainVars, lastVars, changeVars, fileVars, netVars, runVars
  <2>2. CASE ProcessEnds
    <3>1. Unknown \in 0 .. Unknown /\ 0 \in 0 .. MaxTime /\ 0 \in 0 .. NBlocks
      BY StoreAssumption DEF Unknown
    <3>2. QED
      BY <1>1, <2>2, <3>1 DEF ProcessEnds, TypeOK, chainVars, fileVars
  <2>3. CASE Restart
    BY <1>1, <2>3, StoreAssumption
    DEF Restart, TypeOK, chainVars, lastVars, changeVars, fileVars, netVars
  <2>4. CASE HoursPass
    BY <1>1, <2>4
    DEF HoursPass, TypeOK, chainVars, lastVars, fileVars, netVars, saveVars, runVars
  <2>5. QED
    BY <2>1, <2>2, <2>3, <2>4
<1>3. QED
  BY <1>2 DEF StoreInv, StoreType, StoreSize, SizeWithinFile, Saving, Counting,
    Close, ProcessEnds, Restart, HoursPass, fileVars, saveVars

\* Every step keeps types and sizes.
LEMMA StoreInductive == StoreInv /\ [Next]_vars => StoreInv'
<1> SUFFICES ASSUME StoreInv, [Next]_vars PROVE StoreInv'
  OBVIOUS
<1>1. CASE UNCHANGED vars
  BY <1>1 DEF vars, StoreInv, StoreType, StoreSize, TypeOK, SizeWithinFile, Saving,
    chainVars, lastVars, changeVars, fileVars, netVars, saveVars, runVars
<1>2. QED
  BY <1>1, LoadStore, FeedStore, SaveStore, ProcessStore DEF Next

\* So they hold in every state.
LEMMA StoreAlways == Spec => []StoreInv
  BY InitStore, StoreInductive, PTL DEF Spec

\* Every variable keeps its type, the files and what is loaded of them
\* included.
THEOREM StoreTypeCorrect == Spec => []TypeOK
<1>1. StoreInv => TypeOK
  BY DEF StoreInv, StoreType
<1>2. QED
  BY <1>1, StoreAlways, PTL

\* However saves are cut short, fail and are continued, no header counts more
\* blocks than the file behind it has.
THEOREM SizesWithinFiles == Spec => []SizeWithinFile
<1>1. StoreInv => SizeWithinFile
  BY DEF StoreInv, StoreSize
<1>2. QED
  BY <1>1, StoreAlways, PTL

----------------------------------------------------------------------------
(* Saved blocks.                                                           *)

\* Only a run that has loaded the file inserts and has a hash, must only says
\* that the window is closed, and only relevant blocks are due.
RunInv ==
  /\ due \subseteq relevant
  /\ m_bChange \/ netPc # "idle" => loaded
  /\ ~loaded => last_block_hash = Unknown
  /\ uiPc \in {"idle", "off"} => ~must

\* The .tmp file is this run's: a save is on, or its move has failed.
Own == Saving \/ (failed /\ tmp # NoFile)

\* While the saves of a run follow its load and continue no other's .tmp, the
\* run has what the file had, and its .tmp file, which counts its entries, gets
\* all of it.
KeepInv == clean =>
  /\ Saving => loaded
  /\ loaded =>
       /\ dat # NoFile => LoadedBlocks(dat) \subseteq blocks
       /\ Own => EntriesOf(tmp) \subseteq blocks
       /\ uiPc \in Counting => tmp.size + added = Len(tmp.entries)
       /\ Own /\ uiPc \notin Counting => tmp.size = Len(tmp.entries)
       /\ Own /\ dat # NoFile =>
            LoadedBlocks(dat) \subseteq
              EntriesOf(tmp) \cup (IF uiPc = "append" THEN todo ELSE {})
       /\ uiPc = "append" => todo \subseteq blocks

SavedInv == StoreInv /\ RunInv /\ KeepInv

\* The first run has saved nothing.
LEMMA InitSaved == Init => SavedInv
<1> SUFFICES ASSUME Init PROVE SavedInv
  OBVIOUS
<1>1. RunInv
  BY DEF Init, RunInv
<1>2. KeepInv
  BY DEF Init, KeepInv, Saving
<1>3. QED
  BY <1>1, <1>2, InitStore DEF SavedInv

\* m_bChange, a block in work and must tell where the run is.
LEMMA RunInductive == RunInv /\ [Next]_vars => RunInv'
<1> SUFFICES ASSUME RunInv, [Next]_vars PROVE RunInv'
  OBVIOUS
<1> USE DEF RunInv
<1>1. CASE Load \/ SetTime \/ SetHash \/ Insert
  BY <1>1 DEF Load, SetTime, SetHash, Insert, chainVars, changeVars, lastVars,
    netVars, saveVars, runVars
<1>2. CASE Save
  BY <1>2 DEF Save, SaveStart, AppendEntry, WriteHash, WriteTime, WriteSize, Move,
    MoveFails, ClearChange, chainVars, changeVars, lastVars, netVars, runVars
<1>3. CASE Close \/ ProcessEnds \/ Restart \/ HoursPass
  BY <1>3 DEF Close, ProcessEnds, Restart, HoursPass, chainVars, changeVars,
    lastVars, netVars, saveVars, runVars
<1>4. CASE UNCHANGED vars
  BY <1>4 DEF vars, chainVars, changeVars, lastVars, netVars, saveVars, runVars
<1>5. QED
  BY <1>1, <1>2, <1>3, <1>4 DEF Next

\* The steps of a save keep what was saved, and the move is one of them.
LEMMA SaveKeeps ==
  ASSUME SavedInv, Save, clean'
  PROVE  KeepInv' /\ (dat # NoFile => LoadedBlocks(dat) \subseteq LoadedBlocks(dat'))
<1>1. clean /\ TypeOK /\ (Saving => tmp \in File)
  BY DEF Save, SaveStart, AppendEntry, WriteHash, WriteTime, WriteSize, Move,
    MoveFails, ClearChange, runVars, SavedInv, StoreInv, StoreType
<1>2. loaded =>
        /\ dat # NoFile => LoadedBlocks(dat) \subseteq blocks
        /\ Own => EntriesOf(tmp) \subseteq blocks
        /\ uiPc \in Counting => tmp.size + added = Len(tmp.entries)
        /\ Own /\ uiPc \notin Counting => tmp.size = Len(tmp.entries)
        /\ Own /\ dat # NoFile =>
             LoadedBlocks(dat) \subseteq
               EntriesOf(tmp) \cup (IF uiPc = "append" THEN todo ELSE {})
        /\ uiPc = "append" => todo \subseteq blocks
  BY <1>1 DEF SavedInv, KeepInv
<1>3. Saving => loaded
  BY <1>1 DEF SavedInv, KeepInv
<1> USE DEF KeepInv, Own, Saving, Counting
<1>4. CASE SaveStart
  <2>1. /\ uiPc \in {"idle", "closing"} /\ uiPc' = "append" /\ added' = 0
        /\ UNCHANGED <<blocks, loaded, dat, failed>>
        /\ todo' = {b \in blocks : nTime[b] > tmp'.time} /\ loaded
    BY <1>4 DEF SaveStart, OpenTmp
  <2>2. CASE tmp = NoFile \/ tmp.entries = <<>>
    <3>1. tmp' = EmptyFile
      BY <1>4, <2>2 DEF SaveStart, OpenTmp
    <3>2. /\ EntriesOf(tmp') = {} /\ tmp'.size = 0 /\ Len(tmp'.entries) = 0
          /\ tmp'.time = 0
      BY <3>1 DEF EmptyFile, EntriesOf
    <3>3. todo' = blocks
      BY <1>1, <2>1, <3>2 DEF TypeOK
    <3>4. QED
      BY <1>1, <1>2, <2>1, <3>2, <3>3
  <2>3. CASE ~(tmp = NoFile \/ tmp.entries = <<>>)
    <3>1. tmp' = tmp /\ Own
      BY <1>4, <2>3 DEF SaveStart, OpenTmp
    <3>2. EntriesOf(tmp') = EntriesOf(tmp) /\ tmp'.size + 0 = tmp'.size
      BY <1>1, <2>3, <3>1 DEF TypeOK, File
    <3>3. todo' \subseteq blocks
      BY <2>1
    <3>4. QED
      BY <1>1, <1>2, <2>1, <3>1, <3>2, <3>3
  <2>4. QED
    BY <2>2, <2>3
<1>5. CASE AppendEntry
  <2>1. CASE todo = {}
    BY <1>1, <1>2, <1>3, <1>5, <2>1 DEF AppendEntry, runVars
  <2>2. CASE todo # {}
    <3>1. PICK b \in todo : /\ tmp' = [tmp EXCEPT !.entries = Append(@, b)]
                            /\ todo' = todo \ {b}
      BY <1>5, <2>2 DEF AppendEntry
    <3>2. /\ added' = added + 1 /\ uiPc = "append" /\ uiPc' = "append"
          /\ UNCHANGED <<blocks, loaded, dat, failed>> /\ loaded
      BY <1>5, <1>3, <2>2 DEF AppendEntry, runVars
    <3>3. /\ tmp'.size = tmp.size /\ Len(tmp'.entries) = Len(tmp.entries) + 1
          /\ EntriesOf(tmp') = EntriesOf(tmp) \cup {b}
      BY <1>1, <3>1, <3>2, AppendedEntry DEF TypeOK
    <3>4. tmp'.size + added' = Len(tmp'.entries)
      <4>1. tmp.size \in Nat /\ added \in Nat
        BY <1>1, <3>2 DEF TypeOK, File
      <4>2. QED
        BY <1>2, <3>2, <3>3, <4>1
    <3>5. QED
      BY <1>1, <1>2, <3>1, <3>2, <3>3, <3>4
  <2>3. QED
    BY <2>1, <2>2
<1>6. CASE WriteHash \/ WriteTime \/ WriteSize
  <2>1. /\ tmp \in File /\ uiPc \in {"hash", "time", "size"}
        /\ uiPc' \in {"time", "size", "move"}
        /\ UNCHANGED <<added, blocks, loaded, dat, failed>> /\ loaded
    BY <1>1, <1>6, <1>3 DEF WriteHash, WriteTime, WriteSize, runVars
  <2>2. tmp'.entries = tmp.entries
    BY <1>6, <2>1 DEF WriteHash, WriteTime, WriteSize, File
  <2>3. tmp'.size = IF uiPc = "size" THEN tmp.size + added ELSE tmp.size
    BY <1>1, <1>6, <2>1 DEF WriteHash, WriteTime, WriteSize, File
  <2>4. uiPc' = "move" <=> uiPc = "size"
    BY <1>6 DEF WriteHash, WriteTime, WriteSize
  <2>5. EntriesOf(tmp') = EntriesOf(tmp)
    BY <2>2 DEF EntriesOf
  <2>6. QED
    BY <1>1, <1>2, <2>1, <2>2, <2>3, <2>4, <2>5
<1>7. CASE Move
  <2>1. /\ tmp \in File /\ uiPc = "move" /\ uiPc' = "clear"
        /\ dat' = tmp /\ tmp' = NoFile /\ UNCHANGED <<blocks, loaded>> /\ loaded
    BY <1>1, <1>7, <1>3 DEF Move
  <2>2. LoadedBlocks(dat') = EntriesOf(tmp)
    BY <1>2, <2>1, AllEntriesLoaded
  <2>3. QED
    BY <1>1, <1>2, <2>1, <2>2
<1>8. CASE MoveFails
  BY <1>1, <1>2, <1>3, <1>8 DEF MoveFails, fileVars
<1>9. CASE ClearChange
  BY <1>1, <1>2, <1>9 DEF ClearChange, fileVars, runVars
<1>10. QED
  BY <1>4, <1>5, <1>6, <1>7, <1>8, <1>9 DEF Save

\* Nothing else writes a file.
LEMMA OthersKeep ==
  ASSUME SavedInv, [Next]_vars, ~Save
  PROVE  KeepInv' /\ dat' = dat
<1>1. CASE Load
  <2>1. ~Saving /\ loaded' /\ ~failed' /\ UNCHANGED <<dat, tmp, uiPc>>
    BY <1>1 DEF Load, MutexFree, fileVars, saveVars
  <2>2. dat # NoFile => blocks' = LoadedBlocks(dat)
    BY <1>1 DEF Load
  <2>3. QED
    BY <2>1, <2>2 DEF KeepInv, Own, Saving, Counting
<1>2. CASE SetTime \/ SetHash \/ HoursPass \/ UNCHANGED vars
  <2>1. UNCHANGED <<clean, failed, loaded, blocks, dat, tmp, uiPc, todo, added>>
    BY <1>2 DEF SetTime, SetHash, HoursPass, vars, fileVars, saveVars, runVars
  <2>2. QED
    BY <2>1 DEF SavedInv, KeepInv, Own, Saving, EntriesOf, LoadedBlocks
<1>3. CASE Insert
  <2>1. UNCHANGED <<clean, failed, loaded, dat, tmp, uiPc, todo, added>>
        /\ blocks \subseteq blocks'
    BY <1>3 DEF Insert, fileVars, saveVars
  <2>2. QED
    BY <2>1 DEF SavedInv, KeepInv, Own, Saving, EntriesOf, LoadedBlocks
<1>4. CASE Close \/ Restart
  <2>1. /\ ~Saving /\ ~Saving' /\ uiPc \notin Counting /\ uiPc' \notin Counting
        /\ UNCHANGED <<clean, failed, loaded, blocks, dat, tmp>>
    BY <1>4 DEF Close, Restart, Saving, Counting, fileVars, runVars
  <2>2. QED
    BY <2>1 DEF SavedInv, KeepInv, Own, Saving, Counting, LoadedBlocks
<1>5. CASE ProcessEnds
  BY <1>5 DEF ProcessEnds, fileVars, KeepInv, Saving
<1>6. QED
  BY <1>1, <1>2, <1>3, <1>4, <1>5 DEF Next

\* Every step keeps what was saved.
LEMMA SavedInductive == SavedInv /\ [Next]_vars => SavedInv'
<1> SUFFICES ASSUME SavedInv, [Next]_vars PROVE SavedInv'
  OBVIOUS
<1>1. StoreInv' /\ RunInv'
  BY StoreInductive, RunInductive DEF SavedInv
<1>2. KeepInv'
  BY SaveKeeps, OthersKeep DEF KeepInv
<1>3. QED
  BY <1>1, <1>2 DEF SavedInv

\* A save keeps every block an earlier one had put into the .blocks file, in
\* any number of runs that end in any way and also on the .tmp of a failed move
\* of the same run, if it follows the run's load and the run has continued no
\* .tmp of a run before it.
THEOREM SavedBlocksStay == Spec => FileOnlyGrows
<1> DEFINE Grows == dat # NoFile /\ clean' => LoadedBlocks(dat) \subseteq LoadedBlocks(dat')
<1>1. SavedInv /\ [Next]_vars => [Grows]_vars
  <2> SUFFICES ASSUME SavedInv, [Next]_vars, dat # NoFile, clean'
               PROVE  LoadedBlocks(dat) \subseteq LoadedBlocks(dat')
    OBVIOUS
  <2>1. CASE Save
    BY <2>1, SaveKeeps
  <2>2. CASE ~Save
    BY <2>2, OthersKeep
  <2>3. QED
    BY <2>1, <2>2
<1>2. QED
  BY <1>1, InitSaved, SavedInductive, PTL DEF Spec, FileOnlyGrows

----------------------------------------------------------------------------
(* What a save may lose.                                                   *)

\* No block up to the one of this hash is younger than this time.
Passed(hash, time) ==
  hash \in Blocks => \A b \in Blocks : b <= hash => nTime[b] <= time

\* Where the net thread is: at the block in work, or behind the last one.
Place == IF netBlock = 0 THEN last_block_hash ELSE netBlock
Ahead == Resumed(Place, last_block_time)

\* last_block_time is of the block in work, last_block_hash follows it.
FeedPlace ==
  /\ netPc = "idle" <=> netBlock = 0
  /\ netBlock # 0 => last_block_time = nTime[netBlock]
  /\ netPc = "half" => last_block_hash = Unknown
  /\ netPc = "match" => last_block_hash = netBlock

\* What is due was lost before, is kept, in work, or ahead.
FeedInv == loaded =>
  /\ Passed(Place, last_block_time)
  /\ netPc = "hash" => /\ Passed(last_block_hash, last_block_time)
                       /\ Ahead \subseteq Resumed(last_block_hash, last_block_time)
  /\ due \subseteq missing \cup blocks \cup {netBlock} \cup Ahead

\* The .tmp file gets a hash that is older than the time written after it: a
\* session that starts from the two is still fed all that is ahead.  A save
\* before the load writes a hash no node knows.
HeaderInv ==
  /\ dat # NoFile => Passed(dat.hash, dat.time)
  /\ uiPc = "time" =>
       /\ Passed(tmp.hash, last_block_time)
       /\ IF loaded THEN Ahead \subseteq Resumed(tmp.hash, last_block_time)
          ELSE tmp.hash = Unknown
  /\ uiPc \in {"size", "move"} =>
       /\ Passed(tmp.hash, tmp.time)
       /\ loaded => Ahead \subseteq Resumed(tmp.hash, tmp.time)

\* A new .tmp file gets what is kept when the save starts.
FreshInv == clean /\ ~failed =>
  /\ uiPc = "append" => blocks \subseteq EntriesOf(tmp) \cup todo
  /\ Saving /\ uiPc # "append" => blocks \subseteq EntriesOf(tmp)

LossInv == SavedInv /\ FeedPlace /\ FeedInv /\ HeaderInv /\ FreshInv

\* A session that has passed a block is fed the same when it starts from no
\* block at all.
LEMMA FromTheFirst ==
  ASSUME TypeOK, NEW h \in 0 .. Unknown, NEW t \in 0 .. MaxTime, Passed(h, t)
  PROVE  Resumed(h, t) \subseteq Resumed(Unknown, t)
<1> SUFFICES ASSUME NEW b \in Resumed(h, t), NEW c \in Blocks, c < b
             PROVE  nTime[c] <= nTime[b]
  BY DEF Resumed, After
<1>1. /\ b \in Blocks /\ nTime[b] >= t
      /\ \A d \in After(h) : d < b => nTime[d] <= nTime[b]
  BY DEF Resumed, After
<1>2. \A d \in Blocks : nTime[d] \in Int
  BY DEF TypeOK
<1>3. CASE c \in After(h)
  BY <1>1, <1>3
<1>4. CASE c \notin After(h)
  <2>1. h \in Blocks /\ c <= h
    BY <1>4, StoreAssumption DEF After, Blocks, Unknown
  <2>2. nTime[c] <= t
    BY <2>1 DEF Passed
  <2>3. QED
    BY <1>1, <1>2, <2>2
<1>5. QED
  BY <1>3, <1>4

\* The first block a session is fed is behind all it has passed, and leaves
\* the others ahead.
LEMMA FirstFed ==
  ASSUME TypeOK, NEW h \in 0 .. Unknown, NEW t \in 0 .. MaxTime, Passed(h, t),
         NEW b \in Resumed(h, t), \A c \in Resumed(h, t) : b <= c
  PROVE  /\ Passed(b, nTime[b])
         /\ Resumed(h, t) \subseteq {b} \cup Resumed(b, nTime[b])
         /\ Resumed(b, nTime[b]) \subseteq Resumed(h, t)
         /\ Resumed(b, nTime[b]) \subseteq Resumed(h, nTime[b])
<1>1. /\ b \in Blocks /\ b \in After(h) /\ nTime[b] >= t
      /\ \A d \in After(h) : d < b => nTime[d] <= nTime[b]
      /\ b # Unknown
  BY StoreAssumption DEF Resumed, After, Blocks, Unknown
<1>2. \A d \in Blocks : nTime[d] \in Int /\ d \in Int
  BY DEF TypeOK, Blocks
<1>3. Passed(b, nTime[b])
  <2> SUFFICES ASSUME NEW c \in Blocks, c <= b PROVE nTime[c] <= nTime[b]
    BY DEF Passed
  <2>1. b \in Resumed(Unknown, t)
    BY FromTheFirst
  <2>2. c < b => nTime[c] <= nTime[b]
    BY <2>1 DEF Resumed, After
  <2>3. QED
    BY <1>1, <1>2, <2>2
<1>4. Resumed(h, t) \subseteq {b} \cup Resumed(b, nTime[b])
  <2> SUFFICES ASSUME NEW c \in Resumed(h, t), c # b
               PROVE  c \in Resumed(b, nTime[b])
    OBVIOUS
  <2>1. /\ c \in Blocks /\ c > b
        /\ \A d \in After(h) : d < c => nTime[d] <= nTime[c]
    BY <1>2 DEF Resumed, After
  <2>2. nTime[b] <= nTime[c]
    BY <1>1, <2>1
  <2>3. After(b) \subseteq After(h)
    BY <1>1, <1>2 DEF After, Unknown
  <2>4. QED
    BY <1>1, <1>2, <2>1, <2>2, <2>3 DEF Resumed, After
<1>5. ASSUME NEW c \in Resumed(b, nTime[b])
      PROVE  c \in Resumed(h, t) /\ c \in Resumed(h, nTime[b])
  <2>1. /\ c \in Blocks /\ c > b /\ nTime[c] >= nTime[b]
        /\ \A d \in After(b) : d < c => nTime[d] <= nTime[c]
    BY <1>1, <1>2 DEF Resumed, After
  <2>2. c \in After(h)
    BY <1>1, <1>2, <2>1 DEF After, Unknown
  <2>3. ASSUME NEW d \in After(h), d < c PROVE nTime[d] <= nTime[c]
    <3>1. d \in Blocks
      BY DEF After
    <3>2. d > b => nTime[d] <= nTime[c]
      BY <2>1, <2>3, <3>1 DEF After
    <3>3. d <= b => nTime[d] <= nTime[b]
      BY <1>1, <1>2, <3>1
    <3>4. QED
      BY <1>1, <1>2, <2>1, <3>1, <3>2, <3>3
  <2>4. nTime[c] >= t
    BY <1>1, <1>2, <2>1
  <2>5. QED
    BY <2>1, <2>2, <2>3, <2>4 DEF Resumed
<1>6. QED
  BY <1>3, <1>4, <1>5

\* A later time leaves out only what is older than it.
LEMMA LaterTime ==
  ASSUME NEW h, NEW t, NEW u, NEW S \in SUBSET Resumed(h, t),
         \A c \in S : nTime[c] >= u
  PROVE  S \subseteq Resumed(h, u)
  BY DEF Resumed

\* The first run has neither files nor a chain read.
LEMMA InitLoss == Init => LossInv
<1> SUFFICES ASSUME Init PROVE LossInv
  OBVIOUS
<1>1. FeedPlace /\ FeedInv /\ HeaderInv /\ FreshInv
  BY DEF Init, FeedPlace, FeedInv, HeaderInv, FreshInv, Saving
<1>2. QED
  BY <1>1, InitSaved DEF LossInv

\* The block in work, its time and its hash.
LEMMA PlaceInductive ==
  ASSUME TypeOK, RunInv, FeedPlace, [Next]_vars
  PROVE  FeedPlace'
<1> USE DEF FeedPlace
<1>1. CASE Load
  BY <1>1 DEF Load, RunInv, netVars, chainVars
<1>2. CASE SetTime
  BY <1>2 DEF SetTime, Resumed, After, Blocks, chainVars
<1>3. CASE SetHash
  BY <1>3 DEF SetHash, chainVars
<1>4. CASE Insert \/ ProcessEnds
  BY <1>4 DEF Insert, ProcessEnds, chainVars
<1>5. CASE Save \/ Close \/ Restart \/ HoursPass \/ UNCHANGED vars
  <2>1. UNCHANGED <<nTime, last_block_hash, last_block_time, netPc, netBlock>>
    BY <1>5 DEF Save, SaveStart, AppendEntry, WriteHash, WriteTime, WriteSize,
      Move, MoveFails, ClearChange, Close, Restart, HoursPass, vars, chainVars,
      lastVars, netVars
  <2>2. QED
    BY <2>1
<1>6. QED
  BY <1>1, <1>2, <1>3, <1>4, <1>5 DEF Next

\* The chain stays, so a session that starts anywhere is fed the same after a
\* step as before it.
LEMMA SameChain ==
  ASSUME [Next]_vars
  PROVE  /\ UNCHANGED <<nTime, relevant>>
         /\ Ahead' = Resumed(Place', last_block_time')
         /\ Resumed(last_block_hash, last_block_time)'
              = Resumed(last_block_hash', last_block_time')
         /\ Resumed(tmp.hash, last_block_time)' = Resumed(tmp'.hash, last_block_time')
         /\ Resumed(tmp.hash, tmp.time)' = Resumed(tmp'.hash, tmp'.time)
         /\ Passed(Place, last_block_time)' <=> Passed(Place', last_block_time')
         /\ Passed(last_block_hash, last_block_time)'
              <=> Passed(last_block_hash', last_block_time')
         /\ Passed(tmp.hash, last_block_time)' <=> Passed(tmp'.hash, last_block_time')
         /\ Passed(tmp.hash, tmp.time)' <=> Passed(tmp'.hash, tmp'.time)
         /\ Passed(dat.hash, dat.time)' <=> Passed(dat'.hash, dat'.time)
<1>1. UNCHANGED <<nTime, relevant>>
  BY DEF Next, Load, SetTime, SetHash, Insert, Save, SaveStart, AppendEntry,
    WriteHash, WriteTime, WriteSize, Move, MoveFails, ClearChange, Close,
    ProcessEnds, Restart, HoursPass, vars, chainVars
<1>2. /\ Ahead' = Resumed(Place', last_block_time')
      /\ Resumed(last_block_hash, last_block_time)'
           = Resumed(last_block_hash', last_block_time')
  BY <1>1 DEF Ahead, Resumed, After
<1>3. /\ Resumed(tmp.hash, last_block_time)' = Resumed(tmp'.hash, last_block_time')
      /\ Resumed(tmp.hash, tmp.time)' = Resumed(tmp'.hash, tmp'.time)
  BY <1>1 DEF Resumed, After
<1>4. /\ Passed(Place, last_block_time)' <=> Passed(Place', last_block_time')
      /\ Passed(last_block_hash, last_block_time)'
           <=> Passed(last_block_hash', last_block_time')
      /\ Passed(tmp.hash, last_block_time)' <=> Passed(tmp'.hash, last_block_time')
      /\ Passed(tmp.hash, tmp.time)' <=> Passed(tmp'.hash, tmp'.time)
      /\ Passed(dat.hash, dat.time)' <=> Passed(dat'.hash, dat'.time)
  BY <1>1 DEF Passed
<1>5. QED
  BY <1>1, <1>2, <1>3, <1>4

\* What the invariants of the database say together.
LEMMA LossFacts ==
  ASSUME LossInv
  PROVE  /\ TypeOK
         /\ Saving => tmp \in File
         /\ clean /\ Saving => loaded
         /\ ~loaded => last_block_hash = Unknown /\ netPc = "idle"
         /\ loaded => /\ Passed(Place, last_block_time)
                      /\ netPc = "hash" =>
                           /\ Passed(last_block_hash, last_block_time)
                           /\ Ahead \subseteq Resumed(last_block_hash, last_block_time)
                      /\ due \subseteq missing \cup blocks \cup {netBlock} \cup Ahead
         /\ dat # NoFile => Passed(dat.hash, dat.time)
         /\ uiPc = "time" =>
              /\ Passed(tmp.hash, last_block_time)
              /\ loaded => Ahead \subseteq Resumed(tmp.hash, last_block_time)
              /\ ~loaded => tmp.hash = Unknown
         /\ uiPc \in {"size", "move"} =>
              /\ Passed(tmp.hash, tmp.time)
              /\ loaded => Ahead \subseteq Resumed(tmp.hash, tmp.time)
  BY DEF LossInv, SavedInv, StoreInv, StoreType, RunInv, KeepInv, FeedInv, HeaderInv

\* No block has an unknown hash.
LEMMA UnknownPassed ==
  ASSUME NEW t
  PROVE  Passed(Unknown, t)
  BY StoreAssumption DEF Passed, Unknown, Blocks

\* SetTime: the first of what is ahead is now in work.
LEMMA SetTimeLoses ==
  ASSUME LossInv, SetTime
  PROVE  FeedInv' /\ HeaderInv'
<1>1. /\ loaded /\ netPc = "idle" /\ netPc' = "hash"
      /\ UNCHANGED <<last_block_hash, blocks, dat, tmp, uiPc, due, missing, nTime,
                     loaded>>
  BY DEF SetTime, chainVars, fileVars, saveVars, runVars
<1>2. [Next]_vars
  BY DEF Next
<1>3. netBlock = 0 /\ Place = last_block_hash
  BY <1>1 DEF LossInv, FeedPlace, Place
<1>4. PICK b \in Resumed(last_block_hash, last_block_time) :
             /\ \A c \in Resumed(last_block_hash, last_block_time) : b <= c
             /\ netBlock' = b
             /\ last_block_time' = nTime[b]
  BY DEF SetTime
<1>5. /\ b \in Blocks /\ last_block_time <= nTime[b] /\ Place' = b
      /\ nTime[b] \in 0 .. MaxTime
  BY <1>1, <1>4, LossFacts DEF Resumed, After, Blocks, Place, TypeOK
<1>6. /\ Passed(b, nTime[b])
      /\ Ahead \subseteq {b} \cup Resumed(b, nTime[b])
      /\ Resumed(b, nTime[b]) \subseteq Ahead
      /\ Resumed(b, nTime[b]) \subseteq Resumed(last_block_hash, nTime[b])
  <2>1. /\ last_block_hash \in 0 .. Unknown /\ last_block_time \in 0 .. MaxTime
        /\ TypeOK /\ Passed(last_block_hash, last_block_time)
    BY <1>1, <1>3, LossFacts DEF TypeOK
  <2>2. QED
    BY <2>1, <1>3, <1>4, FirstFed DEF Ahead
<1>7. Ahead' = Resumed(b, nTime[b])
  BY <1>2, <1>4, <1>5, SameChain
<1>8. ASSUME NEW h, Passed(h, last_block_time) PROVE Passed(h, nTime[b])
  BY <1>1, <1>5, <1>8, LossFacts DEF Passed, TypeOK
<1>9. ASSUME NEW h, Ahead \subseteq Resumed(h, last_block_time)
      PROVE  Resumed(b, nTime[b]) \subseteq Resumed(h, nTime[b])
  <2>1. \A c \in Resumed(b, nTime[b]) : nTime[c] >= nTime[b]
    BY DEF Resumed
  <2>2. Resumed(b, nTime[b]) \subseteq Resumed(h, last_block_time)
    BY <1>6, <1>9
  <2>3. QED
    BY <2>1, <2>2, LaterTime
<1>10. FeedInv'
  <2>1. Passed(last_block_hash, nTime[b])
    BY <1>1, <1>3, <1>8, LossFacts
  <2>2. due \subseteq missing \cup blocks \cup {b} \cup Resumed(b, nTime[b])
    BY <1>1, <1>3, <1>5, <1>6, LossFacts DEF TypeOK, Blocks
  <2>3. QED
    BY <1>1, <1>2, <1>4, <1>5, <1>6, <1>7, <2>1, <2>2, SameChain DEF FeedInv
<1>11. HeaderInv'
  <2>1. /\ uiPc = "time" => /\ Passed(tmp.hash, nTime[b])
                            /\ Resumed(b, nTime[b]) \subseteq Resumed(tmp.hash, nTime[b])
        /\ uiPc \in {"size", "move"} =>
             /\ Passed(tmp.hash, tmp.time)
             /\ Resumed(b, nTime[b]) \subseteq Resumed(tmp.hash, tmp.time)
        /\ dat # NoFile => Passed(dat.hash, dat.time)
    BY <1>1, <1>6, <1>8, <1>9, LossFacts
  <2>2. QED
    BY <1>1, <1>2, <1>4, <1>7, <2>1, SameChain DEF HeaderInv
<1>12. QED
  BY <1>10, <1>11

\* SetHash: a hash half copied is no block's, and all that is ahead is fed
\* from the first block too.
LEMMA SetHashLoses ==
  ASSUME LossInv, SetHash
  PROVE  FeedInv' /\ HeaderInv'
<1>1. /\ netPc \in {"hash", "half"} /\ netPc' \in {"half", "match"}
      /\ UNCHANGED <<last_block_time, netBlock, blocks, dat, tmp, uiPc, due,
                     missing, nTime, loaded>>
  BY DEF SetHash, chainVars, fileVars, saveVars, runVars
<1>2. [Next]_vars
  BY DEF Next
<1>3. netBlock # 0 /\ Place' = Place
  BY <1>1 DEF LossInv, FeedPlace, Place
<1>4. Ahead' = Ahead
  BY <1>1, <1>2, <1>3, SameChain DEF Ahead
<1>5. FeedInv'
  BY <1>1, <1>2, <1>3, <1>4, SameChain, LossFacts DEF FeedInv
<1>6. HeaderInv'
  BY <1>1, <1>2, <1>4, SameChain, LossFacts DEF HeaderInv
<1>7. QED
  BY <1>5, <1>6

\* Insert: what was in work is kept or not relevant, and last_block_hash has
\* come to it; while a save runs, nothing is inserted.
LEMMA InsertLoses ==
  ASSUME LossInv, Insert
  PROVE  FeedInv' /\ HeaderInv'
<1>1. /\ netPc = "match" /\ netPc' = "idle" /\ netBlock' = 0
      /\ UNCHANGED <<last_block_hash, last_block_time, dat, tmp, uiPc, due,
                     missing, nTime, loaded>>
      /\ netBlock \in relevant => blocks' = blocks \cup {netBlock}
      /\ netBlock \notin relevant => blocks' = blocks
  BY DEF Insert, chainVars, lastVars, fileVars, saveVars
<1>2. [Next]_vars
  BY DEF Next
<1>3. Place = netBlock /\ Place' = netBlock
  BY <1>1 DEF LossInv, FeedPlace, Place
<1>4. Ahead' = Ahead
  BY <1>1, <1>2, <1>3, SameChain DEF Ahead
<1>5. FeedInv'
  <2>1. loaded /\ due \subseteq relevant
    BY <1>1, LossFacts DEF LossInv, SavedInv, RunInv
  <2>2. QED
    BY <1>1, <1>2, <1>3, <1>4, <2>1, SameChain, LossFacts DEF FeedInv
<1>6. HeaderInv'
  BY <1>1, <1>2, <1>4, SameChain, LossFacts DEF HeaderInv
<1>7. QED
  BY <1>5, <1>6

\* The loader: where it starts is what the file says.
LEMMA LoadLoses ==
  ASSUME LossInv, Load
  PROVE  FeedInv' /\ HeaderInv'
<1>1. /\ ~loaded /\ ~Saving
      /\ UNCHANGED <<dat, tmp, uiPc, netPc, netBlock, nTime>>
      /\ missing' = due' \ (blocks' \cup Resumed(last_block_hash', last_block_time'))
  BY DEF Load, MutexFree, chainVars, fileVars, netVars, saveVars
<1>2. [Next]_vars
  BY DEF Next
<1>3. netPc = "idle" /\ netBlock = 0 /\ Place' = last_block_hash'
  BY <1>1 DEF LossInv, SavedInv, RunInv, FeedPlace, Place
<1>4. Ahead' = Resumed(last_block_hash', last_block_time')
  BY <1>2, <1>3, SameChain
<1>5. Passed(last_block_hash', last_block_time')
  <2>1. CASE dat = NoFile /\ last_block_hash' = 0
    BY <2>1 DEF Passed, Blocks
  <2>2. CASE dat # NoFile /\ last_block_hash' = dat.hash /\ last_block_time' = dat.time
    BY <1>1, <2>2, LossFacts
  <2>3. QED
    BY <2>1, <2>2 DEF Load
<1>6. FeedInv'
  BY <1>1, <1>2, <1>3, <1>4, <1>5, SameChain DEF FeedInv
<1>7. HeaderInv'
  BY <1>1, <1>2, SameChain, LossFacts DEF HeaderInv, Saving
<1>8. QED
  BY <1>6, <1>7

\* What of FeedInv a step of the ui thread keeps.
LEMMA OthersFeed ==
  ASSUME LossInv, Save \/ Close \/ Restart \/ HoursPass \/ UNCHANGED vars
  PROVE  /\ UNCHANGED <<last_block_hash, last_block_time, netPc, netBlock, blocks,
                        loaded>>
         /\ Ahead' = Ahead
         /\ FeedInv'
<1>1. UNCHANGED <<last_block_hash, last_block_time, netPc, netBlock, blocks, due,
                  missing, loaded>>
  BY DEF Save, SaveStart, AppendEntry, WriteHash, WriteTime, WriteSize, Move,
    MoveFails, ClearChange, Close, Restart, HoursPass, vars, lastVars, netVars,
    runVars
<1>2. [Next]_vars
  BY DEF Next
<1>3. Ahead' = Ahead /\ Place' = Place
  BY <1>1, <1>2, SameChain DEF Ahead, Place
<1>4. FeedInv'
  BY <1>1, <1>2, <1>3, SameChain, LossFacts DEF FeedInv
<1>5. QED
  BY <1>1, <1>3, <1>4

\* The steps of a save: the header gets a hash and a time from which all that
\* is ahead is fed, whatever the net thread does between the two.
LEMMA SaveHeader ==
  ASSUME LossInv, Save
  PROVE  HeaderInv'
<1>1. /\ [Next]_vars /\ Ahead' = Ahead
      /\ UNCHANGED <<last_block_hash, last_block_time, loaded>>
  BY OthersFeed DEF Next
<1>2. CASE SaveStart \/ AppendEntry
  <2>1. dat' = dat /\ uiPc' \in {"append", "hash"}
    BY <1>2 DEF SaveStart, AppendEntry
  <2>2. QED
    BY <1>1, <2>1, SameChain, LossFacts DEF HeaderInv
<1>3. CASE WriteHash
  <2>1. /\ tmp \in File /\ uiPc = "hash" /\ uiPc' = "time" /\ dat' = dat
        /\ tmp' = [tmp EXCEPT !.hash = last_block_hash]
    BY <1>3, LossFacts DEF WriteHash, Saving
  <2>2. tmp'.hash = last_block_hash
    BY <2>1 DEF File
  <2>3. /\ Passed(last_block_hash, last_block_time)
        /\ loaded => Ahead \subseteq Resumed(last_block_hash, last_block_time)
        /\ ~loaded => last_block_hash = Unknown
    <3>1. CASE ~loaded
      BY <3>1, LossFacts, UnknownPassed
    <3>2. CASE loaded /\ netPc = "hash"
      BY <3>2, LossFacts
    <3>3. CASE loaded /\ netPc \in {"idle", "match"}
      <4>1. Place = last_block_hash
        BY <3>3 DEF LossInv, FeedPlace, Place
      <4>2. QED
        BY <3>3, <4>1, LossFacts DEF Ahead
    <3>4. CASE loaded /\ netPc = "half"
      <4>1. last_block_hash = Unknown /\ netBlock # 0 /\ Place = netBlock
        BY <3>4 DEF LossInv, FeedPlace, Place
      <4>2. /\ TypeOK /\ Passed(Place, last_block_time)
            /\ Place \in 0 .. Unknown /\ last_block_time \in 0 .. MaxTime
        BY <3>4, <4>1, LossFacts, StoreAssumption DEF TypeOK, Unknown
      <4>3. Ahead \subseteq Resumed(Unknown, last_block_time)
        BY <4>2, FromTheFirst DEF Ahead
      <4>4. QED
        BY <3>4, <4>1, <4>3, UnknownPassed
    <3>5. QED
      BY <3>1, <3>2, <3>3, <3>4, LossFacts DEF TypeOK
  <2>4. QED
    BY <1>1, <2>1, <2>2, <2>3, SameChain, LossFacts DEF HeaderInv
<1>4. CASE WriteTime
  <2>1. /\ tmp \in File /\ uiPc = "time" /\ uiPc' = "size" /\ dat' = dat
    BY <1>4, LossFacts DEF WriteTime, Saving
  <2>2. PICK t : /\ tmp' = [tmp EXCEPT !.time = t]
                 /\ loaded => t = last_block_time
    BY <1>4 DEF WriteTime
  <2>3. tmp'.hash = tmp.hash /\ tmp'.time = t
    BY <2>1, <2>2 DEF File
  <2>4. /\ Passed(tmp'.hash, tmp'.time)
        /\ loaded => Ahead \subseteq Resumed(tmp'.hash, tmp'.time)
    BY <2>1, <2>2, <2>3, LossFacts, UnknownPassed
  <2>5. QED
    BY <1>1, <2>1, <2>4, SameChain, LossFacts DEF HeaderInv
<1>5. CASE WriteSize
  <2>1. /\ tmp \in File /\ uiPc = "size" /\ uiPc' = "move" /\ dat' = dat
    BY <1>5, LossFacts DEF WriteSize, Saving
  <2>2. tmp'.hash = tmp.hash /\ tmp'.time = tmp.time
    BY <1>5, <2>1 DEF WriteSize, File
  <2>3. QED
    BY <1>1, <2>1, <2>2, SameChain, LossFacts DEF HeaderInv
<1>6. CASE Move \/ MoveFails \/ ClearChange
  <2>1. /\ uiPc' \in {"clear", "exit", "idle"}
        /\ dat' = dat \/ (uiPc = "move" /\ dat' = tmp)
    BY <1>6 DEF Move, MoveFails, ClearChange, fileVars
  <2>2. QED
    BY <1>1, <2>1, SameChain, LossFacts DEF HeaderInv
<1>7. QED
  BY <1>2, <1>3, <1>4, <1>5, <1>6 DEF Save

\* What a save leaves alone, and what its history forgets.
LEMMA SaveLeaves ==
  ASSUME Save
  PROVE  /\ UNCHANGED <<nTime, blocks, due>>
         /\ clean' => clean
         /\ ~failed' => ~failed
<1>1. CASE SaveStart
  BY <1>1 DEF SaveStart, chainVars
<1>2. CASE MoveFails
  BY <1>2 DEF MoveFails, chainVars
<1>3. CASE AppendEntry \/ WriteHash \/ WriteTime \/ WriteSize \/ Move \/ ClearChange
  BY <1>3 DEF AppendEntry, WriteHash, WriteTime, WriteSize, Move, ClearChange,
    chainVars, runVars
<1>4. QED
  BY <1>1, <1>2, <1>3 DEF Save

\* A save that starts a new .tmp file puts all that is kept into it, and no
\* block is kept before the move.
LEMMA SaveFresh ==
  ASSUME LossInv, Save
  PROVE  FreshInv'
<1> SUFFICES ASSUME clean', ~failed' PROVE FreshInv'
  BY DEF FreshInv
<1>1. clean /\ ~failed /\ UNCHANGED blocks
  BY SaveLeaves
<1>2. /\ uiPc = "append" => blocks \subseteq EntriesOf(tmp) \cup todo
      /\ Saving /\ uiPc # "append" => blocks \subseteq EntriesOf(tmp)
      /\ TypeOK /\ (Saving => tmp \in File)
  BY <1>1, LossFacts DEF LossInv, FreshInv
<1>3. CASE SaveStart
  <2>1. /\ tmp' = EmptyFile /\ uiPc' = "append"
        /\ todo' = {b \in blocks : nTime[b] > tmp'.time}
    BY <1>1, <1>3 DEF SaveStart, OpenTmp
  <2>2. todo' = blocks
    BY <1>2, <2>1 DEF TypeOK, EmptyFile
  <2>3. QED
    BY <1>1, <2>1, <2>2 DEF FreshInv, Saving
<1>4. CASE AppendEntry
  <2>1. CASE todo = {}
    BY <1>1, <1>2, <1>4, <2>1 DEF AppendEntry, FreshInv, Saving
  <2>2. CASE todo # {}
    <3>1. PICK b \in todo : /\ tmp' = [tmp EXCEPT !.entries = Append(@, b)]
                            /\ todo' = todo \ {b}
      BY <1>4, <2>2 DEF AppendEntry
    <3>2. uiPc = "append" /\ uiPc' = "append" /\ tmp \in File
      BY <1>2, <1>4, <2>2 DEF AppendEntry, Saving
    <3>3. EntriesOf(tmp') = EntriesOf(tmp) \cup {b}
      BY <1>2, <3>1, <3>2, AppendedEntry DEF TypeOK
    <3>4. blocks \subseteq EntriesOf(tmp') \cup todo'
      BY <1>2, <3>1, <3>2, <3>3
    <3>5. QED
      BY <1>1, <3>2, <3>4 DEF FreshInv, EntriesOf
  <2>3. QED
    BY <2>1, <2>2
<1>5. CASE WriteHash \/ WriteTime \/ WriteSize
  <2>1. /\ tmp \in File /\ uiPc \in {"hash", "time", "size"}
        /\ uiPc' \in {"time", "size", "move"}
    BY <1>2, <1>5 DEF WriteHash, WriteTime, WriteSize, Saving
  <2>2. tmp'.entries = tmp.entries
    BY <1>5, <2>1 DEF WriteHash, WriteTime, WriteSize, File
  <2>3. QED
    BY <1>1, <1>2, <2>1, <2>2 DEF FreshInv, EntriesOf, Saving
<1>6. CASE Move \/ MoveFails \/ ClearChange
  BY <1>6 DEF Move, MoveFails, ClearChange, FreshInv, Saving
<1>7. QED
  BY <1>3, <1>4, <1>5, <1>6 DEF Save

\* So the move leaves at most the block in work behind.
LEMMA SaveLoses ==
  ASSUME LossInv, Save, clean', ~failed', dat' # dat
  PROVE  Lost(dat') \subseteq missing \cup {netBlock}
<1>1. /\ tmp \in File /\ uiPc = "move" /\ dat' = tmp /\ clean /\ ~failed
      /\ UNCHANGED <<nTime, due>>
  <2>1. Move
    BY DEF Save, SaveStart, AppendEntry, WriteHash, WriteTime, WriteSize, MoveFails,
      ClearChange, fileVars
  <2>2. QED
    BY <2>1, SaveLeaves, LossFacts DEF Move, Saving
<1>2. loaded /\ Saving
  BY <1>1, LossFacts DEF Saving
<1>3. LoadedBlocks(tmp) = EntriesOf(tmp)
  BY <1>1, <1>2, AllEntriesLoaded DEF LossInv, SavedInv, KeepInv, Own, Counting
<1>4. blocks \subseteq EntriesOf(tmp)
  BY <1>1, <1>2 DEF LossInv, FreshInv
<1>5. /\ Ahead \subseteq Resumed(tmp.hash, tmp.time)
      /\ due \subseteq missing \cup blocks \cup {netBlock} \cup Ahead
  BY <1>1, <1>2, LossFacts
<1>6. QED
  BY <1>1, <1>3, <1>4, <1>5 DEF Lost

\* The window, the process and the clock: the files stay.
LEMMA ProcessLoses ==
  ASSUME LossInv, Close \/ ProcessEnds \/ Restart \/ HoursPass \/ UNCHANGED vars
  PROVE  FeedInv' /\ HeaderInv'
<1>1. [Next]_vars /\ UNCHANGED <<dat, tmp>>
  BY DEF Next, Close, ProcessEnds, Restart, HoursPass, vars, fileVars
<1>2. CASE ProcessEnds
  BY <1>1, <1>2, SameChain, LossFacts DEF ProcessEnds, FeedInv, HeaderInv
<1>3. CASE Close \/ Restart
  <2>1. FeedInv'
    BY <1>3, OthersFeed
  <2>2. uiPc' \in {"idle", "closing", "exit"}
    BY <1>3 DEF Close, Restart
  <2>3. QED
    BY <1>1, <2>1, <2>2, SameChain, LossFacts DEF HeaderInv
<1>4. CASE HoursPass \/ UNCHANGED vars
  <2>1. /\ FeedInv' /\ Ahead' = Ahead
        /\ UNCHANGED <<last_block_hash, last_block_time, loaded>>
    BY <1>4, OthersFeed
  <2>2. UNCHANGED uiPc
    BY <1>4 DEF HoursPass, vars, saveVars
  <2>3. QED
    BY <1>1, <2>1, <2>2, SameChain, LossFacts DEF HeaderInv
<1>5. QED
  BY <1>2, <1>3, <1>4

\* A block is kept while no save is on.
LEMMA OthersFresh ==
  ASSUME LossInv, [Next]_vars, ~Save
  PROVE  FreshInv'
<1>1. CASE Load \/ Close \/ ProcessEnds \/ Restart
  <2>1. ~Saving'
    BY <1>1 DEF Load, Close, ProcessEnds, Restart, MutexFree, Saving, saveVars
  <2>2. QED
    BY <2>1 DEF FreshInv, Saving
<1>2. CASE SetTime \/ SetHash \/ Insert \/ HoursPass \/ UNCHANGED vars
  <2>1. /\ UNCHANGED <<clean, failed, tmp, todo, uiPc>>
        /\ Saving => UNCHANGED blocks
    BY <1>2 DEF SetTime, SetHash, Insert, HoursPass, MutexFree, vars, fileVars,
      saveVars, runVars
  <2>2. QED
    BY <2>1 DEF LossInv, FreshInv, Saving, EntriesOf
<1>3. QED
  BY <1>1, <1>2 DEF Next

\* Every step keeps what is lost within bounds.
LEMMA LossInductive == LossInv /\ [Next]_vars => LossInv'
<1> SUFFICES ASSUME LossInv, [Next]_vars PROVE LossInv'
  OBVIOUS
<1>1. SavedInv'
  BY SavedInductive DEF LossInv
<1>2. FeedPlace'
  BY PlaceInductive DEF LossInv, SavedInv, StoreInv, StoreType
<1>3. FeedInv' /\ HeaderInv'
  BY LoadLoses, SetTimeLoses, SetHashLoses, InsertLoses, SaveHeader, OthersFeed,
    ProcessLoses DEF Next
<1>4. FreshInv'
  BY SaveFresh, OthersFresh
<1>5. QED
  BY <1>1, <1>2, <1>3, <1>4 DEF LossInv

\* A save that follows the load, in a run that has continued no .tmp of a run
\* before it and none of whose moves has failed, loses at most the one block in
\* work, however the net thread's stores of time and hash and the ui thread's
\* copies of them interleave, and for every chain: block times need not rise.
THEOREM LossBounded == Spec => LossIsTheRacingBlock
<1> DEFINE Bounded == dat' # dat /\ clean' /\ ~failed'
                        => Lost(dat') \subseteq missing \cup {netBlock}
<1>1. LossInv /\ [Next]_vars => [Bounded]_vars
  <2> SUFFICES ASSUME LossInv, [Next]_vars, dat' # dat, clean', ~failed'
               PROVE  Lost(dat') \subseteq missing \cup {netBlock}
    OBVIOUS
  <2>1. CASE Save
    BY <2>1, SaveLoses
  <2>2. CASE ~Save
    BY <2>2, OthersKeep DEF LossInv
  <2>3. QED
    BY <2>1, <2>2
<1>2. QED
  BY <1>1, InitLoss, LossInductive, PTL DEF Spec, LossIsTheRacingBlock

----------------------------------------------------------------------------
(* The wallet: its session and its database.                               *)

\* The session is one of ChainSync that feeds another database.
Sync == INSTANCE ChainSyncProofs WITH
          MaxHeight <- NBlocks, Times <- 0 .. MaxTime,
          netPc <- modalPc, blocks <- batch, startTime <- 0, fed <- <<>>,
          last_block_hash <- 0

----------------------------------------------------------------------------
(* The inductive invariant.                                                *)

\* The process ends with its session, and a session begins with nothing.
NoneYet ==
  /\ requests = <<>> /\ inbox = <<>> /\ connected = FALSE
  /\ requested = {} /\ seenTip = 0
  /\ m_block_pool = <<>> /\ m_headers_pool = <<>>
  /\ batch = <<>> /\ headers = <<>>
  /\ netPc = "idle"

\* What is ahead of the database up to a block.
AheadTo(h) == {b \in Ahead : b <= h}

\* The blocks under way are the first of those ahead of the database: while
\* the connection lasts all up to the block the headers exchange is about,
\* which the database is not behind of.
Link(from) ==
  /\ Sync!Exchange(from)
  /\ Sync!InFlight \subseteq AheadTo(from)
  /\ \A b \in Sync!InFlight : \A c \in Ahead : c < b => c \in Sync!InFlight
  /\ connected => /\ AheadTo(from) \subseteq Sync!InFlight
                  /\ Place # Unknown => Place <= from

\* The session has the shape ChainSync gives it.
Shape == Sync!TypeOK /\ Sync!Phases /\ Sync!Order

SessionInv ==
  IF modalPc = "off" THEN NoneYet
  ELSE /\ loaded /\ uiPc # "off"
       /\ Shape
       /\ \E from \in 0 .. tip : Link(from)

\* A hash the database or a file holds is of a block the node has, or of none.
Held(h) == h \in 0 .. tip \/ h = Unknown
HashInv ==
  /\ tip \in 0 .. NBlocks
  /\ Held(last_block_hash) /\ Held(netBlock)
  /\ dat # NoFile => Held(dat.hash)
  /\ tmp # NoFile \/ Saving => Held(tmp.hash)

WalletInv == LossInv /\ HashInv /\ SessionInv

----------------------------------------------------------------------------
(* The session's steps are those of ChainSync.                             *)

\* What ChainSync assumes of its constants holds.
LEMMA SessionAssumption ==
  /\ NBlocks \in Nat /\ 0 .. MaxTime \subseteq Nat
  /\ MaxHeaders \in Nat \ {0} /\ MAX_SEND_INV_COUNT \in Nat \ {0}
BY StoreAssumption, WalletAssumption

\* The two instances have the same steps.
LEMMA SameSteps ==
  /\ Session!Mine => Sync!Mine
  /\ Session!Remote => Sync!Remote
  /\ Session!Disconnect => Sync!Disconnect
  /\ Session!OnRecv => Sync!OnRecv
  /\ Session!TakeBlocks => Sync!TakeBlocks
  /\ Session!TakeHeaders => Sync!TakeHeaders
  /\ Session!FilterHeads => Sync!FilterHeads
  /\ Session!FilterHeadsThrows => Sync!FilterHeadsThrows
  /\ Session!FilterModalDone => Sync!FilterModalDone
<1> USE DEF Session!chainVars, Session!dbVars, Session!wireVars, Session!poolVars,
            Session!modalVars, Sync!chainVars, Sync!dbVars, Sync!wireVars,
            Sync!poolVars, Sync!modalVars
<1>1. Session!Mine => Sync!Mine
  BY DEF Session!Mine, Sync!Mine
<1>2. Session!AnswerHeaders => Sync!AnswerHeaders
  BY DEF Session!AnswerHeaders, Sync!AnswerHeaders, Session!Headers, Sync!Headers
<1>3. Session!AnswerData => Sync!AnswerData
  BY DEF Session!AnswerData, Sync!AnswerData, Session!Block, Sync!Block,
         Session!GetData, Sync!GetData, Session!Min, Sync!Min
<1>4. Session!Disconnect => Sync!Disconnect
  BY DEF Session!Disconnect, Sync!Disconnect
<1>5. Session!OnRecv => Sync!OnRecv
  BY DEF Session!OnRecv, Sync!OnRecv
<1>6. Session!TakeBlocks => Sync!TakeBlocks
  BY DEF Session!TakeBlocks, Sync!TakeBlocks
<1>7. Session!TakeHeaders => Sync!TakeHeaders
  BY DEF Session!TakeHeaders, Sync!TakeHeaders
<1>8. Session!FilterHeads => Sync!FilterHeads
  BY DEF Session!FilterHeads, Sync!FilterHeads, Session!GetHeaders,
         Sync!GetHeaders, Session!Locator, Sync!Locator, Session!Accepted,
         Sync!Accepted, Session!DownloadBlocks, Sync!DownloadBlocks,
         Session!Batch, Sync!Batch, Session!Rank, Sync!Rank, Session!GetData,
         Sync!GetData, Session!Max, Sync!Max, Session!Cardinality,
         Sync!Cardinality
<1>9. Session!FilterHeadsThrows => Sync!FilterHeadsThrows
  BY DEF Session!FilterHeadsThrows, Sync!FilterHeadsThrows
<1>10. Session!FilterModalDone => Sync!FilterModalDone
  BY DEF Session!FilterModalDone, Sync!FilterModalDone
<1>11. QED
  BY <1>1, <1>2, <1>3, <1>4, <1>5, <1>6, <1>7, <1>8, <1>9, <1>10
     DEF Session!Remote, Sync!Remote

\* The steps that leave the database alone and no block behind.
Talk == Answer \/ (FilterModal /\ ~Session!FilterHeads)

\* They are steps of ChainSync that move the blocks on.
LEMMA TalkMovesOn ==
  ASSUME Talk
  PROVE  /\ Sync!MoveOn /\ Sync!Others /\ UNCHANGED vars
         /\ UNCHANGED <<connected, tip>>
         /\ modalPc # "off" => modalPc' # "off"
<1>1. Sync!MoveOn
  BY SameSteps DEF Talk, Answer, FilterModal, Sync!MoveOn
<1>2. UNCHANGED vars
  BY DEF Talk, Answer, FilterModal
<1>3. UNCHANGED <<connected, tip>> /\ (modalPc # "off" => modalPc' # "off")
  BY DEF Talk, Answer, FilterModal, Session!Remote, Session!AnswerHeaders,
    Session!AnswerData, Session!OnRecv, Session!TakeBlocks, Session!TakeHeaders,
    Session!FilterHeadsThrows, Session!FilterModalDone, Session!chainVars,
    Session!wireVars, Session!modalVars
<1>4. QED
  BY <1>1, <1>2, <1>3 DEF Sync!Others

\* ChainSync keeps the session's shape, in all steps but filter_block's.
LEMMA ShapeOthers ==
  ASSUME Shape, NEW from, Sync!Exchange(from), Sync!Others
  PROVE  Shape'
BY SessionAssumption, Sync!TypeOthers, Sync!PhasesOthers, Sync!OrderOthers
   DEF Shape

\* The database stays where it is while its variables do.
LEMMA SameAhead ==
  ASSUME UNCHANGED vars
  PROVE  UNCHANGED <<Ahead, Place>> /\ \A h : AheadTo(h)' = AheadTo(h)
BY DEF vars, chainVars, lastVars, netVars, Ahead, AheadTo, Place, Resumed, After

\* What the node says and filter_modal does with it.
LEMMA TalkLinks ==
  ASSUME SessionInv, Talk
  PROVE  SessionInv'
<1>1. /\ Sync!MoveOn /\ Sync!Others /\ UNCHANGED vars
      /\ UNCHANGED <<connected, tip>>
      /\ modalPc # "off" => modalPc' # "off"
  BY TalkMovesOn
<1>2. modalPc # "off"
  BY DEF Talk, Answer, FilterModal, SessionInv, NoneYet, Session!Remote,
    Session!AnswerHeaders, Session!AnswerData, Session!OnRecv, Session!TakeBlocks,
    Session!TakeHeaders, Session!FilterHeadsThrows, Session!FilterModalDone
<1>3. PICK from \in 0 .. tip : Link(from)
  BY <1>2 DEF SessionInv
<1>4. Shape /\ Sync!Exchange(from) /\ loaded /\ uiPc # "off"
  BY <1>2, <1>3 DEF SessionInv, Link
<1>5. Shape'
  BY <1>1, <1>4, ShapeOthers
<1>6. UNCHANGED Sync!InFlight
  BY <1>1, <1>4, SessionAssumption, Sync!InFlightStays DEF Shape
<1>7. Sync!Exchange(from)'
  BY <1>1, <1>4, SessionAssumption, Sync!ExchangeMoves DEF Shape
<1>8. Link(from)'
  BY <1>1, <1>3, <1>6, <1>7, SameAhead DEF Link
<1>9. loaded' /\ uiPc' # "off"
  BY <1>1, <1>4 DEF vars, saveVars, runVars
<1>10. QED
  BY <1>1, <1>2, <1>3, <1>5, <1>8, <1>9 DEF SessionInv

\* The end of the connection takes the last of the blocks under way.
LEMMA HangUpLinks ==
  ASSUME SessionInv, HangUp
  PROVE  SessionInv'
<1>1. Sync!Disconnect /\ Sync!Others /\ UNCHANGED vars
  BY SameSteps DEF HangUp, Sync!Others
<1>2. connected /\ connected' = FALSE /\ UNCHANGED <<tip, modalPc>>
  BY <1>1 DEF Sync!Disconnect, Sync!chainVars, Sync!modalVars
<1>3. modalPc # "off"
  BY <1>2 DEF SessionInv, NoneYet
<1>4. PICK from \in 0 .. tip : Link(from)
  BY <1>3 DEF SessionInv
<1>5. Shape /\ Sync!Exchange(from) /\ loaded /\ uiPc # "off"
  BY <1>3, <1>4 DEF SessionInv, Link
<1>6. Shape'
  BY <1>1, <1>5, ShapeOthers
<1>7. /\ Sync!InFlight' \subseteq Sync!InFlight
      /\ \A b \in Sync!InFlight' : \A c \in Sync!InFlight \ Sync!InFlight' : b < c
  BY <1>1, <1>5, SessionAssumption, Sync!HighestAreLost DEF Shape, Sync!Below
<1>8. Sync!Exchange(from)'
  BY <1>1, <1>4, <1>5, SessionAssumption, Sync!ExchangeMoves DEF Shape
<1>9. \A b \in Sync!InFlight' : \A c \in Ahead : c < b => c \in Sync!InFlight'
  <2> TAKE b \in Sync!InFlight'
  <2> TAKE c \in Ahead
  <2> HAVE c < b
  <2>1. b \in Ahead /\ c \in Sync!InFlight
    BY <1>4, <1>7 DEF Link, AheadTo
  <2>2. b \in Int /\ c \in Int
    BY <2>1 DEF Ahead, Resumed, After, Blocks
  <2>3. QED
    BY <1>7, <2>1, <2>2
<1>10. Link(from)'
  BY <1>1, <1>2, <1>4, <1>7, <1>8, <1>9, SameAhead DEF Link
<1>11. loaded' /\ uiPc' # "off"
  BY <1>1, <1>5 DEF vars, saveVars, runVars
<1>12. QED
  BY <1>2, <1>3, <1>4, <1>6, <1>10, <1>11 DEF SessionInv

\* The headers filter_heads accepts are the blocks ahead of the database up to
\* the last header, when none is ahead before the first: what is between the
\* database's place and the first header is older than the database.
LEMMA AcceptedAreAhead ==
  ASSUME TypeOK, netBlock = 0, NEW from \in Nat, NEW upTo \in Nat, upTo <= NBlocks,
         AheadTo(from) = {}, Place # Unknown => Place <= from,
         Passed(Place, last_block_time)
  PROVE  Sync!Accepted(from + 1 .. upTo) = AheadTo(upTo)
<1> DEFINE h == last_block_hash
           t == last_block_time
<1>1. Place = h /\ Ahead = Resumed(h, t)
  BY DEF Place, Ahead
<1>2. /\ NBlocks \in Nat /\ h \in 0 .. Unknown /\ t \in Nat
      /\ \A c \in Blocks : c \in Nat /\ nTime[c] \in Nat
      /\ h # Unknown => h <= from
  BY <1>1, StoreAssumption DEF TypeOK, Blocks, Unknown
<1>3. \A c \in from + 1 .. upTo : c \in After(h)
  BY <1>2 DEF After, Blocks
\* The first block after h that is as young as the database, if it lies up to
\* from, is ahead.
<1>4. ASSUME NEW c \in After(h), c <= from PROVE nTime[c] < t
  <2>1. SUFFICES ASSUME nTime[c] >= t PROVE FALSE
    BY <1>2 DEF After
  <2> DEFINE T == {d \in After(h) : d <= from /\ nTime[d] >= t}
  <2>2. c \in T /\ T \in SUBSET Nat
    BY <1>2, <1>4, <2>1 DEF After
  <2>3. PICK d \in T : \A e \in T : d <= e
    BY <2>2, NatMin
  <2>4. ASSUME NEW e \in After(h), e < d PROVE nTime[e] <= nTime[d]
    <3>1. e \notin T /\ e \in Blocks /\ d \in Blocks
      BY <1>2, <2>3, <2>4 DEF After
    <3>2. nTime[e] < t
      BY <1>2, <2>3, <2>4, <3>1
    <3>3. QED
      BY <1>2, <2>3, <3>1, <3>2
  <2>5. d \in AheadTo(from)
    BY <1>1, <2>3, <2>4 DEF AheadTo, Resumed, After
  <2>6. QED
    BY <2>5
<1>5. ASSUME NEW b \in from + 1 .. upTo, nTime[b] >= t,
             \A g \in from + 1 .. upTo : g < b => nTime[g] <= nTime[b]
      PROVE  b \in AheadTo(upTo)
  <2>1. b \in After(h) /\ b \in Blocks
    BY <1>3, <1>5 DEF After
  <2>2. ASSUME NEW c \in After(h), c < b PROVE nTime[c] <= nTime[b]
    <3>1. c \in Blocks
      BY DEF After
    <3>2. CASE c <= from
      BY <1>2, <1>4, <1>5, <2>1, <2>2, <3>1, <3>2
    <3>3. CASE c > from
      BY <1>2, <1>5, <2>1, <2>2, <3>1, <3>3
    <3>4. QED
      BY <1>2, <3>1, <3>2, <3>3
  <2>3. QED
    BY <1>1, <1>5, <2>1, <2>2 DEF AheadTo, Resumed, After
<1>6. ASSUME NEW b \in AheadTo(upTo)
      PROVE  /\ b \in from + 1 .. upTo /\ nTime[b] >= t
             /\ \A g \in from + 1 .. upTo : g < b => nTime[g] <= nTime[b]
  <2>1. /\ b \in Resumed(h, t) /\ b <= upTo /\ b \in Blocks
    BY <1>1 DEF AheadTo, Resumed, After
  <2>2. b \notin AheadTo(from)
    OBVIOUS
  <2>3. b \in from + 1 .. upTo
    BY <1>1, <1>2, <2>1, <2>2 DEF AheadTo
  <2>4. QED
    BY <1>3, <2>1, <2>3 DEF Resumed
<1>7. QED
  BY <1>5, <1>6 DEF Sync!Accepted

\* filter_heads asks for what is ahead of the database up to the last header.
LEMMA FilterHeadsLinks ==
  ASSUME LossInv, HashInv, SessionInv, FilterModal, Session!FilterHeads
  PROVE  SessionInv'
<1> DEFINE hs == Head(headers)
<1>0. PICK loc : loc = Sync!Locator(hs)
  OBVIOUS
<1>1. Sync!FilterHeads /\ Sync!Others /\ UNCHANGED vars /\ netPc = "idle"
  BY SameSteps DEF FilterModal, Sync!Others
<1>2. /\ modalPc = "headers" /\ headers # <<>> /\ connected
      /\ UNCHANGED <<tip, modalPc, connected, seenTip>>
  BY <1>1 DEF Sync!FilterHeads, Sync!chainVars
<1>3. PICK from \in 0 .. tip : Link(from)
  BY <1>2 DEF SessionInv
<1>4. Shape /\ Sync!Exchange(from) /\ loaded /\ uiPc # "off"
  BY <1>2, <1>3 DEF SessionInv, Link
<1>5. Shape'
  BY <1>1, <1>4, ShapeOthers
<1>6. Sync!InFlight = {} /\ Sync!InFlight' = Sync!Accepted(hs)
  BY <1>1, <1>4, SessionAssumption, Sync!AcceptedFollow DEF Shape
<1>7. AheadTo(from) = {} /\ (Place # Unknown => Place <= from)
  BY <1>2, <1>3, <1>6 DEF Link
<1>8. PICK upTo \in from .. seenTip :
        hs = from + 1 .. upTo /\ (hs = {} => from = seenTip)
  BY <1>2, <1>4, SessionAssumption, Sync!HeadersAlone DEF Shape, Sync!Follow
<1>9. hs \in SUBSET Sync!Heights /\ hs # {}
  BY <1>1, <1>4, SessionAssumption, Sync!FilterHeadsMoves DEF Shape
<1>10. /\ tip \in 0 .. NBlocks /\ seenTip \in 0 .. tip /\ from \in Nat
       /\ upTo \in Nat /\ upTo <= tip /\ from < upTo
  BY <1>4, <1>8, <1>9, StoreAssumption DEF Shape, Sync!TypeOK, HashInv
<1>11. TypeOK /\ netBlock = 0 /\ Passed(Place, last_block_time)
  BY <1>1, <1>4, LossFacts DEF LossInv, FeedPlace
<1>12. Sync!Accepted(hs) = AheadTo(upTo)
  <2>1. upTo <= NBlocks
    BY <1>10, StoreAssumption
  <2>2. QED
    BY <1>7, <1>8, <1>10, <1>11, <2>1, AcceptedAreAhead
<1>13. /\ loc \in from + 1 .. upTo
       /\ \A b \in AheadTo(upTo) : b <= loc
  <2>1. CASE Sync!Accepted(hs) = {}
    <3>1. loc \in hs
      BY <1>0, <1>9, <2>1, SessionAssumption, Sync!MaxOf DEF Sync!Locator
    <3>2. QED
      BY <1>8, <1>12, <2>1, <3>1
  <2>2. CASE Sync!Accepted(hs) # {}
    <3>1. Sync!Accepted(hs) \in SUBSET hs
      BY DEF Sync!Accepted
    <3>2. loc \in Sync!Accepted(hs) /\ \A y \in Sync!Accepted(hs) : loc >= y
      BY <1>0, <1>9, <2>2, <3>1, SessionAssumption, Sync!MaxOf DEF Sync!Locator
    <3>3. \A y \in Sync!Accepted(hs) : y \in Int
      BY <1>8, <1>10, <3>1
    <3>4. QED
      BY <1>8, <1>12, <3>1, <3>2, <3>3
  <2>3. QED
    BY <2>1, <2>2
<1>14. AheadTo(loc) = AheadTo(upTo)
  <2>1. \A b \in Ahead : b \in Int
    BY DEF Ahead, Resumed, After, Blocks
  <2>2. QED
    BY <1>10, <1>13, <2>1 DEF AheadTo
<1>15. Sync!Exchange(loc)'
  BY <1>0, <1>1, <1>4, SessionAssumption, Sync!ExchangeFilterHeads DEF Shape
<1>16. Place # Unknown => Place <= loc
  <2>1. Place \in Int
    BY <1>11, StoreAssumption DEF Place, TypeOK, Unknown
  <2>2. QED
    BY <1>7, <1>10, <1>13, <2>1
<1>17. \A b \in AheadTo(loc) : \A c \in Ahead : c < b => c \in AheadTo(loc)
  <2>1. \A b \in Ahead : b \in Int
    BY DEF Ahead, Resumed, After, Blocks
  <2>2. loc \in Int
    BY <1>10, <1>13
  <2>3. QED
    BY <2>1, <2>2 DEF AheadTo
<1>18. Link(loc)'
  <2>1. Sync!InFlight' = AheadTo(loc) /\ UNCHANGED <<Ahead, Place>>
        /\ AheadTo(loc)' = AheadTo(loc)
    BY <1>1, <1>6, <1>12, <1>14, SameAhead
  <2>2. QED
    BY <1>15, <1>16, <1>17, <2>1 DEF Link
<1>19. loaded' /\ uiPc' # "off"
  BY <1>1, <1>4 DEF vars, saveVars, runVars
<1>20. loc \in 0 .. tip
  BY <1>10, <1>13
<1>21. QED
  BY <1>2, <1>5, <1>18, <1>19, <1>20 DEF SessionInv

\* The block filter_modal hands over is the first of those ahead.
LEMMA FeedsTheFirst ==
  ASSUME LossInv, HashInv, SessionInv, FeedBlock
  PROVE  /\ SetTime /\ Head(batch) \in 0 .. tip
         /\ SessionInv'
<1> DEFINE h == Head(batch)
<1>1. /\ modalPc = "blocks" /\ batch # <<>> /\ netPc = "idle" /\ ~Ending
      /\ netBlock' = h /\ batch' = Tail(batch)
      /\ last_block_time' = nTime[h] /\ netPc' = "hash"
      /\ UNCHANGED <<last_block_hash, blocks, chainVars, changeVars, fileVars,
                     saveVars, runVars>>
      /\ UNCHANGED <<tip, requests, inbox, connected, requested, seenTip,
                     m_block_pool, m_headers_pool, modalPc, headers>>
  BY DEF FeedBlock
<1>2. PICK from \in 0 .. tip : Link(from)
  BY <1>1 DEF SessionInv
<1>3. Shape /\ loaded /\ uiPc # "off"
  BY <1>1, <1>2 DEF SessionInv, Link
<1>4. /\ h \in Sync!InFlight /\ Sync!InFlight' = Sync!InFlight \ {h}
      /\ \A c \in Sync!InFlight' : h < c
  BY <1>1, <1>3, SessionAssumption, Sync!LowestLeaves DEF Shape, Sync!Below
<1>5. TypeOK /\ netBlock = 0 /\ Passed(Place, last_block_time)
  BY <1>1, <1>3, LossFacts DEF LossInv, FeedPlace
<1>6. Place = last_block_hash /\ Ahead = Resumed(last_block_hash, last_block_time)
  BY <1>5 DEF Place, Ahead
<1>7. \A b \in Ahead : b \in Blocks /\ b \in Nat
  BY DEF Ahead, Resumed, After, Blocks
<1>8. h \in Ahead /\ h <= from
  BY <1>2, <1>4 DEF Link, AheadTo
<1>9. \A c \in Ahead : h <= c
  <2> SUFFICES ASSUME NEW c \in Ahead, c < h PROVE FALSE
    BY <1>7, <1>8
  <2>1. c \in Sync!InFlight'
    BY <1>2, <1>4, <1>7, <1>8 DEF Link
  <2>2. QED
    BY <1>4, <1>7, <1>8, <2>1
<1>10. SetTime
  BY <1>1, <1>3, <1>6, <1>8, <1>9 DEF SetTime, Running
<1>11. h \in 1 .. tip /\ h \in 0 .. tip
  BY <1>7, <1>8 DEF HashInv, Blocks
<1>12. Ahead' = Ahead \ {h} /\ Place' = h
  <2>1. Place' = h
    BY <1>1, <1>11 DEF Place
  <2>2. Ahead' = Resumed(h, nTime[h])
    BY <1>1, <2>1 DEF Ahead, Resumed, After, chainVars
  <2>3. /\ Resumed(last_block_hash, last_block_time)
             \subseteq {h} \cup Resumed(h, nTime[h])
        /\ Resumed(h, nTime[h]) \subseteq Resumed(last_block_hash, last_block_time)
    <3>1. last_block_hash \in 0 .. Unknown /\ last_block_time \in 0 .. MaxTime
      BY <1>5 DEF TypeOK
    <3>2. QED
      BY <1>5, <1>6, <1>8, <1>9, <3>1, FirstFed
  <2>4. h \notin Resumed(h, nTime[h])
    BY <1>7, <1>8, StoreAssumption DEF Resumed, After, Unknown, Blocks
  <2>5. QED
    BY <1>6, <2>1, <2>2, <2>3, <2>4
<1>13. Shape'
  <2>1. Sync!Order'
    BY <1>1, <1>3, SessionAssumption, Sync!OrderFilterBlock DEF Shape
  <2>2. Sync!Phases'
    BY <1>1, <1>3 DEF Shape, Sync!Phases
  <2>3. batch' \in Seq(Sync!Heights)
    BY <1>1, <1>3 DEF Shape, Sync!TypeOK
  <2>4. last_block_time' \in 0 .. MaxTime
    BY <1>1, <1>5, <1>7, <1>8 DEF TypeOK
  <2>5. Sync!TypeOK'
    BY <1>1, <1>3, <2>3, <2>4 DEF Shape, Sync!TypeOK, chainVars
  <2>6. QED
    BY <2>1, <2>2, <2>5 DEF Shape
<1>14. Sync!Exchange(from)'
  BY <1>1, <1>2, SessionAssumption, Sync!ExchangeStays DEF Link
<1>15. Link(from)'
  <2>1. AheadTo(from)' = AheadTo(from) \ {h}
    BY <1>12 DEF AheadTo
  <2>2. \A b \in Sync!InFlight' : \A c \in Ahead' : c < b => c \in Sync!InFlight'
    BY <1>2, <1>4, <1>12 DEF Link
  <2>3. QED
    BY <1>1, <1>2, <1>4, <1>8, <1>12, <1>14, <2>1, <2>2 DEF Link
<1>16. loaded' /\ uiPc' # "off"
  BY <1>1, <1>3 DEF saveVars, runVars
<1>17. SessionInv'
  BY <1>1, <1>13, <1>15, <1>16 DEF SessionInv
<1>18. QED
  BY <1>10, <1>11, <1>17

----------------------------------------------------------------------------
(* The database's steps, and the session's beginning and end.              *)

\* The session does not notice what the database does at its place.
LEMMA DatabaseLinks ==
  ASSUME SessionInv, UNCHANGED sessionVars, UNCHANGED nTime,
         IF modalPc = "off" THEN netPc' = "idle"
         ELSE loaded' /\ uiPc' # "off" /\ UNCHANGED <<Place, last_block_time>>
  PROVE  SessionInv'
<1>1. UNCHANGED <<tip, requests, inbox, connected, requested, seenTip, m_block_pool,
                  m_headers_pool, modalPc, batch, headers>>
  BY DEF sessionVars
<1>2. CASE modalPc = "off"
  BY <1>1, <1>2 DEF SessionInv, NoneYet
<1>3. CASE modalPc # "off"
  <2>1. PICK from \in 0 .. tip : Link(from)
    BY <1>3 DEF SessionInv
  <2>2. loaded' /\ uiPc' # "off" /\ UNCHANGED <<Place, last_block_time>> /\ Shape
    BY <1>3 DEF SessionInv
  <2>3. UNCHANGED Sync!Stages /\ UNCHANGED Sync!InFlight
    BY <1>1, SessionAssumption, Sync!SameStages DEF Sync!Stages, Sync!InFlight
  <2>4. Shape'
    BY <1>1, <2>2, <2>3 DEF Shape, Sync!TypeOK, Sync!Phases, Sync!Order, Sync!Stages
  <2>5. Sync!Exchange(from)'
    BY <1>1, <2>1, SessionAssumption, Sync!ExchangeStays DEF Link
  <2>6. UNCHANGED Ahead /\ AheadTo(from)' = AheadTo(from)
    BY <2>2 DEF Ahead, AheadTo, Resumed, After
  <2>7. Link(from)'
    BY <1>1, <2>1, <2>2, <2>3, <2>5, <2>6 DEF Link
  <2>8. QED
    BY <1>1, <1>3, <2>2, <2>4, <2>7 DEF SessionInv
<1>4. QED
  BY <1>2, <1>3

\* filter_block stores the hash of the block in work and is done with it.
LEMMA FilterBlockLinks ==
  ASSUME LossInv, SessionInv, FilterBlock
  PROVE  SessionInv'
<1>1. UNCHANGED sessionVars /\ UNCHANGED <<nTime, last_block_time, loaded, uiPc>>
  BY DEF FilterBlock, SetHash, Insert, chainVars, lastVars, saveVars, runVars
<1>2. netPc # "idle" /\ UNCHANGED Place
  BY DEF FilterBlock, SetHash, Insert, lastVars, Place, LossInv, FeedPlace
<1>3. modalPc # "off"
  BY <1>2 DEF SessionInv, NoneYet
<1>4. QED
  BY <1>1, <1>2, <1>3, DatabaseLinks DEF SessionInv

\* The ui thread and the loader.
LEMMA WindowLinks ==
  ASSUME SessionInv, SaveCheck \/ Loader \/ Time \/ Window
  PROVE  SessionInv'
<1>1. UNCHANGED <<sessionVars, nTime, netPc, netBlock>>
  BY DEF SaveCheck, Loader, Time, Window, Load, HoursPass, Close, Restart, Save,
    SaveStart, AppendEntry, WriteHash, WriteTime, WriteSize, Move, MoveFails,
    ClearChange, chainVars, netVars
<1>2. CASE modalPc = "off"
  BY <1>1, <1>2, DatabaseLinks DEF SessionInv, NoneYet
<1>3. CASE modalPc # "off"
  <2>1. loaded /\ uiPc # "off"
    BY <1>3 DEF SessionInv
  <2>2. loaded' /\ uiPc' # "off" /\ UNCHANGED <<last_block_hash, last_block_time>>
    BY <2>1 DEF SaveCheck, Loader, Time, Window, Load, HoursPass, Close, Restart,
      Save, SaveStart, AppendEntry, WriteHash, WriteTime, WriteSize, Move,
      MoveFails, ClearChange, lastVars, saveVars, runVars
  <2>3. QED
    BY <1>1, <1>3, <2>2, DatabaseLinks DEF Place
<1>4. QED
  BY <1>2, <1>3

\* peer_start asks for what follows the database's hash, or for all.
LEMMA ConnectLinks ==
  ASSUME LossInv, HashInv, SessionInv, Connect
  PROVE  SessionInv'
<1>0. PICK h : h = IF last_block_hash = Unknown THEN 0 ELSE last_block_hash
  OBVIOUS
<1>1. /\ uiPc = "idle" /\ loaded /\ modalPc = "off" /\ modalPc' = "poll"
      /\ connected' = TRUE /\ requests' = <<Session!GetHeaders(h)>>
      /\ UNCHANGED <<tip, inbox, seenTip, requested, m_block_pool, m_headers_pool,
                     batch, headers>>
      /\ UNCHANGED vars
  BY <1>0 DEF Connect
<1>2. /\ inbox = <<>> /\ requested = {} /\ seenTip = 0
      /\ m_block_pool = <<>> /\ m_headers_pool = <<>>
      /\ batch = <<>> /\ headers = <<>> /\ netPc = "idle"
  BY <1>1 DEF SessionInv, NoneYet
<1>3. h \in 0 .. tip /\ tip \in 0 .. NBlocks /\ NBlocks \in Nat
  BY <1>0, StoreAssumption DEF HashInv, Held
<1>4. requests' = <<Sync!GetHeaders(h)>> /\ Sync!GetHeaders(h) \in Sync!Request
      /\ Sync!GetHeaders(h).type = "getheaders" /\ Sync!GetHeaders(h).from = h
  <2>1. h \in 0 .. NBlocks
    BY <1>3
  <2>2. QED
    BY <1>1, <2>1, SessionAssumption, Sync!Made
       DEF Session!GetHeaders, Sync!GetHeaders
<1>5. TypeOK /\ netBlock = 0
  BY <1>2 DEF LossInv, SavedInv, StoreInv, StoreType, FeedPlace
<1>6. Sync!InFlight' = {}
  BY <1>1, <1>2, <1>4 DEF Sync!InFlight, Sync!Taken, Sync!Pooled, Sync!OnWire,
    Sync!Asked
<1>7. Sync!Order'
  <2>1. /\ Sync!Taken' = {} /\ Sync!Pooled' = {}
        /\ Sync!OnWire' = {} /\ Sync!Asked' = {}
    BY <1>6 DEF Sync!InFlight
  <2>2. QED
    BY <1>1, <1>2, <1>4, <2>1 DEF Sync!Order, Sync!Below, Sync!Increasing
<1>8. Sync!Phases'
  BY <1>1, <1>2 DEF Sync!Phases
<1>9. Sync!TypeOK'
  <2>1. /\ nTime' \in [Sync!Heights -> 0 .. MaxTime]
        /\ last_block_time' \in 0 .. MaxTime
    BY <1>1, <1>5, StoreAssumption
       DEF TypeOK, Blocks, Sync!Heights, vars, chainVars, lastVars
  <2>2. QED
    BY <1>1, <1>2, <1>3, <1>4, <2>1, StoreAssumption DEF Sync!TypeOK
<1>10. Sync!Exchange(h)'
  BY <1>1, <1>2, <1>4 DEF Sync!Exchange, Sync!HeadersAsked
<1>11. AheadTo(h) = {} /\ (Place # Unknown => Place <= h)
  <2>1. Place = last_block_hash /\ Place \in Int
    BY <1>5, StoreAssumption DEF Place, TypeOK, Unknown
  <2>2. Place # Unknown => Place = h
    BY <1>0, <2>1
  <2>3. ASSUME NEW b \in Ahead PROVE ~(b <= h)
    <3>1. b \in Blocks /\ (Place = Unknown \/ b > Place)
      BY DEF Ahead, Resumed, After
    <3>2. Place = Unknown => h = 0
      BY <1>0, <2>1
    <3>3. QED
      BY <1>3, <2>2, <3>1, <3>2 DEF Blocks
  <2>4. QED
    BY <1>3, <2>1, <2>2, <2>3 DEF AheadTo
<1>12. Link(h)'
  <2>1. AheadTo(h)' = {} /\ UNCHANGED <<Ahead, Place>>
    BY <1>1, <1>11, SameAhead
  <2>2. QED
    BY <1>6, <1>10, <1>11, <2>1 DEF Link
<1>13. loaded' /\ uiPc' # "off"
  BY <1>1 DEF vars, saveVars, runVars
<1>14. QED
  BY <1>1, <1>3, <1>7, <1>8, <1>9, <1>12, <1>13 DEF SessionInv, Shape

\* With the process the session ends.
LEMMA EndLinks ==
  ASSUME End
  PROVE  SessionInv'
BY DEF End, NoSession, ProcessEnds, SessionInv, NoneYet

\* Between the runs the chain may grow.
LEMMA GrowLinks ==
  ASSUME SessionInv, Grow
  PROVE  SessionInv'
<1>1. modalPc = "off" /\ UNCHANGED vars
  BY DEF Grow, SessionInv
<1>2. UNCHANGED <<requests, inbox, connected, requested, seenTip, m_block_pool,
                  m_headers_pool, modalPc, batch, headers, netPc>>
  BY <1>1 DEF Grow, Session!Mine, Session!wireVars, Session!poolVars,
    Session!modalVars, vars, netVars
<1>3. QED
  BY <1>1, <1>2 DEF SessionInv, NoneYet

----------------------------------------------------------------------------
(* Every step.                                                             *)

\* Every step of the wallet is one of the database or leaves it alone.
LEMMA StoreSteps ==
  ASSUME LossInv, HashInv, SessionInv, [WalletNext]_walletVars
  PROVE  [Next]_vars
<1>1. ASSUME Talk \/ FilterModal \/ HangUp \/ Connect \/ Grow
                \/ UNCHANGED walletVars
      PROVE  UNCHANGED vars
  BY <1>1 DEF Talk, Answer, FilterModal, HangUp, Connect, Grow, walletVars
<1>2. ASSUME FeedBlock PROVE SetTime
  BY <1>2, FeedsTheFirst
<1>3. ASSUME Loader \/ FilterBlock \/ SaveCheck \/ Time \/ Window \/ End
      PROVE  Next
  BY <1>3 DEF Loader, FilterBlock, SaveCheck, Time, Window, End, Next
<1>4. QED
  BY <1>1, <1>2, <1>3 DEF WalletNext, Talk, Next

\* The session's part,
LEMMA SessionStep ==
  ASSUME LossInv, HashInv, SessionInv, [WalletNext]_walletVars
  PROVE  SessionInv'
<1>1. ASSUME UNCHANGED walletVars PROVE SessionInv'
  <2>1. UNCHANGED sessionVars
        /\ UNCHANGED <<nTime, netPc, loaded, uiPc, last_block_time, Place>>
    BY <1>1 DEF walletVars, vars, chainVars, netVars, runVars, saveVars, lastVars,
      Place
  <2>2. QED
    BY <2>1, DatabaseLinks DEF SessionInv, NoneYet
<1>2. ASSUME FilterModal PROVE SessionInv'
  BY <1>2, TalkLinks, FilterHeadsLinks DEF Talk
<1>3. QED
  BY <1>1, <1>2, TalkLinks, HangUpLinks, FeedsTheFirst, FilterBlockLinks,
     WindowLinks, ConnectLinks, EndLinks, GrowLinks DEF WalletNext, Talk

\* and the hashes: the chain does not shrink, filter_block stores those of the
\* session's blocks, and a file gets what the database has.
LEMMA HashStep ==
  ASSUME LossInv, HashInv, SessionInv, [WalletNext]_walletVars
  PROVE  HashInv'
<1>1. tip \in 0 .. NBlocks /\ NBlocks \in Nat
  BY StoreAssumption DEF HashInv
<1>2. ASSUME NEW h, Held(h), UNCHANGED tip PROVE Held(h)'
  BY <1>2 DEF Held
<1>3. ASSUME UNCHANGED <<tip, fileVars>>, Saving' => Saving,
             Held(last_block_hash)', Held(netBlock)'
      PROVE  HashInv'
  BY <1>3 DEF HashInv, Held, fileVars
<1>4. ASSUME UNCHANGED <<tip, vars>> PROVE HashInv'
  BY <1>4 DEF HashInv, Held, Saving, vars, lastVars, fileVars, netVars, saveVars
<1>5. ASSUME Talk \/ FilterModal \/ HangUp \/ Connect \/ UNCHANGED walletVars
      PROVE  HashInv'
  <2>1. UNCHANGED <<tip, vars>>
    BY <1>5, TalkMovesOn DEF FilterModal, HangUp, Connect, walletVars, sessionVars,
      Session!Disconnect, Session!FilterHeads, Session!chainVars, Talk
  <2>2. QED
    BY <1>4, <2>1
<1>6. ASSUME Grow PROVE HashInv'
  <2>1. tip' \in 0 .. NBlocks /\ tip' = tip + 1 /\ UNCHANGED vars
    BY <1>1, <1>6 DEF Grow, Session!Mine
  <2>2. ASSUME NEW h, Held(h) PROVE h \in 0 .. tip' \/ h = Unknown
    BY <1>1, <2>1, <2>2 DEF Held
  <2>3. QED
    BY <2>1, <2>2
       DEF HashInv, Held, Saving, vars, lastVars, fileVars, netVars, saveVars
<1>7. ASSUME FeedBlock PROVE HashInv'
  <2>1. Head(batch) \in 0 .. tip
    BY <1>7, FeedsTheFirst
  <2>2. QED
    BY <1>3, <1>7, <2>1 DEF FeedBlock, HashInv, Held, Saving, saveVars
<1>8. ASSUME FilterBlock PROVE HashInv'
  <2>1. /\ UNCHANGED <<tip, fileVars, uiPc>> /\ netBlock' \in {netBlock, 0}
        /\ last_block_hash' \in {last_block_hash, netBlock, Unknown}
    BY <1>8 DEF FilterBlock, SetHash, Insert, sessionVars, lastVars, saveVars
  <2>2. QED
    BY <1>1, <1>3, <2>1 DEF HashInv, Held, Saving
<1>9. ASSUME Loader PROVE HashInv'
  <2>1. UNCHANGED <<tip, fileVars, netBlock, uiPc>>
        /\ (last_block_hash' = 0 \/ (dat # NoFile /\ last_block_hash' = dat.hash))
    BY <1>9 DEF Loader, Load, sessionVars, netVars, saveVars
  <2>2. QED
    BY <1>1, <1>3, <2>1 DEF HashInv, Held, Saving
<1>10. ASSUME Time \/ Window PROVE HashInv'
  <2>1. UNCHANGED <<tip, fileVars, netBlock, last_block_hash>>
        /\ (Saving' => Saving)
    BY <1>10 DEF Time, Window, HoursPass, Close, Restart, sessionVars, lastVars,
      netVars, saveVars, Saving
  <2>2. QED
    BY <1>3, <2>1 DEF HashInv, Held
<1>11. ASSUME End PROVE HashInv'
  <2>1. UNCHANGED <<tip, fileVars>> /\ last_block_hash' = Unknown /\ netBlock' = 0
        /\ ~Saving'
    BY <1>11 DEF End, ProcessEnds, Saving
  <2>2. QED
    BY <1>1, <1>3, <2>1 DEF Held
<1>12. ASSUME SaveCheck PROVE HashInv'
  <2>1. UNCHANGED <<tip, last_block_hash, netBlock>>
    BY <1>12 DEF SaveCheck, Save, SaveStart, AppendEntry, WriteHash, WriteTime,
      WriteSize, Move, MoveFails, ClearChange, sessionVars, lastVars, netVars
  <2>2. Saving => tmp \in File
    BY DEF LossInv, SavedInv, StoreInv, StoreType
  <2>3. dat' = dat \/ (dat' = tmp /\ Saving)
    BY <1>12 DEF SaveCheck, Save, SaveStart, AppendEntry, WriteHash,
      WriteTime, WriteSize, Move, MoveFails, ClearChange, Saving, fileVars
  <2>4. ASSUME tmp' # NoFile \/ Saving' PROVE Held(tmp'.hash)
    <3>1. CASE SaveStart
      <4>1. tmp' = EmptyFile \/ (tmp # NoFile /\ tmp' = tmp)
        BY <3>1 DEF SaveStart, OpenTmp
      <4>2. EmptyFile.hash = 0
        BY DEF EmptyFile
      <4>3. QED
        BY <1>1, <4>1, <4>2 DEF HashInv, Held
    <3>2. CASE AppendEntry \/ WriteTime \/ WriteSize
      <4>1. Saving /\ (tmp' = tmp \/ tmp'.hash = tmp.hash)
        BY <2>2, <3>2 DEF AppendEntry, WriteTime, WriteSize, Saving, File
      <4>2. QED
        BY <4>1 DEF HashInv
    <3>3. CASE WriteHash
      <4>1. tmp'.hash = last_block_hash
        BY <2>2, <3>3 DEF WriteHash, Saving, File
      <4>2. QED
        BY <4>1 DEF HashInv
    <3>4. CASE Move \/ MoveFails \/ ClearChange
      <4>1. ~Saving' /\ (tmp' = NoFile \/ tmp' = tmp)
        BY <3>4 DEF Move, MoveFails, ClearChange, Saving, fileVars
      <4>2. QED
        BY <2>4, <4>1 DEF HashInv
    <3>5. QED
      BY <1>12, <3>1, <3>2, <3>3, <3>4 DEF SaveCheck, Save
  <2>5. QED
    BY <1>1, <2>1, <2>3, <2>4 DEF HashInv, Held
<1>13. QED
  BY <1>5, <1>6, <1>7, <1>8, <1>9, <1>10, <1>11, <1>12 DEF WalletNext, Talk

\* The first run.
LEMMA WalletBegins == WalletInit => WalletInv
<1> SUFFICES ASSUME WalletInit PROVE WalletInv
  OBVIOUS
<1>1. LossInv
  BY InitLoss DEF WalletInit
<1>2. HashInv /\ SessionInv
  BY StoreAssumption
     DEF WalletInit, Init, HashInv, Held, Saving, SessionInv, NoneYet
<1>3. QED
  BY <1>1, <1>2 DEF WalletInv

\* Every step keeps the invariant, and is one of the database.
LEMMA WalletStep ==
  WalletInv /\ [WalletNext]_walletVars => WalletInv' /\ [Next]_vars
<1> SUFFICES ASSUME WalletInv, [WalletNext]_walletVars
             PROVE  WalletInv' /\ [Next]_vars
  OBVIOUS
<1>1. [Next]_vars
  BY StoreSteps DEF WalletInv
<1>2. LossInv'
  BY <1>1, LossInductive DEF WalletInv
<1>3. HashInv' /\ SessionInv'
  BY HashStep, SessionStep DEF WalletInv
<1>4. QED
  BY <1>1, <1>2, <1>3 DEF WalletInv

----------------------------------------------------------------------------
(* The theorems.                                                           *)

\* The session and the database together are BlockStore: filter_block is fed
\* the blocks that follow the loaded hash, in order, once, none left out but the
\* older ones, whatever the file held, however the batches fell and wherever
\* the connection ended.  All that is proved of BlockStore holds of the wallet.
THEOREM WalletIsABlockStore == WalletSpec => ImplementsStore
<1>1. WalletInit => Init
  BY DEF WalletInit
<1>2. QED
  BY <1>1, WalletBegins, WalletStep, PTL DEF WalletSpec, Spec, ImplementsStore

\* A session at rest on a connection that lasts has given the wallet every
\* block that is due up to the height the node told last, but for those the
\* file it loaded had lost.  Due are the relevant blocks but for those that
\* filter_heads skips for their time.
THEOREM RestIsCaughtUp == WalletSpec => []CaughtUp
<1>1. WalletInv => CaughtUp
  <2> SUFFICES ASSUME WalletInv, modalPc = "poll", netPc = "idle", connected,
                      Session!Quiet, NEW b \in due \cap (1 .. seenTip)
               PROVE  b \in blocks \cup missing
    BY DEF CaughtUp
  <2>1. PICK from \in 0 .. tip : Link(from)
    BY DEF WalletInv, SessionInv
  <2>2. /\ requests = <<>> /\ inbox = <<>> /\ m_headers_pool = <<>>
        /\ m_block_pool = <<>>
    BY DEF Session!Quiet
  <2>3. loaded /\ Sync!Phases
    BY DEF WalletInv, SessionInv, Shape
  <2>4. headers = <<>> /\ batch = <<>>
    BY <2>3 DEF Sync!Phases
  <2>5. from = seenTip
    BY <2>1, <2>2, <2>4 DEF Link, Sync!Exchange, Sync!HeadersGone,
      Sync!HeadersAsked, Sync!HeadersOnWire, Sync!HeadersPooled, Sync!HeadersTaken
  <2>6. Sync!InFlight = {}
    BY <2>2, <2>4
       DEF Sync!InFlight, Sync!Taken, Sync!Pooled, Sync!OnWire, Sync!Asked
  <2>7. b \notin Ahead
    <3>1. AheadTo(from) = {}
      BY <2>1, <2>6 DEF Link
    <3>2. b <= from
      BY <2>5
    <3>3. QED
      BY <3>1, <3>2 DEF AheadTo
  <2>8. TypeOK /\ netBlock = 0
    BY DEF WalletInv, LossInv, SavedInv, StoreInv, StoreType, FeedPlace
  <2>9. b # netBlock
    BY <2>8 DEF TypeOK, Blocks
  <2>10. due \subseteq missing \cup blocks \cup {netBlock} \cup Ahead
    BY <2>3, <2>8, LossFacts DEF WalletInv
  <2>11. QED
    BY <2>7, <2>9, <2>10
<1>2. QED
  BY <1>1, WalletBegins, WalletStep, PTL DEF WalletSpec

\* So what is proved of BlockStore holds of the wallet: a save loses at most
\* the block in work, under the conditions of LossBounded.
THEOREM WalletLosesOneBlock == WalletSpec => LossIsTheRacingBlock
BY WalletIsABlockStore, LossBounded, PTL DEF ImplementsStore
=============================================================================
