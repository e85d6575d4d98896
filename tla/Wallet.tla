------------------------------- MODULE Wallet -------------------------------
(***************************************************************************)
(* CWorkContext as a whole: the session of ChainSync feeding the block     *)
(* database of BlockStore, whose last_block_hash and last_block_time the   *)
(* session begins with and filter_heads compares times with.               *)
(*                                                                         *)
(* A run of the program has one session: modal() calls pop_idle only while *)
(* m_pCurrentPeer is null, and nothing makes it null again.  The steps of  *)
(* the session that leave the database alone are those of ChainSync, the   *)
(* steps of the ui thread those of BlockStore; filter_block is the step    *)
(* they share.  That the blocks arrive in the order BlockStore assumes is  *)
(* what ImplementsStore checks.  Left to BlockStore: the net thread after  *)
(* uninit, which leaves no trace.                                          *)
(***************************************************************************)
EXTENDS BlockStore

CONSTANTS MaxHeaders, MAX_SEND_INV_COUNT

ASSUME WalletAssumption == /\ MaxHeaders \in Nat \ {0}
                           /\ MAX_SEND_INV_COUNT \in Nat \ {0}

VARIABLES
  tip,                               \* the remote chain
  requests, inbox, connected,        \* the connection of m_pCurrentPeer
  requested, seenTip,                \* history, as in ChainSync
  m_block_pool, m_headers_pool,
  modalPc, batch, headers            \* filter_modal; "off": no session yet

sessionVars == <<tip, requests, inbox, connected, requested, seenTip,
                 m_block_pool, m_headers_pool, modalPc, batch, headers>>
walletVars == <<vars, sessionVars>>

Session == INSTANCE ChainSync WITH
             MaxHeight <- NBlocks, Times <- 0 .. MaxTime,
             netPc <- modalPc, blocks <- batch, startTime <- 0, fed <- <<>>

----------------------------------------------------------------------------
NoSession ==
  /\ requests' = <<>> /\ inbox' = <<>> /\ connected' = FALSE
  /\ requested' = {} /\ seenTip' = 0
  /\ m_block_pool' = <<>> /\ m_headers_pool' = <<>>
  /\ modalPc' = "off" /\ batch' = <<>> /\ headers' = <<>>

WalletInit ==
  /\ Init
  /\ tip \in 0 .. NBlocks
  /\ requests = <<>> /\ inbox = <<>> /\ connected = FALSE
  /\ requested = {} /\ seenTip = 0
  /\ m_block_pool = <<>> /\ m_headers_pool = <<>>
  /\ modalPc = "off" /\ batch = <<>> /\ headers = <<>>

\* modal() gets a peer and peer_start asks for what follows the last block.
\* A node that does not know the hash answers from its first block.
ConnectFromFirst ==               \* mutated form: uint256_null for last_block_hash
  /\ uiPc = "idle" /\ loaded /\ modalPc = "off"
  /\ modalPc' = "poll" /\ connected' = TRUE
  /\ requests' = <<Session!GetHeaders(0)>>
  /\ UNCHANGED <<tip, inbox, requested, seenTip, m_block_pool, m_headers_pool,
                 batch, headers, vars>>
Connect ==
  /\ uiPc = "idle" /\ loaded /\ modalPc = "off"
  /\ modalPc' = "poll" /\ connected' = TRUE
  /\ requests' = <<Session!GetHeaders(IF last_block_hash = Unknown THEN 0
                                      ELSE last_block_hash)>>
  /\ UNCHANGED <<tip, inbox, requested, seenTip, m_block_pool, m_headers_pool,
                 batch, headers, vars>>

\* filter_modal hands the next block of its list to filter_block.
FeedBlock ==
  /\ ~Ending /\ modalPc = "blocks" /\ batch # <<>> /\ netPc = "idle"
  /\ netBlock' = Head(batch) /\ batch' = Tail(batch)
  /\ last_block_time' = nTime[Head(batch)]
  /\ netPc' = "hash"
  /\ UNCHANGED <<last_block_hash, blocks, chainVars, changeVars, fileVars,
                 saveVars, runVars, tip, requests, inbox, connected, requested,
                 seenTip, m_block_pool, m_headers_pool, modalPc, headers>>

\* filter_block has returned before filter_modal goes on.
FilterModal ==
  /\ ~Ending /\ netPc = "idle"
  /\ \/ Session!OnRecv \/ Session!TakeBlocks \/ Session!TakeHeaders
     \/ Session!FilterHeads \/ Session!FilterHeadsThrows
     \/ Session!FilterModalDone
  /\ UNCHANGED vars

Answer == ~Ending /\ Session!Remote /\ UNCHANGED vars

\* The chain grows between the runs: ChainSync has it grow during a session.
Grow == uiPc = "off" /\ Session!Mine /\ UNCHANGED vars

HangUp == ~Ending /\ Session!Disconnect /\ UNCHANGED vars

FilterBlock == ~Ending /\ (SetHash \/ Insert) /\ UNCHANGED sessionVars

\* modal() calls save_check once there is a current peer, uninit at the end.
SaveCheck == /\ modalPc # "off" \/ must
             /\ Save /\ UNCHANGED sessionVars

Loader == Load /\ UNCHANGED sessionVars
Time   == HoursPass /\ UNCHANGED sessionVars

\* With the process its session ends.
End == ProcessEnds /\ NoSession /\ UNCHANGED tip
Window == (Close \/ Restart) /\ UNCHANGED sessionVars

WalletNext == \/ Loader \/ Connect \/ Answer \/ Grow \/ HangUp
              \/ FilterModal \/ FeedBlock \/ FilterBlock
              \/ SaveCheck \/ Time \/ Window \/ End

WalletSpec == WalletInit /\ [][WalletNext]_walletVars

\* bound: no move fails, the process does not end during a save, and the
\* window is not closed before the load.  BlockStore has them in its runs.
Undisturbed ==
  /\ ~failed' /\ (Saving => uiPc' # "off") /\ (must' => loaded)

\* domodal runs for ever, a connected node answers, the timer fires and time
\* passes.
WalletFairSpec ==
  /\ WalletInit /\ [][WalletNext /\ Undisturbed]_walletVars
  /\ WF_walletVars(Answer)
  /\ WF_walletVars(FilterModal \/ FeedBlock \/ FilterBlock)
  /\ WF_walletVars(SaveCheck) /\ WF_walletVars(Time)

----------------------------------------------------------------------------
(* Properties.                                                             *)

(* What BlockStore assumes of the session is so: filter_block gets the     *)
(* blocks that follow the loaded hash, in order, once, none left out but   *)
(* the older ones, whatever the file held and however the batches fell.    *)
ImplementsStore == Spec

(* When a session is over and its connection lasts, the wallet has every   *)
(* block that is due up to the height the node told last, but for those    *)
(* the file it loaded had lost.  A relevant block that filter_heads skips  *)
(* for its time (older than the option's, or than one before it) is never  *)
(* due, and never had.                                                     *)
CaughtUp ==
  /\ modalPc = "poll" /\ netPc = "idle" /\ connected /\ Session!Quiet
  => due \cap (1 .. seenTip) \subseteq blocks \cup missing

(* A block that is due and that the node told of gets into the file,       *)
(* unless the connection or the process ends before, the file loaded had   *)
(* lost it, or it came between a move and the clearing of m_bChange, where *)
(* no save is cut short or fails (Undisturbed).                            *)
ChainReachesFile ==
  \A b \in Blocks :
    b \in due /\ b <= seenTip
      ~> \/ dat # NoFile /\ b \in LoadedBlocks(dat)
         \/ b \in missing \cup late \/ ~connected \/ Ending
=============================================================================
