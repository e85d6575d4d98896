------------------------------- MODULE Looker -------------------------------
(***************************************************************************)
(* The program around the wallets: the .coin files it finds, and for each  *)
(* that parses a worker, its loader thread, a CRecvDialog and a tab of the *)
(* main dialog; the tab that is chosen; and the two ways the main dialog   *)
(* ends, by WM_CLOSE (OnClose) and by the cancel button or the escape key, *)
(* where the windows are destroyed without it.                             *)
(*                                                                         *)
(* All of it runs on the ui thread, one message at a time, and a message   *)
(* may take several steps here because the loader threads run meanwhile:   *)
(* what escapes one of them ends the process.  What a timer message does   *)
(* is in PeerGroup, BlockStore and Ledger.                                 *)
(***************************************************************************)
EXTENDS Integers, Sequences

CONSTANT NFiles       \* bound: the files in the program's directory

ASSUME FilesAssumption == NFiles \in Nat

Files == 1 .. NFiles
\* "*.coin" finds names that only begin like that, too.
Kind == {"option", "hidden", "other extension", "no json", "wrong type"}

VARIABLES
  dir,                  \* the files, in the order FindNextFile finds them
  next,                 \* the one it is at
  g_CoinList,           \* the options loaded, by their files
  workers,              \* the workers created
  m_vlist, m_tab1,      \* the dialogs, and the coins of the tabs
  m_curSel, target,     \* the tab chosen, and the one being chosen
  windows, shown,       \* the dialogs that have a window, and a visible one
  m_pWork,              \* the dialogs that hold their worker
  uninits,              \* history: how often each worker was uninit'ed
  appPc

coinVars   == <<dir, next, g_CoinList>>
tabVars    == <<m_curSel, target>>
windowVars == <<windows, shown>>
workVars   == <<m_pWork, uninits>>
vars == <<coinVars, workers, m_vlist, m_tab1, tabVars, windowVars, workVars, appPc>>

Init ==
  /\ dir \in [Files -> Kind] /\ next = 1 /\ g_CoinList = <<>>
  /\ workers = {} /\ m_vlist = <<>> /\ m_tab1 = <<>>
  /\ m_curSel = 0 /\ target = 0
  /\ windows = {} /\ shown = {}
  /\ m_pWork = {} /\ uninits = [f \in Files |-> 0]
  /\ appPc = "find"

----------------------------------------------------------------------------
(* OnInitDialog: the options, then a dialog and a tab for each.            *)

\* CJsonCoinOption: a file without JSON, and a value that is no text or no
\* integer where one is wanted, are errors; values left out are not.
IsOption(f) == dir[f] = "option"

FindFile ==
  /\ appPc = "find"
  /\ IF next \in Files
     THEN /\ g_CoinList' = IF IsOption(next) THEN Append(g_CoinList, next)
                                             ELSE g_CoinList
          /\ next' = next + 1 /\ UNCHANGED appPc
     ELSE appPc' = "create" /\ UNCHANGED <<next, g_CoinList>>
  /\ UNCHANGED <<dir, workers, m_vlist, m_tab1, tabVars, windowVars, workVars>>

\* The first item inserted becomes the chosen one.
AddCoin ==
  /\ appPc = "create" /\ Len(m_vlist) < Len(g_CoinList)
  /\ LET f == g_CoinList[Len(m_vlist) + 1]
     IN  /\ workers' = workers \cup {f}
         /\ windows' = windows \cup {f} /\ m_pWork' = m_pWork \cup {f}
         /\ m_tab1' = Append(m_tab1, f)
         /\ m_vlist' = Append(m_vlist, f)
  /\ m_curSel' = IF m_tab1 = <<>> THEN 1 ELSE m_curSel
  /\ UNCHANGED <<coinVars, target, shown, uninits, appPc>>

ShowFirst ==
  /\ appPc = "create" /\ Len(m_vlist) = Len(g_CoinList)
  /\ shown' = IF m_vlist = <<>> THEN {} ELSE {m_vlist[1]}
  /\ appPc' = "messages"
  /\ UNCHANGED <<coinVars, workers, m_vlist, m_tab1, tabVars, windows, workVars>>

----------------------------------------------------------------------------
(* A tab is chosen: TCN_SELCHANGING, the change, TCN_SELCHANGE.            *)

OnTcnSelchangingNew ==            \* mutated form: the new tab's dialog is hidden
  /\ appPc = "messages"
  /\ \E i \in DOMAIN m_tab1 \ {m_curSel} :
       target' = i /\ shown' = shown \ {m_vlist[i]}
  /\ appPc' = "selecting"
  /\ UNCHANGED <<coinVars, workers, m_vlist, m_tab1, m_curSel, windows, workVars>>
OnTcnSelchanging ==
  /\ appPc = "messages"
  /\ \E i \in DOMAIN m_tab1 \ {m_curSel} :
       target' = i /\ shown' = shown \ {m_vlist[m_curSel]}
  /\ appPc' = "selecting"
  /\ UNCHANGED <<coinVars, workers, m_vlist, m_tab1, m_curSel, windows, workVars>>

OnTcnSelchange ==
  /\ appPc = "selecting" /\ appPc' = "messages"
  /\ m_curSel' = target /\ target' = 0
  /\ shown' = shown \cup {m_vlist[target]}
  /\ UNCHANGED <<coinVars, workers, m_vlist, m_tab1, windows, workVars>>

----------------------------------------------------------------------------
(* CRecvDialog::uninit, and the keys in the list.                          *)

\* CRecvDialog::uninit, called by OnClose of the main dialog and by OnDestroy.
uninit(f) ==
  /\ uninits' = IF f \in m_pWork THEN [uninits EXCEPT ![f] = @ + 1] ELSE uninits
  /\ m_pWork' = m_pWork \ {f}

\* CRecvDialog has neither OnOK nor OnCancel, so that the enter and the escape
\* key in its list reach those of CDialog, which hide it; its OnClose, with a
\* call of uninit, is commented out of the message map.
EndDialogUninit ==                \* mutated form: OnClose is in the message map
  /\ appPc = "messages"
  /\ \E f \in shown : shown' = shown \ {f} /\ uninit(f)
  /\ UNCHANGED <<coinVars, workers, m_vlist, m_tab1, tabVars, windows, appPc>>
EndDialog ==
  /\ appPc = "messages"
  /\ \E f \in shown : shown' = shown \ {f}
  /\ UNCHANGED <<coinVars, workers, m_vlist, m_tab1, tabVars, windows, workVars,
                 appPc>>

----------------------------------------------------------------------------
(* The end.                                                                *)

OnClose ==
  /\ appPc = "messages" /\ appPc' = "closing" /\ target' = 1
  /\ UNCHANGED <<coinVars, workers, m_vlist, m_tab1, m_curSel, windowVars, workVars>>

CloseDialog ==
  /\ appPc = "closing" /\ target \in DOMAIN m_vlist
  /\ uninit(m_vlist[target]) /\ target' = target + 1
  /\ UNCHANGED <<coinVars, workers, m_vlist, m_tab1, m_curSel, windowVars, appPc>>

\* m_vlist.clear() destroys the dialogs and their windows: in ~CDialog, where
\* the message map is no longer that of CRecvDialog.  WM_CLOSE then cancels.
ClearDialogs ==
  /\ appPc = "closing" /\ target \notin DOMAIN m_vlist
  /\ m_vlist' = <<>> /\ windows' = {} /\ shown' = {}
  /\ appPc' = "destroying" /\ target' = 0
  /\ UNCHANGED <<coinVars, workers, m_tab1, m_curSel, workVars>>

\* The cancel button and the escape key: no message is handled after it.
OnCancel ==
  /\ appPc = "messages" /\ appPc' = "destroying"
  /\ UNCHANGED <<coinVars, workers, m_vlist, m_tab1, tabVars, windowVars, workVars>>

\* With the main window go its child windows.
OnDestroySkips(f) ==              \* mutated form: left to OnClose
  /\ appPc = "destroying" /\ f \in windows
  /\ windows' = windows \ {f} /\ shown' = shown \ {f}
  /\ UNCHANGED <<coinVars, workers, m_vlist, m_tab1, tabVars, workVars, appPc>>
OnDestroy(f) ==
  /\ appPc = "destroying" /\ f \in windows
  /\ windows' = windows \ {f} /\ shown' = shown \ {f}
  /\ uninit(f)
  /\ UNCHANGED <<coinVars, workers, m_vlist, m_tab1, tabVars, appPc>>

\* DoModal returns, InitInstance returns FALSE.
ModalEnds ==
  /\ appPc = "destroying" /\ windows = {}
  /\ appPc' = "ended"
  /\ UNCHANGED <<coinVars, workers, m_vlist, m_tab1, tabVars, windowVars, workVars>>

\* An exception leaves load_db in its thread (a seed that does not resolve).
LoaderThrows ==
  /\ workers # {} /\ appPc # "ended" /\ appPc' = "aborted"
  /\ UNCHANGED <<coinVars, workers, m_vlist, m_tab1, tabVars, windowVars, workVars>>

Ui == \/ FindFile \/ AddCoin \/ ShowFirst
      \/ CloseDialog \/ ClearDialogs \/ ModalEnds \/ \E f \in Files : OnDestroy(f)
User == OnTcnSelchanging \/ OnTcnSelchange \/ EndDialog \/ OnClose \/ OnCancel

Next == appPc # "aborted" /\ (Ui \/ User \/ LoaderThrows)

\* The user need do nothing; what the program has begun it goes on with.
Spec == Init /\ [][Next]_vars /\ WF_vars(appPc # "aborted" /\ Ui)

----------------------------------------------------------------------------
(* Properties.                                                             *)

(* Whenever a message is handled, no dialog shows but that of the chosen   *)
(* tab: it is found by the tab's number in another list, and the old one   *)
(* is hidden by one notification, the new one shown by the next.           *)
OnlyChosenShows ==
  appPc = "messages" => \A f \in shown : f = m_tab1[m_curSel]

(* A timer message finds a worker: OnTimer does not test m_pWork, which    *)
(* uninit resets while the windows and their timers are still there.       *)
TimersFindWorkers == appPc \in {"messages", "selecting"} => windows = m_pWork

(* No worker is told to save twice, though OnClose and OnDestroy both call *)
(* uninit and a key can dismiss a dialog before, and none is left out when *)
(* InitInstance returns, whichever way the windows went.                   *)
ToldOnce ==
  /\ \A f \in Files : uninits[f] <= 1
  /\ appPc = "ended" => \A f \in workers : uninits[f] = 1

(* Once the end has begun, every worker is told, each once, unless the     *)
(* process is aborted.                                                     *)
EndSaves ==
  appPc \in {"closing", "destroying"}
    ~> appPc = "aborted" \/ (appPc = "ended" /\ ToldOnce)
=============================================================================
