---------------------------- MODULE LookerProofs ----------------------------
(***************************************************************************)
(* Proofs about Looker, for any number of files of any kinds and tabs      *)
(* chosen, dialogs dismissed and the program ended in any order.           *)
(***************************************************************************)
EXTENDS Looker, TLAPS

CoinOf(list) == {list[i] : i \in 1 .. Len(list)}

TypeOK ==
  /\ dir \in [Files -> Kind] /\ next \in 1 .. NFiles + 1
  /\ g_CoinList \in Seq(Files) /\ m_vlist \in Seq(Files) /\ m_tab1 \in Seq(Files)
  /\ workers \subseteq Files
  /\ m_curSel \in Nat /\ target \in Nat
  /\ windows \subseteq Files /\ shown \subseteq Files /\ m_pWork \subseteq Files
  /\ uninits \in [Files -> Nat]
  /\ appPc \in {"find", "create", "messages", "selecting", "closing",
                "destroying", "ended", "aborted"}

\* Each file is found once, in the order of the directory.
Found ==
  /\ \A i \in 1 .. Len(g_CoinList) : g_CoinList[i] < next
  /\ \A i, j \in 1 .. Len(g_CoinList) : i < j => g_CoinList[i] < g_CoinList[j]

\* The two lists that a tab's number indexes.
Tabs ==
  /\ workers = CoinOf(m_tab1)
  /\ appPc = "find" => m_tab1 = <<>>
  /\ Len(m_tab1) <= Len(g_CoinList)
  /\ \A i \in 1 .. Len(m_tab1) : m_tab1[i] = g_CoinList[i]
  /\ m_tab1 # <<>> => m_curSel \in 1 .. Len(m_tab1)
  /\ appPc \in {"find", "create", "messages", "selecting", "closing"} => m_vlist = m_tab1
  /\ appPc = "create" /\ m_tab1 # <<>> => m_curSel = 1

Starting == appPc \in {"find", "create"}

\* What shows: nothing before the first tab does and between two.
Showing ==
  /\ Starting => shown = {}
  /\ appPc = "messages" => \A f \in shown : f = m_tab1[m_curSel]
  /\ appPc = "selecting" => shown = {} /\ target \in 1 .. Len(m_tab1)

\* Every worker is held by its dialog or has been told, and the dialogs that
\* hold one have a window, from the first uninit on as before it.
Told ==
  /\ windows \subseteq workers /\ m_pWork \subseteq windows
  /\ Starting \/ appPc \in {"messages", "selecting"} => m_pWork = workers
  /\ appPc = "closing" => windows = workers
  /\ \A f \in Files : uninits[f] = IF f \in workers \ m_pWork THEN 1 ELSE 0
  /\ appPc = "closing" => \A i \in 1 .. Len(m_vlist) : i < target => m_vlist[i] \notin m_pWork
  /\ appPc = "closing" => target \in 1 .. Len(m_vlist) + 1
  /\ appPc = "ended" => m_pWork = {}

IInv == TypeOK /\ Found /\ Tabs /\ Showing /\ Told

----------------------------------------------------------------------------
\* What is appended comes behind what is there.
LEMMA AppendedCoin ==
  ASSUME NEW s \in Seq(Files), NEW f \in Files
  PROVE  /\ Append(s, f) \in Seq(Files) /\ Append(s, f) # <<>>
         /\ Len(Append(s, f)) = Len(s) + 1 /\ Len(s) \in Nat
         /\ \A i \in 1 .. Len(s) : Append(s, f)[i] = s[i]
         /\ Append(s, f)[Len(s) + 1] = f
         /\ CoinOf(Append(s, f)) = CoinOf(s) \cup {f}
<1>1. /\ Append(s, f) \in Seq(Files) /\ Append(s, f) # <<>>
      /\ Len(Append(s, f)) = Len(s) + 1 /\ Len(s) \in Nat
      /\ \A i \in 1 .. Len(s) : Append(s, f)[i] = s[i]
      /\ Append(s, f)[Len(s) + 1] = f
  OBVIOUS
<1>2. CoinOf(Append(s, f)) = CoinOf(s) \cup {f}
  <2> DEFINE a == Append(s, f)
  <2>1. /\ Len(a) = Len(s) + 1 /\ Len(s) \in Nat
        /\ \A i \in 1 .. Len(s) : a[i] = s[i]
        /\ a[Len(s) + 1] = f
    BY <1>1
  <2> HIDE DEF a
  <2>2. CoinOf(a) = CoinOf(s) \cup {f}
    BY <2>1 DEF CoinOf
  <2>3. QED
    BY <2>2 DEF a
<1>3. QED
  BY <1>1, <1>2

LEMMA NoCoin == CoinOf(<<>>) = {}
  BY DEF CoinOf

\* The options a list has no tab for yet have no worker.
LEMMA NextIsNew ==
  ASSUME TypeOK, Found, Tabs, Len(m_tab1) < Len(g_CoinList)
  PROVE  /\ g_CoinList[Len(m_tab1) + 1] \in Files
         /\ g_CoinList[Len(m_tab1) + 1] \notin workers
<1>1. /\ Len(m_tab1) \in Nat /\ Len(g_CoinList) \in Nat
      /\ Len(m_tab1) + 1 \in 1 .. Len(g_CoinList)
      /\ \A i \in 1 .. Len(g_CoinList) : g_CoinList[i] \in Files
  BY DEF TypeOK
<1>2. ASSUME NEW i \in 1 .. Len(m_tab1) PROVE m_tab1[i] # g_CoinList[Len(m_tab1) + 1]
  <2>1. i \in 1 .. Len(g_CoinList) /\ i < Len(m_tab1) + 1
    BY <1>1
  <2>2. g_CoinList[i] < g_CoinList[Len(m_tab1) + 1] /\ g_CoinList[i] \in Int
    BY <1>1, <2>1 DEF Found, Files
  <2>3. g_CoinList[Len(m_tab1) + 1] \in Int
    BY <1>1 DEF Files
  <2>4. QED
    BY <2>2, <2>3 DEF Tabs
<1>3. QED
  BY <1>1, <1>2 DEF Tabs, CoinOf

\* The program begins without a coin.
LEMMA InitInductive == Init => IInv
<1> SUFFICES ASSUME Init PROVE IInv
  OBVIOUS
<1>1. <<>> \in Seq(Files) /\ Len(<<>>) = 0
  OBVIOUS
<1>2. TypeOK
  BY <1>1, FilesAssumption DEF Init, TypeOK
<1>3. Found /\ Tabs
  BY <1>1, NoCoin DEF Init, Found, Tabs
<1>4. Showing /\ Told
  BY DEF Init, Showing, Told, Starting
<1>5. QED
  BY <1>2, <1>3, <1>4 DEF IInv

\* FindFile: a file found is behind those found before.
LEMMA FindInductive == IInv /\ FindFile => IInv'
<1> SUFFICES ASSUME IInv, FindFile PROVE IInv'
  OBVIOUS
<1>1. /\ TypeOK /\ Found /\ Tabs /\ Showing /\ Told /\ appPc = "find"
      /\ UNCHANGED <<dir, workers, m_vlist, m_tab1, m_curSel, target, windows,
                     shown, m_pWork, uninits>>
  BY DEF IInv, FindFile, tabVars, windowVars, workVars
<1>2. CASE next \notin Files
  <2>1. appPc' = "create" /\ UNCHANGED <<next, g_CoinList>>
    BY <1>2 DEF FindFile
  <2>2. TypeOK' /\ Found' /\ Tabs' /\ Showing' /\ Told'
    BY <1>1, <2>1 DEF TypeOK, Found, Tabs, Showing, Told, Starting
  <2>3. QED
    BY <2>2 DEF IInv
<1>3. CASE next \in Files
  <2>1. /\ appPc' = "find" /\ next' = next + 1
        /\ g_CoinList' = Append(g_CoinList, next) \/ g_CoinList' = g_CoinList
    BY <1>1, <1>3 DEF FindFile
  <2>2. /\ g_CoinList' \in Seq(Files) /\ next' \in 1 .. NFiles + 1
        /\ Len(g_CoinList') >= Len(g_CoinList) /\ Len(g_CoinList) \in Nat
        /\ next \in Int
    <3>1. next' \in 1 .. NFiles + 1 /\ next \in Int
      BY <1>3, <2>1, FilesAssumption DEF Files
    <3>2. g_CoinList \in Seq(Files)
      BY <1>1 DEF TypeOK
    <3>3. /\ Append(g_CoinList, next) \in Seq(Files) /\ Len(g_CoinList) \in Nat
          /\ Len(Append(g_CoinList, next)) = Len(g_CoinList) + 1
      BY <1>3, <3>2, AppendedCoin
    <3>4. QED
      BY <2>1, <3>1, <3>2, <3>3
  <2>3. m_tab1 = <<>> /\ Len(m_tab1) = 0
    BY <1>1 DEF Tabs
  <2>4. Found'
    <3>1. \A i \in 1 .. Len(g_CoinList) : g_CoinList[i] \in Int
      BY <1>1 DEF TypeOK, Files
    <3>2. CASE g_CoinList' = g_CoinList
      BY <1>1, <2>1, <2>2, <3>1, <3>2 DEF Found
    <3>3. CASE g_CoinList' = Append(g_CoinList, next)
      <4>1. /\ Len(g_CoinList') = Len(g_CoinList) + 1
            /\ \A i \in 1 .. Len(g_CoinList) : g_CoinList'[i] = g_CoinList[i]
            /\ g_CoinList'[Len(g_CoinList) + 1] = next
        BY <1>1, <1>3, <3>3, AppendedCoin DEF TypeOK
      <4>2. \A i \in 1 .. Len(g_CoinList) : g_CoinList'[i] < next
        BY <1>1, <4>1 DEF Found
      <4>3. \A i \in 1 .. Len(g_CoinList') : g_CoinList'[i] < next'
        BY <2>1, <2>2, <3>1, <4>1, <4>2
      <4>4. \A i, j \in 1 .. Len(g_CoinList') :
              i < j => g_CoinList'[i] < g_CoinList'[j]
        <5> SUFFICES ASSUME NEW i \in 1 .. Len(g_CoinList'),
                            NEW j \in 1 .. Len(g_CoinList'), i < j
                     PROVE  g_CoinList'[i] < g_CoinList'[j]
          OBVIOUS
        <5>1. i \in 1 .. Len(g_CoinList)
          BY <2>2, <4>1
        <5>2. CASE j \in 1 .. Len(g_CoinList)
          BY <1>1, <4>1, <5>1, <5>2 DEF Found
        <5>3. CASE j = Len(g_CoinList) + 1
          BY <4>1, <4>2, <5>1, <5>3
        <5>4. QED
          BY <2>2, <4>1, <5>2, <5>3
      <4>5. QED
        BY <4>3, <4>4 DEF Found
    <3>4. QED
      BY <2>1, <3>2, <3>3
  <2>5. TypeOK' /\ Tabs' /\ Showing' /\ Told'
    BY <1>1, <2>1, <2>2, <2>3 DEF TypeOK, Tabs, Showing, Told, Starting
  <2>6. QED
    BY <2>4, <2>5 DEF IInv
<1>4. QED
  BY <1>2, <1>3

\* AddCoin: the option gets the next tab and a worker of its own.
LEMMA AddInductive == IInv /\ AddCoin => IInv'
<1> SUFFICES ASSUME IInv, AddCoin PROVE IInv'
  OBVIOUS
<1>1. /\ TypeOK /\ Found /\ Tabs /\ Showing /\ Told
      /\ appPc = "create" /\ m_vlist = m_tab1 /\ Len(m_tab1) < Len(g_CoinList)
      /\ UNCHANGED <<dir, next, g_CoinList, target, shown, uninits, appPc>>
  BY DEF IInv, Tabs, AddCoin, coinVars
<1>2. PICK f : f = g_CoinList[Len(m_tab1) + 1]
  OBVIOUS
<1>3. f \in Files /\ f \notin workers
  BY <1>1, <1>2, NextIsNew
<1>4. /\ workers' = workers \cup {f} /\ windows' = windows \cup {f}
      /\ m_pWork' = m_pWork \cup {f}
      /\ m_tab1' = Append(m_tab1, f) /\ m_vlist' = m_tab1'
      /\ m_curSel' = IF m_tab1 = <<>> THEN 1 ELSE m_curSel
  BY <1>1, <1>2 DEF AddCoin
<1>5. /\ m_tab1' \in Seq(Files) /\ m_tab1' # <<>>
      /\ Len(m_tab1') = Len(m_tab1) + 1 /\ Len(m_tab1) \in Nat
      /\ \A i \in 1 .. Len(m_tab1) : m_tab1'[i] = m_tab1[i]
      /\ m_tab1'[Len(m_tab1) + 1] = f
      /\ CoinOf(m_tab1') = CoinOf(m_tab1) \cup {f}
  BY <1>1, <1>3, <1>4, AppendedCoin DEF TypeOK
<1>6. TypeOK'
  BY <1>1, <1>3, <1>4, <1>5 DEF TypeOK
<1>7. Found'
  BY <1>1 DEF Found
<1>8. Tabs'
  <2>1. Len(m_tab1') <= Len(g_CoinList)
    BY <1>1, <1>5 DEF TypeOK
  <2>2. \A i \in 1 .. Len(m_tab1') : m_tab1'[i] = g_CoinList[i]
    BY <1>1, <1>2, <1>5 DEF Tabs
  <2>3. m_curSel' \in 1 .. Len(m_tab1')
    BY <1>1, <1>4, <1>5 DEF Tabs, TypeOK
  <2>4. QED
    BY <1>1, <1>4, <1>5, <2>1, <2>2, <2>3 DEF Tabs
<1>9. Showing' /\ Told'
  BY <1>1, <1>3, <1>4 DEF Showing, Told, Starting
<1>10. QED
  BY <1>6, <1>7, <1>8, <1>9 DEF IInv

\* ShowFirst, the two notifications of a tab, and the keys that dismiss a
\* dialog.
LEMMA ShowInductive ==
  IInv /\ (ShowFirst \/ OnTcnSelchanging \/ OnTcnSelchange \/ EndDialog) => IInv'
<1> SUFFICES ASSUME IInv, ShowFirst \/ OnTcnSelchanging \/ OnTcnSelchange \/ EndDialog
             PROVE  IInv'
  OBVIOUS
<1>1. /\ TypeOK /\ Found /\ Tabs /\ Showing /\ Told
      /\ appPc \in {"create", "messages", "selecting"}
      /\ appPc' \in {"messages", "selecting"}
      /\ m_vlist = m_tab1
      /\ UNCHANGED <<dir, next, g_CoinList, workers, m_vlist, m_tab1, windows,
                     m_pWork, uninits>>
  BY DEF IInv, Tabs, ShowFirst, OnTcnSelchanging, OnTcnSelchange, EndDialog,
    coinVars, tabVars, windowVars, workVars
<1>2. Found'
  BY <1>1 DEF Found
<1>3. Told'
  BY <1>1 DEF Told, Starting
<1>4. /\ Len(m_tab1) \in Nat /\ DOMAIN m_tab1 = 1 .. Len(m_tab1)
      /\ m_tab1 # <<>> => Len(m_tab1) >= 1
      /\ \A i \in 1 .. Len(m_tab1) : m_tab1[i] \in Files
  BY <1>1 DEF TypeOK
<1>5. /\ shown' \subseteq Files /\ m_curSel' \in Nat /\ target' \in Nat
      /\ m_tab1 # <<>> => m_curSel' \in 1 .. Len(m_tab1)
      /\ Showing'
  <2>1. CASE ShowFirst
    <3>1. UNCHANGED <<m_curSel, target>> /\ appPc' = "messages"
      BY <2>1 DEF ShowFirst, tabVars
    <3>2. CASE m_tab1 = <<>>
      BY <1>1, <2>1, <3>1, <3>2 DEF ShowFirst, TypeOK, Showing, Starting
    <3>3. CASE m_tab1 # <<>>
      BY <1>1, <1>4, <2>1, <3>1, <3>3 DEF ShowFirst, TypeOK, Tabs, Showing, Starting
    <3>4. QED
      BY <3>2, <3>3
  <2>2. CASE OnTcnSelchanging
    BY <1>1, <1>4, <2>2 DEF OnTcnSelchanging, TypeOK, Tabs, Showing, Starting
  <2>3. CASE OnTcnSelchange
    BY <1>1, <1>4, <2>3 DEF OnTcnSelchange, TypeOK, Tabs, Showing, Starting
  <2>4. CASE EndDialog
    BY <1>1, <1>4, <2>4 DEF EndDialog, TypeOK, Tabs, Showing, Starting, tabVars
  <2>5. QED
    BY <2>1, <2>2, <2>3, <2>4
<1>6. TypeOK' /\ Tabs'
  BY <1>1, <1>5 DEF TypeOK, Tabs
<1>7. QED
  BY <1>2, <1>3, <1>5, <1>6 DEF IInv

\* uninit: a worker that its dialog still holds is told, and only once.
LEMMA uninitTells ==
  ASSUME TypeOK, Told, NEW f \in Files, uninit(f), UNCHANGED workers
  PROVE  /\ m_pWork' = m_pWork \ {f} /\ m_pWork' \subseteq Files
         /\ uninits' \in [Files -> Nat]
         /\ \A g \in Files :
              uninits'[g] = IF g \in workers' \ m_pWork' THEN 1 ELSE 0
<1>1. /\ m_pWork \subseteq workers
      /\ \A g \in Files : uninits[g] = IF g \in workers \ m_pWork THEN 1 ELSE 0
      /\ uninits \in [Files -> Nat] /\ m_pWork \subseteq Files
  BY DEF Told, TypeOK
<1>2. CASE f \in m_pWork
  BY <1>1, <1>2 DEF uninit
<1>3. CASE f \notin m_pWork
  BY <1>1, <1>3 DEF uninit
<1>4. QED
  BY <1>2, <1>3

\* OnClose and its walk through the dialogs, or the windows one by one.
LEMMA EndInductive ==
  IInv /\ (\/ OnClose \/ CloseDialog \/ ClearDialogs \/ OnCancel \/ ModalEnds
           \/ \E f \in Files : OnDestroy(f)) => IInv'
<1> SUFFICES ASSUME IInv, \/ OnClose \/ CloseDialog \/ ClearDialogs \/ OnCancel
                          \/ ModalEnds \/ \E f \in Files : OnDestroy(f)
             PROVE  IInv'
  OBVIOUS
<1>1. /\ TypeOK /\ Found /\ Tabs /\ Showing /\ Told
      /\ appPc \in {"messages", "closing", "destroying"}
      /\ appPc' \in {"closing", "destroying", "ended"}
      /\ UNCHANGED <<dir, next, g_CoinList, workers, m_tab1, m_curSel>>
  BY DEF IInv, OnClose, CloseDialog, ClearDialogs, OnCancel, ModalEnds, OnDestroy,
    coinVars, tabVars, windowVars, workVars
<1>2. Found' /\ Showing'
  BY <1>1 DEF Found, Showing, Starting
<1>3. CASE OnClose
  <2>1. /\ appPc = "messages" /\ appPc' = "closing" /\ target' = 1
        /\ UNCHANGED <<m_vlist, windows, shown, m_pWork, uninits>>
    BY <1>3 DEF OnClose, windowVars, workVars
  <2>2. TypeOK' /\ Tabs'
    BY <1>1, <2>1 DEF TypeOK, Tabs
  <2>3. Len(m_vlist) \in Nat
    BY <1>1 DEF TypeOK
  <2>4. Told'
    <3>1. /\ target' \in 1 .. Len(m_vlist') + 1
          /\ \A i \in 1 .. Len(m_vlist') : ~(i < target')
      BY <2>1, <2>3
    <3>2. m_pWork' = workers' /\ m_pWork' = windows'
      BY <1>1, <2>1 DEF Told
    <3>3. \A f \in Files : uninits'[f] = IF f \in workers' \ m_pWork' THEN 1 ELSE 0
      BY <1>1, <2>1 DEF Told
    <3>4. QED
      BY <2>1, <3>1, <3>2, <3>3 DEF Told, Starting
  <2>5. QED
    BY <1>2, <2>2, <2>4 DEF IInv
<1>4. CASE CloseDialog
  <2>1. /\ appPc = "closing" /\ appPc' = "closing" /\ target' = target + 1
        /\ uninit(m_vlist[target])
        /\ UNCHANGED <<m_vlist, windows, shown>>
    BY <1>4 DEF CloseDialog, windowVars
  <2>2. /\ target \in 1 .. Len(m_vlist) /\ m_vlist[target] \in Files
        /\ Len(m_vlist) \in Nat
    BY <1>1, <1>4 DEF CloseDialog, TypeOK
  <2>3. /\ m_pWork' = m_pWork \ {m_vlist[target]} /\ m_pWork' \subseteq Files
        /\ uninits' \in [Files -> Nat]
        /\ \A g \in Files :
             uninits'[g] = IF g \in workers' \ m_pWork' THEN 1 ELSE 0
    BY <1>1, <2>1, <2>2, uninitTells
  <2>4. TypeOK' /\ Tabs'
    <3>1. target' \in Nat
      BY <2>1, <2>2
    <3>2. QED
      BY <1>1, <2>1, <2>3, <3>1 DEF TypeOK, Tabs
  <2>5. Told'
    <3>1. /\ target' \in 1 .. Len(m_vlist) + 1
          /\ \A i \in 1 .. Len(m_vlist) : i < target' => i < target \/ i = target
      BY <2>1, <2>2
    <3>2. \A i \in 1 .. Len(m_vlist) : i < target' => m_vlist[i] \notin m_pWork'
      BY <1>1, <2>1, <2>3, <3>1 DEF Told
    <3>3. /\ windows \subseteq workers /\ windows = workers
          /\ m_pWork' \subseteq windows
      BY <1>1, <2>1, <2>3 DEF Told
    <3>4. QED
      BY <1>1, <2>1, <2>3, <3>1, <3>2, <3>3 DEF Told, Starting
  <2>6. QED
    BY <1>2, <2>4, <2>5 DEF IInv
<1>5. CASE ClearDialogs
  <2>1. /\ appPc = "closing" /\ appPc' = "destroying" /\ target' = 0
        /\ m_vlist' = <<>> /\ windows' = {} /\ shown' = {}
        /\ UNCHANGED <<m_pWork, uninits>>
    BY <1>5 DEF ClearDialogs, workVars
  <2>2. m_vlist = m_tab1 /\ workers = CoinOf(m_vlist)
    BY <1>1, <2>1 DEF Tabs
  <2>3. \A i \in 1 .. Len(m_vlist) : i < target
    BY <1>1, <1>5, <2>1 DEF ClearDialogs, Told, TypeOK
  <2>4. m_pWork = {}
    <3>1. m_pWork \subseteq CoinOf(m_vlist)
      BY <1>1, <2>2 DEF Told
    <3>2. \A i \in 1 .. Len(m_vlist) : m_vlist[i] \notin m_pWork
      BY <1>1, <2>1, <2>3 DEF Told
    <3>3. QED
      BY <3>1, <3>2 DEF CoinOf
  <2>5. TypeOK' /\ Tabs'
    BY <1>1, <2>1 DEF TypeOK, Tabs
  <2>6. Told'
    BY <1>1, <2>1, <2>4 DEF Told, Starting
  <2>7. QED
    BY <1>2, <2>5, <2>6 DEF IInv
<1>6. CASE OnCancel \/ ModalEnds
  <2>1. /\ appPc' \in {"destroying", "ended"}
        /\ appPc' = "ended" => windows = {}
        /\ UNCHANGED <<m_vlist, target, windows, shown, m_pWork, uninits>>
    BY <1>6 DEF OnCancel, ModalEnds, tabVars, windowVars, workVars
  <2>2. TypeOK' /\ Tabs' /\ Told'
    BY <1>1, <2>1 DEF TypeOK, Tabs, Told, Starting
  <2>3. QED
    BY <1>2, <2>2 DEF IInv
<1>7. CASE \E f \in Files : OnDestroy(f)
  <2>1. PICK f \in Files : OnDestroy(f)
    BY <1>7
  <2>2. /\ appPc = "destroying" /\ appPc' = "destroying"
        /\ windows' = windows \ {f} /\ shown' = shown \ {f} /\ uninit(f)
        /\ UNCHANGED <<m_vlist, target>>
    BY <2>1 DEF OnDestroy, tabVars
  <2>3. /\ m_pWork' = m_pWork \ {f} /\ m_pWork' \subseteq Files
        /\ uninits' \in [Files -> Nat]
        /\ \A g \in Files :
             uninits'[g] = IF g \in workers' \ m_pWork' THEN 1 ELSE 0
    BY <1>1, <2>2, uninitTells
  <2>4. TypeOK' /\ Tabs'
    BY <1>1, <2>2, <2>3 DEF TypeOK, Tabs
  <2>5. Told'
    BY <1>1, <2>2, <2>3 DEF Told, Starting
  <2>6. QED
    BY <1>2, <2>4, <2>5 DEF IInv
<1>8. QED
  BY <1>3, <1>4, <1>5, <1>6, <1>7

\* Every step, that of a loader that throws included.
LEMMA Inductive == IInv /\ [Next]_vars => IInv'
<1> SUFFICES ASSUME IInv, [Next]_vars PROVE IInv'
  OBVIOUS
<1>1. CASE LoaderThrows \/ UNCHANGED vars
  <2>1. /\ UNCHANGED <<dir, next, g_CoinList, workers, m_vlist, m_tab1, m_curSel,
                       target, windows, shown, m_pWork, uninits>>
        /\ appPc' \in {"aborted", appPc}
    BY <1>1 DEF LoaderThrows, vars, coinVars, tabVars, windowVars, workVars
  <2>2. QED
    BY <2>1 DEF IInv, TypeOK, Found, Tabs, Showing, Told, Starting
<1>2. QED
  BY <1>1, FindInductive, AddInductive, ShowInductive, EndInductive
  DEF Next, Ui, User

LEMMA Always == Spec => []IInv
  BY InitInductive, Inductive, PTL DEF Spec

----------------------------------------------------------------------------
\* A handler finds the dialog of the tab by its number in the other list, and
\* nothing but that dialog ever shows.
THEOREM OneDialogShows == Spec => []OnlyChosenShows
<1>1. IInv => OnlyChosenShows
  BY DEF IInv, Showing, OnlyChosenShows
<1>2. QED
  BY <1>1, Always, PTL

\* While messages are handled, every dialog that has a window, and so a timer,
\* holds its worker.
THEOREM TimersAreServed == Spec => []TimersFindWorkers
<1>1. IInv => TimersFindWorkers
  BY DEF IInv, Told, TimersFindWorkers
<1>2. QED
  BY <1>1, Always, PTL

\* Through OnClose or past it, each worker is told to save once and no more,
\* and none is left when InitInstance returns.
THEOREM EveryoneIsToldOnce == Spec => []ToldOnce
<1>1. IInv => ToldOnce
  <2> SUFFICES ASSUME IInv PROVE ToldOnce
    OBVIOUS
  <2>1. /\ \A f \in Files : uninits[f] = IF f \in workers \ m_pWork THEN 1 ELSE 0
        /\ appPc = "ended" => m_pWork = {}
        /\ workers \subseteq Files
    BY DEF IInv, Told, TypeOK
  <2>2. QED
    BY <2>1 DEF ToldOnce
<1>2. QED
  BY <1>1, Always, PTL
=============================================================================
