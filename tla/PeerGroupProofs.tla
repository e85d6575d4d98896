--------------------------- MODULE PeerGroupProofs ---------------------------
(***************************************************************************)
(* Proofs about PeerGroup, for any set of endpoints, any tick counter and  *)
(* any timeout.  Each theorem has its inductive invariant; the later ones  *)
(* use the invariants of the earlier ones.                                 *)
(***************************************************************************)
EXTENDS PeerGroup, FiniteSetTheorems, TLAPS

----------------------------------------------------------------------------
(* Ticks.                                                                  *)

\* A reduced tick is a UINT.
LEMMA TickRange ==
  ASSUME NEW x \in Int
  PROVE  x % TickMod \in Ticks
  BY TickAssumption, SMT DEF Ticks

\* The current tick is a UINT.
LEMMA TickCountType ==
  ASSUME now \in 0 .. MaxTick
  PROVE  GetTickCount \in Ticks
<1>1. TickBase + now \in Int
  BY TickAssumption
<1>2. QED
  BY <1>1, TickRange DEF GetTickCount

\* The unsigned difference of two ticks is the true time between them, if
\* that is less than a whole turn of the counter, wrap or not.
LEMMA TickDiffIsTrueTime ==
  ASSUME NEW t \in 0 .. MaxTick, NEW b \in 0 .. t
  PROVE  TickDiff((TickBase + t) % TickMod, (TickBase + b) % TickMod) = t - b
<1> DEFINE Reduce(x) == IF x < TickMod THEN x ELSE x - TickMod
<1>1. \A x \in 0 .. 2 * TickMod - 1 : x % TickMod = Reduce(x)
  <2>1. \A x \in 0 .. TickMod - 1 : x % TickMod = x
    BY TickAssumption, SMT
  <2>2. \A x \in TickMod .. 2 * TickMod - 1 : x % TickMod = x - TickMod
    BY TickAssumption, SMT
  <2>3. QED
    BY <2>1, <2>2, TickAssumption
<1>2. \A x \in Int : -TickMod < x /\ x < 0 => x % TickMod = x + TickMod
  BY TickAssumption, SMT
<1>3. /\ (TickBase + t) % TickMod = Reduce(TickBase + t)
      /\ (TickBase + b) % TickMod = Reduce(TickBase + b)
  BY <1>1, TickAssumption
<1>4. (Reduce(TickBase + t) - Reduce(TickBase + b)) % TickMod = t - b
  <2>1. CASE TickBase + t < TickMod \/ TickBase + b >= TickMod
    <3>1. Reduce(TickBase + t) - Reduce(TickBase + b) = t - b
      BY <2>1, TickAssumption
    <3>2. QED
      BY <3>1, <1>1, TickAssumption
  <2>2. CASE TickBase + t >= TickMod /\ TickBase + b < TickMod
    <3>1. Reduce(TickBase + t) - Reduce(TickBase + b) = t - b - TickMod
      BY <2>2, TickAssumption
    <3>2. -TickMod < t - b - TickMod /\ t - b - TickMod < 0
      BY <2>2, TickAssumption
    <3>3. QED
      BY <3>1, <3>2, <1>2, TickAssumption
  <2>3. QED
    BY <2>1, <2>2, TickAssumption
<1>5. QED
  BY <1>3, <1>4 DEF TickDiff

----------------------------------------------------------------------------
(* Types.                                                                  *)

\* The initial state is well typed.
LEMMA InitType == Init => TypeOK
<1>1. 0 \in Ticks /\ 0 \in 0 .. MaxTick
  BY TickAssumption DEF Ticks
<1>2. SUFFICES ASSUME Init PROVE TypeOK
  OBVIOUS
<1>3. /\ m_sk \in [Peer -> {"none", "connecting", "open", "closed"}]
      /\ m_connect_start_tick \in [Peer -> Ticks]
      /\ m_ver_finish_tick \in [Peer -> Ticks]
      /\ now \in 0 .. MaxTick /\ born \in [Peer -> 0 .. MaxTick]
  BY <1>1, <1>2 DEF Init
<1>4. m_is_start \in BOOLEAN
  BY <1>2, Zenon DEF Init
<1>5. /\ netPc = "off" /\ uiPc = "timer" /\ loaderPc = "next"
      /\ netKind = "getheaders" /\ m_busy_count = 0
      /\ m_pCurrentPeer = NoPeer /\ loaderPeer = NoPeer
      /\ netPeer = NoPeer /\ uiPeer = NoPeer
  BY <1>2, Zenon DEF Init
<1>6. /\ m_checking_list = {} /\ m_idle = {} /\ m_working = {}
      /\ receiving = {} /\ m_pDestVersion = {}
      /\ slots = {} /\ awaited = {} /\ pool = {} /\ uiTodo = {}
  BY <1>2, Zenon DEF Init
<1>7. QED
  BY <1>3, <1>4, <1>5, <1>6 DEF TypeOK, Kind, PeerOrNone

\* A step of the loader (async_connect, check_state) keeps the types.
LEMMA LoaderType == TypeOK /\ LoaderNext => TypeOK'
<1> SUFFICES ASSUME TypeOK, LoaderNext PROVE TypeOK'
  OBVIOUS
<1> USE DEF TypeOK, groupVars, nodeVars, sessionVars, netVars, uiVars,
            PeerOrNone
<1>1. ASSUME NEW p \in Peer, AsyncConnect(p) PROVE TypeOK'
  <2>1. GetTickCount \in Ticks
    BY TickCountType
  <2>2. QED
    BY <1>1, <2>1 DEF AsyncConnect
<1>2. CASE CountBusy
  BY <1>2 DEF CountBusy
<1>3. CASE CheckState
  BY <1>3 DEF CheckState
<1>4. CASE ResolveFails
  BY <1>4 DEF ResolveFails
<1>5. QED
  BY <1>1, <1>2, <1>3, <1>4 DEF LoaderNext

\* A handler or a part of filter_modal on the net thread keeps the types.
LEMMA NetType == TypeOK /\ NetNext => TypeOK'
<1> SUFFICES ASSUME TypeOK, NetNext PROVE TypeOK'
  OBVIOUS
<1> USE DEF TypeOK, groupVars, nodeVars, sessionVars, loaderVars, netVars,
            uiVars, PeerOrNone
<1>1. CASE NetStart
  BY <1>1 DEF NetStart
<1>2. ASSUME NEW p \in Peer, OnConnect(p) PROVE TypeOK'
  BY <1>2 DEF OnConnect, OnConnectError, OnConnectThrow, OnConnectOk
<1>3. CASE PushChecking
  BY <1>3 DEF PushChecking
<1>4. ASSUME NEW p \in Peer, OnRecv(p) PROVE TypeOK'
  BY <1>4 DEF OnRecv, OnRecvClosed, OnRecvVersion
<1>5. CASE StampVersion
  <2>1. GetTickCount \in Ticks
    BY TickCountType
  <2>2. QED
    BY <1>5, <2>1 DEF StampVersion
<1>6. ASSUME NEW k \in Kind, OnRecvReply(k) PROVE TypeOK'
  BY <1>6 DEF OnRecvReply, Kind
<1>7. ASSUME NEW p \in Peer, FilterBlocks(p) PROVE TypeOK'
  BY <1>7 DEF FilterBlocks
<1>8. CASE FilterHeaders
  BY <1>8 DEF FilterHeaders
<1>9. CASE NetSendHdr \/ NetSendBody \/ NetSendFails
  BY <1>9 DEF NetSendHdr, NetSendBody, NetSendFails, Kind
<1>10. QED
  BY <1>1, <1>2, <1>3, <1>4, <1>5, <1>6, <1>7, <1>8, <1>9
  DEF NetNext, NetRuns

\* A step of modal, pop_idle or peer_start keeps the types.
LEMMA UiType == TypeOK /\ UiNext => TypeOK'
<1> SUFFICES ASSUME TypeOK, UiNext PROVE TypeOK'
  OBVIOUS
<1> USE DEF TypeOK, groupVars, nodeVars, sessionVars, loaderVars, netVars,
            PeerOrNone
<1>1. CASE PopIdle \/ PickNone
  BY <1>1 DEF PopIdle, PickNone
<1>2. ASSUME NEW p \in Peer, ScanVersion(p) \/ ScanSilent(p) PROVE TypeOK'
  BY <1>2 DEF ScanVersion, ScanSilent
<1>3. CASE ScanTimeout
  BY <1>3 DEF ScanTimeout
<1>4. ASSUME NEW p \in Peer, PickIdle(p) PROVE TypeOK'
  BY <1>4 DEF PickIdle
<1>5. CASE Install
  BY <1>5 DEF Install
<1>6. CASE HookBlock \/ HookHeaders
  BY <1>6 DEF HookBlock, HookHeaders, Kind
<1>7. CASE UiSendHdr \/ UiSendBody \/ UiSendFails
  BY <1>7 DEF UiSendHdr, UiSendBody, UiSendFails, Kind
<1>8. QED
  BY <1>1, <1>2, <1>3, <1>4, <1>5, <1>6, <1>7 DEF UiNext

\* Every variable keeps its type; in particular the ticks stay UINTs and a
\* thread that is about to touch a node has one.
THEOREM TypeCorrect == Spec => []TypeOK
<1>1. Init => TypeOK
  BY InitType
<1>2. TypeOK /\ [Next]_vars => TypeOK'
  <2> SUFFICES ASSUME TypeOK, [Next]_vars PROVE TypeOK'
    OBVIOUS
  <2>1. CASE LoaderNext \/ NetNext \/ UiNext
    BY <2>1, LoaderType, NetType, UiType
  <2>2. CASE Tick
    BY <2>2, TickAssumption
    DEF Tick, TypeOK, groupVars, nodeVars, sessionVars, loaderVars, netVars,
        uiVars
  <2>3. CASE UNCHANGED vars
    BY <2>3 DEF vars, TypeOK, groupVars, nodeVars, sessionVars, loaderVars,
                netVars, uiVars
  <2>4. QED
    BY <2>1, <2>2, <2>3 DEF Next
<1>3. QED
  BY <1>1, <1>2, PTL DEF Spec

----------------------------------------------------------------------------
(* The lists.                                                              *)

\* The net thread pushes a node that is on no list yet because a listed node
\* has left the connecting state; the ui thread scans only checked nodes.
Listed == m_checking_list \cup m_idle \cup m_working
Connected(p) == m_sk[p] \in {"open", "closed"}
ListInv == /\ ListedOnce
           /\ \A p \in Listed \cup receiving : Connected(p)
           /\ netPc = "push" => netPeer \notin Listed /\ Connected(netPeer)
           /\ uiTodo \subseteq m_checking_list
           /\ uiPc = "timeout" => uiPeer \in uiTodo

\* A new connection is on no list, so the lists stay disjoint.
LEMMA LoaderLists == TypeOK /\ ListInv /\ LoaderNext => ListInv'
<1> SUFFICES ASSUME TypeOK, ListInv, LoaderNext PROVE ListInv'
  OBVIOUS
<1> USE DEF TypeOK, ListInv, ListedOnce, Listed, Connected, groupVars,
            nodeVars, sessionVars, netVars, uiVars
<1>1. ASSUME NEW p \in Peer, AsyncConnect(p) PROVE ListInv'
  BY <1>1 DEF AsyncConnect
<1>2. CASE CountBusy
  BY <1>2 DEF CountBusy
<1>3. CASE CheckState
  BY <1>3 DEF CheckState
<1>4. CASE ResolveFails
  BY <1>4 DEF ResolveFails
<1>5. QED
  BY <1>1, <1>2, <1>3, <1>4 DEF LoaderNext

\* on_connect puts on the checking list only the node it has just opened,
\* and the other handlers move no node.
LEMMA NetLists == TypeOK /\ ListInv /\ NetNext => ListInv'
<1> SUFFICES ASSUME TypeOK, ListInv, NetNext PROVE ListInv'
  OBVIOUS
<1> USE DEF TypeOK, ListInv, ListedOnce, Listed, Connected, groupVars,
            nodeVars, sessionVars, loaderVars, netVars, uiVars
<1>1. CASE NetStart
  BY <1>1 DEF NetStart
<1>2. ASSUME NEW p \in Peer, OnConnect(p) PROVE ListInv'
  <2>1. CASE OnConnectError(p)
    BY <2>1 DEF OnConnectError
  <2>2. CASE OnConnectThrow(p)
    BY <2>2 DEF OnConnectThrow
  <2>3. CASE OnConnectOk(p)
    BY <2>3 DEF OnConnectOk
  <2>4. QED
    BY <1>2, <2>1, <2>2, <2>3 DEF OnConnect
<1>3. CASE PushChecking
  BY <1>3 DEF PushChecking
<1>4. ASSUME NEW p \in Peer, OnRecv(p) PROVE ListInv'
  BY <1>4 DEF OnRecv, OnRecvClosed, OnRecvVersion
<1>5. CASE StampVersion
  BY <1>5 DEF StampVersion
<1>6. ASSUME NEW k \in Kind, OnRecvReply(k) PROVE ListInv'
  BY <1>6 DEF OnRecvReply
<1>7. ASSUME NEW p \in Peer, FilterBlocks(p) PROVE ListInv'
  BY <1>7 DEF FilterBlocks
<1>8. CASE FilterHeaders
  BY <1>8 DEF FilterHeaders
<1>9. CASE NetSendHdr \/ NetSendBody \/ NetSendFails
  BY <1>9 DEF NetSendHdr, NetSendBody, NetSendFails
<1>10. QED
  BY <1>1, <1>2, <1>3, <1>4, <1>5, <1>6, <1>7, <1>8, <1>9
  DEF NetNext, NetRuns

\* pop_idle moves a node from one list to the next and never copies it.
LEMMA UiLists == TypeOK /\ ListInv /\ UiNext => ListInv'
<1> SUFFICES ASSUME TypeOK, ListInv, UiNext PROVE ListInv'
  OBVIOUS
<1> USE DEF TypeOK, ListInv, ListedOnce, Listed, Connected, groupVars,
            nodeVars, sessionVars, loaderVars, netVars, uiVars
<1>1. CASE PopIdle \/ PickNone
  BY <1>1 DEF PopIdle, PickNone
<1>2. ASSUME NEW p \in Peer, ScanVersion(p) PROVE ListInv'
  BY <1>2 DEF ScanVersion
<1>3. ASSUME NEW p \in Peer, ScanSilent(p) PROVE ListInv'
  BY <1>3 DEF ScanSilent
<1>4. CASE ScanTimeout
  BY <1>4 DEF ScanTimeout
<1>5. ASSUME NEW p \in Peer, PickIdle(p) PROVE ListInv'
  BY <1>5 DEF PickIdle
<1>6. CASE Install \/ HookBlock \/ HookHeaders
  BY <1>6 DEF Install, HookBlock, HookHeaders
<1>7. CASE UiSendHdr \/ UiSendBody \/ UiSendFails
  BY <1>7 DEF UiSendHdr, UiSendBody, UiSendFails
<1>8. QED
  BY <1>1, <1>2, <1>3, <1>4, <1>5, <1>6, <1>7 DEF UiNext

\* The list part of the invariant holds in every reachable state.
LEMMA ListsHold == Spec => []ListInv
<1>1. Init => ListInv
  BY DEF Init, ListInv, ListedOnce, Listed
<1>2. TypeOK /\ ListInv /\ [Next]_vars => ListInv'
  <2> SUFFICES ASSUME TypeOK, ListInv, [Next]_vars PROVE ListInv'
    OBVIOUS
  <2>1. CASE LoaderNext \/ NetNext \/ UiNext
    BY <2>1, LoaderLists, NetLists, UiLists
  <2>2. CASE Tick \/ UNCHANGED vars
    BY <2>2
    DEF Tick, vars, ListInv, ListedOnce, Listed, Connected, groupVars,
        nodeVars, sessionVars, loaderVars, netVars, uiVars
  <2>3. QED
    BY <2>1, <2>2 DEF Next
<1>3. QED
  BY <1>1, <1>2, TypeCorrect, PTL DEF Spec

\* No node is on two lists, and every node that may be used told its version.
THEOREM ListsAreDisjoint == Spec => []ListedOnce
<1>1. ListInv => ListedOnce
  BY DEF ListInv
<1>2. QED
  BY <1>1, ListsHold, PTL

----------------------------------------------------------------------------
(* The start of the net thread.                                            *)

\* Until the thread polls, nothing counts down: no node is on the checking
\* list and no handler has run.
StartInv ==
  /\ ~m_is_start <=> netPc = "off"
  /\ netPc \in {"off", "start"} => m_checking_list = {} /\ m_busy_count >= 0
  /\ netPc = "start" => m_busy_count > 0
  /\ loaderPc = "state" /\ netPc = "off" => m_busy_count > 0

\* Before check_state has run no handler has, so nothing was counted down.
LEMMA StartHolds == Spec => []StartInv
<1> USE DEF groupVars, loaderVars, netVars
<1>1. Init => StartInv
  BY DEF Init, StartInv
<1>2. TypeOK /\ ListInv /\ StartInv /\ [Next]_vars => StartInv'
  <2> SUFFICES ASSUME TypeOK, ListInv, StartInv, [Next]_vars PROVE StartInv'
    OBVIOUS
  <2>1. ASSUME NEW p \in Peer, AsyncConnect(p) PROVE StartInv'
    BY <2>1 DEF AsyncConnect, StartInv
  <2>2. CASE CountBusy
    BY <2>2 DEF CountBusy, StartInv, TypeOK
  <2>3. CASE CheckState \/ ResolveFails
    BY <2>3 DEF CheckState, ResolveFails, StartInv, TypeOK
  <2>4. CASE NetStart
    BY <2>4 DEF NetStart, StartInv
  <2>5. CASE NetNext /\ ~NetStart
    <3>1. netPc \notin {"off", "start"} /\ netPc' \notin {"off", "start"}
      BY <2>5
      DEF NetNext, NetRuns, OnConnect, OnConnectError, OnConnectThrow,
          OnConnectOk, PushChecking, OnRecv, OnRecvClosed, OnRecvVersion,
          StampVersion, OnRecvReply, FilterBlocks, FilterHeaders, NetSendHdr,
          NetSendBody, NetSendFails
    <3>2. UNCHANGED loaderVars
      BY <2>5
      DEF NetNext, NetRuns, OnConnect, OnConnectError, OnConnectThrow,
          OnConnectOk, PushChecking, OnRecv, OnRecvClosed, OnRecvVersion,
          StampVersion, OnRecvReply, FilterBlocks, FilterHeaders, NetSendHdr,
          NetSendBody, NetSendFails
    <3>3. QED
      BY <3>1, <3>2 DEF StartInv
  <2>6. ASSUME NEW p \in Peer, ScanVersion(p) PROVE StartInv'
    BY <2>6 DEF ScanVersion, StartInv, ListInv
  <2>7. CASE ScanTimeout
    BY <2>7 DEF ScanTimeout, StartInv, ListInv
  <2>8. CASE UiNext /\ ~ScanTimeout /\ ~\E p \in Peer : ScanVersion(p)
    <3>1. UNCHANGED <<loaderVars, netVars, m_checking_list, m_busy_count>>
      BY <2>8
      DEF UiNext, PopIdle, ScanSilent, PickIdle, PickNone, Install, HookBlock,
          HookHeaders, UiSendHdr, UiSendBody, UiSendFails
    <3>2. QED
      BY <3>1 DEF StartInv
  <2>9. CASE Tick \/ UNCHANGED vars
    BY <2>9 DEF Tick, vars, StartInv
  <2>10. QED
    BY <2>1, <2>2, <2>3, <2>4, <2>5, <2>6, <2>7, <2>8, <2>9
    DEF Next, LoaderNext
<1>3. QED
  BY <1>1, <1>2, TypeCorrect, ListsHold, PTL DEF Spec

\* The assertions of check_state and of domodal hold.
THEOREM StartAssertsHold == Spec => []StartAsserts
<1>1. StartInv => StartAsserts
  BY DEF StartInv, StartAsserts
<1>2. QED
  BY <1>1, StartHolds, PTL

----------------------------------------------------------------------------
(* The counter.                                                            *)

Pending == IF loaderPc = "count" THEN 1 ELSE 0

\* The nodes the counter stands for are finitely many.
LEMMA CountedFinite ==
  ASSUME TypeOK
  PROVE  IsFiniteSet(Counted) /\ Cardinality(Counted) \in Nat
<1>1. Counted \subseteq Peer
  BY DEF TypeOK, Counted
<1>2. QED
  BY <1>1, PeerAssumption, FS_Subset, FS_CardinalityType

\* What a step may do to the counted nodes, and what it must then do to the
\* counter and the pending increment.
LEMMA NodeAdded ==
  ASSUME TypeOK, BusyCount, NEW p \in Peer, p \notin Counted,
         Counted' = Counted \cup {p},
         m_busy_count' + Pending' = m_busy_count + Pending + 1,
         m_busy_count' \in Int
  PROVE  BusyCount'
<1>1. Cardinality(Counted') = Cardinality(Counted) + 1
  BY CountedFinite, FS_AddElement
<1>2. QED
  BY <1>1, CountedFinite DEF BusyCount, Pending, TypeOK

\* Settling a node lowers the number of nodes in progress by one.
LEMMA NodeRemoved ==
  ASSUME TypeOK, BusyCount, NEW p \in Counted,
         Counted' = Counted \ {p},
         m_busy_count' = m_busy_count - 1, Pending' = Pending
  PROVE  BusyCount'
<1>1. Cardinality(Counted') = Cardinality(Counted) - 1
  BY CountedFinite, FS_RemoveElement
<1>2. QED
  BY <1>1, CountedFinite DEF BusyCount, Pending, TypeOK

\* A step that moves a node between the counted places leaves the number.
LEMMA NodesSame ==
  ASSUME TypeOK, BusyCount, Counted' = Counted, m_busy_count' \in Int,
         m_busy_count' + Pending' = m_busy_count + Pending
  PROVE  BusyCount'
  BY CountedFinite DEF BusyCount, Pending, TypeOK

\* The loader raises the counter for the node it has begun to connect.
LEMMA LoaderCount ==
  TypeOK /\ ListInv /\ StartInv /\ BusyCount /\ LoaderNext => BusyCount'
<1> SUFFICES ASSUME TypeOK, ListInv, StartInv, BusyCount, LoaderNext
             PROVE  BusyCount'
  OBVIOUS
<1> USE DEF groupVars, nodeVars, netVars
<1>1. ASSUME NEW p \in Peer, AsyncConnect(p) PROVE BusyCount'
  <2>1. p \notin Counted
    BY <1>1 DEF AsyncConnect, Counted, ListInv, Listed, Connected
  <2>2. Counted' = Counted \cup {p}
    BY <1>1 DEF AsyncConnect, Counted, TypeOK
  <2>3. m_busy_count' + Pending' = m_busy_count + Pending + 1
    BY <1>1 DEF AsyncConnect, Pending, TypeOK
  <2>4. QED
    BY <1>1, <2>1, <2>2, <2>3, NodeAdded DEF AsyncConnect, TypeOK
<1>2. CASE CountBusy
  <2>1. Counted' = Counted
    BY <1>2 DEF CountBusy, Counted
  <2>2. m_busy_count' + Pending' = m_busy_count + Pending
    BY <1>2 DEF CountBusy, Pending, TypeOK
  <2>3. QED
    BY <1>2, <2>1, <2>2, NodesSame DEF CountBusy, TypeOK
<1>3. CASE CheckState
  <2>1. Counted' = Counted
    BY <1>3 DEF CheckState, Counted, StartInv
  <2>2. m_busy_count' = m_busy_count /\ Pending' = Pending
    BY <1>3 DEF CheckState, Pending
  <2>3. QED
    BY <2>1, <2>2, NodesSame DEF TypeOK, Pending
<1>4. CASE ResolveFails
  <2>1. Counted' = Counted
    BY <1>4 DEF ResolveFails, Counted
  <2>2. m_busy_count' = m_busy_count /\ Pending' = Pending
    BY <1>4 DEF ResolveFails, Pending
  <2>3. QED
    BY <2>1, <2>2, NodesSame DEF TypeOK, Pending
<1>5. QED
  BY <1>1, <1>2, <1>3, <1>4 DEF LoaderNext

\* on_connect counts a failed node down and passes the others on.
LEMMA NetCount == TypeOK /\ ListInv /\ BusyCount /\ NetNext => BusyCount'
<1> SUFFICES ASSUME TypeOK, ListInv, BusyCount, NetNext PROVE BusyCount'
  OBVIOUS
<1> USE DEF groupVars, nodeVars, loaderVars, netVars
<1>1. ASSUME NEW p \in Peer, OnConnectError(p) \/ OnConnectThrow(p)
      PROVE  BusyCount'
  <2>1. p \in Counted
    BY <1>1 DEF OnConnectError, OnConnectThrow, Counted
  <2>2. Counted' = Counted \ {p}
    BY <1>1 DEF OnConnectError, OnConnectThrow, Counted, TypeOK, ListInv,
                Listed, Connected
  <2>3. m_busy_count' = m_busy_count - 1 /\ Pending' = Pending
    BY <1>1 DEF OnConnectError, OnConnectThrow, Pending
  <2>4. QED
    BY <2>1, <2>2, <2>3, NodeRemoved
<1>2. ASSUME Counted' = Counted, m_busy_count' = m_busy_count,
             UNCHANGED loaderVars
      PROVE  BusyCount'
  <2>1. Pending' = Pending
    BY <1>2 DEF Pending
  <2>2. QED
    BY <1>2, <2>1, NodesSame DEF TypeOK, Pending
<1>3. ASSUME NEW p \in Peer, OnConnectOk(p) PROVE BusyCount'
  <2>1. Counted' = Counted
    BY <1>3 DEF OnConnectOk, Counted, TypeOK
  <2>2. QED
    BY <1>2, <1>3, <2>1 DEF OnConnectOk
<1>4. CASE PushChecking
  <2>1. Counted' = Counted
    BY <1>4 DEF PushChecking, Counted
  <2>2. QED
    BY <1>2, <1>4, <2>1 DEF PushChecking
<1>5. ASSUME NEW p \in Peer, OnRecvClosed(p) PROVE BusyCount'
  <2>1. Counted' = Counted
    <3>1. \A q \in Peer : m_sk'[q] = "connecting" <=> m_sk[q] = "connecting"
      BY <1>5 DEF OnRecvClosed, TypeOK, ListInv, Connected
    <3>2. QED
      BY <1>5, <3>1 DEF OnRecvClosed, Counted
  <2>2. QED
    BY <1>2, <1>5, <2>1 DEF OnRecvClosed
<1>6. ASSUME NEW p \in Peer, OnRecvVersion(p) PROVE BusyCount'
  <2>1. Counted' = Counted
    BY <1>6 DEF OnRecvVersion, Counted
  <2>2. QED
    BY <1>2, <1>6, <2>1 DEF OnRecvVersion
<1>7. ASSUME NEW k \in Kind, OnRecvReply(k) PROVE BusyCount'
  <2>1. Counted' = Counted
    BY <1>7 DEF OnRecvReply, Counted
  <2>2. QED
    BY <1>2, <1>7, <2>1 DEF OnRecvReply
<1>8. CASE NetRuns
  <2>1. Counted' = Counted
    BY <1>8 DEF NetRuns, NetStart, StampVersion, FilterBlocks, FilterHeaders,
                NetSendHdr, NetSendBody, NetSendFails, Counted
  <2>2. m_busy_count' = m_busy_count /\ UNCHANGED loaderVars
    BY <1>8 DEF NetRuns, NetStart, StampVersion, FilterBlocks, FilterHeaders,
                NetSendHdr, NetSendBody, NetSendFails
  <2>3. QED
    BY <1>2, <2>1, <2>2
<1>9. QED
  BY <1>1, <1>3, <1>4, <1>5, <1>6, <1>7, <1>8
  DEF NetNext, OnConnect, OnRecv

\* pop_idle counts down each node it takes off the checking list, once.
LEMMA UiCount == TypeOK /\ ListInv /\ BusyCount /\ UiNext => BusyCount'
<1> SUFFICES ASSUME TypeOK, ListInv, BusyCount, UiNext PROVE BusyCount'
  OBVIOUS
<1> USE DEF groupVars, nodeVars, loaderVars, netVars
<1>1. ASSUME Counted' = Counted, m_busy_count' = m_busy_count,
             UNCHANGED loaderVars
      PROVE  BusyCount'
  <2>1. Pending' = Pending
    BY <1>1 DEF Pending
  <2>2. QED
    BY <1>1, <2>1, NodesSame DEF TypeOK, Pending
<1>2. ASSUME NEW p \in m_checking_list,
             m_checking_list' = m_checking_list \ {p},
             m_busy_count' = m_busy_count - 1,
             UNCHANGED <<loaderVars, netVars>>,
             \A q \in Peer : m_sk'[q] = "connecting" <=> m_sk[q] = "connecting"
      PROVE  BusyCount'
  <2>1. p \in Counted
    BY DEF Counted
  <2>2. Counted' = Counted \ {p}
    BY <1>2 DEF Counted, TypeOK, ListInv, Listed, Connected
  <2>3. Pending' = Pending
    BY <1>2 DEF Pending
  <2>4. QED
    BY <1>2, <2>1, <2>2, <2>3, NodeRemoved
<1>3. ASSUME NEW p \in Peer, ScanVersion(p) PROVE BusyCount'
  <2>1. p \in m_checking_list
    BY <1>3 DEF ScanVersion, ListInv
  <2>2. QED
    BY <1>2, <1>3, <2>1 DEF ScanVersion
<1>4. CASE ScanTimeout
  <2>1. uiPeer \in m_checking_list /\ uiPeer \in Peer
    BY <1>4 DEF ScanTimeout, ListInv, TypeOK
  <2>2. CASE IsCheckTimeout(uiPeer)
    <3>1. \A q \in Peer : m_sk'[q] = "connecting" <=> m_sk[q] = "connecting"
      BY <1>4, <2>1, <2>2 DEF ScanTimeout, TypeOK, ListInv, Listed, Connected
    <3>2. QED
      BY <1>2, <1>4, <2>1, <2>2, <3>1 DEF ScanTimeout
  <2>3. CASE ~IsCheckTimeout(uiPeer)
    <3>1. Counted' = Counted
      BY <1>4, <2>3 DEF ScanTimeout, Counted
    <3>2. QED
      BY <1>1, <1>4, <2>3, <3>1 DEF ScanTimeout
  <2>4. QED
    BY <2>2, <2>3
<1>5. ASSUME m_checking_list' = m_checking_list, UNCHANGED <<m_sk, netVars>>
      PROVE  Counted' = Counted
  BY <1>5 DEF Counted
<1>6. ASSUME NEW p \in Peer, ScanSilent(p) \/ PickIdle(p) PROVE BusyCount'
  BY <1>1, <1>5, <1>6 DEF ScanSilent, PickIdle
<1>7. CASE PopIdle \/ PickNone \/ Install \/ HookBlock \/ HookHeaders
  BY <1>1, <1>5, <1>7 DEF PopIdle, PickNone, Install, HookBlock, HookHeaders
<1>8. CASE UiSendHdr \/ UiSendBody \/ UiSendFails
  BY <1>1, <1>5, <1>8 DEF UiSendHdr, UiSendBody, UiSendFails
<1>9. QED
  BY <1>3, <1>4, <1>6, <1>7, <1>8 DEF UiNext

\* m_busy_count counts the nodes being connected, pushed or checked, less the
\* one whose connect was issued but not counted yet.
THEOREM BusyCountIsExact == Spec => []BusyCount
<1>1. Init => BusyCount
  <2> SUFFICES ASSUME Init PROVE BusyCount
    OBVIOUS
  <2>1. Counted = {}
    BY DEF Init, Counted
  <2>2. QED
    BY <2>1, FS_EmptySet DEF Init, BusyCount
<1>2. TypeOK /\ ListInv /\ StartInv /\ BusyCount /\ [Next]_vars => BusyCount'
  <2> SUFFICES ASSUME TypeOK, ListInv, StartInv, BusyCount, [Next]_vars
               PROVE  BusyCount'
    OBVIOUS
  <2>1. CASE LoaderNext \/ NetNext \/ UiNext
    BY <2>1, LoaderCount, NetCount, UiCount
  <2>2. CASE Tick \/ UNCHANGED vars
    <3>1. Counted' = Counted /\ Pending' = Pending
          /\ m_busy_count' = m_busy_count
      BY <2>2 DEF Tick, vars, Counted, Pending, groupVars, nodeVars,
                  loaderVars, netVars
    <3>2. QED
      BY <3>1, NodesSame DEF TypeOK, Pending
  <2>3. QED
    BY <2>1, <2>2 DEF Next
<1>3. QED
  BY <1>1, <1>2, TypeCorrect, ListsHold, StartHolds, PTL DEF Spec

----------------------------------------------------------------------------
(* The timeout.                                                            *)

\* A node's start tick is the tick of its true time of creation.
BornInv == \A p \in Peer : m_sk[p] # "none" =>
             /\ born[p] <= now
             /\ m_connect_start_tick[p] = (TickBase + born[p]) % TickMod

\* The start tick of a node is the tick of the true time it was created.
LEMMA BornHolds == Spec => []BornInv
<1> USE DEF groupVars, nodeVars, BornInv, TypeOK
<1>1. Init => BornInv
  BY DEF Init
<1>2. TypeOK /\ ListInv /\ BornInv /\ [Next]_vars => BornInv'
  <2> SUFFICES ASSUME TypeOK, ListInv, BornInv, [Next]_vars PROVE BornInv'
    OBVIOUS
  <2>1. ASSUME NEW p \in Peer, AsyncConnect(p) PROVE BornInv'
    BY <2>1 DEF AsyncConnect, GetTickCount
  <2>2. ASSUME UNCHANGED <<born, m_connect_start_tick, now>>,
               \A p \in Peer : m_sk[p] = "none" => m_sk'[p] = "none"
        PROVE  BornInv'
    BY <2>2
  <2>3. CASE CountBusy \/ CheckState \/ ResolveFails
    BY <2>2, <2>3 DEF CountBusy, CheckState, ResolveFails
  <2>4. CASE NetNext
    <3>1. UNCHANGED <<born, m_connect_start_tick, now>>
      BY <2>4
      DEF NetNext, NetRuns, NetStart, OnConnect, OnConnectError,
          OnConnectThrow, OnConnectOk, PushChecking, OnRecv, OnRecvClosed,
          OnRecvVersion, StampVersion, OnRecvReply, FilterBlocks,
          FilterHeaders, NetSendHdr, NetSendBody, NetSendFails
    <3>2. \A p \in Peer : m_sk[p] = "none" => m_sk'[p] = "none"
      BY <2>4
      DEF NetNext, NetRuns, NetStart, OnConnect, OnConnectError,
          OnConnectThrow, OnConnectOk, PushChecking, OnRecv, OnRecvClosed,
          OnRecvVersion, StampVersion, OnRecvReply, FilterBlocks,
          FilterHeaders, NetSendHdr, NetSendBody, NetSendFails, ListInv,
          Connected
    <3>3. QED
      BY <2>2, <3>1, <3>2
  <2>5. CASE UiNext
    <3>1. UNCHANGED <<born, m_connect_start_tick, now>>
      BY <2>5
      DEF UiNext, PopIdle, ScanVersion, ScanSilent, ScanTimeout, PickIdle,
          PickNone, Install, HookBlock, HookHeaders, UiSendHdr, UiSendBody,
          UiSendFails
    <3>2. \A p \in Peer : m_sk[p] = "none" => m_sk'[p] = "none"
      BY <2>5
      DEF UiNext, PopIdle, ScanVersion, ScanSilent, ScanTimeout, PickIdle,
          PickNone, Install, HookBlock, HookHeaders, UiSendHdr, UiSendBody,
          UiSendFails, ListInv, Listed, Connected
    <3>3. QED
      BY <2>2, <3>1, <3>2
  <2>6. CASE Tick
    BY <2>6 DEF Tick
  <2>7. CASE UNCHANGED vars
    BY <2>7 DEF vars
  <2>8. QED
    BY <2>1, <2>3, <2>4, <2>5, <2>6, <2>7 DEF Next, LoaderNext
<1>3. QED
  BY <1>1, <1>2, TypeCorrect, ListsHold, PTL DEF Spec

\* A node leaves the checking list for the idle one, or after more than
\* CheckTimeout of true time, whatever wraps of the tick lie in between.
THEOREM NoEarlyTimeoutHolds == Spec => NoEarlyTimeout
<1> DEFINE Exit(p) == p \in m_idle' \/ now - born[p] > CheckTimeout
<1>1. ASSUME TypeOK, ListInv, BornInv, [Next]_vars,
             NEW p \in m_checking_list \ m_checking_list'
      PROVE  Exit(p)
  <2> USE DEF groupVars
  <2>1. CASE LoaderNext \/ NetNext \/ Tick \/ UNCHANGED vars
    BY <1>1, <2>1
    DEF LoaderNext, AsyncConnect, CountBusy, CheckState, ResolveFails,
        NetNext, NetRuns, NetStart, OnConnect, OnConnectError, OnConnectThrow, OnConnectOk,
        PushChecking, OnRecv, OnRecvClosed, OnRecvVersion, StampVersion,
        OnRecvReply, FilterBlocks, FilterHeaders, NetSendHdr, NetSendBody,
        NetSendFails, Tick, vars
  <2>2. ASSUME NEW q \in Peer, ScanVersion(q) PROVE Exit(p)
    BY <1>1, <2>2 DEF ScanVersion
  <2>3. CASE ScanTimeout
    <3>1. IsCheckTimeout(uiPeer) /\ p = uiPeer
      BY <1>1, <2>3 DEF ScanTimeout
    <3>2. p \in Peer /\ m_sk[p] # "none"
      BY <1>1 DEF TypeOK, ListInv, Listed, Connected
    <3>3. /\ now \in 0 .. MaxTick /\ born[p] \in 0 .. now
          /\ m_connect_start_tick[p] = (TickBase + born[p]) % TickMod
      BY <1>1, <3>2, TickAssumption DEF TypeOK, BornInv
    <3>4. TickDiff(GetTickCount, m_connect_start_tick[p]) = now - born[p]
      BY <3>3, TickDiffIsTrueTime DEF GetTickCount
    <3>5. QED
      BY <3>1, <3>4 DEF IsCheckTimeout
  <2>4. CASE UiNext /\ ~ScanTimeout /\ ~\E q \in Peer : ScanVersion(q)
    BY <1>1, <2>4
    DEF UiNext, PopIdle, ScanSilent, PickIdle, PickNone, Install, HookBlock,
        HookHeaders, UiSendHdr, UiSendBody, UiSendFails
  <2>5. QED
    BY <1>1, <2>1, <2>2, <2>3, <2>4 DEF Next
<1>2. TypeOK /\ ListInv /\ BornInv /\ [Next]_vars
        => [\A p \in m_checking_list \ m_checking_list' :
              p \in m_idle' \/ now - born[p] > CheckTimeout]_vars
  BY <1>1
<1>3. QED
  BY <1>2, TypeCorrect, ListsHold, BornHolds, PTL DEF Spec, NoEarlyTimeout

----------------------------------------------------------------------------
(* The session.                                                            *)

\* Until the ui thread has stored a node nothing is connected, asked or
\* pending; a reply exists only after the ui thread has finished peer_start.
SessionInv ==
  /\ CurrentPeerServes
  /\ m_pCurrentPeer = NoPeer =>
       /\ uiPc \in {"timer", "scan", "timeout", "install"}
       /\ slots = {} /\ awaited = {} /\ pool = {}
       /\ netPc \notin {"sendHdr", "sendBody"}
  /\ m_pCurrentPeer # NoPeer => uiPc \notin {"scan", "timeout", "install"}
  /\ uiPc = "hookBlock" => slots = {}
  /\ uiPc = "hookHeaders" => slots = {"block"}
  /\ uiPc \in {"sendHdr", "sendBody"} => slots = Kind
  /\ \/ awaited # {} \/ pool # {} \/ netPc \in {"sendHdr", "sendBody"}
     => slots = Kind /\ uiPc = "timer"

\* The session part of the invariant holds in every reachable state.
LEMMA SessionHolds == Spec => []SessionInv
<1> USE DEF groupVars, nodeVars, sessionVars, loaderVars, netVars, uiVars,
            SessionInv, CurrentPeerServes, TypeOK, PeerOrNone
<1>1. Init => SessionInv
  BY DEF Init
<1>2. ASSUME TypeOK, SessionInv, LoaderNext PROVE SessionInv'
  BY <1>2 DEF LoaderNext, AsyncConnect, CountBusy, CheckState, ResolveFails
<1>3. ASSUME TypeOK, SessionInv, NetNext PROVE SessionInv'
  <2>1. ASSUME UNCHANGED <<uiVars, sessionVars, m_working>>,
               netPc' \in {"sendHdr", "sendBody"}
                 => netPc \in {"sendHdr", "sendBody"}
        PROVE  SessionInv'
    BY <1>3, <2>1
  <2>2. CASE NetStart \/ StampVersion \/ PushChecking \/ NetSendHdr
             \/ NetSendFails
    BY <2>1, <2>2 DEF NetStart, StampVersion, PushChecking, NetSendHdr,
                      NetSendFails
  <2>3. ASSUME NEW p \in Peer, OnConnect(p) \/ OnRecv(p) PROVE SessionInv'
    BY <2>1, <2>3 DEF OnConnect, OnConnectError, OnConnectThrow, OnConnectOk,
                      OnRecv, OnRecvClosed, OnRecvVersion
  <2>4. ASSUME NEW k \in Kind, OnRecvReply(k) PROVE SessionInv'
    BY <1>3, <2>4 DEF OnRecvReply
  <2>5. ASSUME NEW p \in Peer, FilterBlocks(p) PROVE SessionInv'
    BY <1>3, <2>5 DEF FilterBlocks
  <2>6. CASE FilterHeaders
    BY <1>3, <2>6 DEF FilterHeaders
  <2>7. CASE NetSendBody
    BY <1>3, <2>7 DEF NetSendBody
  <2>8. QED
    BY <1>3, <2>2, <2>3, <2>4, <2>5, <2>6, <2>7 DEF NetNext, NetRuns
<1>4. ASSUME TypeOK, SessionInv, UiNext PROVE SessionInv'
  <2>1. CASE PopIdle \/ PickNone \/ ScanTimeout
    BY <1>4, <2>1 DEF PopIdle, PickNone, ScanTimeout
  <2>2. ASSUME NEW p \in Peer, ScanVersion(p) \/ ScanSilent(p)
        PROVE  SessionInv'
    BY <1>4, <2>2 DEF ScanVersion, ScanSilent
  <2>3. ASSUME NEW p \in Peer, PickIdle(p) PROVE SessionInv'
    BY <1>4, <2>3 DEF PickIdle
  <2>4. CASE Install
    BY <1>4, <2>4, PeerAssumption DEF Install
  <2>5. CASE HookBlock
    BY <1>4, <2>5 DEF HookBlock
  <2>6. CASE HookHeaders
    BY <1>4, <2>6 DEF HookHeaders, Kind
  <2>7. CASE UiSendHdr \/ UiSendBody \/ UiSendFails
    BY <1>4, <2>7 DEF UiSendHdr, UiSendBody, UiSendFails
  <2>8. QED
    BY <1>4, <2>1, <2>2, <2>3, <2>4, <2>5, <2>6, <2>7 DEF UiNext
<1>5. TypeOK /\ SessionInv /\ [Next]_vars => SessionInv'
  <2>1. ASSUME TypeOK, SessionInv, Tick \/ UNCHANGED vars PROVE SessionInv'
    BY <2>1 DEF Tick, vars
  <2>2. QED
    BY <1>2, <1>3, <1>4, <2>1 DEF Next
<1>6. QED
  BY <1>1, <1>5, TypeCorrect, PTL DEF Spec

\* The only working node is the current one, filter_heads never uses a null
\* m_pCurrentPeer.
THEOREM CurrentPeerServesAlways == Spec => []CurrentPeerServes
<1>1. SessionInv => CurrentPeerServes
  BY DEF SessionInv
<1>2. QED
  BY <1>1, SessionHolds, PTL

\* Nothing the current node may send, or sent, finds a slot missing.
THEOREM RepliesAlwaysHaveSlots == Spec => []RepliesHaveSlots
<1>1. TypeOK /\ SessionInv => RepliesHaveSlots
  BY DEF SessionInv, RepliesHaveSlots
<1>2. QED
  BY <1>1, TypeCorrect, SessionHolds, PTL

\* The two threads never have a package half sent at the same time.
THEOREM PackagesAreNotMixed == Spec => []NoMixedPackages
<1>1. SessionInv => NoMixedPackages
  BY DEF SessionInv, NoMixedPackages
<1>2. QED
  BY <1>1, SessionHolds, PTL

----------------------------------------------------------------------------
(* The life cycle.                                                         *)

\* A step that moves one node p to the stage s and leaves what the stages of
\* the others are read from.
LEMMA StageMoves ==
  ASSUME NEW p \in Peer, NEW s, StageOf(p)' = s,
         \A q \in Peer \ {p} : StageOf(q)' = StageOf(q)
  PROVE  [q \in Peer |-> StageOf(q)]'
           = [[q \in Peer |-> StageOf(q)] EXCEPT ![p] = s]
  OBVIOUS

\* The lists, sockets and threads of the group implement the life cycle.
THEOREM GroupImplementsLifecycle == Spec => ImplementsLifecycle
<1> USE DEF groupVars, nodeVars, sessionVars, loaderVars, netVars, uiVars
<1>1. Init => Lifecycle!Init
  BY DEF Init, Lifecycle!Init, StageOf
<1>2. ASSUME TypeOK, ListInv, StartInv, SessionInv, [Next]_vars
      PROVE  Lifecycle!Next \/ UNCHANGED Lifecycle!vars
  <2> USE DEF Lifecycle!Next
  <2>1. ASSUME NEW p \in Peer, AsyncConnect(p) PROVE Lifecycle!Connect(p)
    <3>1. StageOf(p) = "new" /\ StageOf(p)' = "connecting"
      BY <1>2, <2>1
      DEF AsyncConnect, StageOf, ListInv, Listed, Connected, TypeOK
    <3>2. \A q \in Peer \ {p} : StageOf(q)' = StageOf(q)
      BY <1>2, <2>1 DEF AsyncConnect, StageOf, TypeOK
    <3>3. UNCHANGED m_pDestVersion
      BY <2>1 DEF AsyncConnect
    <3>4. QED
      BY <3>1, <3>2, <3>3, StageMoves DEF Lifecycle!Connect, Lifecycle!Move
  <2>2. CASE CountBusy \/ CheckState \/ ResolveFails
    <3>1. \A q \in Peer : StageOf(q)' = StageOf(q)
      BY <1>2, <2>2
      DEF CountBusy, CheckState, ResolveFails, StageOf, StartInv
    <3>2. UNCHANGED m_pDestVersion
      BY <2>2 DEF CountBusy, CheckState, ResolveFails
    <3>3. QED
      BY <3>1, <3>2 DEF Lifecycle!vars
  <2>3. ASSUME NEW p \in Peer, OnConnectError(p) \/ OnConnectThrow(p)
        PROVE  Lifecycle!GiveUp(p)
    <3>1. StageOf(p) = "connecting" /\ StageOf(p)' = "gone"
      BY <1>2, <2>3
      DEF OnConnectError, OnConnectThrow, StageOf, ListInv, Listed, Connected,
          TypeOK
    <3>2. \A q \in Peer \ {p} : StageOf(q)' = StageOf(q)
      BY <1>2, <2>3 DEF OnConnectError, OnConnectThrow, StageOf, TypeOK
    <3>3. UNCHANGED m_pDestVersion
      BY <2>3 DEF OnConnectError, OnConnectThrow
    <3>4. QED
      BY <3>1, <3>2, <3>3, StageMoves DEF Lifecycle!GiveUp, Lifecycle!Move
  <2>4. ASSUME NEW p \in Peer, OnConnectOk(p) PROVE UNCHANGED Lifecycle!vars
    <3>1. \A q \in Peer : StageOf(q)' = StageOf(q)
      BY <1>2, <2>4
      DEF OnConnectOk, StageOf, ListInv, Listed, Connected, TypeOK
    <3>2. UNCHANGED m_pDestVersion
      BY <2>4 DEF OnConnectOk
    <3>3. QED
      BY <3>1, <3>2 DEF Lifecycle!vars
  <2>5. CASE PushChecking
    <3>1. netPeer \in Peer
      BY <1>2, <2>5 DEF PushChecking, TypeOK
    <3>2. StageOf(netPeer) = "connecting"
      BY <1>2, <2>5 DEF PushChecking, StageOf, ListInv, Listed, Connected
    <3>3. \A p \in Peer : p = netPeer => StageOf(p)' = "checking"
      BY <1>2, <2>5 DEF PushChecking, StageOf, ListInv, Listed
    <3>4. \A q \in Peer \ {netPeer} : StageOf(q)' = StageOf(q)
      BY <1>2, <2>5 DEF PushChecking, StageOf
    <3>5. UNCHANGED m_pDestVersion
      BY <2>5 DEF PushChecking
    <3>6. ASSUME NEW p \in Peer, p = netPeer PROVE Lifecycle!Check(p)
      <4>1. StageOf(p) = "connecting" /\ StageOf(p)' = "checking"
        BY <3>2, <3>3, <3>6
      <4>2. \A q \in Peer \ {p} : StageOf(q)' = StageOf(q)
        BY <3>4, <3>6
      <4>3. QED
        BY <4>1, <4>2, <3>5, StageMoves DEF Lifecycle!Check, Lifecycle!Move
    <3>7. QED
      BY <3>1, <3>6
  <2>6. ASSUME NEW p \in Peer, OnRecvClosed(p) PROVE UNCHANGED Lifecycle!vars
    <3>1. \A q \in Peer : StageOf(q)' = StageOf(q)
      BY <1>2, <2>6 DEF OnRecvClosed, StageOf, ListInv, Connected, TypeOK
    <3>2. UNCHANGED m_pDestVersion
      BY <2>6 DEF OnRecvClosed
    <3>3. QED
      BY <3>1, <3>2 DEF Lifecycle!vars
  <2>7. ASSUME NEW p \in Peer, OnRecvVersion(p) PROVE Lifecycle!Answer(p)
    <3>1. \A q \in Peer : StageOf(q)' = StageOf(q)
      BY <1>2, <2>7 DEF OnRecvVersion, StageOf
    <3>2. StageOf(p) # "new"
      BY <1>2, <2>7 DEF OnRecvVersion, StageOf, ListInv, Connected
    <3>3. m_pDestVersion' = m_pDestVersion \cup {p}
      BY <2>7 DEF OnRecvVersion
    <3>4. QED
      BY <3>1, <3>2, <3>3 DEF Lifecycle!Answer
  <2>8. CASE NetRuns \/ \E k \in Kind : OnRecvReply(k)
    <3>1. \A q \in Peer : StageOf(q)' = StageOf(q)
      BY <1>2, <2>8
      DEF NetRuns, NetStart, StampVersion, FilterBlocks, FilterHeaders,
          NetSendHdr, NetSendBody, NetSendFails, OnRecvReply, StageOf
    <3>2. UNCHANGED m_pDestVersion
      BY <2>8
      DEF NetRuns, NetStart, StampVersion, FilterBlocks, FilterHeaders,
          NetSendHdr, NetSendBody, NetSendFails, OnRecvReply
    <3>3. QED
      BY <3>1, <3>2 DEF Lifecycle!vars
  <2>9. ASSUME NEW p \in Peer, ScanVersion(p) PROVE Lifecycle!Qualify(p)
    <3>1. StageOf(p) = "checking" /\ StageOf(p)' = "ready"
      BY <1>2, <2>9 DEF ScanVersion, StageOf, ListInv, ListedOnce
    <3>2. \A q \in Peer \ {p} : StageOf(q)' = StageOf(q)
      BY <1>2, <2>9 DEF ScanVersion, StageOf
    <3>3. p \in m_pDestVersion /\ UNCHANGED m_pDestVersion
      BY <2>9 DEF ScanVersion
    <3>4. QED
      BY <3>1, <3>2, <3>3, StageMoves DEF Lifecycle!Qualify, Lifecycle!Move
  <2>10. CASE ScanTimeout /\ IsCheckTimeout(uiPeer)
    <3>1. uiPeer \in Peer
      BY <1>2, <2>10 DEF ScanTimeout, TypeOK
    <3>2. ASSUME NEW p \in Peer, p = uiPeer PROVE Lifecycle!GiveUp(p)
      <4>1. StageOf(p) = "checking"
        BY <1>2, <2>10, <3>2
        DEF ScanTimeout, StageOf, ListInv, ListedOnce
      <4>2. StageOf(p)' = "gone"
        BY <1>2, <2>10, <3>2
        DEF ScanTimeout, StageOf, ListInv, ListedOnce, Listed, TypeOK
      <4>3. \A q \in Peer \ {p} : StageOf(q)' = StageOf(q)
        BY <1>2, <2>10, <3>2 DEF ScanTimeout, StageOf, TypeOK
      <4>4. UNCHANGED m_pDestVersion
        BY <2>10 DEF ScanTimeout
      <4>5. QED
        BY <4>1, <4>2, <4>3, <4>4, StageMoves
        DEF Lifecycle!GiveUp, Lifecycle!Move
    <3>3. QED
      BY <3>1, <3>2
  <2>11. ASSUME NEW p \in Peer, PickIdle(p) PROVE Lifecycle!Serve(p)
    <3>1. m_working = {}
      BY <1>2, <2>11 DEF PickIdle, SessionInv, CurrentPeerServes
    <3>2. \A q \in Peer : StageOf(q) # "serving"
      BY <3>1 DEF StageOf
    <3>3. StageOf(p) = "ready" /\ StageOf(p)' = "serving"
      BY <1>2, <2>11, <3>1 DEF PickIdle, StageOf
    <3>4. \A q \in Peer \ {p} : StageOf(q)' = StageOf(q)
      BY <1>2, <2>11 DEF PickIdle, StageOf
    <3>5. UNCHANGED m_pDestVersion
      BY <2>11 DEF PickIdle
    <3>6. QED
      BY <3>2, <3>3, <3>4, <3>5, StageMoves DEF Lifecycle!Serve, Lifecycle!Move
  <2>12. ASSUME \/ PopIdle \/ PickNone \/ Install \/ HookBlock \/ HookHeaders
                \/ UiSendHdr \/ UiSendBody \/ UiSendFails \/ Tick
                \/ UNCHANGED vars
                \/ ScanTimeout /\ ~IsCheckTimeout(uiPeer)
                \/ \E p \in Peer : ScanSilent(p)
         PROVE  UNCHANGED Lifecycle!vars
    <3>1. /\ UNCHANGED <<m_checking_list, m_idle, m_working, m_sk, netPc,
                         netPeer, m_pDestVersion>>
      BY <2>12
      DEF PopIdle, PickNone, Install, HookBlock, HookHeaders, UiSendHdr,
          UiSendBody, UiSendFails, Tick, vars, ScanTimeout, ScanSilent
    <3>2. \A q \in Peer : StageOf(q)' = StageOf(q)
      BY <3>1 DEF StageOf
    <3>3. QED
      BY <3>1, <3>2 DEF Lifecycle!vars
  <2>13. QED
    BY <1>2, <2>1, <2>2, <2>3, <2>4, <2>5, <2>6, <2>7, <2>8, <2>9, <2>10,
       <2>11, <2>12
    DEF Next, LoaderNext, NetNext, OnConnect, OnRecv, UiNext
<1>3. QED
  BY <1>1, <1>2, TypeCorrect, ListsHold, StartHolds, SessionHolds, PTL
  DEF Spec, ImplementsLifecycle, Lifecycle!Spec
=============================================================================
