------------------------------ MODULE PeerGroup ------------------------------
(***************************************************************************)
(* CPeerGroup and CPeerNode of coin_peer.cpp with the two callers that     *)
(* drive them, CUserContext::modal() and CWorkContext::peer_start() of     *)
(* coin_kernel.cpp.  Three threads share the group:                        *)
(*                                                                         *)
(*   loader  CUserContext::load_db -> async_connect, once per endpoint     *)
(*   net     CPeerGroup::domodal, which runs every asio handler and then   *)
(*           filter_modal of the working nodes                             *)
(*   ui      the MFC timer: modal -> pop_idle -> peer_start                *)
(*                                                                         *)
(* m_mutex guards the push of a checked node and all of pop_idle; nothing  *)
(* else is locked, so each thread steps on its own between two accesses    *)
(* to what it shares.  The order of a std::list matters only as a          *)
(* tie-break, so the three lists are sets.  What the messages carry is the *)
(* business of ChainSync: here a message is only its kind.                 *)
(*                                                                         *)
(* The remote node is asked nothing but what the protocol lets it answer:  *)
(* it sends its version once, and blocks or headers only in reply to a     *)
(* request of which both parts (header and body) were sent.                *)
(***************************************************************************)
EXTENDS Integers, FiniteSets

CONSTANTS Peer,            \* the endpoints the DNS seeds return
          NoPeer,          \* the null m_pCurrentPeer
          TickMod,         \* GetTickCount() is a UINT: 2^32
          TickBase,        \* the tick at which the program starts
          CheckTimeout,    \* the 60*1000 of IsCheckTimeout
          MaxTick,         \* bound: how long the system is watched
          LastConnect      \* bound: no connection is begun after this time

ASSUME PeerAssumption == IsFiniteSet(Peer) /\ NoPeer \notin Peer

\* The system may run across a wrap of the tick counter, but is watched for
\* less than a whole turn of it (49.7 days).
ASSUME TickAssumption == /\ TickMod \in Nat \ {0}
                         /\ TickBase \in 0 .. TickMod - 1
                         /\ CheckTimeout \in Nat
                         /\ MaxTick \in 0 .. TickMod - 1
                         /\ LastConnect \in Nat

VARIABLES
  m_checking_list, m_idle, m_working,  \* the lists of CPeerGroup
  m_busy_count,
  m_is_start,
  m_sk,                  \* [Peer -> state of the node's socket]
  receiving,             \* the nodes with a receive pending
  m_pDestVersion,        \* the nodes whose version pointer is set
  m_connect_start_tick, m_ver_finish_tick,   \* [Peer -> UINT]
  m_pCurrentPeer,        \* of CWorkContext
  slots,                 \* the signals of that node peer_start connected
  awaited,               \* what that node may still send in reply
  pool,                  \* its m_block_pool, m_headers_pool: those not empty
  now, born,             \* true time, and the true time a node was created
  loaderPc, loaderPeer,
  netPc, netPeer, netKind,
  uiPc, uiPeer, uiTodo

groupVars   == <<m_checking_list, m_idle, m_working, m_busy_count>>
nodeVars    == <<m_sk, receiving, m_pDestVersion, m_connect_start_tick,
                 m_ver_finish_tick, born>>
sessionVars == <<m_pCurrentPeer, slots, awaited, pool>>
loaderVars  == <<loaderPc, loaderPeer, m_is_start>>
netVars     == <<netPc, netPeer, netKind>>
uiVars      == <<uiPc, uiPeer, uiTodo>>
vars == <<groupVars, nodeVars, sessionVars, loaderVars, netVars, uiVars, now>>

Kind == {"block", "headers"}
PeerOrNone == Peer \cup {NoPeer}

----------------------------------------------------------------------------
(* Time: 32-bit ticks, compared after an unsigned subtraction.             *)

GetTickCount == (TickBase + now) % TickMod
TickDiff(a, b) == (a - b) % TickMod

IsCheckTimeoutDeadline(p) ==      \* mutated form: compared with a deadline
  /\ m_ver_finish_tick[p] = 0
  /\ GetTickCount > (m_connect_start_tick[p] + CheckTimeout) % TickMod
IsCheckTimeoutSigned(p) ==        \* mutated form: a signed difference
  /\ m_ver_finish_tick[p] = 0
  /\ GetTickCount - m_connect_start_tick[p] > CheckTimeout
IsCheckTimeout(p) ==
  /\ m_ver_finish_tick[p] = 0
  /\ TickDiff(GetTickCount, m_connect_start_tick[p]) > CheckTimeout

\* A node without a finish tick answers (size_t)-1, more than any difference.
GetDelaySpeed(p) ==
  IF m_ver_finish_tick[p] > 0
  THEN TickDiff(m_ver_finish_tick[p], m_connect_start_tick[p])
  ELSE TickMod

\* pop_idle holds m_mutex from its scan to its choice.
MutexFree == uiPc \notin {"scan", "timeout"}

----------------------------------------------------------------------------
Init ==
  /\ m_checking_list = {} /\ m_idle = {} /\ m_working = {}
  /\ m_busy_count = 0
  /\ m_is_start = FALSE
  /\ m_sk = [p \in Peer |-> "none"]
  /\ receiving = {} /\ m_pDestVersion = {}
  /\ m_connect_start_tick = [p \in Peer |-> 0]
  /\ m_ver_finish_tick = [p \in Peer |-> 0]
  /\ m_pCurrentPeer = NoPeer
  /\ slots = {} /\ awaited = {} /\ pool = {}
  /\ now = 0 /\ born = [p \in Peer |-> 0]
  /\ loaderPc = "next" /\ loaderPeer = NoPeer
  /\ netPc = "off" /\ netPeer = NoPeer /\ netKind = "getheaders"
  /\ uiPc = "timer" /\ uiPeer = NoPeer /\ uiTodo = {}

----------------------------------------------------------------------------
(* loader: async_connect, the counter only after the connect was issued.   *)

AsyncConnectUncounted(p) ==       \* mutated form: counted by on_connect
  /\ loaderPc = "next"
  /\ m_sk[p] = "none"
  /\ now <= LastConnect
  /\ m_sk' = [m_sk EXCEPT ![p] = "connecting"]
  /\ m_connect_start_tick' = [m_connect_start_tick EXCEPT ![p] = GetTickCount]
  /\ born' = [born EXCEPT ![p] = now]
  /\ loaderPc' = "state" /\ loaderPeer' = p
  /\ UNCHANGED <<receiving, m_pDestVersion, m_ver_finish_tick, m_is_start,
                 groupVars, sessionVars, netVars, uiVars, now>>
AsyncConnect(p) ==
  /\ loaderPc = "next"
  /\ m_sk[p] = "none"
  /\ now <= LastConnect
  /\ m_sk' = [m_sk EXCEPT ![p] = "connecting"]
  /\ m_connect_start_tick' = [m_connect_start_tick EXCEPT ![p] = GetTickCount]
  /\ born' = [born EXCEPT ![p] = now]
  /\ loaderPc' = "count" /\ loaderPeer' = p
  /\ UNCHANGED <<receiving, m_pDestVersion, m_ver_finish_tick, m_is_start,
                 groupVars, sessionVars, netVars, uiVars, now>>

CountBusy ==
  /\ loaderPc = "count"
  /\ m_busy_count' = m_busy_count + 1
  /\ loaderPc' = "state"
  /\ UNCHANGED <<m_checking_list, m_idle, m_working, loaderPeer, m_is_start,
                 nodeVars, sessionVars, netVars, uiVars, now>>

CheckState ==
  /\ loaderPc = "state"
  /\ netPc' = IF m_is_start THEN netPc ELSE "start"
  /\ m_is_start' = TRUE
  /\ loaderPc' = "next" /\ loaderPeer' = NoPeer
  /\ UNCHANGED <<netPeer, netKind, groupVars, nodeVars, sessionVars, uiVars, now>>

\* A seed does not resolve: the exception leaves the thread function of
\* load_db, and that ends the process.
ResolveFails ==
  /\ loaderPc = "next" /\ loaderPc' = "dead"
  /\ UNCHANGED <<loaderPeer, m_is_start, groupVars, nodeVars, sessionVars,
                 netVars, uiVars, now>>

LoaderNext == \/ \E p \in Peer : AsyncConnect(p)
              \/ CountBusy \/ CheckState \/ ResolveFails

----------------------------------------------------------------------------
(* net: the handlers poll_one runs.                                        *)

\* domodal entered, past its assertion.
NetStart ==
  /\ netPc = "start" /\ netPc' = "poll"
  /\ UNCHANGED <<netPeer, netKind, groupVars, nodeVars, sessionVars,
                 loaderVars, uiVars, now>>

\* on_connect with an error code.
OnConnectError(p) ==
  /\ netPc = "poll" /\ m_sk[p] = "connecting"
  /\ m_sk' = [m_sk EXCEPT ![p] = "closed"]
  /\ m_busy_count' = m_busy_count - 1
  /\ UNCHANGED <<m_checking_list, m_idle, m_working, receiving, m_pDestVersion,
                 m_connect_start_tick, m_ver_finish_tick, born, sessionVars,
                 loaderVars, netVars, uiVars, now>>

\* on_connect whose start_check throws after async_recv: the node is on no
\* list, but its pending receive keeps it and its socket alive.
OnConnectThrowKept(p) ==          \* mutated form: the catch does not count down
  /\ netPc = "poll" /\ m_sk[p] = "connecting"
  /\ m_sk' = [m_sk EXCEPT ![p] = "open"]
  /\ receiving' = receiving \cup {p}
  /\ UNCHANGED <<m_pDestVersion, m_connect_start_tick, m_ver_finish_tick, born,
                 groupVars, sessionVars, loaderVars, netVars, uiVars, now>>
OnConnectThrow(p) ==
  /\ netPc = "poll" /\ m_sk[p] = "connecting"
  /\ m_sk' = [m_sk EXCEPT ![p] = "open"]
  /\ receiving' = receiving \cup {p}
  /\ m_busy_count' = m_busy_count - 1
  /\ UNCHANGED <<m_checking_list, m_idle, m_working, m_pDestVersion,
                 m_connect_start_tick, m_ver_finish_tick, born, sessionVars,
                 loaderVars, netVars, uiVars, now>>

\* on_connect up to the lock: start_check armed the receive and sent version.
OnConnectOk(p) ==
  /\ netPc = "poll" /\ m_sk[p] = "connecting"
  /\ m_sk' = [m_sk EXCEPT ![p] = "open"]
  /\ receiving' = receiving \cup {p}
  /\ netPc' = "push" /\ netPeer' = p
  /\ UNCHANGED <<m_pDestVersion, m_connect_start_tick, m_ver_finish_tick, born,
                 netKind, groupVars, sessionVars, loaderVars, uiVars, now>>

PushChecking ==
  /\ netPc = "push" /\ MutexFree
  /\ m_checking_list' = m_checking_list \cup {netPeer}
  /\ netPc' = "poll" /\ netPeer' = NoPeer
  /\ UNCHANGED <<m_idle, m_working, m_busy_count, netKind, nodeVars,
                 sessionVars, loaderVars, uiVars, now>>

\* on_recv with an error or no data; also the abort after a timeout's close.
OnRecvClosed(p) ==
  /\ netPc = "poll" /\ p \in receiving
  /\ m_sk' = [m_sk EXCEPT ![p] = "closed"]
  /\ receiving' = receiving \ {p}
  /\ UNCHANGED <<m_pDestVersion, m_connect_start_tick, m_ver_finish_tick, born,
                 groupVars, sessionVars, loaderVars, netVars, uiVars, now>>

\* on_recv parses "version": first the pointer, then (StampVersion) the tick.
\* Data already received is still parsed after a timeout closed the socket.
OnRecvVersion(p) ==
  /\ netPc = "poll" /\ p \in receiving /\ p \notin m_pDestVersion
  /\ m_pDestVersion' = m_pDestVersion \cup {p}
  /\ netPc' = "stamp" /\ netPeer' = p
  /\ UNCHANGED <<m_sk, receiving, m_connect_start_tick, m_ver_finish_tick, born,
                 netKind, groupVars, sessionVars, loaderVars, uiVars, now>>

StampVersionDelay ==              \* mutated form: the difference is stored
  /\ netPc = "stamp"
  /\ m_ver_finish_tick' = [m_ver_finish_tick EXCEPT
       ![netPeer] = GetTickCount - m_connect_start_tick[netPeer]]
  /\ netPc' = "poll" /\ netPeer' = NoPeer
  /\ UNCHANGED <<m_sk, receiving, m_pDestVersion, m_connect_start_tick, born,
                 netKind, groupVars, sessionVars, loaderVars, uiVars, now>>
StampVersion ==
  /\ netPc = "stamp"
  /\ m_ver_finish_tick' = [m_ver_finish_tick EXCEPT ![netPeer] = GetTickCount]
  /\ netPc' = "poll" /\ netPeer' = NoPeer
  /\ UNCHANGED <<m_sk, receiving, m_pDestVersion, m_connect_start_tick, born,
                 netKind, groupVars, sessionVars, loaderVars, uiVars, now>>

\* on_recv parses "block" or "headers"; an empty headers message is dropped.
\* A getdata is answered by any number of blocks, a getheaders by one message.
OnRecvReply(k) ==
  /\ netPc = "poll" /\ k \in awaited /\ m_pCurrentPeer \in receiving
  /\ awaited' \in IF k = "block" THEN {awaited, awaited \ {k}}
                                 ELSE {awaited \ {k}}
  /\ pool' \in IF k = "block" THEN {pool \cup {k}} ELSE {pool, pool \cup {k}}
  /\ UNCHANGED <<m_pCurrentPeer, slots, groupVars, nodeVars, loaderVars,
                 netVars, uiVars, now>>

----------------------------------------------------------------------------
(* net: filter_modal, which hands the pools to the connected slots.        *)

\* m_working is read without m_mutex.  First all blocks, to filter_block
\* (which sends nothing).
FilterBlocks(p) ==
  /\ netPc = "poll" /\ p \in m_working
  /\ pool' = pool \ {"block"}
  /\ netPc' = "filter" /\ netPeer' = p
  /\ UNCHANGED <<m_pCurrentPeer, slots, awaited, netKind, groupVars, nodeVars,
                 loaderVars, uiVars, now>>

\* Then the headers: a message with no slot to take it is lost; filter_heads
\* asks for the blocks it wants, if any, and then for the next headers.
FilterHeaders ==
  /\ netPc = "filter"
  /\ pool' = pool \ {"headers"}
  /\ netPeer' = NoPeer
  /\ IF "headers" \in pool /\ "headers" \in slots
     THEN netPc' = "sendHdr" /\ netKind' \in {"getdata", "getheaders"}
     ELSE netPc' = "poll" /\ UNCHANGED netKind
  /\ UNCHANGED <<m_pCurrentPeer, slots, awaited, groupVars, nodeVars,
                 loaderVars, uiVars, now>>

\* send_package makes two sends, the message header and the body.
NetSendHdr ==
  /\ netPc = "sendHdr" /\ m_sk[m_pCurrentPeer] = "open"
  /\ netPc' = "sendBody"
  /\ UNCHANGED <<netPeer, netKind, groupVars, nodeVars, sessionVars,
                 loaderVars, uiVars, now>>

NetSendBody ==
  /\ netPc = "sendBody" /\ m_sk[m_pCurrentPeer] = "open"
  /\ awaited' = awaited \cup {IF netKind = "getdata" THEN "block" ELSE "headers"}
  /\ netPc' = IF netKind = "getdata" THEN "sendHdr" ELSE "poll"
  /\ netKind' = "getheaders"
  /\ UNCHANGED <<m_pCurrentPeer, slots, pool, netPeer, groupVars, nodeVars,
                 loaderVars, uiVars, now>>

\* A send may find the connection closed, or broken though not closed yet;
\* domodal catches the exception and whatever was left to do is lost.
NetSendFails ==
  /\ netPc \in {"sendHdr", "sendBody"}
  /\ netPc' = "poll" /\ netKind' = "getheaders"
  /\ UNCHANGED <<netPeer, groupVars, nodeVars, sessionVars, loaderVars,
                 uiVars, now>>

OnConnect(p) == OnConnectError(p) \/ OnConnectThrow(p) \/ OnConnectOk(p)
OnRecv(p) == OnRecvClosed(p) \/ OnRecvVersion(p)
NetRuns == \/ NetStart \/ StampVersion
           \/ (\E p \in Peer : FilterBlocks(p)) \/ FilterHeaders
           \/ NetSendHdr \/ NetSendBody \/ NetSendFails
NetNext == \/ NetRuns \/ PushChecking
           \/ \E p \in Peer : OnConnect(p) \/ OnRecv(p)
           \/ \E k \in Kind : OnRecvReply(k)

----------------------------------------------------------------------------
(* ui: modal() while there is no current peer.                             *)

\* The timer fires and pop_idle takes m_mutex.
PopIdleAlways ==                  \* mutated form: with a current peer too
  /\ uiPc = "timer"
  /\ uiPc' = "scan" /\ uiTodo' = m_checking_list
  /\ UNCHANGED <<uiPeer, groupVars, nodeVars, sessionVars, loaderVars, netVars,
                 now>>
PopIdle ==
  /\ uiPc = "timer" /\ m_pCurrentPeer = NoPeer
  /\ uiPc' = "scan" /\ uiTodo' = m_checking_list
  /\ UNCHANGED <<uiPeer, groupVars, nodeVars, sessionVars, loaderVars, netVars,
                 now>>

ScanVersionKeeps(p) ==            \* mutated form: not erased
  /\ uiPc = "scan" /\ p \in uiTodo /\ p \in m_pDestVersion
  /\ m_idle' = m_idle \cup {p}
  /\ m_busy_count' = m_busy_count - 1
  /\ uiTodo' = uiTodo \ {p}
  /\ UNCHANGED <<m_checking_list, m_working, uiPc, uiPeer, nodeVars,
                 sessionVars, loaderVars, netVars, now>>
ScanVersion(p) ==
  /\ uiPc = "scan" /\ p \in uiTodo /\ p \in m_pDestVersion
  /\ m_idle' = m_idle \cup {p}
  /\ m_checking_list' = m_checking_list \ {p}
  /\ m_busy_count' = m_busy_count - 1
  /\ uiTodo' = uiTodo \ {p}
  /\ UNCHANGED <<m_working, uiPc, uiPeer, nodeVars, sessionVars, loaderVars,
                 netVars, now>>

\* GetDestVersion() was null; the version may arrive before the next test.
ScanSilent(p) ==
  /\ uiPc = "scan" /\ p \in uiTodo /\ p \notin m_pDestVersion
  /\ uiPc' = "timeout" /\ uiPeer' = p
  /\ UNCHANGED <<uiTodo, groupVars, nodeVars, sessionVars, loaderVars, netVars,
                 now>>

ScanTimeout ==
  /\ uiPc = "timeout"
  /\ uiPc' = "scan" /\ uiPeer' = NoPeer /\ uiTodo' = uiTodo \ {uiPeer}
  /\ IF IsCheckTimeout(uiPeer)
     THEN /\ m_busy_count' = m_busy_count - 1
          /\ m_checking_list' = m_checking_list \ {uiPeer}
          /\ m_sk' = [m_sk EXCEPT ![uiPeer] = "closed"]
     ELSE UNCHANGED <<m_busy_count, m_checking_list, m_sk>>
  /\ UNCHANGED <<m_idle, m_working, receiving, m_pDestVersion,
                 m_connect_start_tick, m_ver_finish_tick, born, sessionVars,
                 loaderVars, netVars, now>>

\* The scan is over: the idle node with the shortest handshake, any of them
\* on a tie, becomes a working one and m_mutex is released.
PickIdleStamped(p) ==             \* mutated form: the minimum starts at (size_t)-1
  /\ uiPc = "scan" /\ uiTodo = {} /\ p \in m_idle
  /\ GetDelaySpeed(p) < TickMod
  /\ \A q \in m_idle : GetDelaySpeed(p) <= GetDelaySpeed(q)
  /\ m_working' = m_working \cup {p}
  /\ m_idle' = m_idle \ {p}
  /\ uiPc' = "install" /\ uiPeer' = p
  /\ UNCHANGED <<m_checking_list, m_busy_count, uiTodo, nodeVars, sessionVars,
                 loaderVars, netVars, now>>
PickIdle(p) ==
  /\ uiPc = "scan" /\ uiTodo = {} /\ p \in m_idle
  /\ \A q \in m_idle : GetDelaySpeed(p) <= GetDelaySpeed(q)
  /\ m_working' = m_working \cup {p}
  /\ m_idle' = m_idle \ {p}
  /\ uiPc' = "install" /\ uiPeer' = p
  /\ UNCHANGED <<m_checking_list, m_busy_count, uiTodo, nodeVars, sessionVars,
                 loaderVars, netVars, now>>

PickNone ==
  /\ uiPc = "scan" /\ uiTodo = {} /\ m_idle = {}
  /\ uiPc' = "timer"
  /\ UNCHANGED <<uiPeer, uiTodo, groupVars, nodeVars, sessionVars, loaderVars,
                 netVars, now>>

\* modal() stores the node, peer_start connects the two slots and then asks
\* for headers.
Install ==
  /\ uiPc = "install"
  /\ m_pCurrentPeer' = uiPeer
  /\ uiPc' = "hookBlock" /\ uiPeer' = NoPeer
  /\ UNCHANGED <<slots, awaited, pool, uiTodo, groupVars, nodeVars, loaderVars,
                 netVars, now>>

HookBlock ==
  /\ uiPc = "hookBlock" /\ uiPc' = "hookHeaders"
  /\ slots' = slots \cup {"block"}
  /\ UNCHANGED <<m_pCurrentPeer, awaited, pool, uiPeer, uiTodo, groupVars,
                 nodeVars, loaderVars, netVars, now>>

HookHeadersSkipped ==             \* mutated form: the request goes out first
  /\ uiPc = "hookHeaders" /\ uiPc' = "sendHdr"
  /\ UNCHANGED <<uiPeer, uiTodo, groupVars, nodeVars, sessionVars, loaderVars,
                 netVars, now>>
HookHeaders ==
  /\ uiPc = "hookHeaders" /\ uiPc' = "sendHdr"
  /\ slots' = slots \cup {"headers"}
  /\ UNCHANGED <<m_pCurrentPeer, awaited, pool, uiPeer, uiTodo, groupVars,
                 nodeVars, loaderVars, netVars, now>>

UiSendHdr ==
  /\ uiPc = "sendHdr" /\ m_sk[m_pCurrentPeer] = "open"
  /\ uiPc' = "sendBody"
  /\ UNCHANGED <<uiPeer, uiTodo, groupVars, nodeVars, sessionVars, loaderVars,
                 netVars, now>>

UiSendBody ==
  /\ uiPc = "sendBody" /\ m_sk[m_pCurrentPeer] = "open"
  /\ awaited' = awaited \cup {"headers"}
  /\ uiPc' = "timer"
  /\ UNCHANGED <<m_pCurrentPeer, slots, pool, uiPeer, uiTodo, groupVars,
                 nodeVars, loaderVars, netVars, now>>

\* Nothing between the send and the message loop catches the exception: the
\* process ends.
UiSendFails ==
  /\ uiPc \in {"sendHdr", "sendBody"}
  /\ uiPc' = "dead"
  /\ UNCHANGED <<uiPeer, uiTodo, groupVars, nodeVars, sessionVars, loaderVars,
                 netVars, now>>

UiNext == \/ PopIdle
          \/ \E p \in Peer : ScanVersion(p) \/ ScanSilent(p) \/ PickIdle(p)
          \/ ScanTimeout \/ PickNone
          \/ Install \/ HookBlock \/ HookHeaders
          \/ UiSendHdr \/ UiSendBody \/ UiSendFails

----------------------------------------------------------------------------
Tick == /\ now < MaxTick /\ now' = now + 1
        /\ UNCHANGED <<groupVars, nodeVars, sessionVars, loaderVars, netVars,
                       uiVars>>

Alive == uiPc # "dead" /\ loaderPc # "dead"

Next == Alive /\ (LoaderNext \/ NetNext \/ UiNext \/ Tick)

Spec == Init /\ [][Next]_vars

(* The threads keep running and the ticks keep coming.  The operating      *)
(* system completes every connect, and the net thread drains poll_one and  *)
(* gets the mutex that the ui holds once in 5 seconds; both compete with   *)
(* other steps of the same thread or the same lock, hence the strong       *)
(* fairness.  Nothing is assumed of the remote nodes.                      *)
Fairness == /\ WF_vars(Alive /\ (CountBusy \/ CheckState))
            /\ WF_vars(Alive /\ NetRuns)
            /\ SF_vars(Alive /\ PushChecking)
            /\ \A p \in Peer : SF_vars(Alive /\ OnConnect(p))
            /\ WF_vars(Alive /\ UiNext)
            /\ WF_vars(Alive /\ Tick)

FairSpec == Spec /\ Fairness

----------------------------------------------------------------------------
(* Properties.                                                             *)

Ticks == 0 .. TickMod - 1

TypeOK ==
  /\ m_checking_list \subseteq Peer /\ m_idle \subseteq Peer
  /\ m_working \subseteq Peer
  /\ m_busy_count \in Int
  /\ m_is_start \in BOOLEAN
  /\ m_sk \in [Peer -> {"none", "connecting", "open", "closed"}]
  /\ receiving \subseteq Peer /\ m_pDestVersion \subseteq Peer
  /\ m_connect_start_tick \in [Peer -> Ticks]
  /\ m_ver_finish_tick \in [Peer -> Ticks]
  /\ m_pCurrentPeer \in PeerOrNone
  /\ slots \subseteq Kind /\ awaited \subseteq Kind /\ pool \subseteq Kind
  /\ now \in 0 .. MaxTick /\ born \in [Peer -> 0 .. MaxTick]
  /\ loaderPc \in {"next", "count", "state", "dead"} /\ loaderPeer \in PeerOrNone
  /\ netPc \in {"off", "start", "poll", "push", "stamp", "filter", "sendHdr",
                "sendBody"}
  /\ netPeer \in PeerOrNone /\ netKind \in {"getdata", "getheaders"}
  /\ uiPc \in {"timer", "scan", "timeout", "install", "hookBlock",
               "hookHeaders", "sendHdr", "sendBody", "dead"}
  /\ uiPeer \in PeerOrNone /\ uiTodo \subseteq Peer
  /\ (uiPc \in {"timeout", "install"}) => uiPeer \in Peer
  /\ (netPc \in {"push", "stamp", "filter"}) => netPeer \in Peer

(* The asserted promise of m_busy_count: it is the number of nodes still   *)
(* being connected, pushed or checked, although it is raised only after    *)
(* the connect was issued and lowered by two threads at four places.       *)
Counted == {p \in Peer : m_sk[p] = "connecting"}
             \cup m_checking_list
             \cup IF netPc = "push" THEN {netPeer} ELSE {}
BusyCount ==
  m_busy_count = Cardinality(Counted) - IF loaderPc = "count" THEN 1 ELSE 0

(* The two assertions of m_busy_count > 0, in check_state when it is about *)
(* to start the thread and at the entry of domodal in the new thread.      *)
StartAsserts ==
  \/ netPc = "start"
  \/ loaderPc = "state" /\ ~m_is_start
  => m_busy_count > 0

(* No node is on two lists, and a node that may be used told its version:  *)
(* pop_idle moves nodes while on_connect pushes and on_recv writes.        *)
ListedOnce ==
  /\ m_checking_list \cap m_idle = {}
  /\ (m_checking_list \cup m_idle) \cap m_working = {}
  /\ m_idle \cup m_working \subseteq m_pDestVersion

(* pop_idle drops a silent node only when its 60 s are really over, also   *)
(* when GetTickCount wraps in between; otherwise a node leaves the         *)
(* checking list for the idle one.                                         *)
NoEarlyTimeout ==
  [][\A p \in m_checking_list \ m_checking_list' :
       p \in m_idle' \/ now - born[p] > CheckTimeout]_vars

(* What the current node may still send, or has sent, has a slot to take   *)
(* it: filter_modal of a working node never drops a block or headers.      *)
RepliesHaveSlots == (awaited \cup pool # {}) => slots = Kind

(* filter_heads uses m_pCurrentPeer, not the node whose headers it gets:   *)
(* it is the same node, the only working one, once peer_start has run.     *)
CurrentPeerServes ==
  /\ m_working = (IF m_pCurrentPeer = NoPeer THEN {} ELSE {m_pCurrentPeer})
                   \cup IF uiPc = "install" THEN {uiPeer} ELSE {}
  /\ netPc \in {"sendHdr", "sendBody"} => m_pCurrentPeer \in Peer

(* No lock guards send_package, which makes two sends: the header and body *)
(* of one thread are never mixed with those of the other.                  *)
NoMixedPackages == ~(/\ netPc \in {"sendHdr", "sendBody"}
                     /\ uiPc \in {"sendHdr", "sendBody"})

(* The assertion of send_package, m_sk.is_open(), at each of its calls by  *)
(* peer_start and by filter_heads.                                         *)
SendOnOpenSocket ==
  "sendHdr" \in {uiPc, netPc} => m_sk[m_pCurrentPeer] = "open"

(* The group implements the life cycle of PeerLifecycle.                   *)
StageOf(p) ==
  IF p \in m_working THEN "serving"
  ELSE IF p \in m_idle THEN "ready"
  ELSE IF p \in m_checking_list THEN "checking"
  ELSE IF m_sk[p] = "none" THEN "new"
  ELSE IF m_sk[p] = "connecting" \/ (netPc = "push" /\ netPeer = p)
  THEN "connecting"
  ELSE "gone"
Lifecycle == INSTANCE PeerLifecycle WITH
               stage <- [p \in Peer |-> StageOf(p)], answered <- m_pDestVersion
ImplementsLifecycle == Lifecycle!Spec

SessionOrEnd == m_pCurrentPeer # NoPeer \/ ~Alive

(* Every connection that was begun is settled: the node qualifies or is    *)
(* given up, unless another node got the session (pop_idle is not called   *)
(* any more) or the process ended.                                         *)
ConnectionsSettle ==
  \A p \in Peer : StageOf(p) \in {"connecting", "checking"}
                   ~> \/ StageOf(p) \in {"ready", "serving", "gone"}
                      \/ SessionOrEnd

(* A node under check that told its version is enough for a session: some  *)
(* node becomes the current one.  The exception is a version that arrives  *)
(* between the two tests of pop_idle: a node whose time is up is dropped   *)
(* although its version is there.                                          *)
VersionLeadsToSession ==
  \A p \in Peer :
    /\ p \in m_checking_list \cap m_pDestVersion
    /\ ~(uiPc = "timeout" /\ uiPeer = p)
    ~> SessionOrEnd
=============================================================================
