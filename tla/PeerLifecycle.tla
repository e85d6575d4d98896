--------------------------- MODULE PeerLifecycle ---------------------------
(***************************************************************************)
(* What a CPeerGroup promises about the remote nodes it talks to, without  *)
(* its lists, its lock, its counters or its threads: every endpoint walks  *)
(* forward through the stages of a connection, only a node that told its   *)
(* version is ever used, and at most one node ever serves the wallet.      *)
(* PeerGroup implements this module.                                       *)
(***************************************************************************)
CONSTANT Peer

VARIABLES stage,     \* the stage of each endpoint
          answered   \* the endpoints whose version message has arrived

vars == <<stage, answered>>

Stage == {"new", "connecting", "checking", "ready", "serving", "gone"}

TypeOK == /\ stage \in [Peer -> Stage]
          /\ answered \subseteq Peer

Move(p, from, to) == stage[p] \in from /\ stage' = [stage EXCEPT ![p] = to]

Init == /\ stage = [p \in Peer |-> "new"]
        /\ answered = {}

Connect(p) == Move(p, {"new"}, "connecting") /\ UNCHANGED answered

\* The version may come before the node is even put on the checking list.
Answer(p) == /\ stage[p] # "new"
             /\ answered' = answered \cup {p}
             /\ UNCHANGED stage

Check(p) == Move(p, {"connecting"}, "checking") /\ UNCHANGED answered

Qualify(p) == /\ p \in answered
              /\ Move(p, {"checking"}, "ready")
              /\ UNCHANGED answered

\* Only a connection in progress or a silent node is given up: a node that
\* qualified stays, whatever happens to its socket.
GiveUp(p) == Move(p, {"connecting", "checking"}, "gone") /\ UNCHANGED answered

Serve(p) == /\ \A q \in Peer : stage[q] # "serving"
            /\ Move(p, {"ready"}, "serving")
            /\ UNCHANGED answered

Next == \E p \in Peer : \/ Connect(p)
                        \/ Answer(p)
                        \/ Check(p)
                        \/ Qualify(p)
                        \/ GiveUp(p)
                        \/ Serve(p)

Spec == Init /\ [][Next]_vars
=============================================================================
