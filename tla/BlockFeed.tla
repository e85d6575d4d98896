------------------------------ MODULE BlockFeed ------------------------------
(***************************************************************************)
(* What the synchronisation promises to the wallet: the blocks of the      *)
(* remote chain are fed to filter_block one at a time, in chain order,     *)
(* each once, and none is left out but those older than a block fed before *)
(* (or than the time the wallet starts at).  How headers are batched, when *)
(* the next ones are asked for and what is in flight does not show.        *)
(* ChainSync implements this module.                                       *)
(***************************************************************************)
EXTENDS Integers, Sequences, Functions

CONSTANTS MaxHeight, Times

VARIABLES nTime,       \* the time of each block; the chain does not change
          startTime,   \* last_block_time when the session starts
          tip,         \* the height of the remote chain
          fed          \* the blocks fed so far, in the order they were

vars == <<nTime, startTime, tip, fed>>

Heights == 1 .. MaxHeight

\* As young as the start and as every block before it.
Due(h) == /\ nTime[h] >= startTime
          /\ \A g \in 1 .. h - 1 : nTime[g] <= nTime[h]

Init == /\ nTime \in [Heights -> Times]
        /\ startTime \in Times
        /\ tip \in 0 .. MaxHeight
        /\ fed = <<>>

Mine == /\ tip < MaxHeight
        /\ tip' = tip + 1
        /\ UNCHANGED <<nTime, startTime, fed>>

Feed == /\ \E h \in 1 .. tip :
             /\ Due(h)
             /\ \A g \in Range(fed) : g < h
             /\ \A g \in 1 .. h - 1 : Due(g) => g \in Range(fed)
             /\ fed' = Append(fed, h)
        /\ UNCHANGED <<nTime, startTime, tip>>

Next == Mine \/ Feed

Spec == Init /\ [][Next]_vars
=============================================================================
