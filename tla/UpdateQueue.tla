---------------------------- MODULE UpdateQueue ----------------------------
(***************************************************************************)
(* What the update pump promises its readers, with nothing said about how. *)
(*                                                                         *)
(* Updates are numbered 1, 2, ... in the order the sender pool accepted    *)
(* them.  A receipt always hands over the one update that follows the last *)
(* receipt: nothing is lost, handed over twice or overtaken, whoever       *)
(* receives it and however many waits have given up in between.  Closing   *)
(* ends the accepting; what was accepted may still be received.            *)
(***************************************************************************)
EXTENDS Naturals

VARIABLES
    accepted,   \* how many updates were accepted so far
    got,        \* the last update that was received
    open        \* FALSE once the queue is closed

vars == <<accepted, got, open>>

Init == accepted = 0 /\ got = 0 /\ open = TRUE

Accept  == open /\ accepted' = accepted + 1 /\ UNCHANGED <<got, open>>
Receive == got < accepted /\ got' = got + 1 /\ UNCHANGED <<accepted, open>>
Close   == open /\ open' = FALSE /\ UNCHANGED <<accepted, got>>

Next == Accept \/ Receive \/ Close

Spec == Init /\ [][Next]_vars
=============================================================================
