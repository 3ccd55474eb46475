---------------------------- MODULE ClientShutdown ----------------------------
(***************************************************************************)
(* Closing a client under its update loop (InternalTelegramClient.kt):      *)
(*                                                                         *)
(*     if (!closed) { closed = true; updateLoop.stop(); bridge.close() }    *)
(*                                                                         *)
(* Whoever may start and stop the loop may close the client, its callback   *)
(* included.  closed is a plain field: a thread that did not set it itself  *)
(* may find it unset at any time, so several may get past it.  Once the     *)
(* bridge is closed a poll throws, which ends the loop that made it.        *)
(***************************************************************************)
EXTENDS UpdateLoop

CONSTANT Closers    \* the threads that may close the client

ASSUME CloserAssumption == Closers \subseteq Threads

VARIABLES
    closedBy,   \* the threads that have set the closed flag
    closing,    \* per thread: where its close is
    bridge,     \* "open" or "closed"
    before      \* history, per thread: loops started when its close was called

closeVars == <<closedBy, closing, bridge, before>>
clientVars == <<vars, closeVars>>

ClientTypeOK ==
    /\ TypeOK
    /\ closedBy \subseteq Closers
    /\ closing \in [Threads -> {"no", "stopping", "bridge"}]
    /\ bridge \in {"open", "closed"}
    /\ before \in [Threads -> 0..MaxStarts]

ClientInit ==
    /\ Init
    /\ closedBy = {}
    /\ closing = [t \in Threads |-> "no"]
    /\ bridge = "open"
    /\ before = [t \in Threads |-> 0]

\* The flag is found unset and set, and stop is called.  A close that finds it set
\* does nothing, and does not wait for the one that set it.
Close(t) ==
    /\ t \in Closers \ closedBy
    /\ CallStop(t)
    /\ closedBy' = closedBy \cup {t}
    /\ closing' = [closing EXCEPT ![t] = "stopping"]
    /\ before' = [before EXCEPT ![t] = started]
    /\ UNCHANGED bridge

\* The stop made by a close returns: at once, or after its join.
StopOfClose(t) ==
    /\ closing[t] = "stopping"
    /\ SetStopped(t) \/ ClearThread(t)
    /\ closing' = [closing EXCEPT ![t] = IF pc'[t] = "idle" THEN "bridge" ELSE "stopping"]
    /\ UNCHANGED <<closedBy, bridge, before>>

\* Faulty: the interrupt is swallowed and the bridge closed all the same.
CloseOnInterrupt(t) ==
    /\ closing[t] = "stopping"
    /\ JoinInterrupted(t)
    /\ closing' = [closing EXCEPT ![t] = "bridge"]
    /\ UNCHANGED <<closedBy, bridge, before>>

\* The closing thread is interrupted in the join: close throws, the flag stays set
\* and the bridge open.
CloseInterrupted(t) ==
    /\ closing[t] = "stopping"
    /\ JoinInterrupted(t)
    /\ closing' = [closing EXCEPT ![t] = "no"]
    /\ before' = [before EXCEPT ![t] = 0]
    /\ UNCHANGED <<closedBy, bridge>>

CloseBridge(t) ==
    /\ closing[t] = "bridge"
    /\ bridge' = "closed"
    /\ closing' = [closing EXCEPT ![t] = "no"]
    /\ before' = [before EXCEPT ![t] = 0]
    /\ UNCHANGED <<closedBy, vars>>

\* Calls other than close, by a thread that is not closing.
Call(t) ==
    /\ closing[t] = "no"
    /\ CallStart(t) \/ CallStop(t) \/ SetStopped(t) \/ ClearThread(t) \/ JoinInterrupted(t)
    /\ UNCHANGED closeVars

\* The steps of start and stop that mean nothing to a close.
Within(t) ==
    /\ Enter(t) \/ StartRefused(t) \/ StartLoop(t) \/ Join(t)
    /\ UNCHANGED closeVars

\* Faulty: a poll of a closed bridge finds nothing, again and again.
PollClosedQuietly(w) ==
    /\ Poll(w)
    /\ bridge = "closed" => loop'[w] = "checking"
    /\ UNCHANGED closeVars

PollBridge(w) ==
    /\ Poll(w)
    /\ bridge = "closed" => loop'[w] = "failing"
    /\ UNCHANGED closeVars

\* The caller's code returns when the close it called has.
CallbackReturns(w) ==
    /\ closing[w] = "no"
    /\ CallbackEnds(w) \/ ReportEnds(w)
    /\ UNCHANGED closeVars

LoopGoesOn(w) == (Check(w) \/ RecordFailure(w)) /\ UNCHANGED closeVars

ClientApiStep(t) ==
    \/ Within(t)
    \/ StopOfClose(t)
    \/ CloseBridge(t)
    \/ closing[t] = "no" /\ (SetStopped(t) \/ ClearThread(t)) /\ UNCHANGED closeVars

ClientLoopStep(w) == LoopGoesOn(w) \/ PollBridge(w) \/ CallbackReturns(w)

ClientNext ==
    \/ \E t \in Threads : Call(t) \/ Close(t) \/ CloseInterrupted(t) \/ ClientApiStep(t)
    \/ \E w \in Loops : ClientLoopStep(w)

ClientSpec == ClientInit /\ [][ClientNext]_clientVars

\* As for the loop alone: threads go on, the caller's code returns, and those who
\* wait for the monitor get it.
ClientFairness ==
    /\ \A t \in Threads : SF_clientVars(ClientApiStep(t))
    /\ \A w \in Loops : SF_clientVars(ClientLoopStep(w))

FairClientSpec == ClientSpec /\ ClientFairness

(* --- Properties --------------------------------------------------------- *)

\* The bridge is closed under no loop: those started before the close was called
\* are dead by the time its stop has returned, but for the one whose own callback
\* made the call.
StoppedBeforeClosed ==
    \A t \in Threads : closing[t] = "bridge" =>
      \A w \in Loops : w <= before[t] /\ w # t => ~Alive(w)

\* No loop holds a closed client for good: one that was started while the client
\* was being closed, or whose callback closed it, ends by itself.
ClosedClientIsLetGo ==
    \A w \in Loops : bridge = "closed" /\ Alive(w) ~> ~Alive(w)
===============================================================================
