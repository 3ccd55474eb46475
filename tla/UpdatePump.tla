----------------------------- MODULE UpdatePump -----------------------------
(***************************************************************************)
(* The update pump of one client (native/src/update_pump/mod.rs).          *)
(*                                                                         *)
(* One task owns grammers' update stream.  It alternates between carrying  *)
(* out the queued sync requests and one poll of the stream, and puts the   *)
(* result of every poll into an unbounded channel, the handoff.  JVM       *)
(* threads read the handoff one at a time, behind one lock, and give up    *)
(* when their wait runs out.  Closing the client aborts the task.          *)
(*                                                                         *)
(* Updates are numbered in the order the sender pool accepted them.  The   *)
(* pool and the stream are grammers' (external): a batch is taken off the  *)
(* pool's channel, held while its peers are resolved, and only then in the *)
(* stream's own buffer.                                                    *)
(***************************************************************************)
EXTENDS Naturals, Sequences, FiniteSets

CONSTANTS
    Readers,        \* threads calling nextUpdate and nextRawUpdate
    Syncers,        \* threads calling syncUpdateState
    PoolCapacity,   \* how many updates the pool's channel holds
    MaxUpdates,     \* bound: updates the pool accepts
    MaxErrors,      \* bound: poll errors that may sit in the handoff unread
    MaxCommands,    \* bound: sync requests that may sit in the queue
    Nobody,         \* a sync request whose caller stopped waiting
    NoRequest       \* no sync request is being carried out

ASSUME PumpAssumption ==
    /\ PoolCapacity \in Nat \ {0}
    /\ MaxUpdates \in Nat
    /\ MaxErrors \in Nat
    /\ MaxCommands \in Nat
    /\ Nobody \notin Syncers
    /\ NoRequest \notin Syncers \cup {Nobody}

VARIABLES
    accepted,   \* updates the pool has accepted so far
    pool,       \* the pool's channel
    held,       \* the batch a poll has taken and is resolving the peers of
    buffer,     \* the stream's own buffer
    handed,     \* the last update a poll returned
    handoff,    \* the channel readers receive from: updates and poll errors
    got,        \* the last update a reader received
    line,       \* readers at the handoff's lock; its head holds the lock
    phase,      \* what the pump task is doing
    commands,   \* queued sync requests, each named by its caller
    performing, \* the sync request being carried out
    sync,       \* per syncer: waiting, or how its last call ended
    since,      \* per syncer: the last update received when its call began
    saved,      \* the last update the written update state covers
    stop        \* progress of UpdatePump::stop

pumpVars   == <<handed, phase, performing>>
streamVars == <<accepted, pool, held, buffer>>
readVars   == <<handoff, got, line>>
syncVars   == <<commands, sync, since, saved>>
vars == <<accepted, pool, held, buffer, handed, handoff, got, line, phase,
          commands, performing, sync, since, saved, stop>>

\* A failed poll, in the handoff.  Updates are numbered from 1.
PollError == 0

Phases    == {"draining", "syncing", "polling", "resolving", "gone"}
SyncState == {"idle", "waiting", "written", "failed", "busy", "noPump"}
StopState == {"running", "aborted", "stopped", "timedOut"}

TypeOK ==
    /\ accepted \in Nat /\ handed \in Nat /\ got \in Nat /\ saved \in Nat
    /\ pool \in Seq(Nat) /\ held \in Seq(Nat) /\ buffer \in Seq(Nat)
    /\ handoff \in Seq(Nat)
    /\ line \in Seq(Readers)
    /\ phase \in Phases
    /\ commands \in Seq(Syncers \cup {Nobody})
    /\ performing \in Syncers \cup {Nobody, NoRequest}
    /\ sync \in [Syncers -> SyncState]
    /\ since \in [Syncers -> Nat]
    /\ stop \in StopState

Init ==
    /\ accepted = 0 /\ handed = 0 /\ got = 0 /\ saved = 0
    /\ pool = <<>> /\ held = <<>> /\ buffer = <<>> /\ handoff = <<>>
    /\ line = <<>>
    /\ phase = "draining"
    /\ commands = <<>>
    /\ performing = NoRequest
    /\ sync = [s \in Syncers |-> "idle"]
    /\ since = [s \in Syncers |-> 0]
    /\ stop = "running"

Elements(s) == {s[i] : i \in DOMAIN s}

-----------------------------------------------------------------------------
(* grammers: the sender pool and the update stream.                        *)

\* The pool forwards an update.  One that finds the channel full is dropped
\* and changes nothing, so it is not numbered and not an action.
Accept ==
    /\ accepted < MaxUpdates
    /\ Len(pool) < PoolCapacity
    /\ phase # "gone"
    /\ accepted' = accepted + 1
    /\ pool' = Append(pool, accepted + 1)
    /\ UNCHANGED <<held, buffer, stop>>
    /\ UNCHANGED pumpVars /\ UNCHANGED readVars /\ UNCHANGED syncVars

\* The last update the stream's state covers: all it has taken off the pool.
Built == handed + Len(buffer) + Len(held)

-----------------------------------------------------------------------------
(* The pump task: run, around the closure UpdatePump::start gives it.      *)

\* Faulty: requests are also looked at while a batch's peers are resolved.
TakeCommandDuringPoll ==
    /\ phase \in {"draining", "resolving"}
    /\ commands # <<>>
    /\ performing' = Head(commands)
    /\ commands' = Tail(commands)
    /\ phase' = "syncing"
    /\ UNCHANGED <<handed, sync, since, saved, stop>>
    /\ UNCHANGED streamVars /\ UNCHANGED readVars

\* try_recv finds a sync request: grammers starts writing the update state.
TakeCommand ==
    /\ phase = "draining"
    /\ commands # <<>>
    /\ performing' = Head(commands)
    /\ commands' = Tail(commands)
    /\ phase' = "syncing"
    /\ UNCHANGED <<handed, sync, since, saved, stop>>
    /\ UNCHANGED streamVars /\ UNCHANGED readVars

\* The caller of the request hears r, unless it has stopped waiting.
Answer(r) ==
    sync' = [s \in Syncers |-> IF s = performing THEN r ELSE sync[s]]

\* Faulty: a failed write is answered like a successful one.
FinishSyncUnchecked ==
    /\ phase = "syncing"
    /\ saved' \in {saved, Built} /\ Answer("written")
    /\ performing' = NoRequest
    /\ phase' = "draining"
    /\ UNCHANGED <<handed, commands, since, stop>>
    /\ UNCHANGED streamVars /\ UNCHANGED readVars

\* The state is written, or the write fails, and the caller is answered.
FinishSync ==
    /\ phase = "syncing"
    /\ \/ saved' = Built /\ Answer("written")
       \/ saved' = saved /\ Answer("failed")
    /\ performing' = NoRequest
    /\ phase' = "draining"
    /\ UNCHANGED <<handed, commands, since, stop>>
    /\ UNCHANGED streamVars /\ UNCHANGED readVars

\* Faulty: the stream is only polled on behalf of a waiting reader.
StartPollOnDemand ==
    /\ phase = "draining"
    /\ commands = <<>>
    /\ line # <<>>
    /\ phase' = "polling"
    /\ UNCHANGED <<handed, performing, stop>>
    /\ UNCHANGED streamVars /\ UNCHANGED readVars /\ UNCHANGED syncVars

\* try_recv finds nothing more: the pump polls the stream.
StartPoll ==
    /\ phase = "draining"
    /\ commands = <<>>
    /\ phase' = "polling"
    /\ UNCHANGED <<handed, performing, stop>>
    /\ UNCHANGED streamVars /\ UNCHANGED readVars /\ UNCHANGED syncVars

\* The poll takes the next n updates, one batch, off the pool's channel.
TakeBatch(n) ==
    /\ phase = "polling"
    /\ buffer = <<>>
    /\ held' = SubSeq(pool, 1, n)
    /\ pool' = SubSeq(pool, n + 1, Len(pool))
    /\ phase' = "resolving"
    /\ UNCHANGED <<accepted, buffer, handed, performing, stop>>
    /\ UNCHANGED readVars /\ UNCHANGED syncVars

\* The batch's peers are resolved and it reaches the stream's buffer.
Resolve ==
    /\ phase = "resolving"
    /\ buffer' = held
    /\ held' = <<>>
    /\ phase' = "polling"
    /\ UNCHANGED <<accepted, pool, handed, performing, stop>>
    /\ UNCHANGED readVars /\ UNCHANGED syncVars

\* The poll returns an update, which run sends to the handoff.
HandOver ==
    /\ phase = "polling"
    /\ buffer # <<>>
    /\ handed' = Head(buffer)
    /\ buffer' = Tail(buffer)
    /\ handoff' = Append(handoff, Head(buffer))
    /\ phase' = "draining"
    /\ UNCHANGED <<accepted, pool, held, performing, got, line, stop>>
    /\ UNCHANGED syncVars

\* The poll fails, and run sends the error to the handoff like any result.
FailPoll ==
    /\ phase = "polling"
    /\ buffer = <<>>
    /\ Cardinality({i \in DOMAIN handoff : handoff[i] = PollError}) < MaxErrors
    /\ handoff' = Append(handoff, PollError)
    /\ phase' = "draining"
    /\ UNCHANGED <<handed, performing, got, line, stop>>
    /\ UNCHANGED streamVars /\ UNCHANGED syncVars

\* Faulty: the task is asked to finish between two polls, not aborted.
TaskGoneBetweenPolls ==
    /\ stop # "running"
    /\ phase = "draining"
    /\ phase' = "gone"
    /\ pool' = <<>> /\ held' = <<>> /\ buffer' = <<>>
    /\ commands' = <<>>
    /\ performing' = NoRequest
    /\ sync' = [s \in Syncers |-> IF sync[s] = "waiting" THEN "noPump" ELSE sync[s]]
    /\ UNCHANGED <<accepted, handed, since, saved, stop>>
    /\ UNCHANGED readVars

\* Faulty: what the handoff still holds goes with the task.
TaskGoneWithHandoff ==
    /\ stop # "running"
    /\ phase # "gone"
    /\ phase' = "gone"
    /\ pool' = <<>> /\ held' = <<>> /\ buffer' = <<>> /\ handoff' = <<>>
    /\ commands' = <<>>
    /\ performing' = NoRequest
    /\ sync' = [s \in Syncers |-> IF sync[s] = "waiting" THEN "noPump" ELSE sync[s]]
    /\ UNCHANGED <<accepted, handed, got, line, since, saved, stop>>

\* Everything the task owned is dropped: the batch and the buffer of the
\* stream, the queued requests with their replies, and the handoff's sending
\* end.  Dropping the stream may write the update state (UpdatesApi.kt says
\* that grammers does, the comment on stop_task that it is untouched), and a
\* write cut short may have reached the session.  A poll that finds an update
\* buffered returns it without a yield to stop at.
TaskGone ==
    /\ stop # "running"
    /\ phase # "gone"
    /\ phase = "polling" => buffer = <<>>
    /\ phase' = "gone"
    /\ pool' = <<>> /\ held' = <<>> /\ buffer' = <<>>
    /\ commands' = <<>>
    /\ performing' = NoRequest
    /\ sync' = [s \in Syncers |-> IF sync[s] = "waiting" THEN "noPump" ELSE sync[s]]
    /\ saved' \in {saved, Built}
    /\ UNCHANGED <<accepted, handed, since, stop>>
    /\ UNCHANGED readVars

-----------------------------------------------------------------------------
(* UpdatePump::stop, which close_client calls once.                        *)

Abort ==
    /\ stop = "running"
    /\ stop' = "aborted"
    /\ UNCHANGED streamVars /\ UNCHANGED pumpVars
    /\ UNCHANGED readVars /\ UNCHANGED syncVars

\* stop returns, because the task let go or because SHUTDOWN_WAIT ran out.
StopReturns ==
    /\ stop = "aborted"
    /\ stop' = IF phase = "gone" THEN "stopped" ELSE "timedOut"
    /\ UNCHANGED streamVars /\ UNCHANGED pumpVars
    /\ UNCHANGED readVars /\ UNCHANGED syncVars

-----------------------------------------------------------------------------
(* Handoff::next, for nextUpdate and nextRawUpdate.                        *)

\* A reader queues for the handoff's lock, which tokio grants in order.
CallNext(r) ==
    /\ r \notin Elements(line)
    /\ line' = Append(line, r)
    /\ UNCHANGED <<handoff, got, stop>>
    /\ UNCHANGED streamVars /\ UNCHANGED pumpVars /\ UNCHANGED syncVars

\* Faulty: a reader whose wait has ended takes the update and drops it.
ReceiveOrDrop ==
    /\ line # <<>>
    /\ handoff # <<>>
    /\ got' \in {got} \cup ({Head(handoff)} \ {PollError})
    /\ handoff' = Tail(handoff)
    /\ line' = Tail(line)
    /\ UNCHANGED stop
    /\ UNCHANGED streamVars /\ UNCHANGED pumpVars /\ UNCHANGED syncVars

\* The reader holding the lock receives what the handoff holds first.
Receive ==
    /\ line # <<>>
    /\ handoff # <<>>
    /\ got' = IF Head(handoff) = PollError THEN got ELSE Head(handoff)
    /\ handoff' = Tail(handoff)
    /\ line' = Tail(line)
    /\ UNCHANGED stop
    /\ UNCHANGED streamVars /\ UNCHANGED pumpVars /\ UNCHANGED syncVars

\* Faulty: the wait is on grammers' poll itself and its end cancels the poll.
GiveUpCancellingPoll ==
    /\ line # <<>>
    /\ handoff = <<>>
    /\ phase = "resolving"
    /\ phase' = "draining"
    /\ held' = <<>>
    /\ line' = Tail(line)
    /\ UNCHANGED <<accepted, pool, buffer, handed, performing, handoff, got, stop>>
    /\ UNCHANGED syncVars

\* Faulty: the wait for an update has no end.
GiveUpNever == FALSE /\ UNCHANGED vars

\* Its wait runs out.  The channel is looked at before the clock, so this
\* happens only while the handoff is empty; the reader answers None.
GiveUp ==
    /\ line # <<>>
    /\ handoff = <<>>
    /\ phase # "gone"
    /\ line' = Tail(line)
    /\ UNCHANGED <<handoff, got, stop>>
    /\ UNCHANGED streamVars /\ UNCHANGED pumpVars /\ UNCHANGED syncVars

\* The pump is gone and the handoff is drained, so recv ends with None.
ReadClosed ==
    /\ line # <<>>
    /\ handoff = <<>>
    /\ phase = "gone"
    /\ line' = Tail(line)
    /\ UNCHANGED <<handoff, got, stop>>
    /\ UNCHANGED streamVars /\ UNCHANGED pumpVars /\ UNCHANGED syncVars

-----------------------------------------------------------------------------
(* UpdatePump::sync_update_state.                                          *)

\* The request is queued; with the task gone there is no queue to take it.
CallSync(s) ==
    /\ sync[s] # "waiting"
    /\ since' = [since EXCEPT ![s] = got]
    /\ \/ /\ phase # "gone"
          /\ Len(commands) < MaxCommands
          /\ commands' = Append(commands, s)
          /\ sync' = [sync EXCEPT ![s] = "waiting"]
       \/ /\ phase = "gone"
          /\ commands' = commands
          /\ sync' = [sync EXCEPT ![s] = "noPump"]
    /\ UNCHANGED <<saved, stop>>
    /\ UNCHANGED streamVars /\ UNCHANGED pumpVars /\ UNCHANGED readVars

\* Faulty: the wait for the answer has no end.
GiveUpSyncNever(s) == s \in {} /\ UNCHANGED vars

\* Faulty: the request stays in its caller's name.
GiveUpSyncStale(s) ==
    /\ sync[s] = "waiting"
    /\ sync' = [sync EXCEPT ![s] = "busy"]
    /\ UNCHANGED <<handed, phase, performing, commands, since, saved, stop>>
    /\ UNCHANGED streamVars /\ UNCHANGED readVars

\* SYNC_WAIT runs out.  The request stays queued, or in progress, and will
\* be carried out with nobody to hear of it.
GiveUpSync(s) ==
    /\ sync[s] = "waiting"
    /\ sync' = [sync EXCEPT ![s] = "busy"]
    /\ commands' = [i \in DOMAIN commands |->
                      IF commands[i] = s THEN Nobody ELSE commands[i]]
    /\ performing' = IF performing = s THEN Nobody ELSE performing
    /\ UNCHANGED <<handed, phase, since, saved, stop>>
    /\ UNCHANGED streamVars /\ UNCHANGED readVars

-----------------------------------------------------------------------------
PumpStep ==
    \/ TakeCommand \/ FinishSync \/ StartPoll
    \/ \E n \in 1..Len(pool) : TakeBatch(n)
    \/ Resolve \/ HandOver \/ FailPoll

ReadStep == Receive \/ GiveUp \/ ReadClosed

Next ==
    \/ Accept
    \/ PumpStep
    \/ TaskGone \/ Abort \/ StopReturns
    \/ \E r \in Readers : CallNext(r)
    \/ ReadStep
    \/ \E s \in Syncers : CallSync(s) \/ GiveUpSync(s)

Spec == Init /\ [][Next]_vars

(* What the code's scheduling gives: the runtime keeps running the task,   *)
(* an abort takes effect at some yield, timers fire, and the lock's holder *)
(* runs.  Strong fairness where the other outcome of a wait could win for  *)
(* ever: grammers does not fail every poll while a batch is waiting, and   *)
(* an aborted task does not only ever sit where it has no yield.           *)
Fairness ==
    /\ WF_vars(PumpStep)
    /\ SF_vars(\E n \in 1..Len(pool) : TakeBatch(n))
    /\ SF_vars(TaskGone)
    /\ WF_vars(StopReturns)
    /\ WF_vars(ReadStep)
    /\ \A s \in Syncers : WF_vars(GiveUpSync(s))

FairSpec == Spec /\ Fairness

-----------------------------------------------------------------------------
(* Properties.                                                             *)

\* The pump is an update queue: each receipt hands over exactly the update
\* after the last one received, whatever the polls, the failed polls, the
\* waits that gave up and the sync requests in between.
Queue == INSTANCE UpdateQueue WITH open <- phase # "gone"
ImplementsQueue == Queue!Spec

\* While the task runs, every accepted update nobody has received is still
\* somewhere: in the handoff, the stream's buffer, the batch a poll holds or
\* the pool.  Giving up a wait, failing a poll or carrying out a request
\* between two polls loses none.
NothingLost ==
    phase # "gone" =>
        \A n \in got + 1 .. accepted :
            n \in UNION {Elements(handoff), Elements(buffer), Elements(held), Elements(pool)}

\* An update a poll has returned can be received even after the task was
\* aborted: the handoff holds all of them, in order, until they are read.
HandoffComplete ==
    /\ \A n \in got + 1 .. handed : n \in Elements(handoff)
    /\ \A i, j \in DOMAIN handoff :
          i < j /\ handoff[i] # PollError /\ handoff[j] # PollError
            => handoff[i] < handoff[j]

\* An abort loses an update for good if the handoff does not hold it and the
\* written state covers it, so that Telegram is not asked for it again.  Those
\* are updates of the stream's buffer, which a sync before the abort covered;
\* never one of the pool, and one of the batch in a poll's hands only if the
\* abort itself wrote the state: a sync is carried out between two polls.
AbortSparesPoolAndHandoff ==
    [][phase # "gone" /\ phase' = "gone" =>
         \A n \in got + 1 .. accepted :
            n <= saved' /\ n \notin Elements(handoff') =>
              \/ n \in Elements(buffer)
              \/ n \in Elements(held) /\ saved' # saved]_vars

\* A sync that reports success has written a state that covers every update
\* received before the call was made, also when an earlier request of the
\* same caller had timed out and was carried out late.
SyncCoversReceived ==
    \A s \in Syncers : sync[s] = "written" => since[s] <= saved

\* A waiting caller has exactly one request on its way and nobody else has
\* one in its name, so it is answered once and by its own request.
RequestsMatchWaiters ==
    \A s \in Syncers :
        Cardinality({i \in DOMAIN commands : commands[i] = s})
          + (IF performing = s THEN 1 ELSE 0)
        = (IF sync[s] = "waiting" THEN 1 ELSE 0)

\* A read returns: its wait and the waits before it at the lock all end.
ReadReturns ==
    \A r \in Readers : (r \in Elements(line)) ~> (r \notin Elements(line))

\* A sync call returns on a quiet stream and on a stopped pump as well.
SyncReturns ==
    \A s \in Syncers : (sync[s] = "waiting") ~> (sync[s] # "waiting")

\* Pumping from the start: with no reader at all, every accepted update
\* leaves the pool's bounded channel for the unbounded handoff.  This needs
\* sync requests to end: the drain loop takes those that arrive during it.
SyncsEnd == <>[][\A s \in Syncers : ~CallSync(s)]_vars
PoolIsDrained ==
    SyncsEnd => \A n \in 1..MaxUpdates : (accepted >= n) ~> (handed >= n \/ phase = "gone")

\* An aborted task lets go of the stream.
AbortTakesEffect == (stop # "running") ~> (phase = "gone")
=============================================================================
