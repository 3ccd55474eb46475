----------------------------- MODULE UpdateLoop -----------------------------
(***************************************************************************)
(* The background thread that dispatches updates (UpdateLoop.kt).          *)
(*                                                                         *)
(* Application threads start and stop the loop; so may the loop's thread   *)
(* itself, from its update callback or its error handler.  start and stop  *)
(* share one monitor, which stop lets go of while it joins the thread.     *)
(* Loop threads are numbered in the order they were started.               *)
(***************************************************************************)
EXTENDS Naturals, FiniteSets

CONSTANTS
    Callers,    \* application threads
    MaxStarts,  \* bound: loop threads ever started
    Free        \* the monitor is not held

Loops   == 1..MaxStarts
Threads == Callers \cup Loops

ASSUME LoopAssumption ==
    /\ MaxStarts \in Nat
    /\ Callers \cap Nat = {}
    /\ Free \notin Threads

VARIABLES
    lock,        \* who holds the monitor
    stopped,     \* the stop flag
    thread,      \* the loop thread last started, NoThread once a stop cleared it
    lastFailure, \* the loop thread whose failure is kept, or NoThread
    started,     \* how many loop threads were started
    loop,        \* per loop thread: where run is
    pc,          \* per thread: where its call of start or stop is
    seen,        \* per thread: the loop thread its stop is about
    asked,       \* history: loop threads a stop was requested of, or that
                 \*   could not be created
    threw,       \* history: loop threads that ended in a failure
    mark,        \* history, per thread: loops started when its last stop began
    joined       \* history: threads whose last stop returned after a join

apiVars == <<lock, pc, seen, mark, joined>>
vars == <<lock, stopped, thread, lastFailure, started, loop, pc, seen, asked,
          threw, mark, joined>>

NoThread == 0

LoopState == {"unborn", "checking", "polling", "calling", "failing", "reporting", "dead"}
PcState   == {"idle", "startLock", "startIn", "stopLock", "stopIn", "joining",
              "clearLock", "clearIn"}

Alive(w) == w # NoThread /\ loop[w] \notin {"unborn", "dead"}

TypeOK ==
    /\ lock \in Threads \cup {Free}
    /\ stopped \in BOOLEAN
    /\ thread \in Loops \cup {NoThread}
    /\ lastFailure \in Loops \cup {NoThread}
    /\ started \in 0..MaxStarts
    /\ loop \in [Loops -> LoopState]
    /\ pc \in [Threads -> PcState]
    /\ seen \in [Threads -> Loops \cup {NoThread}]
    /\ asked \subseteq Loops
    /\ threw \subseteq Loops
    /\ mark \in [Threads -> 0..MaxStarts]
    /\ joined \subseteq Threads

Init ==
    /\ lock = Free
    /\ stopped = FALSE
    /\ thread = NoThread
    /\ lastFailure = NoThread
    /\ started = 0
    /\ loop = [w \in Loops |-> "unborn"]
    /\ pc = [t \in Threads |-> "idle"]
    /\ seen = [t \in Threads |-> NoThread]
    /\ asked = {} /\ threw = {}
    /\ mark = [t \in Threads |-> 0]
    /\ joined = {}

Goto(t, p) == pc' = [pc EXCEPT ![t] = p]

\* An application thread calls when it likes, a loop thread while it runs the
\* caller's code: the update callback or the error handler.
CanCall(t) ==
    /\ pc[t] = "idle"
    /\ t \in Loops => loop[t] \in {"calling", "reporting"}

\* synchronized(lock), which a Java monitor lets its own holder enter again.
Enter(t) ==
    /\ lock \in {Free, t}
    /\ lock' = t
    /\ \/ pc[t] = "startLock" /\ Goto(t, "startIn")
       \/ pc[t] = "stopLock" /\ Goto(t, "stopIn")
       \/ pc[t] = "clearLock" /\ Goto(t, "clearIn")
    /\ UNCHANGED <<stopped, thread, lastFailure, started, loop, seen, asked,
                   threw, mark, joined>>

-----------------------------------------------------------------------------
(* start                                                                   *)

Starting == {t \in Threads : pc[t] \in {"startLock", "startIn"}}

CallStart(t) ==
    /\ CanCall(t)
    /\ started + Cardinality(Starting) < MaxStarts
    /\ Goto(t, "startLock")
    /\ UNCHANGED <<lock, stopped, thread, lastFailure, started, loop, seen,
                   asked, threw, mark, joined>>

\* A loop that runs is left alone and start reports false.
StartRefused(t) ==
    /\ pc[t] = "startIn"
    /\ Alive(thread)
    /\ lock' = Free
    /\ Goto(t, "idle")
    /\ UNCHANGED <<stopped, thread, lastFailure, started, loop, seen, asked,
                   threw, mark, joined>>

\* Faulty: the stop flag of the loop before is left set.
StartLoopStopped(t) ==
    /\ pc[t] = "startIn"
    /\ ~Alive(thread)
    /\ started' = started + 1
    /\ lastFailure' = NoThread
    /\ thread' = started'
    /\ loop' = [loop EXCEPT ![started'] = "checking"]
    /\ lock' = Free
    /\ Goto(t, "idle")
    /\ UNCHANGED <<stopped, seen, asked, threw, mark, joined>>

\* Faulty: the failure of the loop before is left in place.
StartLoopFailed(t) ==
    /\ pc[t] = "startIn"
    /\ ~Alive(thread)
    /\ started' = started + 1
    /\ stopped' = FALSE
    /\ thread' = started'
    /\ loop' = [loop EXCEPT ![started'] = "checking"]
    /\ lock' = Free
    /\ Goto(t, "idle")
    /\ UNCHANGED <<lastFailure, seen, asked, threw, mark, joined>>

\* Otherwise the fields are reset and the new thread is started.  Creating it
\* may fail, with the fields already set; start then throws.
StartLoop(t) ==
    /\ pc[t] = "startIn"
    /\ ~Alive(thread)
    /\ started' = started + 1
    /\ stopped' = FALSE
    /\ lastFailure' = NoThread
    /\ thread' = started'
    /\ \/ loop' = [loop EXCEPT ![started'] = "checking"] /\ asked' = asked
       \/ loop' = [loop EXCEPT ![started'] = "dead"] /\ asked' = asked \cup {started'}
    /\ lock' = Free
    /\ Goto(t, "idle")
    /\ UNCHANGED <<seen, threw, mark, joined>>

-----------------------------------------------------------------------------
(* stop                                                                    *)

CallStop(t) ==
    /\ CanCall(t)
    /\ Goto(t, "stopLock")
    /\ joined' = joined \ {t}
    /\ UNCHANGED <<lock, stopped, thread, lastFailure, started, loop, seen,
                   asked, threw, mark>>

\* Faulty: the thread is joined with the monitor held.
SetStoppedHolding(t) ==
    /\ pc[t] = "stopIn"
    /\ stopped' = TRUE
    /\ seen' = [seen EXCEPT ![t] = thread]
    /\ mark' = [mark EXCEPT ![t] = started]
    /\ asked' = asked \cup ({thread} \ {NoThread})
    /\ lock' = IF thread \in {NoThread, t} THEN Free ELSE lock
    /\ Goto(t, IF thread \in {NoThread, t} THEN "idle" ELSE "joining")
    /\ joined' = IF thread = NoThread THEN joined \cup {t} ELSE joined
    /\ UNCHANGED <<thread, lastFailure, started, loop, threw>>

\* The flag is set.  With no thread to wait for, or on the thread itself, the
\* call returns; otherwise it joins, without the monitor.
SetStopped(t) ==
    /\ pc[t] = "stopIn"
    /\ stopped' = TRUE
    /\ seen' = [seen EXCEPT ![t] = thread]
    /\ mark' = [mark EXCEPT ![t] = started]
    /\ asked' = asked \cup ({thread} \ {NoThread})
    /\ lock' = Free
    /\ Goto(t, IF thread \in {NoThread, t} THEN "idle" ELSE "joining")
    /\ joined' = IF thread = NoThread THEN joined \cup {t} ELSE joined
    /\ UNCHANGED <<thread, lastFailure, started, loop, threw>>

\* Faulty: the join is bounded and its end not looked at.
JoinBriefly(t) ==
    /\ pc[t] = "joining"
    /\ Goto(t, "clearLock")
    /\ UNCHANGED <<lock, stopped, thread, lastFailure, started, loop, seen,
                   asked, threw, mark, joined>>

\* worker.join() returns once the thread is dead.
Join(t) ==
    /\ pc[t] = "joining"
    /\ ~Alive(seen[t])
    /\ Goto(t, "clearLock")
    /\ UNCHANGED <<lock, stopped, thread, lastFailure, started, loop, seen,
                   asked, threw, mark, joined>>

\* The joining thread is interrupted: stop throws, with the flag set and the
\* reference left.
JoinInterrupted(t) ==
    /\ pc[t] = "joining"
    /\ Goto(t, "idle")
    /\ UNCHANGED <<lock, stopped, thread, lastFailure, started, loop, seen,
                   asked, threw, mark, joined>>

\* Faulty: the reference is cleared whatever it is by now.
ClearAnyThread(t) ==
    /\ pc[t] = "clearIn"
    /\ thread' = NoThread
    /\ lock' = Free
    /\ Goto(t, "idle")
    /\ joined' = joined \cup {t}
    /\ UNCHANGED <<stopped, lastFailure, started, loop, seen, asked, threw, mark>>

\* Only the reference to the joined thread is cleared.
ClearThread(t) ==
    /\ pc[t] = "clearIn"
    /\ thread' = IF thread = seen[t] THEN NoThread ELSE thread
    /\ lock' = Free
    /\ Goto(t, "idle")
    /\ joined' = joined \cup {t}
    /\ UNCHANGED <<stopped, lastFailure, started, loop, seen, asked, threw, mark>>

-----------------------------------------------------------------------------
(* run, on loop thread w                                                   *)

LoopGoto(w, p) == loop' = [loop EXCEPT ![w] = p]

Check(w) ==
    /\ loop[w] = "checking"
    /\ LoopGoto(w, IF stopped THEN "dead" ELSE "polling")
    /\ UNCHANGED <<stopped, thread, lastFailure, started, asked, threw>>
    /\ UNCHANGED apiVars

\* dispatchNextUpdate: nothing came, an update is dispatched, or the read
\* throws, as it does on a failed poll and on a closed client.
Poll(w) ==
    /\ loop[w] = "polling"
    /\ \E p \in {"checking", "calling", "failing"} : LoopGoto(w, p)
    /\ UNCHANGED <<stopped, thread, lastFailure, started, asked, threw>>
    /\ UNCHANGED apiVars

\* The callback returns or throws.
CallbackEnds(w) ==
    /\ loop[w] = "calling"
    /\ pc[w] = "idle"
    /\ \E p \in {"checking", "failing"} : LoopGoto(w, p)
    /\ UNCHANGED <<stopped, thread, lastFailure, started, asked, threw>>
    /\ UNCHANGED apiVars

\* The failure is kept, under the monitor.
RecordFailure(w) ==
    /\ loop[w] = "failing"
    /\ lock = Free
    /\ lastFailure' = w
    /\ threw' = threw \cup {w}
    /\ LoopGoto(w, "reporting")
    /\ UNCHANGED <<stopped, thread, started, asked>>
    /\ UNCHANGED apiVars

\* onError returns, or the failure is rethrown: the thread ends.
ReportEnds(w) ==
    /\ loop[w] = "reporting"
    /\ pc[w] = "idle"
    /\ LoopGoto(w, "dead")
    /\ UNCHANGED <<stopped, thread, lastFailure, started, asked, threw>>
    /\ UNCHANGED apiVars

-----------------------------------------------------------------------------
ApiStep(t) ==
    \/ Enter(t) \/ StartRefused(t) \/ StartLoop(t)
    \/ SetStopped(t) \/ Join(t) \/ ClearThread(t)

LoopStep(w) ==
    \/ Check(w) \/ Poll(w) \/ CallbackEnds(w) \/ RecordFailure(w) \/ ReportEnds(w)

Next ==
    \/ \E t \in Threads :
          CallStart(t) \/ CallStop(t) \/ ApiStep(t) \/ JoinInterrupted(t)
    \/ \E w \in Loops : LoopStep(w)

Spec == Init /\ [][Next]_vars

(* Threads keep running and poll waits end.  The caller's code returns: a  *)
(* callback that blocks is what the code says can make a stop slow.  Those *)
(* who wait for the monitor get it although others call again and again.   *)
Fairness ==
    /\ \A t \in Threads : SF_vars(ApiStep(t))
    /\ \A w \in Loops : SF_vars(LoopStep(w))

FairSpec == Spec /\ Fairness

-----------------------------------------------------------------------------
(* Properties.                                                             *)

\* Two loops never run at once, however starts, stops, failures and the
\* clearing after a join interleave: there is one reader of the stream.
AtMostOneLoop == \A v, w \in Loops : Alive(v) /\ Alive(w) => v = w

\* A running loop is the one a stop would find: none is left running with
\* nobody able to stop it.
RunningLoopIsKnown == \A w \in Loops : Alive(w) => thread = w

\* When a stop made from another thread has returned, every loop that had
\* been started before it is dead; one started during the join survives.
StopIsHonoured ==
    \A t \in joined : \A w \in Loops : w <= mark[t] => ~Alive(w)

\* A loop ends only because a stop was requested of it or because it failed:
\* a flag left over from an earlier stop does not end a later loop.
LoopEndsForAReason ==
    \A w \in Loops : loop[w] = "dead" => w \in asked \cup threw

\* The failure kept is that of the loop started last, from the moment it
\* failed until the next start, and nothing else ever is.
FailureIsOfLastLoop ==
    lastFailure = IF started \in threw THEN started ELSE NoThread

\* A call of start or stop returns: joining holds no monitor that the joined
\* thread needs, and no thread joins itself.
CallsReturn == \A t \in Threads : (pc[t] # "idle") ~> (pc[t] = "idle")
=============================================================================
