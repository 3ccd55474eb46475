-------------------------- MODULE UpdateLoopProofs --------------------------
(***************************************************************************)
(* Theorems about UpdateLoop for every set of callers and any number of    *)
(* starts.                                                                 *)
(*                                                                         *)
(* The argument: only the thread the field names can be alive, because a   *)
(* start replaces it only when it is dead and a stop clears it only after  *)
(* a join found it dead.  A stop that joins therefore waits for the only   *)
(* loop that was alive when it set the flag, and loops started since have  *)
(* higher numbers.                                                         *)
(***************************************************************************)
EXTENDS ClientShutdown, FiniteSetTheorems, TLAPS

\* The bound on starts leaves room for every start under way.
Room ==
    /\ IsFiniteSet(Starting)
    /\ started + Cardinality(Starting) <= MaxStarts

\* What is alive, and what the field names.
Field ==
    /\ \A w \in Loops : w > started => loop[w] = "unborn"
    /\ thread <= started
    /\ RunningLoopIsKnown

\* What a stop knows at each point after setting the flag.
Stopping ==
    /\ \A t \in Threads : mark[t] <= started
    /\ \A t \in Threads : pc[t] = "joining" =>
          \A w \in Loops : w <= mark[t] => w = seen[t] \/ ~Alive(w)
    /\ \A t \in Threads : pc[t] \in {"joining", "clearLock", "clearIn"} =>
          seen[t] <= mark[t]
    /\ \A t \in Threads : pc[t] \in {"clearLock", "clearIn"} =>
          \A w \in Loops : w <= mark[t] => ~Alive(w)
    /\ \A t \in Threads : pc[t] \in {"stopLock", "stopIn"} => t \notin joined
    /\ StopIsHonoured

\* The flag is about the loop that runs, and a failure is noted before it is
\* reported.
Ending ==
    /\ stopped => \A w \in Loops : Alive(w) => w \in asked
    /\ \A w \in Loops : loop[w] = "reporting" => w \in threw
    /\ LoopEndsForAReason

\* The field names the loop started last, the only one that can still fail.
Failing ==
    /\ thread \in {NoThread, started}
    /\ \A w \in threw : w <= started
    /\ FailureIsOfLastLoop

LInv == TypeOK /\ Room /\ Field /\ Stopping /\ Ending /\ Failing

-----------------------------------------------------------------------------
\* What start and stop move in or out of the set of starts under way.
LEMMA StartingStep ==
    ASSUME TypeOK, NEW t \in Threads, NEW p \in PcState, Goto(t, p)
    PROVE  Starting' = IF p \in {"startLock", "startIn"}
                         THEN Starting \cup {t} ELSE Starting \ {t}
BY DEF TypeOK, Goto, Starting, PcState

\* A dead loop stays dead, and the alive ones were alive or just started.
LEMMA DeadStaysDead ==
    ASSUME TypeOK, Field, [Next]_vars, NEW w \in Loops, w <= started, ~Alive(w)
    PROVE  ~Alive(w)'
<1> USE DEF Alive, NoThread
<1>1. loop[w] \in {"unborn", "dead"} /\ started \in Nat /\ w \in Nat
  BY LoopAssumption DEF TypeOK, Loops
<1>2. CASE loop' = loop
  BY <1>1, <1>2
<1>3. ASSUME NEW t \in Threads, StartLoop(t)
      PROVE  ~Alive(w)'
  <2>1. started' # w
    BY <1>1, <1>3 DEF StartLoop
  <2> QED
    BY <1>1, <1>3, <2>1 DEF StartLoop, TypeOK
<1>4. ASSUME NEW v \in Loops, LoopStep(v)
      PROVE  ~Alive(w)'
  <2>1. v # w
    BY <1>1, <1>4 DEF LoopStep, Check, Poll, CallbackEnds, RecordFailure, ReportEnds
  <2> QED
    BY <1>1, <1>4, <2>1 DEF LoopStep, Check, Poll, CallbackEnds, RecordFailure,
                            ReportEnds, LoopGoto, TypeOK
<1> QED
  BY <1>2, <1>3, <1>4 DEF Next, ApiStep, CallStart, CallStop, Enter, StartRefused,
                          SetStopped, Join, JoinInterrupted, ClearThread, vars

-----------------------------------------------------------------------------
(* Types and the bound.                                                    *)

\* A start under way has room for its loop thread.
LEMMA StartHasRoom ==
    ASSUME TypeOK, Room, NEW t \in Threads, StartLoop(t)
    PROVE  started + 1 \in Loops
<1>1. t \in Starting /\ started \in Nat /\ MaxStarts \in Nat
  BY LoopAssumption DEF StartLoop, Starting, TypeOK
<1>2. Cardinality(Starting) \in Nat /\ Cardinality(Starting) # 0
  BY <1>1, FS_CardinalityType, FS_EmptySet DEF Room
<1> QED
  BY <1>1, <1>2 DEF Room, Loops

LEMMA TypeInit == Init => TypeOK
<1> SUFFICES ASSUME Init
             PROVE  TypeOK
  OBVIOUS
<1>1. stopped \in BOOLEAN
  BY Zenon DEF Init
<1>2. /\ lock \in Threads \cup {Free} /\ started \in 0..MaxStarts
      /\ thread \in Loops \cup {NoThread} /\ lastFailure \in Loops \cup {NoThread}
      /\ loop \in [Loops -> LoopState] /\ pc \in [Threads -> PcState]
      /\ seen \in [Threads -> Loops \cup {NoThread}]
      /\ mark \in [Threads -> 0..MaxStarts]
      /\ asked \subseteq Loops /\ threw \subseteq Loops /\ joined \subseteq Threads
  BY LoopAssumption DEF Init, LoopState, PcState
<1> QED
  BY <1>1, <1>2 DEF TypeOK

LEMMA TypeStep == TypeOK /\ Room /\ [Next]_vars => TypeOK'
<1> SUFFICES ASSUME TypeOK, Room, [Next]_vars
             PROVE  TypeOK'
  OBVIOUS
<1> USE DEF TypeOK, Goto, PcState, LoopState, apiVars, NoThread
<1>1. ASSUME NEW t \in Threads, Enter(t)
      PROVE  TypeOK'
  BY <1>1 DEF Enter
<1>2. ASSUME NEW t \in Threads, CallStart(t) \/ CallStop(t)
      PROVE  TypeOK'
  BY <1>2 DEF CallStart, CallStop
<1>3. ASSUME NEW t \in Threads, StartRefused(t) \/ Join(t) \/ JoinInterrupted(t)
      PROVE  TypeOK'
  BY <1>3 DEF StartRefused, Join, JoinInterrupted
<1>4. ASSUME NEW t \in Threads, StartLoop(t)
      PROVE  TypeOK'
  <2>1. started' \in Loops /\ started' \in 0..MaxStarts
    <3>1. started' = started + 1 /\ started + 1 \in Loops
      BY <1>4, StartHasRoom DEF StartLoop
    <3> QED
      BY <3>1, LoopAssumption DEF Loops
  <2>2. stopped' \in BOOLEAN
    BY <1>4, Zenon DEF StartLoop
  <2>3. /\ lock' \in Threads \cup {Free} /\ thread' \in Loops \cup {NoThread}
        /\ lastFailure' \in Loops \cup {NoThread}
        /\ loop' \in [Loops -> LoopState] /\ pc' \in [Threads -> PcState]
        /\ asked' \subseteq Loops
    BY <1>4, <2>1 DEF StartLoop
  <2> QED
    BY <1>4, <2>1, <2>2, <2>3 DEF StartLoop
<1>5. ASSUME NEW t \in Threads, SetStopped(t) \/ ClearThread(t)
      PROVE  TypeOK'
  <2>1. stopped' \in BOOLEAN
    BY <1>5, Zenon DEF SetStopped, ClearThread
  <2>2. /\ lock' \in Threads \cup {Free} /\ thread' \in Loops \cup {NoThread}
        /\ pc' \in [Threads -> PcState] /\ seen' \in [Threads -> Loops \cup {NoThread}]
        /\ mark' \in [Threads -> 0..MaxStarts]
        /\ asked' \subseteq Loops /\ joined' \subseteq Threads
        /\ UNCHANGED <<lastFailure, started, loop, threw>>
    BY <1>5 DEF SetStopped, ClearThread
  <2> QED
    BY <2>1, <2>2
<1>6. ASSUME NEW w \in Loops, LoopStep(w)
      PROVE  TypeOK'
  BY <1>6 DEF LoopStep, Check, Poll, CallbackEnds, RecordFailure, ReportEnds, LoopGoto
<1>7. CASE UNCHANGED vars
  BY <1>7 DEF vars
<1> QED
  BY <1>1, <1>2, <1>3, <1>4, <1>5, <1>6, <1>7 DEF Next, ApiStep

LEMMA RoomStep == TypeOK /\ Room /\ [Next]_vars => Room'
<1> SUFFICES ASSUME TypeOK, Room, [Next]_vars
             PROVE  Room'
  OBVIOUS
<1>t. /\ Cardinality(Starting) \in Nat /\ started \in Nat /\ MaxStarts \in Nat
      /\ \A t \in Threads : pc[t] \in PcState
  BY FS_CardinalityType, LoopAssumption DEF Room, TypeOK
<1>1. ASSUME NEW t \in Threads, CallStart(t)
      PROVE  Room'
  <2>1. Starting' = Starting \cup {t} /\ t \notin Starting /\ started' = started
    BY <1>1, StartingStep DEF CallStart, CanCall, Starting, PcState
  <2>2. IsFiniteSet(Starting') /\ Cardinality(Starting') = Cardinality(Starting) + 1
    BY <2>1, FS_AddElement DEF Room
  <2>3. started + Cardinality(Starting) < MaxStarts
    BY <1>1 DEF CallStart
  <2> QED
    BY <1>t, <2>1, <2>2, <2>3 DEF Room
<1>2. ASSUME NEW t \in Threads, StartLoop(t)
      PROVE  Room'
  <2>1. Starting' = Starting \ {t} /\ t \in Starting /\ started' = started + 1
    BY <1>2, StartingStep DEF StartLoop, Starting, PcState
  <2>2. IsFiniteSet(Starting') /\ Cardinality(Starting') = Cardinality(Starting) - 1
    BY <2>1, FS_RemoveElement DEF Room
  <2> QED
    BY <1>t, <2>1, <2>2 DEF Room
<1>3. ASSUME NEW t \in Threads, StartRefused(t)
      PROVE  Room'
  <2>1. Starting' = Starting \ {t} /\ t \in Starting /\ started' = started
    BY <1>3, StartingStep DEF StartRefused, Starting, PcState
  <2>2. IsFiniteSet(Starting') /\ Cardinality(Starting') = Cardinality(Starting) - 1
    BY <2>1, FS_RemoveElement DEF Room
  <2> QED
    BY <1>t, <2>1, <2>2 DEF Room
<1>4. ASSUME NEW t \in Threads, Enter(t)
      PROVE  Room'
  <2>1. Starting' = Starting /\ started' = started
    BY <1>4 DEF Enter, Goto, Starting, TypeOK
  <2> QED
    BY <2>1 DEF Room
<1>5. ASSUME NEW t \in Threads,
             CallStop(t) \/ SetStopped(t) \/ Join(t) \/ JoinInterrupted(t) \/ ClearThread(t)
      PROVE  Room'
  <2>1. Starting' = Starting /\ started' = started
    BY <1>5 DEF CallStop, CanCall, SetStopped, Join, JoinInterrupted, ClearThread, Goto,
                Starting, TypeOK
  <2> QED
    BY <2>1 DEF Room
<1>6. ASSUME NEW w \in Loops, LoopStep(w)
      PROVE  Room'
  <2>1. Starting' = Starting /\ started' = started
    BY <1>6 DEF LoopStep, Check, Poll, CallbackEnds, RecordFailure, ReportEnds,
                apiVars, Starting
  <2> QED
    BY <2>1 DEF Room
<1>7. CASE UNCHANGED vars
  BY <1>7 DEF vars, Starting, Room
<1> QED
  BY <1>1, <1>2, <1>3, <1>4, <1>5, <1>6, <1>7 DEF Next, ApiStep

-----------------------------------------------------------------------------
(* The field and what is alive.                                            *)

LEMMA FieldStep ==
    TypeOK /\ Room /\ Field /\ Stopping /\ [Next]_vars => Field'
<1> SUFFICES ASSUME TypeOK, Room, Field, Stopping, [Next]_vars
             PROVE  Field'
  OBVIOUS
<1>t. /\ started \in Nat /\ thread \in Nat /\ MaxStarts \in Nat
      /\ loop \in [Loops -> LoopState] /\ Loops \subseteq Nat
      /\ \A w \in Loops : w # NoThread
  BY LoopAssumption DEF TypeOK, Loops, NoThread
<1>1. ASSUME NEW t \in Threads, StartLoop(t)
      PROVE  Field'
  <2>1. /\ thread' = started + 1 /\ started' = started + 1 /\ started + 1 \in Loops
        /\ loop'[started + 1] \in {"checking", "dead"}
        /\ \A w \in Loops : w # started + 1 => loop'[w] = loop[w]
    BY <1>1, <1>t, StartHasRoom DEF StartLoop
  <2>2. \A w \in Loops : ~Alive(w)
    BY <1>1 DEF StartLoop, Field, RunningLoopIsKnown
  <2>3. \A w \in Loops : w # started + 1 => ~Alive(w)'
    BY <2>1, <2>2 DEF Alive
  <2>4. \A w \in Loops : w > started' => w > started /\ w # started + 1
    BY <1>t, <2>1
  <2>5. \A w \in Loops : w > started' => loop'[w] = "unborn"
    BY <2>1, <2>4 DEF Field
  <2> QED
    BY <1>t, <2>1, <2>3, <2>5 DEF Field, RunningLoopIsKnown
<1>2. ASSUME NEW t \in Threads, ClearThread(t)
      PROVE  Field'
  <2>1. ~Alive(seen[t])
    <3>1. seen[t] \in Loops \/ seen[t] = NoThread
      BY DEF TypeOK
    <3>2. seen[t] <= mark[t] /\ \A w \in Loops : w <= mark[t] => ~Alive(w)
      BY <1>2 DEF ClearThread, Stopping
    <3> QED
      BY <3>1, <3>2 DEF Alive
  <2>2. UNCHANGED <<loop, started>>
    BY <1>2 DEF ClearThread
  <2>3. CASE thread = seen[t]
    <3>1. \A w \in Loops : ~Alive(w)
      BY <2>1, <2>3 DEF Field, RunningLoopIsKnown
    <3> QED
      BY <1>2, <1>t, <2>2, <2>3, <3>1 DEF ClearThread, Field, RunningLoopIsKnown, Alive,
                                          NoThread
  <2>4. CASE thread # seen[t]
    BY <1>2, <2>2, <2>4 DEF ClearThread, Field, RunningLoopIsKnown, Alive
  <2> QED
    BY <2>3, <2>4
<1>3. ASSUME NEW v \in Loops, LoopStep(v)
      PROVE  Field'
  <2>1. /\ loop[v] \notin {"unborn", "dead"}
        /\ \A w \in Loops : w # v => loop'[w] = loop[w]
        /\ UNCHANGED <<thread, started>>
    BY <1>3, <1>t DEF LoopStep, Check, Poll, CallbackEnds, RecordFailure, ReportEnds,
                      LoopGoto
  <2>2. thread = v /\ Alive(v)
    BY <1>t, <2>1 DEF Field, RunningLoopIsKnown, Alive
  <2> QED
    BY <2>1, <2>2 DEF Field, RunningLoopIsKnown, Alive
<1>4. CASE UNCHANGED <<loop, thread, started>>
  BY <1>4 DEF Field, RunningLoopIsKnown, Alive
<1> QED
  BY <1>1, <1>2, <1>3, <1>4 DEF Next, ApiStep, Enter, CallStart, CallStop, StartRefused,
                                SetStopped, Join, JoinInterrupted, vars

-----------------------------------------------------------------------------
(* What a stop knows.                                                      *)

LEMMA StoppingStep ==
    TypeOK /\ Room /\ Field /\ Stopping /\ [Next]_vars => Stopping'
<1> SUFFICES ASSUME TypeOK, Room, Field, Stopping, [Next]_vars
             PROVE  Stopping'
  OBVIOUS
<1>t. /\ started \in Nat /\ MaxStarts \in Nat /\ Loops \subseteq Nat
      /\ mark \in [Threads -> Nat] /\ seen \in [Threads -> Loops \cup {NoThread}]
      /\ pc \in [Threads -> PcState] /\ thread \in Loops \cup {NoThread}
      /\ ~Alive(NoThread)
  BY LoopAssumption DEF TypeOK, Loops, Alive
<1>g. started <= started' /\ started' \in Nat
  BY <1>t DEF Next, ApiStep, LoopStep, Enter, StartRefused, StartLoop, SetStopped, Join,
              JoinInterrupted, ClearThread, CallStart, CallStop, Check, Poll, CallbackEnds,
              RecordFailure, ReportEnds, vars
<1>d. ASSUME NEW w \in Loops, w <= started, ~Alive(w)
      PROVE  ~Alive(w)'
  BY <1>d, DeadStaysDead
<1>m. \A t \in Threads, w \in Loops : w <= mark[t] => w <= started
  BY <1>t DEF Stopping
<1>n. ~Alive(NoThread)'
  BY DEF Alive
\* A thread whose own stop does not move keeps what it knew.
<1> DEFINE Knows(t) ==
             /\ mark[t] <= started
             /\ pc[t] = "joining" =>
                  \A w \in Loops : w <= mark[t] => w = seen[t] \/ ~Alive(w)
             /\ pc[t] \in {"joining", "clearLock", "clearIn"} => seen[t] <= mark[t]
             /\ pc[t] \in {"clearLock", "clearIn"} =>
                  \A w \in Loops : w <= mark[t] => ~Alive(w)
             /\ pc[t] \in {"stopLock", "stopIn"} => t \notin joined
             /\ t \in joined => \A w \in Loops : w <= mark[t] => ~Alive(w)
<1>s. ASSUME \A t \in Threads : Knows(t)'
      PROVE  Stopping'
  <2>1. joined' \subseteq Threads
    BY TypeStep DEF TypeOK
  <2> QED
    BY <1>s, <2>1 DEF Stopping, StopIsHonoured
<1>o. \A t \in Threads : Knows(t)
  BY DEF Stopping, StopIsHonoured
<1> HIDE DEF Knows
\* What a thread knew of dead loops is still so after the step.
<1>k. ASSUME NEW t \in Threads, mark'[t] = mark[t], seen'[t] = seen[t],
             \/ pc'[t] = pc[t]
             \/ pc'[t] \in {"idle", "startLock", "startIn"}
             \/ pc'[t] = "stopLock" /\ t \notin joined'
             \/ pc[t] = "stopLock" /\ pc'[t] = "stopIn"
             \/ pc[t] = "clearLock" /\ pc'[t] = "clearIn",
             t \in joined' => t \in joined
      PROVE  Knows(t)'
  <2>1. mark'[t] <= started'
    BY <1>k, <1>t, <1>g, <1>o DEF Knows
  <2>2. pc'[t] = "joining" =>
          \A w \in Loops : w <= mark'[t] => w = seen'[t] \/ ~Alive(w)'
    BY <1>k, <1>m, <1>d, <1>o DEF Knows
  <2>3. pc'[t] \in {"joining", "clearLock", "clearIn"} => seen'[t] <= mark'[t]
    BY <1>k, <1>o DEF Knows
  <2>4. pc'[t] \in {"clearLock", "clearIn"} =>
          \A w \in Loops : w <= mark'[t] => ~Alive(w)'
    BY <1>k, <1>m, <1>d, <1>o DEF Knows
  <2>5. t \in joined' => \A w \in Loops : w <= mark'[t] => ~Alive(w)'
    BY <1>k, <1>m, <1>d, <1>o DEF Knows
  <2>6. pc'[t] \in {"stopLock", "stopIn"} => t \notin joined'
    BY <1>k, <1>o DEF Knows
  <2> QED
    BY <2>1, <2>2, <2>3, <2>4, <2>5, <2>6 DEF Knows
<1>1. ASSUME NEW t \in Threads, SetStopped(t)
      PROVE  Stopping'
  <2>1. /\ mark' = [mark EXCEPT ![t] = started]
        /\ seen' = [seen EXCEPT ![t] = thread]
        /\ UNCHANGED <<started, loop, thread>>
        /\ pc' = [pc EXCEPT ![t] = IF thread \in {NoThread, t} THEN "idle" ELSE "joining"]
        /\ joined' = IF thread = NoThread THEN joined \cup {t} ELSE joined
    BY <1>1 DEF SetStopped, Goto
  <2>2. ASSUME NEW u \in Threads, u # t
        PROVE  Knows(u)'
    BY <1>k, <1>t, <2>1, <2>2
  <2>3. /\ mark'[t] = started /\ seen'[t] = thread /\ thread <= started
        /\ \A w \in Loops : Alive(w)' => w = thread
    BY <1>t, <2>1 DEF Field, RunningLoopIsKnown, Alive
  <2>4. \A w \in Loops : w = seen'[t] \/ ~Alive(w)'
    BY <2>3
  <2>5. pc'[t] \in {"idle", "joining"}
    BY <1>t, <2>1
  <2>6. t \in joined' => \A w \in Loops : w <= mark'[t] => ~Alive(w)'
    <3>1. CASE thread = NoThread
      BY <1>n, <2>3, <3>1
    <3>2. CASE thread # NoThread
      <4>1. t \notin joined
        BY <1>1 DEF SetStopped, Stopping
      <4> QED
        BY <2>1, <3>2, <4>1
    <3> QED
      BY <3>1, <3>2
  <2>7. Knows(t)'
    BY <1>t, <2>1, <2>3, <2>4, <2>5, <2>6 DEF Knows
  <2> QED
    BY <1>s, <2>2, <2>7
<1>2. ASSUME NEW t \in Threads, Join(t)
      PROVE  Stopping'
  <2>1. /\ UNCHANGED <<mark, seen, started, loop, joined>>
        /\ pc' = [pc EXCEPT ![t] = "clearLock"]
        /\ pc[t] = "joining" /\ ~Alive(seen[t])
    BY <1>2 DEF Join, Goto
  <2>2. ASSUME NEW u \in Threads, u # t
        PROVE  Knows(u)'
    BY <1>k, <1>t, <2>1, <2>2
  <2>3. \A w \in Loops : w <= mark'[t] => ~Alive(w)'
    <3>1. \A w \in Loops : w <= mark[t] => ~Alive(w)
      BY <1>o, <2>1 DEF Knows
    <3> QED
      BY <2>1, <3>1 DEF Alive
  <2>4. /\ mark'[t] <= started' /\ seen'[t] <= mark'[t] /\ pc'[t] = "clearLock"
    BY <1>o, <1>t, <2>1 DEF Knows
  <2>5. Knows(t)'
    BY <2>3, <2>4 DEF Knows
  <2> QED
    BY <1>s, <2>2, <2>5
<1>3. ASSUME NEW t \in Threads, ClearThread(t)
      PROVE  Stopping'
  <2>1. /\ UNCHANGED <<mark, seen, started, loop>>
        /\ pc' = [pc EXCEPT ![t] = "idle"] /\ pc[t] = "clearIn"
        /\ joined' = joined \cup {t}
    BY <1>3 DEF ClearThread, Goto
  <2>2. ASSUME NEW u \in Threads, u # t
        PROVE  Knows(u)'
    BY <1>k, <1>t, <2>1, <2>2
  <2>3. \A w \in Loops : w <= mark'[t] => ~Alive(w)'
    <3>1. \A w \in Loops : w <= mark[t] => ~Alive(w)
      BY <1>o, <2>1 DEF Knows
    <3> QED
      BY <2>1, <3>1 DEF Alive
  <2>4. mark'[t] <= started' /\ pc'[t] = "idle"
    BY <1>o, <1>t, <2>1 DEF Knows
  <2>5. Knows(t)'
    BY <2>3, <2>4 DEF Knows
  <2> QED
    BY <1>s, <2>2, <2>5
<1>4. ASSUME NEW t \in Threads,
             Enter(t) \/ CallStart(t) \/ CallStop(t) \/ StartRefused(t) \/ StartLoop(t)
             \/ JoinInterrupted(t)
      PROVE  Stopping'
  <2>1. /\ UNCHANGED <<mark, seen>> /\ joined' \subseteq joined
        /\ \A u \in Threads : u # t => pc'[u] = pc[u]
        /\ \/ pc'[t] \in {"idle", "startLock", "startIn"}
           \/ pc'[t] = "stopLock" /\ t \notin joined'
           \/ pc[t] = "stopLock" /\ pc'[t] = "stopIn"
           \/ pc[t] = "clearLock" /\ pc'[t] = "clearIn"
    BY <1>4, <1>t DEF Enter, CallStart, CallStop, StartRefused, StartLoop,
                      JoinInterrupted, Goto
  <2>2. ASSUME NEW u \in Threads
        PROVE  Knows(u)'
    BY <1>k, <2>1
  <2> QED
    BY <1>s, <2>2
<1>5. ASSUME UNCHANGED <<mark, seen, pc, joined>>
      PROVE  Stopping'
  BY <1>5, <1>k, <1>s
<1>6. ASSUME NEW w \in Loops, LoopStep(w)
      PROVE  Stopping'
  BY <1>5, <1>6 DEF LoopStep, Check, Poll, CallbackEnds, RecordFailure, ReportEnds, apiVars
<1> QED
  BY <1>1, <1>2, <1>3, <1>4, <1>5, <1>6 DEF Next, ApiStep, vars

-----------------------------------------------------------------------------
(* Why loops end, and whose failure is kept.                               *)

LEMMA EndingStep ==
    TypeOK /\ Room /\ Field /\ Ending /\ [Next]_vars => Ending'
<1> SUFFICES ASSUME TypeOK, Room, Field, Ending, [Next]_vars
             PROVE  Ending'
  OBVIOUS
<1> USE DEF Ending, LoopEndsForAReason, Alive, TypeOK
<1>1. ASSUME NEW t \in Threads, StartLoop(t)
      PROVE  Ending'
  <2>1. started + 1 \in Loops
    BY <1>1, StartHasRoom
  <2> QED
    BY <1>1, <2>1 DEF StartLoop
<1>2. ASSUME NEW t \in Threads, SetStopped(t)
      PROVE  Ending'
  <2>1. \A w \in Loops : Alive(w)' => w \in asked'
    BY <1>2 DEF SetStopped, Field, RunningLoopIsKnown
  <2> QED
    BY <1>2, <2>1 DEF SetStopped
<1>3. ASSUME NEW w \in Loops, LoopStep(w)
      PROVE  Ending'
  <2>1. CASE Check(w)
    BY <2>1 DEF Check, LoopGoto, NoThread, Loops
  <2>2. CASE Poll(w) \/ CallbackEnds(w)
    BY <2>2 DEF Poll, CallbackEnds, LoopGoto
  <2>3. CASE RecordFailure(w) \/ ReportEnds(w)
    BY <2>3 DEF RecordFailure, ReportEnds, LoopGoto
  <2> QED
    BY <1>3, <2>1, <2>2, <2>3 DEF LoopStep
<1>4. CASE UNCHANGED <<stopped, loop, asked, threw>>
  BY <1>4
<1> QED
  BY <1>1, <1>2, <1>3, <1>4 DEF Next, ApiStep, Enter, CallStart, CallStop, StartRefused,
                                Join, JoinInterrupted, ClearThread, vars

LEMMA FailingStep ==
    TypeOK /\ Room /\ Field /\ Failing /\ [Next]_vars => Failing'
<1> SUFFICES ASSUME TypeOK, Room, Field, Failing, [Next]_vars
             PROVE  Failing'
  OBVIOUS
<1>t. started \in Nat /\ MaxStarts \in Nat /\ threw \subseteq Nat
  BY LoopAssumption DEF TypeOK, Loops
<1> USE DEF Failing, FailureIsOfLastLoop
<1>1. ASSUME NEW t \in Threads, StartLoop(t)
      PROVE  Failing'
  <2>1. started' \notin threw'
    BY <1>1, <1>t DEF StartLoop
  <2> QED
    BY <1>1, <1>t, <2>1 DEF StartLoop
<1>2. ASSUME NEW t \in Threads, ClearThread(t)
      PROVE  Failing'
  BY <1>2 DEF ClearThread
<1>3. ASSUME NEW w \in Loops, RecordFailure(w)
      PROVE  Failing'
  <2>1. w = started
    BY <1>3 DEF RecordFailure, Field, RunningLoopIsKnown, Alive, NoThread, Loops
  <2> QED
    BY <1>3, <1>t, <2>1 DEF RecordFailure
<1>4. CASE UNCHANGED <<thread, started, threw, lastFailure>>
  BY <1>4
<1> QED
  BY <1>1, <1>2, <1>3, <1>4 DEF Next, ApiStep, LoopStep, Enter, CallStart, CallStop,
        StartRefused, SetStopped, Join, JoinInterrupted, Check, Poll, CallbackEnds,
        ReportEnds, vars

-----------------------------------------------------------------------------
(* The theorems.                                                           *)

\* The parts of the argument hold in every state.
THEOREM LoopInvariance == Spec => []LInv
<1>1. Init => LInv
  <2> SUFFICES ASSUME Init
               PROVE  LInv
    OBVIOUS
  <2>1. TypeOK
    BY TypeInit
  <2>2. Starting = {} /\ started = 0 /\ MaxStarts \in Nat
    BY LoopAssumption DEF Init, Starting
  <2>3. Room
    BY <2>2, FS_EmptySet DEF Room
  <2>4. \A w \in Loops : ~Alive(w)
    BY DEF Init, Alive
  <2>5. Field /\ Stopping
    BY <2>4 DEF Init, Field, RunningLoopIsKnown, Stopping, StopIsHonoured, NoThread
  <2>6. Ending /\ Failing
    BY <2>4 DEF Init, Ending, Failing, LoopEndsForAReason, FailureIsOfLastLoop, NoThread
  <2> QED
    BY <2>1, <2>3, <2>5, <2>6 DEF LInv
<1>2. LInv /\ [Next]_vars => LInv'
  BY TypeStep, RoomStep, FieldStep, StoppingStep, EndingStep, FailingStep DEF LInv
<1> QED
  BY <1>1, <1>2, PTL DEF Spec

\* Two loop threads never run at once.
THEOREM OneLoop == Spec => []AtMostOneLoop
<1>1. LInv => AtMostOneLoop
  BY DEF LInv, Field, RunningLoopIsKnown, AtMostOneLoop
<1> QED
  BY <1>1, LoopInvariance, PTL

\* A running loop is always the one a stop finds.
THEOREM LoopCanBeStopped == Spec => []RunningLoopIsKnown
<1>1. LInv => RunningLoopIsKnown
  BY DEF LInv, Field
<1> QED
  BY <1>1, LoopInvariance, PTL

\* A stop that has returned leaves no loop running that it found.
THEOREM StopJoins == Spec => []StopIsHonoured
<1>1. LInv => StopIsHonoured
  BY DEF LInv, Stopping
<1> QED
  BY <1>1, LoopInvariance, PTL

\* For any callers and any number of starts every variable keeps its type.
THEOREM LoopTypeCorrect == Spec => []TypeOK
<1>1. LInv => TypeOK
  BY DEF LInv
<1> QED
  BY <1>1, LoopInvariance, PTL

\* A stop flag that outlived its loop never ends a later one.
THEOREM LoopsEndForAReason == Spec => []LoopEndsForAReason
<1>1. LInv => LoopEndsForAReason
  BY DEF LInv, Ending
<1> QED
  BY <1>1, LoopInvariance, PTL

\* The failure kept is always that of the loop started last.
THEOREM FailureIsCurrent == Spec => []FailureIsOfLastLoop
<1>1. LInv => FailureIsOfLastLoop
  BY DEF LInv, Failing
<1> QED
  BY <1>1, LoopInvariance, PTL

-----------------------------------------------------------------------------
(* Closing the client under its loop.                                      *)

\* Each step of a client that may be closed is one of its loop, or leaves the
\* loop alone.
LEMMA ClientStepIsLoopStep == [ClientNext]_clientVars => [Next]_vars
<1>1. ASSUME NEW t \in Threads, Call(t) \/ Close(t) \/ CloseInterrupted(t)
      PROVE  Next
  BY <1>1 DEF Call, Close, CloseInterrupted, Next, ApiStep
<1>2. ASSUME NEW t \in Threads, ClientApiStep(t)
      PROVE  [Next]_vars
  BY <1>2 DEF ClientApiStep, Within, StopOfClose, CloseBridge, Next, ApiStep, vars
<1>3. ASSUME NEW w \in Loops, ClientLoopStep(w)
      PROVE  Next
  BY <1>3 DEF ClientLoopStep, LoopGoesOn, PollBridge, CallbackReturns, Next, LoopStep
<1> QED
  BY <1>1, <1>2, <1>3 DEF ClientNext, clientVars

\* The loop of a client that is closed is a loop that is stopped like any other.
THEOREM ClosingIsStopping == ClientSpec => Spec
<1>1. ClientInit => Init
  BY DEF ClientInit
<1> QED
  BY <1>1, ClientStepIsLoopStep, PTL DEF ClientSpec, Spec

\* Where a close has got to, and which loops it can leave.
Closing ==
    /\ \A t \in Threads : before[t] <= started
    /\ \A t \in Threads : closing[t] = "stopping" =>
          /\ pc[t] \in {"stopLock", "stopIn", "joining", "clearLock", "clearIn"}
          /\ pc[t] \in {"joining", "clearLock", "clearIn"} => before[t] <= mark[t]
    /\ StoppedBeforeClosed

CInv == ClientTypeOK /\ LInv /\ Closing

LEMMA ClientTypeStep ==
    ClientTypeOK /\ LInv /\ [ClientNext]_clientVars => ClientTypeOK'
<1> SUFFICES ASSUME ClientTypeOK, LInv, [ClientNext]_clientVars
             PROVE  ClientTypeOK'
  OBVIOUS
<1>1. TypeOK'
  BY TypeStep, ClientStepIsLoopStep DEF LInv
<1> USE DEF ClientTypeOK
<1>2. ASSUME NEW t \in Threads, Close(t)
      PROVE  ClientTypeOK'
  BY <1>1, <1>2 DEF Close, TypeOK
<1>3. ASSUME NEW t \in Threads, CloseInterrupted(t) \/ StopOfClose(t) \/ CloseBridge(t)
      PROVE  ClientTypeOK'
  <2>1. 0 \in 0..MaxStarts
    BY LoopAssumption
  <2> QED
    BY <1>1, <1>3, <2>1 DEF CloseInterrupted, StopOfClose, CloseBridge
<1>4. CASE UNCHANGED closeVars
  BY <1>1, <1>4 DEF closeVars
<1> QED
  BY <1>2, <1>3, <1>4 DEF ClientNext, Call, ClientApiStep, Within, ClientLoopStep,
        LoopGoesOn, PollBridge, CallbackReturns, clientVars

LEMMA ClosingStep == CInv /\ [ClientNext]_clientVars => Closing'
<1> SUFFICES ASSUME CInv, [ClientNext]_clientVars
             PROVE  Closing'
  OBVIOUS
<1>t. /\ started \in Nat /\ started' \in Nat /\ mark \in [Threads -> Nat]
      /\ mark' \in [Threads -> Nat] /\ before \in [Threads -> Nat]
      /\ before' \in [Threads -> Nat] /\ Loops \subseteq Nat /\ Loops \subseteq Threads
      /\ TypeOK' /\ ClientTypeOK'
  <2>1. TypeOK' /\ ClientTypeOK' /\ TypeOK /\ ClientTypeOK
    BY ClientTypeStep DEF CInv, ClientTypeOK
  <2>2. MaxStarts \in Nat /\ 0..MaxStarts \subseteq Nat
    BY LoopAssumption
  <2>3. Loops \subseteq Nat /\ Loops \subseteq Threads
    BY <2>2 DEF Loops, Threads
  <2>4. /\ started \in Nat /\ mark \in [Threads -> Nat] /\ before \in [Threads -> Nat]
    BY <2>1, <2>2 DEF TypeOK, ClientTypeOK
  <2>5. /\ started' \in Nat /\ mark' \in [Threads -> Nat] /\ before' \in [Threads -> Nat]
    BY <2>1, <2>2 DEF TypeOK, ClientTypeOK
  <2> QED
    BY <2>1, <2>3, <2>4, <2>5
<1>n. [Next]_vars
  BY ClientStepIsLoopStep
<1>g. started <= started'
  BY <1>n, <1>t DEF Next, ApiStep, LoopStep, Enter, StartRefused, StartLoop, SetStopped,
        Join, JoinInterrupted, ClearThread, CallStart, CallStop, Check, Poll, CallbackEnds,
        RecordFailure, ReportEnds, vars
<1>d. ASSUME NEW w \in Loops, w <= started, ~Alive(w)
      PROVE  ~Alive(w)'
  BY <1>d, <1>n, DeadStaysDead DEF CInv, LInv
<1> DEFINE Left(t) ==
             /\ before[t] <= started
             /\ closing[t] = "stopping" =>
                  /\ pc[t] \in {"stopLock", "stopIn", "joining", "clearLock", "clearIn"}
                  /\ pc[t] \in {"joining", "clearLock", "clearIn"} => before[t] <= mark[t]
             /\ closing[t] = "bridge" =>
                  \A w \in Loops : w <= before[t] /\ w # t => ~Alive(w)
<1>s. ASSUME \A t \in Threads : Left(t)'
      PROVE  Closing'
  BY <1>s DEF Closing, StoppedBeforeClosed
<1>o. \A t \in Threads : Left(t)
  BY DEF CInv, Closing, StoppedBeforeClosed
<1> HIDE DEF Left
\* A close that does not move, or only within its stop, keeps what it has.
<1>k. ASSUME NEW t \in Threads, before'[t] = before[t], closing'[t] = closing[t],
             \/ closing[t] # "stopping"
             \/ pc'[t] = pc[t] /\ mark'[t] = mark[t]
             \/ pc[t] = "stopLock" /\ pc'[t] = "stopIn"
             \/ pc[t] = "joining" /\ pc'[t] = "clearLock" /\ mark'[t] = mark[t]
             \/ pc[t] = "clearLock" /\ pc'[t] = "clearIn" /\ mark'[t] = mark[t]
      PROVE  Left(t)'
  <2>1. before'[t] <= started'
    BY <1>k, <1>t, <1>g, <1>o DEF Left
  <2>2. closing'[t] = "stopping" =>
          /\ pc'[t] \in {"stopLock", "stopIn", "joining", "clearLock", "clearIn"}
          /\ pc'[t] \in {"joining", "clearLock", "clearIn"} => before'[t] <= mark'[t]
    BY <1>k, <1>o DEF Left
  <2>3. closing'[t] = "bridge" =>
          \A w \in Loops : w <= before'[t] /\ w # t => ~Alive(w)'
    <3> SUFFICES ASSUME closing[t] = "bridge", NEW w \in Loops, w <= before[t], w # t
                 PROVE  ~Alive(w)'
      BY <1>k
    <3>1. w <= started /\ ~Alive(w)
      BY <1>o, <1>t DEF Left
    <3> QED
      BY <1>d, <3>1
  <2> QED
    BY <2>1, <2>2, <2>3 DEF Left
\* A step of thread t's leaves the stops of the others where they are.
<1>e. ASSUME NEW t \in Threads,
             \/ CallStop(t) \/ CallStart(t) \/ SetStopped(t) \/ ClearThread(t)
             \/ JoinInterrupted(t) \/ Enter(t) \/ StartRefused(t) \/ StartLoop(t) \/ Join(t)
      PROVE  \A u \in Threads \ {t} : pc'[u] = pc[u] /\ mark'[u] = mark[u]
  BY <1>e DEF CallStop, CallStart, SetStopped, ClearThread, JoinInterrupted, Enter,
              StartRefused, StartLoop, Join, Goto, CInv, LInv, TypeOK
<1>1. ASSUME NEW t \in Threads, Close(t)
      PROVE  Closing'
  <2>1. \A u \in Threads \ {t} : Left(u)'
    BY <1>1, <1>k, <1>e DEF Close, CInv, ClientTypeOK
  <2>2. Left(t)'
    BY <1>1, <1>t, <1>g DEF Close, CallStop, Goto, CInv, LInv, ClientTypeOK, TypeOK, Left
  <2> QED
    BY <1>s, <2>1, <2>2
<1>2. ASSUME NEW t \in Threads, StopOfClose(t)
      PROVE  Closing'
  <2>1. \A u \in Threads \ {t} : Left(u)'
    BY <1>2, <1>k, <1>e DEF StopOfClose, CInv, ClientTypeOK
  <2>2. before'[t] = before[t] /\ before[t] <= started
    BY <1>2, <1>o DEF StopOfClose, Left
  <2>3. CASE SetStopped(t)
    <3>1. /\ mark'[t] = started /\ UNCHANGED <<loop, thread, started>>
          /\ pc'[t] = IF thread \in {NoThread, t} THEN "idle" ELSE "joining"
      BY <2>3 DEF SetStopped, Goto, CInv, LInv, TypeOK
    <3>2. closing'[t] = IF thread \in {NoThread, t} THEN "bridge" ELSE "stopping"
      BY <1>2, <3>1 DEF StopOfClose, CInv, ClientTypeOK
    <3>3. \A w \in Loops : Alive(w)' => w = thread
      BY <3>1 DEF CInv, LInv, Field, RunningLoopIsKnown, Alive
    <3>4. ~Alive(NoThread)'
      BY DEF Alive
    <3> QED
      BY <1>s, <2>1, <2>2, <3>1, <3>2, <3>3, <3>4, <1>t DEF Left
  <2>4. CASE ClearThread(t)
    <3>1. pc[t] = "clearIn" /\ pc'[t] = "idle" /\ UNCHANGED <<loop, started>>
      BY <2>4 DEF ClearThread, Goto, CInv, LInv, TypeOK
    <3>2. closing[t] = "stopping" /\ closing'[t] = "bridge"
      BY <1>2, <3>1 DEF StopOfClose, CInv, ClientTypeOK
    <3>3. \A w \in Loops : w <= mark[t] => ~Alive(w)
      BY <3>1 DEF CInv, LInv, Stopping
    <3>4. before[t] <= mark[t]
      BY <1>o, <3>1, <3>2 DEF Left
    <3>5. \A w \in Loops : w <= before[t] => ~Alive(w)'
      BY <3>1, <3>3, <3>4, <1>t DEF Alive
    <3> QED
      BY <1>s, <2>1, <2>2, <3>1, <3>2, <3>5, <1>t DEF Left
  <2> QED
    BY <1>2, <2>3, <2>4 DEF StopOfClose
<1>3. ASSUME NEW t \in Threads, CloseInterrupted(t) \/ CloseBridge(t)
      PROVE  Closing'
  <2>1. \A u \in Threads \ {t} : Left(u)'
    BY <1>3, <1>k, <1>e DEF CloseInterrupted, CloseBridge, vars, CInv, ClientTypeOK
  <2>2. closing'[t] = "no" /\ before'[t] = 0
    BY <1>3 DEF CloseInterrupted, CloseBridge, CInv, ClientTypeOK
  <2>3. Left(t)'
    BY <2>2, <1>t DEF Left
  <2> QED
    BY <1>s, <2>1, <2>3
<1>4. ASSUME NEW t \in Threads, Call(t) \/ (closing[t] = "no" /\
                (SetStopped(t) \/ ClearThread(t)) /\ UNCHANGED closeVars)
      PROVE  Closing'
  <2>1. closing[t] = "no" /\ UNCHANGED closeVars
    BY <1>4 DEF Call
  <2> QED
    BY <1>4, <1>s, <1>k, <1>e, <2>1 DEF Call, closeVars
<1>5. ASSUME NEW t \in Threads, Within(t)
      PROVE  Closing'
  <2>1. /\ UNCHANGED closeVars
        /\ Enter(t) \/ StartRefused(t) \/ StartLoop(t) \/ Join(t)
    BY <1>5 DEF Within
  <2>2. \A u \in Threads \ {t} : Left(u)'
    BY <1>k, <1>e, <2>1 DEF closeVars
  <2>3. CASE closing[t] # "stopping"
    BY <1>s, <1>k, <2>1, <2>2, <2>3 DEF closeVars
  <2>4. CASE closing[t] = "stopping"
    <3>1. pc[t] \notin {"startLock", "startIn"}
      BY <1>o, <2>4 DEF Left
    <3>2. /\ mark' = mark
          /\ \/ pc[t] = "stopLock" /\ pc'[t] = "stopIn"
             \/ pc[t] = "joining" /\ pc'[t] = "clearLock"
             \/ pc[t] = "clearLock" /\ pc'[t] = "clearIn"
      BY <2>1, <3>1 DEF Enter, StartRefused, StartLoop, Join, Goto, CInv, LInv, TypeOK
    <3>3. Left(t)'
      BY <1>k, <2>1, <3>2 DEF closeVars
    <3> QED
      BY <1>s, <2>2, <3>3
  <2> QED
    BY <2>3, <2>4
<1>6. CASE UNCHANGED <<pc, mark, closeVars>>
  BY <1>6, <1>s, <1>k DEF closeVars
<1>7. ASSUME NEW w \in Loops, ClientLoopStep(w)
      PROVE  Closing'
  <2>1. UNCHANGED <<pc, mark, closeVars>>
    BY <1>7 DEF ClientLoopStep, LoopGoesOn, PollBridge, CallbackReturns, Check, Poll,
                CallbackEnds, RecordFailure, ReportEnds, apiVars
  <2> QED
    BY <1>6, <2>1
<1>8. CASE UNCHANGED clientVars
  BY <1>6, <1>8 DEF clientVars, vars
<1> QED
  BY <1>1, <1>2, <1>3, <1>4, <1>5, <1>7, <1>8 DEF ClientNext, ClientApiStep

\* Types, the loop's argument and the close's hold in every state.
THEOREM ClientInvariance == ClientSpec => []CInv
<1>1. ClientInit => ClientTypeOK /\ Closing
  <2> SUFFICES ASSUME ClientInit
               PROVE  ClientTypeOK /\ Closing
    OBVIOUS
  <2>1. ClientTypeOK
    BY TypeInit, LoopAssumption DEF ClientInit, ClientTypeOK
  <2>2. Closing
    BY DEF ClientInit, Init, Closing, StoppedBeforeClosed
  <2> QED
    BY <2>1, <2>2
<1>2. ClientTypeOK /\ LInv /\ [ClientNext]_clientVars => ClientTypeOK'
  BY ClientTypeStep
<1>3. ClientTypeOK /\ LInv /\ Closing /\ [ClientNext]_clientVars => Closing'
  BY ClosingStep DEF CInv
<1>4. CInv <=> ClientTypeOK /\ LInv /\ Closing
  BY DEF CInv
<1> QED
  BY <1>1, <1>2, <1>3, <1>4, ClosingIsStopping, LoopInvariance, PTL DEF ClientSpec

\* For any callers, any closers and any number of loops, the bridge is never
\* closed under a loop that was running when the close was called.
THEOREM BridgeOutlivesLoops == ClientSpec => []StoppedBeforeClosed
<1>1. CInv => StoppedBeforeClosed
  BY DEF CInv, Closing
<1> QED
  BY <1>1, ClientInvariance, PTL
=============================================================================
