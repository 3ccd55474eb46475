-------------------------- MODULE UpdatePumpProofs --------------------------
(***************************************************************************)
(* Theorems about UpdatePump for every set of readers and syncers and      *)
(* every value of the bounds.                                              *)
(*                                                                         *)
(* The argument: between the last receipt and the last accepted update the *)
(* numbers got + 1, ..., accepted lie, in this order and once each, in the *)
(* handoff (with poll errors in between), the stream's buffer, the batch a *)
(* poll holds and the pool.  The state a sync writes reaches the end of    *)
(* the buffer, which no request finds while a batch is held.               *)
(***************************************************************************)
EXTENDS UpdatePump, SequenceTheorems, FiniteSetTheorems, TLAPS

\* Where the updates are that no poll has returned yet.
Pipeline ==
    /\ \A i \in 1..Len(buffer) : buffer[i] = handed + i
    /\ \A i \in 1..Len(held) : held[i] = handed + i
    /\ \A i \in 1..Len(pool) : pool[i] = handed + Len(buffer) + Len(held) + i
    /\ held # <<>> => phase = "resolving"
    /\ phase = "resolving" => buffer = <<>>
    /\ phase # "gone" => accepted = handed + Len(buffer) + Len(held) + Len(pool)
    /\ phase = "gone" => /\ pool = <<>> /\ held = <<>> /\ buffer = <<>>
                         /\ handed <= accepted

\* Where the updates are that a poll has returned and nobody has received.
Handoff ==
    /\ got <= handed
    /\ \A i \in 1..Len(handoff) :
          handoff[i] # PollError => got < handoff[i] /\ handoff[i] <= handed
    /\ \A i, j \in 1..Len(handoff) :
          i < j /\ handoff[i] # PollError /\ handoff[j] # PollError
            => handoff[i] < handoff[j]
    /\ \A n \in got + 1 .. handed : \E i \in 1..Len(handoff) : handoff[i] = n

\* What the written state covers, and what syncers were told about it.
Coverage ==
    /\ phase # "gone" => saved <= handed + Len(buffer)
    /\ \A s \in Syncers : since[s] <= got
    /\ \A s \in Syncers : sync[s] = "written" => since[s] <= saved

IInv == TypeOK /\ Pipeline /\ Handoff /\ Coverage

-----------------------------------------------------------------------------
(* Sequences.                                                              *)

\* Renaming the entries of a sequence gives a sequence of the same length.
LEMMA RenamedSeq ==
    ASSUME NEW S, NEW T, NEW q \in Seq(S), NEW f,
           f = [i \in DOMAIN q |-> f[i]],
           \A i \in DOMAIN q : f[i] \in T
    PROVE  f \in Seq(T)
<1>1. DOMAIN q = 1..Len(q) /\ Len(q) \in Nat
  OBVIOUS
<1>2. f \in [1..Len(q) -> T]
  BY <1>1
<1> QED
  BY <1>1, <1>2, IsASeq

\* A split of a sequence: what a batch takes and what it leaves.
LEMMA SplitSeq ==
    ASSUME NEW q \in Seq(Nat), NEW n \in 1..Len(q)
    PROVE  /\ SubSeq(q, 1, n) \in Seq(Nat)
           /\ Len(SubSeq(q, 1, n)) = n
           /\ \A i \in 1..n : SubSeq(q, 1, n)[i] = q[i]
           /\ SubSeq(q, n + 1, Len(q)) \in Seq(Nat)
           /\ Len(SubSeq(q, n + 1, Len(q))) = Len(q) - n
           /\ \A i \in 1..(Len(q) - n) : SubSeq(q, n + 1, Len(q))[i] = q[n + i]
<1>1. Len(q) \in Nat /\ n \in Nat /\ n <= Len(q)
  OBVIOUS
<1> QED
  BY <1>1, SubSeqProperties

-----------------------------------------------------------------------------
(* Type correctness.                                                       *)

LEMMA TypeInit == Init => TypeOK
BY PumpAssumption DEF Init, TypeOK, Phases, SyncState, StopState

LEMMA TypeStep == TypeOK /\ [Next]_vars => TypeOK'
<1> SUFFICES ASSUME TypeOK, [Next]_vars
             PROVE  TypeOK'
  OBVIOUS
<1> USE DEF TypeOK, Phases, SyncState, StopState,
            streamVars, pumpVars, readVars, syncVars
<1>1. CASE Accept
  BY <1>1 DEF Accept
<1>2. CASE TakeCommand
  BY <1>2 DEF TakeCommand
<1>3. CASE FinishSync
  BY <1>3 DEF FinishSync, Answer, Built
<1>4. CASE StartPoll
  BY <1>4 DEF StartPoll
<1>5. ASSUME NEW n \in 1..Len(pool), TakeBatch(n)
      PROVE  TypeOK'
  BY <1>5, SplitSeq DEF TakeBatch
<1>6. CASE Resolve
  BY <1>6 DEF Resolve
<1>7. CASE HandOver
  BY <1>7 DEF HandOver
<1>8. CASE FailPoll
  BY <1>8 DEF FailPoll, PollError
<1>9. CASE TaskGone
  BY <1>9 DEF TaskGone, Built
<1>10. CASE Abort
  BY <1>10 DEF Abort
<1>11. CASE StopReturns
  BY <1>11 DEF StopReturns
<1>12. ASSUME NEW r \in Readers, CallNext(r)
       PROVE  TypeOK'
  BY <1>12 DEF CallNext
<1>13. CASE Receive
  BY <1>13 DEF Receive
<1>14. CASE GiveUp \/ ReadClosed
  <2>1. line \in Seq(Readers) /\ line # <<>> /\ line' = Tail(line)
    BY <1>14 DEF GiveUp, ReadClosed
  <2>2. line' \in Seq(Readers)
    BY <2>1, HeadTailProperties
  <2>3. UNCHANGED <<accepted, handed, got, saved, pool, held, buffer, handoff,
                    phase, commands, performing, sync, since, stop>>
    BY <1>14 DEF GiveUp, ReadClosed
  <2> QED
    BY <2>2, <2>3
<1>15. ASSUME NEW s \in Syncers, CallSync(s)
       PROVE  TypeOK'
  <2>1. sync' \in [Syncers -> SyncState] /\ since' \in [Syncers -> Nat]
    BY <1>15 DEF CallSync
  <2>2. commands' \in Seq(Syncers \cup {Nobody})
    <3>1. CASE commands' = commands
      BY <3>1
    <3>2. CASE commands' = Append(commands, s)
      BY <3>2, AppendProperties
    <3> QED
      BY <1>15, <3>1, <3>2 DEF CallSync
  <2> QED
    BY <1>15, <2>1, <2>2 DEF CallSync
<1>16. ASSUME NEW s \in Syncers, GiveUpSync(s)
       PROVE  TypeOK'
  <2>1. commands' \in Seq(Syncers \cup {Nobody})
    <3>1. \A i \in DOMAIN commands : commands[i] \in Syncers \cup {Nobody}
      OBVIOUS
    <3>2. commands' = [i \in DOMAIN commands |-> commands'[i]]
      BY <1>16 DEF GiveUpSync
    <3>3. \A i \in DOMAIN commands : commands'[i] \in Syncers \cup {Nobody}
      BY <1>16, <3>1 DEF GiveUpSync
    <3> QED
      BY <3>2, <3>3, RenamedSeq
  <2> QED
    BY <1>16, <2>1 DEF GiveUpSync
<1>17. CASE UNCHANGED vars
  BY <1>17 DEF vars
<1> QED
  BY <1>1, <1>2, <1>3, <1>4, <1>5, <1>6, <1>7, <1>8, <1>9, <1>10, <1>11,
     <1>12, <1>13, <1>14, <1>15, <1>16, <1>17 DEF Next, PumpStep, ReadStep

\* Every variable keeps its type whatever the constants are.
THEOREM TypeCorrect == Spec => []TypeOK
BY TypeInit, TypeStep, PTL DEF Spec

-----------------------------------------------------------------------------
(* The updates before the handoff.                                         *)

\* The variables Pipeline speaks of.
pipelineVars == <<accepted, pool, held, buffer, handed, phase>>

LEMMA PipelineSame ==
    ASSUME Pipeline, UNCHANGED pipelineVars
    PROVE  Pipeline'
BY DEF Pipeline, pipelineVars

LEMMA PipelineStep == TypeOK /\ Pipeline /\ [Next]_vars => Pipeline'
<1> SUFFICES ASSUME TypeOK, Pipeline, [Next]_vars
             PROVE  Pipeline'
  OBVIOUS
<1> USE DEF streamVars, pumpVars, readVars, syncVars
<1>t. /\ accepted \in Nat /\ handed \in Nat /\ phase \in Phases
      /\ pool \in Seq(Nat) /\ held \in Seq(Nat) /\ buffer \in Seq(Nat)
  BY DEF TypeOK
<1>1. CASE Accept
  <2>1. /\ Len(pool') = Len(pool) + 1
        /\ pool'[Len(pool) + 1] = accepted + 1
        /\ \A i \in 1..Len(pool) : pool'[i] = pool[i]
    BY <1>1, <1>t DEF Accept
  <2>2. \A i \in 1..Len(pool') : pool'[i] = handed + Len(buffer) + Len(held) + i
    <3>1. accepted = handed + Len(buffer) + Len(held) + Len(pool)
      BY <1>1 DEF Accept, Pipeline
    <3>2. \A i \in 1..Len(pool) : pool'[i] = handed + Len(buffer) + Len(held) + i
      BY <2>1 DEF Pipeline
    <3>3. \A i \in 1..Len(pool') : i \in 1..Len(pool) \/ i = Len(pool) + 1
      BY <1>t, <2>1
    <3>4. pool'[Len(pool) + 1] = handed + Len(buffer) + Len(held) + (Len(pool) + 1)
      BY <1>t, <2>1, <3>1
    <3> QED
      BY <3>2, <3>3, <3>4
  <2> QED
    BY <1>1, <1>t, <2>1, <2>2 DEF Accept, Pipeline
<1>2. CASE TakeCommand \/ FinishSync \/ StartPoll \/ FailPoll
  BY <1>2, <1>t DEF TakeCommand, FinishSync, StartPoll, FailPoll, Pipeline, Phases
<1>3. ASSUME NEW n \in 1..Len(pool), TakeBatch(n)
      PROVE  Pipeline'
  <2>1. /\ Len(held') = n
        /\ \A i \in 1..n : held'[i] = pool[i]
        /\ Len(pool') = Len(pool) - n
        /\ \A i \in 1..(Len(pool) - n) : pool'[i] = pool[n + i]
    BY <1>3, <1>t, SplitSeq DEF TakeBatch
  <2>2. /\ buffer = <<>> /\ held = <<>> /\ Len(buffer) = 0 /\ Len(held) = 0
        /\ phase = "polling" /\ phase' = "resolving"
        /\ UNCHANGED <<accepted, buffer, handed>>
    BY <1>3, <1>t DEF TakeBatch, Pipeline
  <2>3. \A i \in 1..Len(held') : held'[i] = handed + i
    <3> TAKE i \in 1..Len(held')
    <3>1. i \in 1..Len(pool) /\ i \in 1..n /\ i \in Nat
      BY <1>t, <2>1
    <3>2. pool[i] = handed + 0 + 0 + i
      BY <2>2, <3>1 DEF Pipeline
    <3> QED
      BY <1>t, <2>1, <3>1, <3>2
  <2>4. \A i \in 1..Len(pool') : pool'[i] = handed + Len(buffer) + Len(held') + i
    <3> TAKE i \in 1..Len(pool')
    <3>1. n + i \in 1..Len(pool)
      BY <1>t, <2>1
    <3>2. pool[n + i] = handed + n + i
      BY <1>t, <2>2, <3>1 DEF Pipeline
    <3> QED
      BY <1>t, <2>1, <2>2, <3>2
  <2>5. accepted = handed + Len(buffer) + Len(held') + Len(pool')
    BY <1>t, <2>1, <2>2 DEF Pipeline
  <2> QED
    BY <2>2, <2>3, <2>4, <2>5 DEF Pipeline
<1>4. CASE Resolve
  <2>1. buffer = <<>> /\ Len(buffer) = 0
    BY <1>4, <1>t DEF Resolve, Pipeline
  <2>2. buffer' = held /\ held' = <<>> /\ Len(held') = 0
    BY <1>4 DEF Resolve
  <2> QED
    BY <1>4, <1>t, <2>1, <2>2 DEF Resolve, Pipeline
<1>5. CASE HandOver
  <2>1. /\ Len(buffer') = Len(buffer) - 1
        /\ \A i \in 1..Len(buffer') : buffer'[i] = buffer[i + 1]
        /\ Len(buffer) > 0
    BY <1>5, <1>t, HeadTailProperties DEF HandOver
  <2>2. handed' = handed + 1
    BY <1>5, <1>t, <2>1 DEF HandOver, Pipeline
  <2>3. held = <<>> /\ Len(held) = 0 /\ held' = held
    BY <1>5 DEF HandOver, Pipeline
  <2>4. \A i \in 1..Len(buffer') : buffer'[i] = handed' + i
    BY <1>t, <2>1, <2>2 DEF Pipeline
  <2>5. /\ phase = "polling" /\ phase' = "draining"
        /\ UNCHANGED <<accepted, pool>>
    BY <1>5 DEF HandOver
  <2>6. \A i \in 1..Len(pool') : pool'[i] = handed' + Len(buffer') + Len(held') + i
    BY <1>t, <2>1, <2>2, <2>3, <2>5 DEF Pipeline
  <2>7. accepted' = handed' + Len(buffer') + Len(held') + Len(pool')
    BY <1>t, <2>1, <2>2, <2>3, <2>5 DEF Pipeline
  <2> QED
    BY <2>3, <2>4, <2>5, <2>6, <2>7 DEF Pipeline
<1>6. CASE TaskGone
  BY <1>6, <1>t DEF TaskGone, Pipeline
<1>7. CASE Abort \/ StopReturns \/ ReadStep \/ \E r \in Readers : CallNext(r)
  BY <1>7, PipelineSame DEF Abort, StopReturns, ReadStep, Receive, GiveUp,
                            ReadClosed, CallNext, pipelineVars
<1>8. ASSUME NEW s \in Syncers, CallSync(s) \/ GiveUpSync(s)
      PROVE  Pipeline'
  BY <1>8, PipelineSame DEF CallSync, GiveUpSync, pipelineVars
<1>9. CASE UNCHANGED vars
  BY <1>9, PipelineSame DEF vars, pipelineVars
<1> QED
  BY <1>1, <1>2, <1>3, <1>4, <1>5, <1>6, <1>7, <1>8, <1>9 DEF Next, PumpStep

-----------------------------------------------------------------------------
(* The updates in the handoff.                                             *)

\* The first update in the handoff is the one after the last received.
LEMMA HeadIsNext ==
    ASSUME TypeOK, Handoff, handoff # <<>>, Head(handoff) # PollError
    PROVE  Head(handoff) = got + 1
<1>1. /\ got \in Nat /\ handed \in Nat /\ Len(handoff) \in Nat /\ Len(handoff) > 0
      /\ 1 \in 1..Len(handoff) /\ Head(handoff) = handoff[1]
      /\ \A i \in 1..Len(handoff) : handoff[i] \in Nat
  BY DEF TypeOK
<1>2. got < handoff[1] /\ handoff[1] <= handed
  BY <1>1 DEF Handoff
<1>3. PICK i \in 1..Len(handoff) : handoff[i] = got + 1
  BY <1>1, <1>2 DEF Handoff
<1>4. i # 1 => handoff[1] < handoff[i]
  BY <1>1, <1>3 DEF Handoff, PollError
<1> QED
  BY <1>1, <1>2, <1>3, <1>4

handoffVars == <<got, handed, handoff>>

LEMMA HandoffSame ==
    ASSUME Handoff, UNCHANGED handoffVars
    PROVE  Handoff'
BY DEF Handoff, handoffVars

LEMMA HandoffStep == TypeOK /\ Pipeline /\ Handoff /\ [Next]_vars => Handoff'
<1> SUFFICES ASSUME TypeOK, Pipeline, Handoff, [Next]_vars
             PROVE  Handoff'
  OBVIOUS
<1> USE DEF streamVars, pumpVars, readVars, syncVars
<1>t. /\ got \in Nat /\ handed \in Nat
      /\ handoff \in Seq(Nat) /\ buffer \in Seq(Nat)
  BY DEF TypeOK
<1>1. CASE HandOver
  <2>1. Head(buffer) = handed + 1
    BY <1>1, <1>t DEF HandOver, Pipeline
  <2>2. /\ handed' = handed + 1 /\ got' = got
        /\ handoff' = Append(handoff, handed + 1)
    BY <1>1, <2>1 DEF HandOver
  <2>3. /\ Len(handoff') = Len(handoff) + 1
        /\ handoff'[Len(handoff) + 1] = handed + 1
        /\ \A i \in 1..Len(handoff) : handoff'[i] = handoff[i]
        /\ \A i \in 1..Len(handoff') : i \in 1..Len(handoff) \/ i = Len(handoff) + 1
        /\ \A i \in 1..Len(handoff) : i \in 1..Len(handoff')
        /\ Len(handoff) + 1 \in 1..Len(handoff')
        /\ \A i \in 1..Len(handoff) : handoff[i] \in Nat
    BY <1>t, <2>2
  <2>4. got' <= handed'
    BY <1>t, <2>2 DEF Handoff
  <2>5. ASSUME NEW i \in 1..Len(handoff'), handoff'[i] # PollError
        PROVE  got' < handoff'[i] /\ handoff'[i] <= handed'
    BY <1>t, <2>2, <2>3, <2>5 DEF Handoff
  <2>6. ASSUME NEW i \in 1..Len(handoff'), NEW j \in 1..Len(handoff'), i < j,
               handoff'[i] # PollError, handoff'[j] # PollError
        PROVE  handoff'[i] < handoff'[j]
    <3>1. i \in 1..Len(handoff)
      BY <1>t, <2>3, <2>6
    <3>2. handoff'[i] = handoff[i] /\ handoff[i] # PollError
      BY <2>3, <2>6, <3>1
    <3>3. CASE j \in 1..Len(handoff)
      <4>1. handoff'[j] = handoff[j] /\ handoff[j] # PollError
        BY <2>3, <2>6, <3>3
      <4> QED
        BY <2>6, <3>1, <3>2, <3>3, <4>1 DEF Handoff
    <3>4. CASE j = Len(handoff) + 1
      <4>1. handoff[i] <= handed /\ handoff[i] \in Nat
        BY <2>3, <3>1, <3>2 DEF Handoff
      <4> QED
        BY <1>t, <2>3, <3>2, <3>4, <4>1
    <3> QED
      BY <2>3, <3>3, <3>4
  <2>7. ASSUME NEW n \in got' + 1 .. handed'
        PROVE  \E i \in 1..Len(handoff') : handoff'[i] = n
    <3>1. CASE n = handed + 1
      BY <2>3, <3>1
    <3>2. CASE n \in got + 1 .. handed
      BY <2>3, <3>2 DEF Handoff
    <3> QED
      BY <1>t, <2>2, <3>1, <3>2
  <2> QED
    BY <2>4, <2>5, <2>6, <2>7 DEF Handoff
<1>2. CASE FailPoll
  <2>1. /\ handed' = handed /\ got' = got
        /\ handoff' = Append(handoff, PollError) /\ PollError \in Nat
    BY <1>2 DEF FailPoll, PollError
  <2>2. /\ Len(handoff') = Len(handoff) + 1
        /\ handoff'[Len(handoff) + 1] = PollError
        /\ \A i \in 1..Len(handoff) : handoff'[i] = handoff[i]
        /\ \A i \in 1..Len(handoff') : i \in 1..Len(handoff) \/ i = Len(handoff) + 1
        /\ \A i \in 1..Len(handoff) : i \in 1..Len(handoff')
    BY <1>t, <2>1
  <2> QED
    BY <2>1, <2>2 DEF Handoff
<1>3. CASE Receive
  <2>1. /\ Len(handoff') = Len(handoff) - 1
        /\ \A i \in 1..Len(handoff') : handoff'[i] = handoff[i + 1]
        /\ \A i \in 1..Len(handoff') : i + 1 \in 1..Len(handoff)
        /\ \A i \in 1..Len(handoff) : i = 1 \/ i - 1 \in 1..Len(handoff')
        /\ \A i \in 1..Len(handoff) : i - 1 \in 1..Len(handoff')
              => handoff'[i - 1] = handoff[i]
        /\ 1 \in 1..Len(handoff) /\ Head(handoff) = handoff[1]
        /\ handed' = handed
        /\ \A i \in 1..Len(handoff) : handoff[i] \in Nat
    BY <1>3, <1>t, HeadTailProperties DEF Receive
  <2>2. ASSUME NEW i \in 1..Len(handoff'), NEW j \in 1..Len(handoff'), i < j,
               handoff'[i] # PollError, handoff'[j] # PollError
        PROVE  handoff'[i] < handoff'[j]
    <3>1. i + 1 < j + 1
      BY <2>2
    <3> QED
      BY <2>1, <2>2, <3>1 DEF Handoff
  <2>3. CASE Head(handoff) = PollError
    <3>1. got' = got
      BY <1>3, <2>3 DEF Receive
    <3>2. \A i \in 1..Len(handoff') :
            handoff'[i] # PollError => got' < handoff'[i] /\ handoff'[i] <= handed'
      BY <2>1, <3>1 DEF Handoff
    <3>3. ASSUME NEW n \in got' + 1 .. handed'
          PROVE  \E i \in 1..Len(handoff') : handoff'[i] = n
      <4>1. PICK i \in 1..Len(handoff) : handoff[i] = n
        BY <2>1, <3>1, <3>3 DEF Handoff
      <4>2. i # 1
        BY <1>t, <2>1, <2>3, <3>1, <4>1 DEF PollError
      <4> QED
        BY <2>1, <4>1, <4>2
    <3> QED
      BY <2>1, <2>2, <3>1, <3>2, <3>3 DEF Handoff
  <2>4. CASE Head(handoff) # PollError
    <3>1. got' = got + 1 /\ handoff[1] = got + 1
      BY <1>3, <2>1, <2>4, HeadIsNext DEF Receive
    <3>2. got' <= handed'
      <4>1. handoff[1] <= handed
        BY <2>1, <2>4 DEF Handoff
      <4> QED
        BY <2>1, <3>1, <4>1
    <3>3. ASSUME NEW i \in 1..Len(handoff'), handoff'[i] # PollError
          PROVE  got' < handoff'[i] /\ handoff'[i] <= handed'
      <4>0. i + 1 \in 1..Len(handoff) /\ 1 < i + 1
        BY <2>1, <3>3
      <4>1. handoff[i + 1] # PollError /\ handoff[1] # PollError
        BY <2>1, <2>4, <3>3
      <4>2. handoff[1] < handoff[i + 1] /\ handoff[i + 1] <= handed
        BY <2>1, <4>0, <4>1 DEF Handoff
      <4> QED
        BY <2>1, <3>1, <4>2
    <3>4. ASSUME NEW n \in got' + 1 .. handed'
          PROVE  \E i \in 1..Len(handoff') : handoff'[i] = n
      <4>1. n \in got + 1 .. handed /\ n # got + 1
        BY <1>t, <2>1, <3>1
      <4>2. PICK i \in 1..Len(handoff) : handoff[i] = n
        BY <4>1 DEF Handoff
      <4> QED
        BY <2>1, <3>1, <4>1, <4>2
    <3> QED
      BY <2>2, <3>2, <3>3, <3>4 DEF Handoff
  <2> QED
    BY <2>3, <2>4
<1>4. CASE TakeCommand \/ FinishSync \/ StartPoll \/ Resolve \/ TaskGone
  BY <1>4, HandoffSame DEF TakeCommand, FinishSync, StartPoll, Resolve, TaskGone,
                           handoffVars
<1>5. ASSUME NEW n \in 1..Len(pool), TakeBatch(n)
      PROVE  Handoff'
  BY <1>5, HandoffSame DEF TakeBatch, handoffVars
<1>6. CASE Accept \/ Abort \/ StopReturns
  BY <1>6, HandoffSame DEF Accept, Abort, StopReturns, handoffVars
<1>7. CASE GiveUp \/ ReadClosed \/ \E r \in Readers : CallNext(r)
  BY <1>7, HandoffSame DEF GiveUp, ReadClosed, CallNext, handoffVars
<1>8. ASSUME NEW s \in Syncers, CallSync(s) \/ GiveUpSync(s)
      PROVE  Handoff'
  BY <1>8, HandoffSame DEF CallSync, GiveUpSync, handoffVars
<1>9. CASE UNCHANGED vars
  BY <1>9, HandoffSame DEF vars, handoffVars
<1> QED
  BY <1>1, <1>2, <1>3, <1>4, <1>5, <1>6, <1>7, <1>8, <1>9
  DEF Next, PumpStep, ReadStep

-----------------------------------------------------------------------------
(* The written state.                                                      *)

coverageVars == <<got, phase, handed, buffer, sync, since, saved>>

LEMMA CoverageSame ==
    ASSUME Coverage, UNCHANGED coverageVars
    PROVE  Coverage'
BY DEF Coverage, coverageVars

LEMMA CoverageStep ==
    TypeOK /\ Pipeline /\ Handoff /\ Coverage /\ [Next]_vars => Coverage'
<1> SUFFICES ASSUME TypeOK, Pipeline, Handoff, Coverage, [Next]_vars
             PROVE  Coverage'
  OBVIOUS
<1> USE DEF streamVars, pumpVars, readVars, syncVars
<1>t. /\ got \in Nat /\ handed \in Nat /\ saved \in Nat
      /\ buffer \in Seq(Nat) /\ held \in Seq(Nat) /\ handoff \in Seq(Nat)
      /\ sync \in [Syncers -> SyncState] /\ since \in [Syncers -> Nat]
      /\ Len(buffer) \in Nat
  BY DEF TypeOK
<1>1. CASE FinishSync
  <2>1. /\ phase = "syncing" /\ phase' = "draining"
        /\ saved' = saved \/ saved' = Built
        /\ UNCHANGED <<got, handed, buffer, since>>
    BY <1>1 DEF FinishSync
  <2>b. Built = handed + Len(buffer)
    <3>1. held = <<>> /\ Len(held) = 0
      BY <2>1 DEF Pipeline
    <3> QED
      BY <1>t, <3>1 DEF Built
  <2>2. saved <= saved' /\ saved' <= handed + Len(buffer)
    BY <1>t, <2>b, <2>1 DEF Coverage
  <2>3. ASSUME NEW s \in Syncers, sync'[s] = "written"
        PROVE  since[s] <= saved'
    <3>1. since[s] <= got /\ got <= handed /\ since[s] \in Nat
      BY <1>t DEF Coverage, Handoff
    <3>2. sync[s] = "written" \/ saved' = handed + Len(buffer)
      <4>1. saved' = Built \/ sync'[s] # "written" \/ sync[s] = "written"
        BY <1>1, <1>t DEF FinishSync, Answer
      <4> QED
        BY <2>3, <2>b, <4>1
    <3>3. CASE sync[s] = "written"
      <4>1. since[s] <= saved
        BY <3>3 DEF Coverage
      <4>2. saved' \in Nat
        BY <1>t, <2>1, <2>b
      <4> QED
        BY <1>t, <2>2, <3>1, <4>1, <4>2
    <3>4. CASE saved' = handed + Len(buffer)
      BY <1>t, <3>1, <3>4
    <3> QED
      BY <3>2, <3>3, <3>4
  <2> QED
    BY <2>1, <2>2, <2>3 DEF Coverage
<1>2. CASE TakeCommand \/ StartPoll \/ FailPoll
  BY <1>2 DEF TakeCommand, StartPoll, FailPoll, Coverage
<1>3. ASSUME NEW n \in 1..Len(pool), TakeBatch(n)
      PROVE  Coverage'
  BY <1>3 DEF TakeBatch, Coverage
<1>4. CASE Resolve
  <2>1. Len(buffer) = 0 /\ Len(buffer') \in Nat
    BY <1>4, <1>t DEF Resolve, Pipeline
  <2>2. saved <= handed
    BY <1>4, <1>t, <2>1 DEF Resolve, Coverage
  <2> QED
    BY <1>4, <1>t, <2>1, <2>2 DEF Resolve, Coverage
<1>5. CASE HandOver
  <2>1. handed' = handed + 1 /\ Len(buffer') = Len(buffer) - 1
    BY <1>5, <1>t, HeadTailProperties DEF HandOver, Pipeline
  <2>2. saved <= handed + Len(buffer)
    BY <1>5 DEF HandOver, Coverage
  <2>3. saved' <= handed' + Len(buffer')
    BY <1>5, <1>t, <2>1, <2>2 DEF HandOver
  <2> QED
    BY <1>5, <2>3 DEF HandOver, Coverage
<1>6. CASE TaskGone
  <2>1. /\ phase' = "gone" /\ since' = since /\ got' = got
        /\ saved' = saved \/ (phase # "gone" /\ saved' = Built)
    BY <1>6 DEF TaskGone
  <2>b. Built \in Nat /\ handed + Len(buffer) <= Built
    <3>1. Len(held) \in Nat
      BY <1>t
    <3> QED
      BY <1>t, <3>1 DEF Built
  <2>2. saved <= saved' /\ saved' \in Nat
    BY <1>t, <2>b, <2>1 DEF Coverage
  <2>3. \A s \in Syncers : sync'[s] = "written" => sync[s] = "written"
    BY <1>6, <1>t DEF TaskGone
  <2>4. ASSUME NEW s \in Syncers, sync'[s] = "written"
        PROVE  since[s] <= saved'
    <3>1. since[s] <= saved /\ since[s] \in Nat /\ saved' \in Nat
      BY <1>t, <2>2, <2>3, <2>4 DEF Coverage
    <3> QED
      BY <1>t, <2>2, <3>1
  <2> QED
    BY <2>1, <2>4 DEF Coverage
<1>7. CASE Receive
  <2>1. got <= got' /\ got' \in Nat
    BY <1>t, <1>7, HeadIsNext DEF Receive
  <2>2. \A s \in Syncers : since[s] <= got /\ since[s] \in Nat
    BY <1>t DEF Coverage
  <2>3. UNCHANGED <<phase, handed, buffer, sync, since, saved>>
    BY <1>7 DEF Receive
  <2>4. \A s \in Syncers : since'[s] <= got'
    BY <1>t, <2>1, <2>2, <2>3
  <2> QED
    BY <2>3, <2>4 DEF Coverage
<1>8. CASE GiveUp \/ ReadClosed \/ \E r \in Readers : CallNext(r)
  BY <1>8, CoverageSame DEF GiveUp, ReadClosed, CallNext, coverageVars
<1>9. CASE Accept \/ Abort \/ StopReturns
  BY <1>9, CoverageSame DEF Accept, Abort, StopReturns, coverageVars
<1>10. ASSUME NEW s \in Syncers, CallSync(s)
       PROVE  Coverage'
  <2>1. /\ since' = [since EXCEPT ![s] = got]
        /\ \A q \in Syncers : sync'[q] = "written" => q # s /\ sync[q] = "written"
        /\ UNCHANGED <<got, phase, handed, buffer, saved>>
    BY <1>10, <1>t DEF CallSync
  <2>2. \A q \in Syncers : since'[q] = (IF q = s THEN got ELSE since[q])
    BY <1>t, <2>1
  <2> QED
    BY <1>t, <2>1, <2>2 DEF Coverage
<1>11. ASSUME NEW s \in Syncers, GiveUpSync(s)
       PROVE  Coverage'
  BY <1>11, <1>t DEF GiveUpSync, Coverage
<1>12. CASE UNCHANGED vars
  BY <1>12, CoverageSame DEF vars, coverageVars
<1> QED
  BY <1>1, <1>2, <1>3, <1>4, <1>5, <1>6, <1>7, <1>8, <1>9, <1>10, <1>11, <1>12
  DEF Next, PumpStep, ReadStep

-----------------------------------------------------------------------------
(* The theorems.                                                           *)

\* IInv holds in every state of the pump: nothing is lost, copied or
\* overtaken between the pool and the readers, and no written state runs
\* ahead of what the stream has taken in.
THEOREM Invariance == Spec => []IInv
<1>1. Init => IInv
  <2>1. Init => Pipeline /\ Handoff /\ Coverage
    BY DEF Init, Pipeline, Handoff, Coverage
  <2> QED
    BY <2>1, TypeInit DEF IInv
<1>2. IInv /\ [Next]_vars => IInv'
  BY TypeStep, PipelineStep, HandoffStep, CoverageStep DEF IInv
<1> QED
  BY <1>1, <1>2, PTL DEF Spec

\* However many waits give up, and while polls fail or batches are being
\* resolved, every accepted update nobody has received is still held by the
\* running pump.
THEOREM NoUpdateLost == Spec => []NothingLost
<1>1. IInv => NothingLost
  <2> SUFFICES ASSUME IInv, phase # "gone", NEW n \in got + 1 .. accepted
               PROVE  n \in UNION {Elements(handoff), Elements(buffer),
                                   Elements(held), Elements(pool)}
    BY DEF NothingLost
  <2>1. /\ got \in Nat /\ handed \in Nat /\ accepted \in Nat /\ n \in Nat
        /\ Len(buffer) \in Nat /\ Len(held) \in Nat /\ Len(pool) \in Nat
        /\ DOMAIN handoff = 1..Len(handoff) /\ DOMAIN buffer = 1..Len(buffer)
        /\ DOMAIN held = 1..Len(held) /\ DOMAIN pool = 1..Len(pool)
        /\ held = <<>> => Len(held) = 0
        /\ buffer = <<>> => Len(buffer) = 0
    BY DEF IInv, TypeOK
  <2>2. accepted = handed + Len(buffer) + Len(held) + Len(pool)
    BY DEF IInv, Pipeline
  <2>3. Len(buffer) = 0 \/ Len(held) = 0
    BY <2>1 DEF IInv, Pipeline
  <2>4. CASE n <= handed
    <3>1. n \in got + 1 .. handed
      BY <2>1, <2>4
    <3> QED
      BY <2>1, <3>1 DEF IInv, Handoff, Elements
  <2>5. CASE handed < n /\ n <= handed + Len(buffer)
    <3>1. n - handed \in 1..Len(buffer) /\ handed + (n - handed) = n
      BY <2>1, <2>5
    <3>2. buffer[n - handed] = n
      BY <3>1 DEF IInv, Pipeline
    <3> QED
      BY <2>1, <3>1, <3>2 DEF Elements
  <2>6. CASE handed + Len(buffer) < n /\ n <= handed + Len(buffer) + Len(held)
    <3>1. n - handed \in 1..Len(held) /\ handed + (n - handed) = n
      BY <2>1, <2>3, <2>6
    <3>2. held[n - handed] = n
      BY <3>1 DEF IInv, Pipeline
    <3> QED
      BY <2>1, <3>1, <3>2 DEF Elements
  <2>7. CASE handed + Len(buffer) + Len(held) < n
    <3> DEFINE i == n - (handed + Len(buffer) + Len(held))
    <3>1. i \in 1..Len(pool) /\ handed + Len(buffer) + Len(held) + i = n
      BY <2>1, <2>2, <2>7
    <3>2. pool[i] = n
      BY <3>1 DEF IInv, Pipeline
    <3> QED
      BY <2>1, <3>1, <3>2 DEF Elements
  <2> QED
    BY <2>1, <2>4, <2>5, <2>6, <2>7
<1> QED
  BY <1>1, Invariance, PTL

\* What polls have returned stays readable, in order, after the abort.
THEOREM HandoffSurvivesStop == Spec => []HandoffComplete
<1>1. IInv => HandoffComplete
  <2> SUFFICES ASSUME IInv
               PROVE  HandoffComplete
    OBVIOUS
  <2>1. DOMAIN handoff = 1..Len(handoff)
    BY DEF IInv, TypeOK
  <2>2. ASSUME NEW n \in got + 1 .. handed
        PROVE  n \in Elements(handoff)
    BY <2>1, <2>2 DEF IInv, Handoff, Elements
  <2>3. \A i, j \in DOMAIN handoff :
          i < j /\ handoff[i] # PollError /\ handoff[j] # PollError
            => handoff[i] < handoff[j]
    BY <2>1 DEF IInv, Handoff
  <2> QED
    BY <2>2, <2>3 DEF HandoffComplete
<1> QED
  BY <1>1, Invariance, PTL

\* What TaskGone drops and no later session asks for again was in the stream's
\* buffer, or in the batch of a poll when dropping the stream wrote the state.
THEOREM AbortIsBounded == Spec => AbortSparesPoolAndHandoff
<1> DEFINE Spared ==
      phase # "gone" /\ phase' = "gone" =>
        \A n \in got + 1 .. accepted :
           n <= saved' /\ n \notin Elements(handoff') =>
             \/ n \in Elements(buffer)
             \/ n \in Elements(held) /\ saved' # saved
<1>1. IInv /\ [Next]_vars => [Spared]_vars
  <2> SUFFICES ASSUME IInv, [Next]_vars, phase # "gone", phase' = "gone",
                      NEW n \in got + 1 .. accepted,
                      n <= saved', n \notin Elements(handoff')
               PROVE  \/ n \in Elements(buffer)
                      \/ n \in Elements(held) /\ saved' # saved
    OBVIOUS
  <2>1. TaskGone
    BY DEF Next, PumpStep, ReadStep, Accept, TakeCommand, FinishSync, StartPoll,
           TakeBatch, Resolve, HandOver, FailPoll, Abort, StopReturns, CallNext,
           Receive, GiveUp, ReadClosed, CallSync, GiveUpSync, vars, pumpVars
  <2>2. handoff' = handoff /\ saved' \in {saved, Built}
    BY <2>1 DEF TaskGone, readVars
  <2>3. /\ got \in Nat /\ handed \in Nat /\ accepted \in Nat /\ saved \in Nat /\ n \in Nat
        /\ Len(buffer) \in Nat /\ Len(held) \in Nat
        /\ DOMAIN handoff = 1..Len(handoff) /\ DOMAIN buffer = 1..Len(buffer)
        /\ DOMAIN held = 1..Len(held)
        /\ held = <<>> => Len(held) = 0
        /\ buffer = <<>> => Len(buffer) = 0
    BY DEF IInv, TypeOK
  <2>4. handed < n
    <3> SUFFICES ASSUME n <= handed
                 PROVE  FALSE
      BY <2>3
    <3>1. n \in got + 1 .. handed
      BY <2>3
    <3> QED
      BY <2>2, <2>3, <3>1 DEF IInv, Handoff, Elements
  <2>5. CASE n <= handed + Len(buffer)
    <3>1. n - handed \in 1..Len(buffer) /\ handed + (n - handed) = n
      BY <2>3, <2>4, <2>5
    <3>2. buffer[n - handed] = n
      BY <3>1 DEF IInv, Pipeline
    <3> QED
      BY <2>3, <3>1, <3>2 DEF Elements
  <2>6. CASE handed + Len(buffer) < n
    <3>1. saved <= handed + Len(buffer)
      BY DEF IInv, Coverage
    <3>2. saved' # saved /\ n <= handed + Len(buffer) + Len(held)
      BY <2>2, <2>3, <2>6, <3>1 DEF Built
    <3>3. Len(held) # 0 => Len(buffer) = 0
      BY <2>3 DEF IInv, Pipeline
    <3>4. n - handed \in 1..Len(held) /\ handed + (n - handed) = n
      BY <2>3, <2>4, <2>6, <3>2, <3>3
    <3>5. held[n - handed] = n
      BY <3>4 DEF IInv, Pipeline
    <3> QED
      BY <2>3, <3>2, <3>4, <3>5 DEF Elements
  <2> QED
    BY <2>3, <2>5, <2>6
<1> QED
  BY <1>1, Invariance, PTL DEF Spec, AbortSparesPoolAndHandoff

\* A sync that reports success has written what its caller had seen by then.
THEOREM SyncIsTruthful == Spec => []SyncCoversReceived
<1>1. IInv => SyncCoversReceived
  BY DEF IInv, Coverage, SyncCoversReceived
<1> QED
  BY <1>1, Invariance, PTL

\* The pump implements the update queue.
THEOREM Refinement == Spec => ImplementsQueue
<1>1. Init => Queue!Init
  BY DEF Init, Queue!Init
<1>2. IInv /\ [Next]_vars => [Queue!Next]_(Queue!vars)
  <2> SUFFICES ASSUME IInv, [Next]_vars
               PROVE  Queue!Next \/ UNCHANGED Queue!vars
    BY DEF Queue!vars
  <2> USE DEF streamVars, pumpVars, readVars, syncVars, Queue!vars
  <2>1. CASE Accept
    BY <2>1 DEF Accept, Queue!Next, Queue!Accept
  <2>2. CASE TaskGone
    BY <2>2 DEF TaskGone, Queue!Next, Queue!Close
  <2>3. CASE Receive
    <3>1. CASE Head(handoff) = PollError
      BY <2>3, <3>1 DEF Receive
    <3>2. CASE Head(handoff) # PollError
      <4>1. Head(handoff) = got + 1
        BY <2>3, <3>2, HeadIsNext DEF IInv, Receive
      <4>2. got + 1 <= handed
        <5>1. handoff[1] = Head(handoff) /\ 1 \in 1..Len(handoff)
          BY <2>3 DEF IInv, TypeOK, Receive
        <5> QED
          BY <3>2, <4>1, <5>1 DEF IInv, Handoff
      <4>3. handed <= accepted
        BY DEF IInv, TypeOK, Pipeline
      <4>4. got < accepted
        BY <4>2, <4>3 DEF IInv, TypeOK
      <4>5. got' = got + 1 /\ accepted' = accepted /\ phase' = phase
        BY <2>3, <3>2, <4>1 DEF Receive
      <4> QED
        BY <4>4, <4>5 DEF Queue!Next, Queue!Receive
    <3> QED
      BY <3>1, <3>2
  <2>4. CASE TakeCommand \/ FinishSync \/ StartPoll \/ Resolve \/ HandOver \/ FailPoll
    BY <2>4 DEF TakeCommand, FinishSync, StartPoll, Resolve, HandOver, FailPoll
  <2>5. ASSUME NEW n \in 1..Len(pool), TakeBatch(n)
        PROVE  UNCHANGED Queue!vars
    BY <2>5 DEF TakeBatch
  <2>6. CASE Abort \/ StopReturns \/ GiveUp \/ ReadClosed
    BY <2>6 DEF Abort, StopReturns, GiveUp, ReadClosed
  <2>7. CASE \E r \in Readers : CallNext(r)
    BY <2>7 DEF CallNext
  <2>8. CASE \E s \in Syncers : CallSync(s) \/ GiveUpSync(s)
    BY <2>8 DEF CallSync, GiveUpSync
  <2>9. CASE UNCHANGED vars
    BY <2>9 DEF vars
  <2> QED
    BY <2>1, <2>2, <2>3, <2>4, <2>5, <2>6, <2>7, <2>8, <2>9
    DEF Next, PumpStep, ReadStep
<1> QED
  BY <1>1, <1>2, Invariance, PTL DEF Spec, Queue!Spec, ImplementsQueue
-----------------------------------------------------------------------------
(* Sync requests and the callers that wait for them.                       *)

\* A request is carried out only while the task is at it; a caller waits as
\* long as its one request is queued or being carried out.
Requests ==
    /\ performing # NoRequest => phase = "syncing"
    /\ \A s \in Syncers :
          /\ sync[s] = "waiting"
               <=> performing = s \/ \E i \in DOMAIN commands : commands[i] = s
          /\ \A i \in DOMAIN commands :
               commands[i] = s =>
                 /\ performing # s
                 /\ \A j \in DOMAIN commands : commands[j] = s => i = j

LEMMA RequestsSame ==
    ASSUME Requests, UNCHANGED <<performing, commands, sync>>,
           phase = "syncing" => phase' = "syncing"
    PROVE  Requests'
BY DEF Requests

\* The head of the queue is its first entry, the tail all others.
LEMMA HeadAndTail ==
    ASSUME NEW S, NEW q \in Seq(S), q # <<>>
    PROVE  /\ 1 \in DOMAIN q /\ Head(q) = q[1]
           /\ \A i \in DOMAIN Tail(q) : i + 1 \in DOMAIN q /\ i + 1 # 1 /\ Tail(q)[i] = q[i + 1]
           /\ \A i \in DOMAIN q \ {1} : i - 1 \in DOMAIN Tail(q) /\ q[i] = Tail(q)[i - 1]
           /\ DOMAIN Tail(q) \subseteq Nat
<1> Len(q) \in Nat /\ DOMAIN q = 1..Len(q) /\ Len(q) >= 1
  OBVIOUS
<1> Tail(q) \in Seq(S) /\ Len(Tail(q)) = Len(q) - 1
  OBVIOUS
<1> QED OBVIOUS

LEMMA RequestsStep == TypeOK /\ Requests /\ [Next]_vars => Requests'
<1> SUFFICES ASSUME TypeOK, Requests, [Next]_vars
             PROVE  Requests'
  OBVIOUS
<1> USE PumpAssumption DEF streamVars, pumpVars, readVars, syncVars
<1>t. /\ commands \in Seq(Syncers \cup {Nobody}) /\ sync \in [Syncers -> SyncState]
      /\ Len(commands) \in Nat /\ DOMAIN commands = 1..Len(commands)
  BY DEF TypeOK
<1>1. CASE TakeCommand
  <2>1. /\ performing = NoRequest /\ commands # <<>> /\ phase' = "syncing"
        /\ performing' = Head(commands) /\ commands' = Tail(commands) /\ sync' = sync
    BY <1>1 DEF TakeCommand, Requests
  <2>2. ASSUME NEW s \in Syncers
        PROVE  (performing' = s \/ \E i \in DOMAIN commands' : commands'[i] = s)
                  <=> \E i \in DOMAIN commands : commands[i] = s
    <3>1. /\ 1 \in DOMAIN commands /\ Head(commands) = commands[1]
          /\ \A i \in DOMAIN commands' :
                i + 1 \in DOMAIN commands /\ commands'[i] = commands[i + 1]
          /\ \A i \in DOMAIN commands \ {1} :
                i - 1 \in DOMAIN commands' /\ commands[i] = commands'[i - 1]
      BY <1>t, <2>1, HeadAndTail
    <3>2. ASSUME NEW i \in DOMAIN commands, commands[i] = s
          PROVE  performing' = s \/ \E j \in DOMAIN commands' : commands'[j] = s
      BY <2>1, <3>1, <3>2
    <3>3. ASSUME performing' = s \/ \E j \in DOMAIN commands' : commands'[j] = s
          PROVE  \E i \in DOMAIN commands : commands[i] = s
      BY <2>1, <3>1, <3>3
    <3> QED
      BY <3>2, <3>3
  <2>3. ASSUME NEW s \in Syncers, NEW i \in DOMAIN commands', commands'[i] = s
        PROVE  /\ performing' # s
               /\ \A j \in DOMAIN commands' : commands'[j] = s => i = j
    <3>1. /\ 1 \in DOMAIN commands /\ Head(commands) = commands[1]
          /\ i + 1 \in DOMAIN commands /\ i + 1 # 1 /\ commands[i + 1] = s
      BY <1>t, <2>1, <2>3, HeadAndTail
    <3>2. performing' # s
      BY <2>1, <3>1 DEF Requests
    <3>3. ASSUME NEW j \in DOMAIN commands', commands'[j] = s
          PROVE  i = j
      <4>1. /\ j + 1 \in DOMAIN commands /\ commands[j + 1] = s
            /\ i \in Nat /\ j \in Nat
        BY <1>t, <2>1, <3>3, HeadAndTail
      <4>2. i + 1 = j + 1
        BY <3>1, <4>1 DEF Requests
      <4> QED
        BY <4>1, <4>2
    <3> QED
      BY <3>2, <3>3
  <2>4. ASSUME NEW s \in Syncers
        PROVE  sync'[s] = "waiting"
                 <=> performing' = s \/ \E i \in DOMAIN commands' : commands'[i] = s
    BY <2>1, <2>2 DEF Requests
  <2> QED
    BY <2>1, <2>3, <2>4 DEF Requests
<1>2. CASE FinishSync
  <2>1. PICK r \in {"written", "failed"} : Answer(r)
    BY <1>2 DEF FinishSync
  <2>2. performing' = NoRequest /\ UNCHANGED commands
    BY <1>2 DEF FinishSync
  <2>3. \A s \in Syncers : sync'[s] = IF s = performing THEN r ELSE sync[s]
    BY <2>1 DEF Answer
  <2> QED
    BY <2>2, <2>3 DEF Requests
<1>3. CASE TaskGone
  <2>1. performing' = NoRequest /\ commands' = <<>>
    BY <1>3 DEF TaskGone
  <2>2. \A s \in Syncers : sync'[s] # "waiting"
    BY <1>3 DEF TaskGone
  <2>3. DOMAIN commands' = {}
    BY <2>1
  <2> QED
    BY <2>1, <2>2, <2>3 DEF Requests
<1>4. ASSUME NEW s \in Syncers, CallSync(s)
      PROVE  Requests'
  <2>1. performing # s /\ \A i \in DOMAIN commands : commands[i] # s
    BY <1>4 DEF CallSync, Requests
  <2>2. CASE phase = "gone"
    BY <1>4, <1>t, <2>1, <2>2 DEF CallSync, Requests
  <2>3. CASE phase # "gone"
    <3>1. /\ UNCHANGED <<phase, performing>> /\ commands' = Append(commands, s)
          /\ sync' = [sync EXCEPT ![s] = "waiting"]
      BY <1>4, <2>3 DEF CallSync
    <3>2. /\ DOMAIN commands' = DOMAIN commands \cup {Len(commands) + 1}
          /\ Len(commands) + 1 \notin DOMAIN commands
          /\ commands'[Len(commands) + 1] = s
          /\ \A i \in DOMAIN commands : commands'[i] = commands[i]
      BY <1>t, <3>1
    <3>3. \A u \in Syncers \ {s} : sync'[u] = sync[u]
      BY <1>t, <3>1
    <3>4. sync'[s] = "waiting"
      BY <1>t, <3>1
    <3>5. ASSUME NEW u \in Syncers
          PROVE  /\ sync'[u] = "waiting"
                      <=> performing' = u \/ \E i \in DOMAIN commands' : commands'[i] = u
                 /\ \A i \in DOMAIN commands' :
                      commands'[i] = u =>
                        /\ performing' # u
                        /\ \A j \in DOMAIN commands' : commands'[j] = u => i = j
      <4>1. CASE u = s
        BY <2>1, <3>1, <3>2, <3>4, <4>1
      <4>2. CASE u # s
        BY <3>1, <3>2, <3>3, <4>2 DEF Requests
      <4> QED
        BY <4>1, <4>2
    <3> QED
      BY <3>1, <3>5 DEF Requests
  <2> QED
    BY <2>2, <2>3
<1>5. ASSUME NEW s \in Syncers, GiveUpSync(s)
      PROVE  Requests'
  <2>1. /\ DOMAIN commands' = DOMAIN commands /\ UNCHANGED phase
        /\ \A i \in DOMAIN commands :
              commands'[i] = IF commands[i] = s THEN Nobody ELSE commands[i]
        /\ performing' = IF performing = s THEN Nobody ELSE performing
        /\ \A u \in Syncers : sync'[u] = IF u = s THEN "busy" ELSE sync[u]
    BY <1>5, <1>t DEF GiveUpSync
  <2>2. \A u \in Syncers :
           /\ performing' = u <=> performing = u /\ u # s
           /\ \A i \in DOMAIN commands : commands'[i] = u <=> commands[i] = u /\ u # s
    BY <2>1
  <2>3. performing' # NoRequest => performing # NoRequest
    BY <2>1
  <2> QED
    BY <2>1, <2>2, <2>3 DEF Requests
<1>6. CASE \/ StartPoll \/ Resolve \/ HandOver \/ FailPoll \/ Accept \/ Abort \/ StopReturns
           \/ Receive \/ GiveUp \/ ReadClosed
  BY <1>6, RequestsSame
  DEF StartPoll, Resolve, HandOver, FailPoll, Accept, Abort, StopReturns, Receive, GiveUp,
      ReadClosed
<1>7. CASE \E n \in 1..Len(pool) : TakeBatch(n)
  BY <1>7, RequestsSame DEF TakeBatch
<1>8. CASE \E r \in Readers : CallNext(r)
  BY <1>8, RequestsSame DEF CallNext
<1>9. CASE UNCHANGED vars
  BY <1>9, RequestsSame DEF vars
<1> QED
  BY <1>1, <1>2, <1>3, <1>4, <1>5, <1>6, <1>7, <1>8, <1>9
  DEF Next, PumpStep, ReadStep

\* A waiting caller has exactly one request on its way and no other caller has
\* one, so it hears once, of its own request, also when earlier ones timed out.
THEOREM RequestsAreTheirCallers == Spec => []RequestsMatchWaiters
<1>1. Init => TypeOK /\ Requests
  <2>1. Init => Requests
    BY PumpAssumption DEF Init, Requests
  <2> QED
    BY <2>1, TypeInit
<1>2. TypeOK /\ Requests /\ [Next]_vars => TypeOK' /\ Requests'
  BY TypeStep, RequestsStep
<1>3. TypeOK /\ Requests => RequestsMatchWaiters
  <2> SUFFICES ASSUME TypeOK, Requests, NEW s \in Syncers
               PROVE  Cardinality({i \in DOMAIN commands : commands[i] = s})
                        + (IF performing = s THEN 1 ELSE 0)
                      = (IF sync[s] = "waiting" THEN 1 ELSE 0)
    BY DEF RequestsMatchWaiters
  <2> DEFINE own == {i \in DOMAIN commands : commands[i] = s}
  <2>1. CASE own = {}
    <3>1. Cardinality(own) = 0
      BY <2>1, FS_EmptySet
    <3>2. sync[s] = "waiting" <=> performing = s
      BY <2>1 DEF Requests
    <3> QED
      BY <3>1, <3>2
  <2>2. CASE own # {}
    <3>1. PICK i \in DOMAIN commands : commands[i] = s
      BY <2>2
    <3>2. own = {i}
      BY <3>1 DEF Requests
    <3>3. Cardinality(own) = 1
      BY <3>2, FS_Singleton
    <3>4. performing # s /\ sync[s] = "waiting"
      BY <3>1 DEF Requests
    <3> QED
      BY <3>3, <3>4
  <2> QED
    BY <2>1, <2>2
<1> QED
  BY <1>1, <1>2, <1>3, PTL DEF Spec
=============================================================================
