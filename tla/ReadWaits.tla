----------------------------- MODULE ReadWaits ------------------------------
(***************************************************************************)
(* How long a read of the update stream takes (ops/updates.rs timeout_of   *)
(* and Handoff::next).  Every nextUpdate and nextRawUpdate call, those of  *)
(* the update loop included, queues for one lock and only then starts the  *)
(* timed wait its caller asked for.  Time is discrete and timers exact: a  *)
(* tick is not taken while the lock's holder has used up its wait.         *)
(***************************************************************************)
EXTENDS Naturals, Sequences, FiniteSets

CONSTANTS
    Readers,                        \* threads reading updates
    Requests,                       \* the timeouts callers ask for
    NoTimeout,                      \* the payload carries no timeout
    MinWait, DefaultWait, MaxWait   \* 1 ms, 30 s and 60 s in the code

ASSUME ReadWaitsAssumption ==
    /\ IsFiniteSet(Readers)
    /\ Requests \subseteq Nat \cup {NoTimeout}
    /\ NoTimeout \notin Nat
    /\ MinWait \in Nat \ {0} /\ MaxWait \in Nat /\ DefaultWait \in MinWait..MaxWait

VARIABLES
    line,     \* the reads queued at the handoff's lock; the head's holds it
    elapsed   \* how long the lock's holder has waited for an update

vars == <<line, elapsed>>

\* A read: the timeout it applies and, as history, how long it has taken so
\* far and what it could take at most as the line stood when it was made.
Read == [reader : Readers, wait : MinWait..MaxWait, waited : Nat, budget : Nat]

TypeOK ==
    /\ line \in Seq(Read)
    /\ elapsed \in 0..MaxWait

Init ==
    /\ line = <<>>
    /\ elapsed = 0

InLine(r) == \E i \in DOMAIN line : line[i].reader = r

\* Faulty: a request beyond the limits is taken as it is.
TimeoutOfUnclamped(q) == IF q = NoTimeout THEN DefaultWait ELSE q

\* timeoutMillis.unwrap_or(30_000).clamp(1, 60_000)
TimeoutOf(q) ==
    IF q = NoTimeout THEN DefaultWait
    ELSE IF q < MinWait THEN MinWait ELSE IF q > MaxWait THEN MaxWait ELSE q

\* What the first n of some reads wait at most, one after the other.
TotalWait(reads, n) ==
    LET total[k \in 0..Len(reads)] == IF k = 0 THEN 0 ELSE total[k - 1] + reads[k].wait
    IN  total[n]

\* What the first n reads of the line still wait if no update arrives.
Remaining(n) == IF n = 0 THEN 0 ELSE TotalWait(line, n) - elapsed

NewRead(r, t) ==
    [reader |-> r, wait |-> t, waited |-> 0, budget |-> t + Remaining(Len(line))]

\* Faulty: the lock goes to whoever asks while its holder waits.
CallBarging(r, q) ==
    /\ ~InLine(r)
    /\ line' = IF line = <<>> THEN <<NewRead(r, TimeoutOf(q))>>
               ELSE <<Head(line), NewRead(r, TimeoutOf(q))>> \o Tail(line)
    /\ UNCHANGED elapsed

\* A read decodes its timeout and queues for the lock, which is fair.
Call(r, q) ==
    /\ ~InLine(r)
    /\ line' = Append(line, NewRead(r, TimeoutOf(q)))
    /\ UNCHANGED elapsed

\* The holder receives an update or a poll error, or the pump's end.
Receive ==
    /\ line # <<>>
    /\ line' = Tail(line)
    /\ elapsed' = 0

\* The holder's wait runs out and the read answers null.
GiveUp ==
    /\ line # <<>>
    /\ elapsed = Head(line).wait
    /\ line' = Tail(line)
    /\ elapsed' = 0

\* Time passes for the holder and for everyone behind it.
Tick ==
    /\ line # <<>>
    /\ elapsed < Head(line).wait
    /\ elapsed' = elapsed + 1
    /\ line' = [i \in DOMAIN line |-> [line[i] EXCEPT !.waited = @ + 1]]

Next ==
    \/ \E r \in Readers, q \in Requests : Call(r, q)
    \/ Receive \/ GiveUp \/ Tick

Spec == Init /\ [][Next]_vars

-----------------------------------------------------------------------------
(* Properties.                                                             *)

\* A read is over by the time the waits that were ahead of it when it was
\* made, and its own, have run out: later calls cannot delay it further.  That
\* is at most one maximal wait per reading thread, whatever timeouts are asked for.
WaitBoundedByLine ==
    \A i \in DOMAIN line :
      /\ line[i].waited + Remaining(i) <= line[i].budget
      /\ line[i].budget <= MaxWait * Cardinality(Readers)

\* What the documentation of next promises: a read waits up to its timeout.
WaitBounded == \A i \in DOMAIN line : line[i].waited <= line[i].wait
=============================================================================
