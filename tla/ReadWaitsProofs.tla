--------------------------- MODULE ReadWaitsProofs ---------------------------
(***************************************************************************)
(* How long a read of the update stream takes, for any number of readers   *)
(* and any timeouts.  What the line still waits is a sum over it, so the    *)
(* lemmas about that sum come first; they are inductions, which start from  *)
(* the least number there is in a set.                                     *)
(***************************************************************************)
EXTENDS ReadWaits, FiniteSetTheorems, WellFoundedInduction, TLAPS

(* --- Induction ----------------------------------------------------------- *)

LEMMA LeastNumber ==
    ASSUME NEW numbers \in SUBSET Nat, numbers # {}
    PROVE  \E n \in numbers : \A m \in numbers : n <= m
<1> DEFINE Below(n) == 0..(n - 1)
           initial == {Below(n) : n \in numbers}
<1>1. initial \subseteq FiniteSubsetsOf(Nat)
  <2>1. \A n \in Nat : IsFiniteSet(0..(n - 1)) /\ 0..(n - 1) \subseteq Nat
    BY FS_Interval
  <2> QED BY <2>1 DEF FiniteSubsetsOf
<1>2. IsWellFoundedOn(StrictSubsetOrdering(Nat), FiniteSubsetsOf(Nat))
  BY FS_StrictSubsetOrderingWellFounded
<1>3. initial # {} OBVIOUS
<1>4. PICK b \in initial : \A c \in initial : <<c, b>> \notin StrictSubsetOrdering(Nat)
  <2> HIDE DEF initial
  <2> QED BY <1>1, <1>2, <1>3, WFMin
<1>5. PICK n \in numbers : b = Below(n) OBVIOUS
<1>6. ASSUME NEW m \in numbers, m < n PROVE FALSE
  <2>1. Below(m) \in initial OBVIOUS
  <2>2. m \in Below(n) /\ m \notin Below(m) BY <1>6
  <2>3. Below(m) \subseteq Below(n) BY <1>6
  <2>4. Below(m) \in SUBSET Nat /\ Below(n) \in SUBSET Nat OBVIOUS
  <2>5. <<Below(m), b>> \in StrictSubsetOrdering(Nat)
    BY <1>5, <2>2, <2>3, <2>4 DEF StrictSubsetOrdering
  <2> QED BY <1>4, <2>1, <2>5
<1> QED BY <1>6

\* A set that has 0 and, with a number, the next one has them all.
LEMMA InductionUpTo ==
    ASSUME NEW good, NEW last \in Nat, 0 \in good,
           \A n \in Nat : n < last /\ n \in good => n + 1 \in good
    PROVE  0..last \subseteq good
<1> DEFINE bad == (0..last) \ good
<1> SUFFICES ASSUME bad # {} PROVE FALSE
  OBVIOUS
<1>1. PICK n \in bad : \A m \in bad : n <= m
  <2>1. bad \in SUBSET Nat OBVIOUS
  <2> HIDE DEF bad
  <2> QED BY <2>1, LeastNumber
<1>2. n \in Nat /\ n # 0 /\ n <= last OBVIOUS
<1>3. n - 1 \in good BY <1>1, <1>2
<1> QED BY <1>2, <1>3

(* --- What a line waits --------------------------------------------------- *)

Sums(total, reads, n) ==
    total = [k \in 0..n |-> IF k = 0 THEN 0 ELSE total[k - 1] + reads[k].wait]

\* The sum is what its definition says: it is the first wait and the next ones.
LEMMA TotalWaitIsTheSum ==
    ASSUME NEW reads \in Seq(Read)
    PROVE  /\ TotalWait(reads, 0) = 0
           /\ \A k \in 1..Len(reads) :
                TotalWait(reads, k) = TotalWait(reads, k - 1) + reads[k].wait
<1> DEFINE good == {n \in 0..Len(reads) : \E total : Sums(total, reads, n)}
<1>1. 0 \in good
  <2>1. Sums([k \in 0..0 |-> 0], reads, 0) BY DEF Sums
  <2> QED BY <2>1
<1>2. ASSUME NEW n \in Nat, n < Len(reads), n \in good PROVE n + 1 \in good
  <2>1. PICK total : Sums(total, reads, n) BY <1>2
  <2> DEFINE next == [k \in 0..(n + 1) |-> IF k = n + 1 THEN total[n] + reads[k].wait
                                           ELSE total[k]]
  <2>2. DOMAIN total = 0..n
        /\ \A k \in 0..n : total[k] = IF k = 0 THEN 0 ELSE total[k - 1] + reads[k].wait
    BY <2>1 DEF Sums
  <2>3. \A k \in 0..(n + 1) :
           next[k] = IF k = 0 THEN 0 ELSE next[k - 1] + reads[k].wait
    <3> TAKE k \in 0..(n + 1)
    <3>1. CASE k = n + 1
      <4>1. next[k] = total[n] + reads[k].wait /\ k # 0 BY <3>1
      <4>2. next[k - 1] = total[n] BY <3>1
      <4> QED BY <4>1, <4>2
    <3>2. CASE k # n + 1
      <4>1. k \in 0..n /\ next[k] = total[k] BY <3>2
      <4>2. k # 0 => next[k - 1] = total[k - 1] BY <4>1
      <4> QED BY <2>2, <4>1, <4>2
    <3> QED BY <3>1, <3>2
  <2>4. Sums(next, reads, n + 1)
    <3>1. next = [k \in 0..(n + 1) |-> next[k]] OBVIOUS
    <3> HIDE DEF next
    <3> QED BY <2>3, <3>1 DEF Sums
  <2> QED BY <1>2, <2>4
<1>3. Len(reads) \in Nat OBVIOUS
<1>4. Len(reads) \in good
  <2> HIDE DEF good
  <2>1. 0..Len(reads) \subseteq good BY <1>1, <1>2, <1>3, InductionUpTo
  <2> QED BY <1>3, <2>1
<1> DEFINE total == CHOOSE total : Sums(total, reads, Len(reads))
<1>5. Sums(total, reads, Len(reads)) BY <1>4
<1>6. \A n : TotalWait(reads, n) = total[n] BY DEF TotalWait, Sums
<1> HIDE DEF total
<1>7. \A k \in 0..Len(reads) : total[k] = IF k = 0 THEN 0 ELSE total[k - 1] + reads[k].wait
  BY <1>5 DEF Sums
<1> QED BY <1>3, <1>6, <1>7

LEMMA WaitsAreNumbers ==
    ASSUME NEW reads \in Seq(Read)
    PROVE  \A k \in 1..Len(reads) : reads[k].wait \in MinWait..MaxWait
                                    /\ reads[k].wait \in Nat
<1> TAKE k \in 1..Len(reads)
<1>1. reads[k] \in Read OBVIOUS
<1>2. reads[k].wait \in MinWait..MaxWait BY <1>1 DEF Read
<1>3. MinWait \in Nat /\ MaxWait \in Nat BY ReadWaitsAssumption
<1> QED BY <1>2, <1>3

\* A line waits no longer than so many times the longest wait.
LEMMA TotalWaitIsBounded ==
    ASSUME NEW reads \in Seq(Read)
    PROVE  \A n \in 0..Len(reads) :
             TotalWait(reads, n) \in Nat /\ TotalWait(reads, n) <= MaxWait * n
<1> DEFINE good == {n \in 0..Len(reads) :
                      TotalWait(reads, n) \in Nat /\ TotalWait(reads, n) <= MaxWait * n}
<1>1. Len(reads) \in Nat /\ MaxWait \in Nat BY ReadWaitsAssumption
<1>2. 0 \in good BY <1>1, TotalWaitIsTheSum
<1>3. ASSUME NEW n \in Nat, n < Len(reads), n \in good PROVE n + 1 \in good
  <2>1. TotalWait(reads, n + 1) = TotalWait(reads, n) + reads[n + 1].wait
    BY <1>1, <1>3, TotalWaitIsTheSum
  <2>2. reads[n + 1].wait \in Nat /\ reads[n + 1].wait <= MaxWait
    BY <1>1, <1>3, WaitsAreNumbers
  <2>3. MaxWait * (n + 1) = MaxWait * n + MaxWait BY <1>1
  <2>4. MaxWait * n \in Nat BY <1>1
  <2> QED BY <1>1, <1>3, <2>1, <2>2, <2>3, <2>4
<1> HIDE DEF good
<1>4. 0..Len(reads) \subseteq good BY <1>1, <1>2, <1>3, InductionUpTo
<1> QED BY <1>4 DEF good

\* What comes behind in a line, and what its reads have waited, is not in the sum.
LEMMA TotalWaitOfSameReads ==
    ASSUME NEW reads \in Seq(Read), NEW others \in Seq(Read), Len(reads) <= Len(others),
           \A k \in 1..Len(reads) : others[k].wait = reads[k].wait
    PROVE  \A n \in 0..Len(reads) : TotalWait(others, n) = TotalWait(reads, n)
<1> DEFINE good == {n \in 0..Len(reads) : TotalWait(others, n) = TotalWait(reads, n)}
<1>1. Len(reads) \in Nat /\ Len(others) \in Nat OBVIOUS
<1>2. 0 \in good BY <1>1, TotalWaitIsTheSum
<1>3. ASSUME NEW n \in Nat, n < Len(reads), n \in good PROVE n + 1 \in good
  <2>1. n + 1 \in 1..Len(reads) /\ n + 1 \in 1..Len(others) /\ n + 1 - 1 = n
    BY <1>1, <1>3
  <2>2. TotalWait(reads, n + 1) = TotalWait(reads, n) + reads[n + 1].wait
        /\ TotalWait(others, n + 1) = TotalWait(others, n) + others[n + 1].wait
    BY <2>1, TotalWaitIsTheSum
  <2> QED BY <1>3, <2>1, <2>2
<1> HIDE DEF good
<1>4. 0..Len(reads) \subseteq good BY <1>1, <1>2, <1>3, InductionUpTo
<1> QED BY <1>4 DEF good

\* When the first read is over the others wait that much less.
LEMMA TotalWaitOfTail ==
    ASSUME NEW reads \in Seq(Read), reads # <<>>
    PROVE  \A n \in 0..Len(Tail(reads)) :
             TotalWait(reads, n + 1) = reads[1].wait + TotalWait(Tail(reads), n)
<1> DEFINE rest == Tail(reads)
           good == {n \in 0..Len(rest) :
                      TotalWait(reads, n + 1) = reads[1].wait + TotalWait(rest, n)}
<1>1. /\ rest \in Seq(Read) /\ Len(rest) = Len(reads) - 1 /\ Len(rest) \in Nat
      /\ Len(reads) \in Nat /\ \A k \in 1..Len(rest) : rest[k] = reads[k + 1]
  OBVIOUS
<1> HIDE DEF rest
<1>2. 0 \in good
  <2>1. TotalWait(reads, 1) = TotalWait(reads, 0) + reads[1].wait
    <3>1. 1 \in 1..Len(reads) /\ 1 - 1 = 0 BY <1>1
    <3> QED BY <3>1, TotalWaitIsTheSum
  <2>2. TotalWait(reads, 0) = 0 /\ TotalWait(rest, 0) = 0
    BY <1>1, TotalWaitIsTheSum
  <2>3. reads[1].wait \in Nat BY <1>1, WaitsAreNumbers
  <2> QED BY <1>1, <2>1, <2>2, <2>3
<1>3. ASSUME NEW n \in Nat, n < Len(rest), n \in good PROVE n + 1 \in good
  <2>1. /\ n + 2 \in 1..Len(reads) /\ n + 2 - 1 = n + 1
        /\ n + 1 \in 1..Len(rest) /\ n + 1 - 1 = n /\ n + 1 + 1 = n + 2
    BY <1>1, <1>3
  <2>2. TotalWait(reads, n + 2) = TotalWait(reads, n + 1) + reads[n + 2].wait
        /\ TotalWait(rest, n + 1) = TotalWait(rest, n) + rest[n + 1].wait
    BY <1>1, <2>1, TotalWaitIsTheSum
  <2>3. rest[n + 1].wait = reads[n + 2].wait BY <1>1, <2>1
  <2>4. reads[n + 2].wait \in Nat /\ reads[1].wait \in Nat
        /\ TotalWait(rest, n) \in Nat
    BY <1>1, <1>3, <2>1, WaitsAreNumbers, TotalWaitIsBounded
  <2>5. TotalWait(reads, n + 1) = reads[1].wait + TotalWait(rest, n) BY <1>3
  <2> QED BY <1>3, <2>1, <2>2, <2>3, <2>4, <2>5
<1> HIDE DEF good
<1>4. 0..Len(rest) \subseteq good BY <1>1, <1>2, <1>3, InductionUpTo
<1> QED BY <1>4 DEF good, rest

(* --- The invariant ------------------------------------------------------- *)

\* Who waits has not waited longer than it asked for, and nobody else has begun to.
HolderIsInTime ==
    /\ line = <<>> => elapsed = 0
    /\ line # <<>> => elapsed <= line[1].wait

\* A thread makes one call at a time.
ReadersAreDistinct ==
    \A i, j \in DOMAIN line : line[i].reader = line[j].reader => i = j

WaitInv == TypeOK /\ HolderIsInTime /\ ReadersAreDistinct /\ WaitBoundedByLine

LEMMA LineIsShort ==
    ASSUME NEW reads \in Seq(Read),
           \A i, j \in DOMAIN reads : reads[i].reader = reads[j].reader => i = j
    PROVE  Cardinality(Readers) \in Nat /\ Len(reads) <= Cardinality(Readers)
<1> DEFINE f == [i \in 1..Len(reads) |-> reads[i].reader]
<1>1. \A i \in 1..Len(reads) : reads[i] \in Read OBVIOUS
<1>2. f \in Injection(1..Len(reads), Readers)
  <2>1. f \in [1..Len(reads) -> Readers] BY <1>1 DEF Read
  <2> QED BY <2>1 DEF Injection, IsInjective
<1>3. IsFiniteSet(Readers) BY ReadWaitsAssumption
<1>4. Cardinality(1..Len(reads)) <= Cardinality(Readers)
  <2> HIDE DEF f
  <2> QED BY <1>2, <1>3, FS_Injection
<1>5. Cardinality(1..Len(reads)) = Len(reads)
  <2>1. Len(reads) \in Nat OBVIOUS
  <2>2. \A n \in Nat : Cardinality(1..n) = n BY FS_Interval
  <2> QED BY <2>1, <2>2
<1>6. Cardinality(Readers) \in Nat BY <1>3, FS_CardinalityType
<1> QED BY <1>4, <1>5, <1>6

\* What a line still waits is never less than nothing, and no more than each of its
\* reads waiting as long as it may.
LEMMA RemainingIsBounded ==
    ASSUME TypeOK, HolderIsInTime
    PROVE  \A n \in 0..Len(line) : Remaining(n) \in Nat /\ Remaining(n) <= MaxWait * n
<1> TAKE n \in 0..Len(line)
<1>1. line \in Seq(Read) /\ elapsed \in Nat /\ Len(line) \in Nat /\ MaxWait \in Nat
  BY ReadWaitsAssumption DEF TypeOK
<1>2. CASE n = 0 BY <1>1, <1>2 DEF Remaining
<1>3. CASE n # 0
  <2>1. line # <<>> /\ n - 1 \in 0..Len(Tail(line)) /\ n - 1 + 1 = n
        /\ Tail(line) \in Seq(Read) /\ 1 \in 1..Len(line)
    BY <1>1, <1>3
  <2>2. TotalWait(line, n) = line[1].wait + TotalWait(Tail(line), n - 1)
    BY <1>1, <2>1, TotalWaitOfTail
  <2>3. TotalWait(Tail(line), n - 1) \in Nat /\ line[1].wait \in Nat
        /\ TotalWait(line, n) \in Nat /\ TotalWait(line, n) <= MaxWait * n
    BY <1>1, <2>1, TotalWaitIsBounded, WaitsAreNumbers
  <2>4. elapsed <= line[1].wait BY <2>1 DEF HolderIsInTime
  <2>5. Remaining(n) = TotalWait(line, n) - elapsed BY <1>3 DEF Remaining
  <2>6. Remaining(n) \in Nat /\ Remaining(n) <= TotalWait(line, n)
    <3>1. elapsed \in Nat BY <1>1
    <3>2. \A a, b, c, d \in Nat :
             a = b + c /\ d <= b => a - d \in Nat /\ a - d <= a
      OBVIOUS
    <3>3. TotalWait(line, n) - elapsed \in Nat
          /\ TotalWait(line, n) - elapsed <= TotalWait(line, n)
      BY ONLY <3>1, <3>2, <2>2, <2>3, <2>4
    <3> QED BY ONLY <3>3, <2>5
  <2>7. MaxWait * n \in Nat BY <1>1
  <2>8. \A a, b, c \in Nat : a <= b /\ b <= c => a <= c OBVIOUS
  <2> QED BY <2>3, <2>6, <2>7, <2>8
<1> QED BY <1>2, <1>3

LEMMA TimeoutIsClamped == \A q \in Requests : TimeoutOf(q) \in MinWait..MaxWait
BY ReadWaitsAssumption DEF TimeoutOf

LEMMA InitWaitInv == Init => WaitInv
BY ReadWaitsAssumption
   DEF Init, WaitInv, TypeOK, HolderIsInTime, ReadersAreDistinct, WaitBoundedByLine

LEMMA CallKeeps ==
    ASSUME WaitInv, NEW r \in Readers, NEW q \in Requests, Call(r, q)
    PROVE  WaitInv'
<1> DEFINE t == TimeoutOf(q)
           n == Len(line)
           new == NewRead(r, t)
<1>1. /\ line \in Seq(Read) /\ elapsed \in 0..MaxWait /\ n \in Nat /\ MaxWait \in Nat
      /\ t \in MinWait..MaxWait /\ t \in Nat /\ t <= MaxWait
  BY ReadWaitsAssumption, TimeoutIsClamped DEF WaitInv, TypeOK
<1>2. Remaining(n) \in Nat /\ Remaining(n) <= MaxWait * n
  BY <1>1, RemainingIsBounded DEF WaitInv
<1>3. /\ new \in Read /\ new.reader = r /\ new.wait = t /\ new.waited = 0
      /\ new.budget = t + Remaining(n)
  BY <1>1, <1>2 DEF NewRead, Read
<1>4. line' = Append(line, new) /\ elapsed' = elapsed BY DEF Call
<1> HIDE DEF new
<1>5. /\ line' \in Seq(Read) /\ Len(line') = n + 1 /\ line'[n + 1] = new
      /\ \A i \in 1..n : line'[i] = line[i]
  BY <1>1, <1>3, <1>4
<1>6. TypeOK' BY <1>1, <1>4, <1>5 DEF TypeOK
<1>7. HolderIsInTime'
  <2>1. line' # <<>> BY <1>1, <1>5
  <2>2. CASE n = 0 BY <1>1, <1>3, <1>4, <1>5, <2>1, <2>2 DEF WaitInv, HolderIsInTime
  <2>3. CASE n # 0 BY <1>1, <1>4, <1>5, <2>1, <2>3 DEF WaitInv, HolderIsInTime
  <2> QED BY <2>2, <2>3
<1>8. ReadersAreDistinct'
  <2>1. \A i \in 1..n : line[i].reader # r BY <1>1 DEF Call, InLine
  <2>2. \A i, j \in 1..n : line[i].reader = line[j].reader => i = j
    BY <1>1 DEF WaitInv, ReadersAreDistinct
  <2>3. DOMAIN line' = 1..(n + 1) BY <1>1, <1>5
  <2>4. \A i \in 1..(n + 1) : i \in 1..n \/ i = n + 1 BY <1>1
  <2> QED BY <1>3, <1>5, <2>1, <2>2, <2>3, <2>4 DEF ReadersAreDistinct
<1>9. WaitBoundedByLine'
  <2> SUFFICES ASSUME NEW i \in 1..(n + 1)
               PROVE  /\ line'[i].waited + Remaining(i)' <= line'[i].budget
                      /\ line'[i].budget <= MaxWait * Cardinality(Readers)
    BY <1>1, <1>5 DEF WaitBoundedByLine
  <2>1. CASE i \in 1..n
    <3>1. TotalWait(line', i) = TotalWait(line, i)
      BY <1>1, <1>5, <2>1, TotalWaitOfSameReads
    <3>2. Remaining(i)' = Remaining(i) BY <1>1, <1>4, <2>1, <3>1 DEF Remaining
    <3> QED BY <1>1, <1>5, <2>1, <3>2 DEF WaitInv, WaitBoundedByLine
  <2>2. CASE i = n + 1
    <3>1. n + 1 \in 1..Len(line') /\ n + 1 - 1 = n BY <1>1, <1>5
    <3>2. TotalWait(line', n + 1) = TotalWait(line', n) + t
      BY <1>3, <1>5, <3>1, TotalWaitIsTheSum
    <3>3. TotalWait(line', n) = TotalWait(line, n)
      BY <1>1, <1>5, TotalWaitOfSameReads
    <3>4. TotalWait(line, n) \in Nat /\ TotalWait(line, 0) = 0
      BY <1>1, TotalWaitIsBounded, TotalWaitIsTheSum
    <3>5. Remaining(i)' = TotalWait(line', n + 1) - elapsed
      BY <1>1, <1>4, <2>2 DEF Remaining
    <3>6. Remaining(i)' = t + Remaining(n)
      <4>1. CASE n = 0
        <5>1. elapsed = 0 BY <1>1, <4>1 DEF WaitInv, HolderIsInTime
        <5> QED BY <1>1, <3>2, <3>3, <3>4, <3>5, <4>1, <5>1 DEF Remaining
      <4>2. CASE n # 0
        BY <1>1, <3>2, <3>3, <3>4, <3>5, <4>2 DEF Remaining
      <4> QED BY <4>1, <4>2
    <3>7. line'[i].waited + Remaining(i)' <= line'[i].budget
      BY <1>1, <1>2, <1>3, <1>5, <2>2, <3>6
    <3>8. Cardinality(Readers) \in Nat /\ n + 1 <= Cardinality(Readers)
      BY <1>5, <1>8, LineIsShort DEF ReadersAreDistinct
    <3>9. t + Remaining(n) <= MaxWait * (n + 1)
      <4>1. MaxWait * (n + 1) = MaxWait * n + MaxWait /\ MaxWait * n \in Nat BY <1>1
      <4> QED BY <1>1, <1>2, <4>1
    <3>10. MaxWait * (n + 1) <= MaxWait * Cardinality(Readers)
      <4>1. \A a, b, c \in Nat : a <= b => c * a <= c * b OBVIOUS
      <4>2. n + 1 \in Nat BY <1>1
      <4> QED BY <1>1, <3>8, <4>1, <4>2
    <3>11. /\ t + Remaining(n) \in Nat /\ MaxWait * (n + 1) \in Nat
           /\ MaxWait * Cardinality(Readers) \in Nat
      BY <1>1, <1>2, <3>8
    <3> QED BY <1>3, <1>5, <2>2, <3>7, <3>9, <3>10, <3>11
  <2> QED BY <1>1, <2>1, <2>2
<1> QED BY <1>6, <1>7, <1>8, <1>9 DEF WaitInv

\* The first read of the line ends, for whatever reason, no later than its wait.
LEMMA LeaveKeeps ==
    ASSUME WaitInv, line # <<>>, line' = Tail(line), elapsed' = 0
    PROVE  WaitInv'
<1>1. /\ line \in Seq(Read) /\ elapsed \in Nat /\ Len(line) \in Nat /\ MaxWait \in Nat
      /\ elapsed <= line[1].wait
  BY ReadWaitsAssumption DEF WaitInv, TypeOK, HolderIsInTime
<1>2. /\ line' \in Seq(Read) /\ Len(line') \in Nat /\ Len(line') = Len(line) - 1
      /\ \A i \in 1..Len(line') : line'[i] = line[i + 1] /\ i + 1 \in 1..Len(line)
  BY <1>1
<1>3. TypeOK' BY <1>1, <1>2 DEF TypeOK
<1>4. HolderIsInTime'
  <2>1. ASSUME line' # <<>> PROVE 0 <= line'[1].wait
    <3>1. 1 \in 1..Len(line') BY <1>2, <2>1
    <3> QED BY <1>2, <3>1, WaitsAreNumbers
  <2> QED BY <2>1 DEF HolderIsInTime
<1>5. ReadersAreDistinct'
  <2>1. \A i, j \in 1..Len(line) : line[i].reader = line[j].reader => i = j
    BY <1>1 DEF WaitInv, ReadersAreDistinct
  <2>2. DOMAIN line' = 1..Len(line') BY <1>2
  <2>3. \A i, j \in 1..Len(line') : i + 1 = j + 1 => i = j BY <1>2
  <2> QED BY <1>2, <2>1, <2>2, <2>3 DEF ReadersAreDistinct
<1>6. WaitBoundedByLine'
  <2> SUFFICES ASSUME NEW i \in 1..Len(line')
               PROVE  /\ line'[i].waited + Remaining(i)' <= line'[i].budget
                      /\ line'[i].budget <= MaxWait * Cardinality(Readers)
    BY <1>2 DEF WaitBoundedByLine
  <2>1. TotalWait(line, i + 1) = line[1].wait + TotalWait(line', i)
    BY <1>1, <1>2, TotalWaitOfTail
  <2>2. line[i + 1].waited + Remaining(i + 1) <= line[i + 1].budget
        /\ line[i + 1].budget <= MaxWait * Cardinality(Readers)
    BY <1>1, <1>2 DEF WaitInv, WaitBoundedByLine
  <2>8. i \in 0..Len(line') /\ i # 0 /\ i + 1 # 0 BY <1>2
  <2>9. TotalWait(line', i) \in Nat BY <1>2, <2>8, TotalWaitIsBounded
  <2>3. Remaining(i + 1) = TotalWait(line, i + 1) - elapsed
        /\ Remaining(i)' = TotalWait(line', i)
    <3>1. elapsed' = 0 OBVIOUS
    <3>2. Remaining(i)' = TotalWait(line', i) - elapsed' BY <2>8 DEF Remaining
    <3> QED BY <2>8, <2>9, <3>1, <3>2 DEF Remaining
  <2>4. /\ line[i + 1] \in Read /\ line[i + 1].waited \in Nat /\ line[i + 1].budget \in Nat
        /\ line[1].wait \in Nat /\ TotalWait(line', i) \in Nat
    <3>1. line[i + 1] \in Read /\ 1 \in 1..Len(line) BY <1>1, <1>2
    <3>2. line[1].wait \in Nat BY <1>1, <3>1, WaitsAreNumbers
    <3> QED BY <2>9, <3>1, <3>2 DEF Read
  <2> QED BY <1>1, <1>2, <2>1, <2>2, <2>3, <2>4
<1> QED BY <1>3, <1>4, <1>5, <1>6 DEF WaitInv

LEMMA TickKeeps ==
    ASSUME WaitInv, Tick
    PROVE  WaitInv'
<1>1. /\ line \in Seq(Read) /\ elapsed \in Nat /\ Len(line) \in Nat /\ MaxWait \in Nat
      /\ line # <<>> /\ 1 \in 1..Len(line) /\ elapsed < line[1].wait
      /\ elapsed' = elapsed + 1
      /\ line' = [i \in 1..Len(line) |-> [line[i] EXCEPT !.waited = @ + 1]]
  BY ReadWaitsAssumption DEF WaitInv, TypeOK, Tick
<1>2. \A i \in 1..Len(line) : /\ line'[i] \in Read /\ line[i] \in Read
                              /\ line'[i].reader = line[i].reader
                              /\ line'[i].wait = line[i].wait
                              /\ line'[i].waited = line[i].waited + 1
                              /\ line'[i].budget = line[i].budget
  <2> TAKE i \in 1..Len(line)
  <2>1. line[i] \in Read BY <1>1
  <2>2. line'[i] = [line[i] EXCEPT !.waited = line[i].waited + 1] BY <1>1
  <2> QED BY <2>1, <2>2 DEF Read
<1>3. line' \in Seq(Read) /\ Len(line') = Len(line) /\ line' # <<>>
  BY <1>1, <1>2
<1>4. TypeOK'
  <2>1. line[1].wait <= MaxWait /\ line[1].wait \in Nat BY <1>1, WaitsAreNumbers
  <2> QED BY <1>1, <1>3, <2>1 DEF TypeOK
<1>5. HolderIsInTime'
  <2>1. line[1].wait \in Nat BY <1>1, WaitsAreNumbers
  <2>2. line'[1].wait = line[1].wait BY <1>1, <1>2
  <2>3. elapsed' <= line[1].wait BY <1>1, <2>1
  <2> QED BY <1>3, <2>2, <2>3 DEF HolderIsInTime
<1>6. ReadersAreDistinct'
  <2>1. \A i, j \in 1..Len(line) : line[i].reader = line[j].reader => i = j
    BY <1>1 DEF WaitInv, ReadersAreDistinct
  <2>2. DOMAIN line' = 1..Len(line) BY <1>3
  <2> QED BY <1>2, <2>1, <2>2 DEF ReadersAreDistinct
<1>7. WaitBoundedByLine'
  <2> SUFFICES ASSUME NEW i \in 1..Len(line)
               PROVE  /\ line'[i].waited + Remaining(i)' <= line'[i].budget
                      /\ line'[i].budget <= MaxWait * Cardinality(Readers)
    BY <1>3 DEF WaitBoundedByLine
  <2>1. TotalWait(line', i) = TotalWait(line, i) /\ TotalWait(line, i) \in Nat
    <3>1. i \in 0..Len(line) BY <1>1
    <3>2. line \in Seq(Read) /\ Len(line) <= Len(line') BY <1>1, <1>3
    <3>3. TotalWait(line', i) = TotalWait(line, i)
      BY <1>2, <1>3, <3>1, <3>2, TotalWaitOfSameReads
    <3> QED BY <3>1, <3>2, <3>3, TotalWaitIsBounded
  <2>2. Remaining(i) = TotalWait(line, i) - elapsed
        /\ Remaining(i)' = TotalWait(line', i) - elapsed'
    BY <1>1 DEF Remaining
  <2>3. line[i].waited + Remaining(i) <= line[i].budget
        /\ line[i].budget <= MaxWait * Cardinality(Readers)
    BY <1>1 DEF WaitInv, WaitBoundedByLine
  <2>4. line[i].waited \in Nat /\ line[i].budget \in Nat BY <1>2 DEF Read
  <2>5. line'[i].waited = line[i].waited + 1 /\ line'[i].budget = line[i].budget
        /\ elapsed \in Nat /\ elapsed' = elapsed + 1
    BY <1>1, <1>2
  <2> QED BY <2>1, <2>2, <2>3, <2>4, <2>5
<1> QED BY <1>4, <1>5, <1>6, <1>7 DEF WaitInv

\* A read that joins the line, leaves it or waits in it leaves every budget kept.
THEOREM WaitInvariant == Spec => []WaitInv
<1>1. WaitInv /\ [Next]_vars => WaitInv'
  <2> SUFFICES ASSUME WaitInv, [Next]_vars PROVE WaitInv'
    OBVIOUS
  <2>1. ASSUME NEW r \in Readers, NEW q \in Requests, Call(r, q) PROVE WaitInv'
    BY <2>1, CallKeeps
  <2>2. ASSUME Receive \/ GiveUp PROVE WaitInv'
    BY <2>2, LeaveKeeps DEF Receive, GiveUp
  <2>3. ASSUME Tick PROVE WaitInv'
    BY <2>3, TickKeeps
  <2>4. ASSUME UNCHANGED vars PROVE WaitInv'
    BY <2>4 DEF vars, WaitInv, TypeOK, HolderIsInTime, ReadersAreDistinct,
                WaitBoundedByLine, Remaining
  <2> QED BY <2>1, <2>2, <2>3, <2>4 DEF Next
<1> QED BY <1>1, InitWaitInv, PTL DEF Spec

\* Whatever a caller asks for, the wait that is begun is within the limits
\* (ops/updates.rs:190).
THEOREM WaitTypeCorrect == Spec => []TypeOK
<1>1. WaitInv => TypeOK BY DEF WaitInv
<1> QED BY <1>1, WaitInvariant, PTL

\* A read that queues at the handoff's lock (update_pump/mod.rs:118) is over when the
\* waits ahead of it and its own have run out, at most one maximal wait for each
\* thread that reads, however many threads there are and whatever they ask for.
THEOREM WaitsAreBounded == Spec => []WaitBoundedByLine
<1>1. WaitInv => WaitBoundedByLine BY DEF WaitInv
<1> QED BY <1>1, WaitInvariant, PTL
=============================================================================
