------------------------- MODULE UploadStreamProofs -------------------------
(***************************************************************************)
(* What holds of a streamed upload for every number of threads, every      *)
(* declared size, channel capacity and set of chunk sizes.                 *)
(***************************************************************************)
EXTENDS UploadStream, FiniteSetTheorems, TLAPS

(* A chunk has bytes from when it is handed over until it is cleared.      *)
ChunksHaveBytes ==
    /\ current # NoBytes => current.from < current.upto
    /\ \A i \in DOMAIN channel : channel[i].from < channel[i].upto
    /\ \A t \in Threads :
          /\ pc[t] = "holding" => chunk[t].from = 0 /\ chunk[t].upto \in ChunkSizes
          /\ pc[t] = "sending" => chunk[t].from < chunk[t].upto

(* Nothing uncounted is read, and a task that is done has read everything, *)
(* after which no call can be counting or sending a chunk.                 *)
ReadIsCounted ==
    /\ read \subseteq 0..(accepted - 1)
    /\ task = "done" => read = 0..(Size - 1) /\ Sending = {}
    /\ result = "ok" => task = "done"

(* The inductive invariant.                                                *)
UploadInv == TypeOK /\ ChunksHaveBytes /\ ReadIsCounted /\ BytesAccounted

-----------------------------------------------------------------------------
(* Helpers.                                                                *)

(* What an update of a thread's call makes of the calls and their chunks.  *)
LEMMA ContinueSets ==
    ASSUME TypeOK, NEW t \in Threads, NEW p \in PcState, NEW c \in Chunk, Continue(t, p, c)
    PROVE  /\ pc' \in [Threads -> PcState] /\ chunk' \in [Threads -> Chunk]
           /\ pc'[t] = p /\ chunk'[t] = c
           /\ \A u \in Threads \ {t} : pc'[u] = pc[u] /\ chunk'[u] = chunk[u]
           /\ Sending' = IF p = "sending" THEN Sending \union {t} ELSE Sending \ {t}
BY DEF TypeOK, Continue, Sending

(* The empty chunk is one.                                                 *)
LEMMA NoBytesIsChunk == NoBytes \in Chunk
BY DEF NoBytes, Chunk

(* The chunk a read takes from, split in what it takes and what it leaves. *)
LEMMA ReadSplitsChunk ==
    ASSUME TypeOK, ChunksHaveBytes, NEW room \in Nat \ {0},
           current # NoBytes \/ channel # <<>>
    PROVE  /\ Available \in Chunk /\ Available.from < Available.upto
           /\ Taken(room) \in Chunk
           /\ Rest(room) \in Chunk
           /\ Rest(room) # NoBytes => Rest(room).from < Rest(room).upto
           /\ Bytes(Available) = Bytes(Taken(room)) \union Bytes(Rest(room))
           /\ Bytes(Taken(room)) \intersect Bytes(Rest(room)) = {}
<1>1. Available \in Chunk /\ Available.from < Available.upto
  <2>1. CASE current # NoBytes
    BY <2>1 DEF Available, TypeOK, ChunksHaveBytes
  <2>2. CASE current = NoBytes
    <3>1. 1 \in DOMAIN channel /\ Head(channel) = channel[1] /\ channel[1] \in Chunk
      BY <2>2 DEF TypeOK
    <3> QED BY <2>2, <3>1 DEF Available, ChunksHaveBytes
  <2> QED BY <2>1, <2>2
<1>2. PICK a \in Nat, z \in Nat : Available = [from |-> a, upto |-> z] /\ a < z
  BY <1>1 DEF Chunk
<1>3. CASE z - a <= room
  <2>1. Taken(room) = Available /\ Rest(room) = NoBytes
    BY <1>2, <1>3 DEF Taken, Rest, SizeOf
  <2>2. Bytes(NoBytes) = {}
    BY DEF Bytes, NoBytes
  <2> QED BY <1>1, <2>1, <2>2, NoBytesIsChunk
<1>4. CASE ~(z - a <= room)
  <2>1. /\ Taken(room) = [from |-> a, upto |-> a + room]
        /\ Rest(room) = [from |-> a + room, upto |-> z]
    BY <1>2, <1>4 DEF Taken, Rest, SizeOf
  <2> QED BY <1>1, <1>2, <1>4, <2>1 DEF Bytes, Chunk
<1> QED BY <1>3, <1>4

(* What a read does to the channel: it gives up its first chunk, if any.   *)
LEMMA TailOfChannel ==
    ASSUME TypeOK, channel # <<>>
    PROVE  /\ Tail(channel) \in Seq(Chunk) /\ Len(Tail(channel)) = Len(channel) - 1
           /\ 1 \in DOMAIN channel /\ Head(channel) = channel[1]
           /\ \A i \in DOMAIN Tail(channel) :
                i + 1 \in DOMAIN channel /\ i + 1 # 1 /\ Tail(channel)[i] = channel[i + 1]
           /\ \A i \in DOMAIN channel \ {1} :
                i - 1 \in DOMAIN Tail(channel) /\ channel[i] = Tail(channel)[i - 1]
<1> channel \in Seq(Chunk) /\ Len(channel) \in Nat /\ DOMAIN channel = 1..Len(channel)
  BY DEF TypeOK
<1> Len(channel) >= 1
  OBVIOUS
<1> QED OBVIOUS

(* What a send does to it: the chunk comes last.                           *)
LEMMA ChannelWithChunk ==
    ASSUME TypeOK, NEW c \in Chunk
    PROVE  /\ Append(channel, c) \in Seq(Chunk) /\ Len(Append(channel, c)) = Len(channel) + 1
           /\ DOMAIN Append(channel, c) = DOMAIN channel \union {Len(channel) + 1}
           /\ Len(channel) + 1 \notin DOMAIN channel
           /\ Append(channel, c)[Len(channel) + 1] = c
           /\ \A i \in DOMAIN channel : Append(channel, c)[i] = channel[i]
<1> channel \in Seq(Chunk) /\ Len(channel) \in Nat /\ DOMAIN channel = 1..Len(channel)
  BY DEF TypeOK
<1> QED OBVIOUS

(* The steps that hand a chunk on, and all others.                         *)
LEMMA StepsOfUpload ==
    ASSUME Next
    PROVE  \/ \E t \in Threads, n \in ChunkSizes : TakeHandle(t, n)
           \/ \E t \in Threads : TakeStream(t)
           \/ \E t \in Threads : Count(t)
           \/ \E t \in Threads : Send(t)
           \/ \E t \in Threads : SendFails(t)
           \/ \E t \in Threads : CheckReceived(t)
           \/ \E t \in Threads : Await(t)
           \/ \E room \in 1..(Size - Cardinality(read)) : Read(room)
           \/ EndOfFile \/ Complete \/ Cancelled \/ Fail
BY DEF Next, ThreadStep, TaskStep

(* A read has a positive room.                                             *)
LEMMA RoomOfRead ==
    ASSUME UploadInv, NEW room \in 1..(Size - Cardinality(read))
    PROVE  room \in Nat \ {0}
<1>1. accepted \in Nat /\ read \subseteq 0..(accepted - 1)
  BY DEF UploadInv, TypeOK, ReadIsCounted
<1>2. IsFiniteSet(read)
  <2>1. IsFiniteSet(0..(accepted - 1))
    BY <1>1, FS_Interval
  <2> QED BY <1>1, <2>1, FS_Subset
<1>3. Cardinality(read) \in Nat
  BY <1>2, FS_CardinalityType
<1> QED BY <1>3, UploadAssumption

-----------------------------------------------------------------------------
(* Every step keeps each part of the inductive invariant.                  *)

(* The types, and that the channel keeps to its capacity.                  *)
LEMMA TypeStep ==
    ASSUME UploadInv, Next
    PROVE  TypeOK'
<1> USE NoBytesIsChunk, UploadAssumption DEF UploadInv
<1>1. ASSUME NEW t \in Threads, NEW n \in ChunkSizes, TakeHandle(t, n)
      PROVE  TypeOK'
  <2>1. [from |-> 0, upto |-> n] \in Chunk
    BY DEF Chunk
  <2> QED BY <1>1, <2>1, ContinueSets DEF TakeHandle, TypeOK, PcState, taskVars
<1>2. ASSUME NEW t \in Threads, TakeStream(t)
      PROVE  TypeOK'
  BY <1>2, ContinueSets DEF TakeStream, TypeOK, PcState, taskVars
<1>3. ASSUME NEW t \in Threads, Count(t)
      PROVE  TypeOK'
  <2>1. chunk[t].from = 0 /\ chunk[t].upto \in Nat /\ accepted \in Nat
    BY <1>3 DEF Count, ChunksHaveBytes, TypeOK
  <2>2. CASE accepted + SizeOf(chunk[t]) <= Size
    <3>1. accepted' = accepted + chunk[t].upto /\ accepted' \in Nat
      BY <1>3, <2>1, <2>2 DEF Count, SizeOf
    <3>2. [from |-> accepted, upto |-> accepted'] \in Chunk
      BY <2>1, <3>1 DEF Chunk
    <3> QED BY <1>3, <2>2, <3>1, <3>2, ContinueSets DEF Count, TypeOK, PcState, taskVars
  <2>3. CASE ~(accepted + SizeOf(chunk[t]) <= Size)
    BY <1>3, <2>3, ContinueSets DEF Count, Return, TypeOK, PcState, taskVars
  <2> QED BY <2>2, <2>3
<1>4. ASSUME NEW t \in Threads, Send(t)
      PROVE  TypeOK'
  <2>1. chunk[t] \in Chunk
    BY DEF TypeOK
  <2>2. channel' \in Seq(Chunk) /\ Len(channel') <= Capacity
    BY <1>4, <2>1, ChannelWithChunk DEF Send, TypeOK
  <2> QED BY <1>4, <2>2, ContinueSets DEF Send, Return, TypeOK, PcState
<1>5. ASSUME NEW t \in Threads, SendFails(t)
      PROVE  TypeOK'
  BY <1>5, ContinueSets DEF SendFails, Return, TypeOK, PcState, taskVars
<1>6. ASSUME NEW t \in Threads, CheckReceived(t)
      PROVE  TypeOK'
  <2>1. CASE accepted # Size
    BY <1>6, <2>1, ContinueSets DEF CheckReceived, Return, TypeOK, PcState
  <2>2. CASE accepted = Size
    BY <1>6, <2>2, ContinueSets DEF CheckReceived, TypeOK, PcState
  <2> QED BY <2>1, <2>2
<1>7. ASSUME NEW t \in Threads, Await(t)
      PROVE  TypeOK'
  BY <1>7, ContinueSets DEF Await, Return, TypeOK, PcState, taskVars
<1>8. ASSUME NEW room \in 1..(Size - Cardinality(read)), Read(room)
      PROVE  TypeOK'
  <2>1. Taken(room) \in Chunk /\ Rest(room) \in Chunk
    BY <1>8, RoomOfRead, ReadSplitsChunk DEF Read
  <2>2. Bytes(Taken(room)) \subseteq Nat
    BY <2>1 DEF Chunk, Bytes
  <2>3. channel' \in Seq(Chunk) /\ Len(channel') <= Capacity
    BY <1>8, TailOfChannel DEF Read, TypeOK
  <2> QED BY <1>8, <2>1, <2>2, <2>3 DEF Read, TypeOK
<1>9. ASSUME EndOfFile \/ Complete \/ Cancelled \/ Fail
      PROVE  TypeOK'
  <2>1. <<>> \in Seq(Chunk) /\ Len(<<>>) <= Capacity
    OBVIOUS
  <2> QED BY <1>9, <2>1 DEF EndOfFile, Complete, Cancelled, Fail, TaskEnds, TypeOK
<1> QED BY <1>1, <1>2, <1>3, <1>4, <1>5, <1>6, <1>7, <1>8, <1>9, StepsOfUpload

(* That chunks have bytes.                                                 *)
LEMMA ChunksStep ==
    ASSUME UploadInv, Next
    PROVE  ChunksHaveBytes'
<1> USE NoBytesIsChunk, UploadAssumption DEF UploadInv
<1>1. ASSUME NEW t \in Threads, NEW n \in ChunkSizes, TakeHandle(t, n)
      PROVE  ChunksHaveBytes'
  <2>1. [from |-> 0, upto |-> n] \in Chunk
    BY DEF Chunk
  <2> QED BY <1>1, <2>1, ContinueSets DEF TakeHandle, ChunksHaveBytes, PcState, taskVars
<1>2. ASSUME NEW t \in Threads, TakeStream(t)
      PROVE  ChunksHaveBytes'
  BY <1>2, ContinueSets DEF TakeStream, ChunksHaveBytes, PcState, taskVars
<1>3. ASSUME NEW t \in Threads, Count(t)
      PROVE  ChunksHaveBytes'
  <2>1. chunk[t].from = 0 /\ chunk[t].upto \in Nat \ {0} /\ accepted \in Nat
    BY <1>3 DEF Count, ChunksHaveBytes, TypeOK
  <2>2. CASE accepted + SizeOf(chunk[t]) <= Size
    <3>1. accepted' = accepted + chunk[t].upto /\ accepted' \in Nat
      BY <1>3, <2>1, <2>2 DEF Count, SizeOf
    <3>2. [from |-> accepted, upto |-> accepted'] \in Chunk
      BY <2>1, <3>1 DEF Chunk
    <3> QED BY <1>3, <2>1, <2>2, <3>1, <3>2, ContinueSets
            DEF Count, ChunksHaveBytes, PcState, taskVars
  <2>3. CASE ~(accepted + SizeOf(chunk[t]) <= Size)
    BY <1>3, <2>3, ContinueSets DEF Count, Return, ChunksHaveBytes, PcState, taskVars
  <2> QED BY <2>2, <2>3
<1>4. ASSUME NEW t \in Threads, Send(t)
      PROVE  ChunksHaveBytes'
  <2>1. chunk[t] \in Chunk /\ chunk[t].from < chunk[t].upto
    BY <1>4 DEF TypeOK, Send, ChunksHaveBytes
  <2>2. \A i \in DOMAIN channel' : channel'[i].from < channel'[i].upto
    BY <1>4, <2>1, ChannelWithChunk DEF Send, ChunksHaveBytes
  <2> QED BY <1>4, <2>2, ContinueSets DEF Send, Return, ChunksHaveBytes, PcState
<1>5. ASSUME NEW t \in Threads, SendFails(t)
      PROVE  ChunksHaveBytes'
  BY <1>5, ContinueSets DEF SendFails, Return, ChunksHaveBytes, PcState, taskVars
<1>6. ASSUME NEW t \in Threads, CheckReceived(t)
      PROVE  ChunksHaveBytes'
  <2>1. CASE accepted # Size
    BY <1>6, <2>1, ContinueSets DEF CheckReceived, Return, ChunksHaveBytes, PcState
  <2>2. CASE accepted = Size
    BY <1>6, <2>2, ContinueSets DEF CheckReceived, ChunksHaveBytes, PcState
  <2> QED BY <2>1, <2>2
<1>7. ASSUME NEW t \in Threads, Await(t)
      PROVE  ChunksHaveBytes'
  BY <1>7, ContinueSets DEF Await, Return, ChunksHaveBytes, PcState, taskVars
<1>8. ASSUME NEW room \in 1..(Size - Cardinality(read)), Read(room)
      PROVE  ChunksHaveBytes'
  <2>1. Rest(room) # NoBytes => Rest(room).from < Rest(room).upto
    BY <1>8, RoomOfRead, ReadSplitsChunk DEF Read
  <2>2. \A i \in DOMAIN channel' : channel'[i].from < channel'[i].upto
    BY <1>8, TailOfChannel DEF Read, ChunksHaveBytes
  <2> QED BY <1>8, <2>1, <2>2 DEF Read, ChunksHaveBytes
<1>9. ASSUME EndOfFile \/ Complete \/ Cancelled \/ Fail
      PROVE  ChunksHaveBytes'
  BY <1>9 DEF EndOfFile, Complete, Cancelled, Fail, TaskEnds, ChunksHaveBytes
<1> QED BY <1>1, <1>2, <1>3, <1>4, <1>5, <1>6, <1>7, <1>8, <1>9, StepsOfUpload

(* The bytes that are somewhere, one by one.                               *)
LEMMA AccountedBytes ==
    /\ \A b : b \in Accounted <=>
          \/ b \in read \/ b \in Bytes(current)
          \/ \E i \in DOMAIN channel : b \in Bytes(channel[i])
          \/ \E t \in Sending : b \in Bytes(chunk[t])
    /\ \A b : b \in Accounted' <=>
          \/ b \in read' \/ b \in Bytes(current')
          \/ \E i \in DOMAIN channel' : b \in Bytes(channel'[i])
          \/ \E t \in Sending' : b \in Bytes(chunk'[t])
<1>1. ASSUME NEW b
      PROVE  /\ b \in InChannel <=> \E i \in DOMAIN channel : b \in Bytes(channel[i])
             /\ b \in InCalls <=> \E t \in Sending : b \in Bytes(chunk[t])
             /\ b \in InChannel' <=> \E i \in DOMAIN channel' : b \in Bytes(channel'[i])
             /\ b \in InCalls' <=> \E t \in Sending' : b \in Bytes(chunk'[t])
  BY DEF InChannel, InCalls
<1>2. ASSUME NEW b
      PROVE  b \in Accounted <=>
                \/ b \in read \/ b \in Bytes(current)
                \/ \E i \in DOMAIN channel : b \in Bytes(channel[i])
                \/ \E t \in Sending : b \in Bytes(chunk[t])
  BY <1>1 DEF Accounted
<1>3. ASSUME NEW b
      PROVE  b \in Accounted' <=>
                \/ b \in read' \/ b \in Bytes(current')
                \/ \E i \in DOMAIN channel' : b \in Bytes(channel'[i])
                \/ \E t \in Sending' : b \in Bytes(chunk'[t])
  BY <1>1 DEF Accounted
<1> QED BY <1>2, <1>3, Zenon

(* Where bytes are, and that no byte is in two places, do not depend on    *)
(* calls that are not sending.                                             *)
LEMMA SameAccounts ==
    ASSUME UploadInv,
           UNCHANGED <<accepted, read, current, channel, Sending>>,
           \A t \in Sending : chunk'[t] = chunk[t],
           task' = "done" => accepted = Size,
           Reading' => Reading
    PROVE  BytesAccounted'
<1>1. Accounted' = Accounted
  <2>1. ASSUME NEW b
        PROVE  b \in Accounted' <=> b \in Accounted
    <3>1. (\E t \in Sending' : b \in Bytes(chunk'[t])) <=> \E t \in Sending : b \in Bytes(chunk[t])
      OBVIOUS
    <3> QED BY <3>1, AccountedBytes
  <2> QED BY <2>1
<1>2. NowhereTwice => NowhereTwice'
  BY DEF NowhereTwice
<1> QED BY <1>1, <1>2 DEF UploadInv, BytesAccounted

(* Counting a chunk gives it the numbers that come next.                   *)
LEMMA CountAccounts ==
    ASSUME UploadInv, NEW t \in Threads, Count(t)
    PROVE  BytesAccounted'
<1> USE UploadAssumption
<1>1. /\ chunk[t].from = 0 /\ chunk[t].upto \in Nat \ {0} /\ accepted \in Nat
      /\ t \notin Sending /\ TypeOK /\ accepted <= Size
  BY DEF UploadInv, Count, ChunksHaveBytes, TypeOK, Sending, BytesAccounted
<1>2. CASE ~(accepted + SizeOf(chunk[t]) <= Size)
  <2>1. UNCHANGED <<accepted, read, current, channel, task>> /\ Return(t)
    BY <1>2 DEF Count, taskVars
  <2>2. UNCHANGED Sending /\ \A u \in Sending : chunk'[u] = chunk[u]
    BY <1>1, <2>1, ContinueSets, NoBytesIsChunk DEF Return, PcState, Sending
  <2>3. (Reading' => Reading) /\ (task' = "done" => accepted = Size)
    BY <2>1 DEF Reading, UploadInv, BytesAccounted
  <2> QED BY <2>1, <2>2, <2>3, SameAccounts
<1>3. CASE accepted + SizeOf(chunk[t]) <= Size
  <2> DEFINE new == [from |-> accepted, upto |-> accepted']
  <2>1. /\ accepted' = accepted + chunk[t].upto /\ accepted' \in Nat
        /\ accepted < accepted' /\ accepted' <= Size
    BY <1>1, <1>3 DEF Count, SizeOf
  <2>2. new \in Chunk /\ Bytes(new) = accepted..(accepted' - 1)
    BY <1>1, <2>1 DEF Chunk, Bytes
  <2>3. /\ UNCHANGED <<read, current, channel, task>>
        /\ Continue(t, "sending", new)
    BY <1>3 DEF Count, taskVars
  <2>4. /\ Sending' = Sending \union {t} /\ chunk'[t] = new
        /\ \A u \in Sending : u # t /\ chunk'[u] = chunk[u]
    <3> HIDE DEF new
    <3> QED BY <1>1, <2>2, <2>3, ContinueSets DEF PcState, Sending
  <2>5. task' # "done"
    BY <2>1, <2>3, <1>1 DEF UploadInv, BytesAccounted
  <2>6. ASSUME Reading'
        PROVE  Accounted' = 0..(accepted' - 1) /\ NowhereTwice'
    <3> HIDE DEF new
    <3>1. Accounted = 0..(accepted - 1) /\ NowhereTwice
      BY <2>3, <2>6 DEF Reading, UploadInv, BytesAccounted
    <3>2. Accounted' = Accounted \union Bytes(new)
      BY <2>3, <2>4, AccountedBytes
    <3>3. Accounted' = 0..(accepted' - 1)
      BY <3>1, <3>2, <2>1, <2>2, <1>1
    <3>4. \A b \in Bytes(new) : b \notin Accounted
      BY <3>1, <2>2, <1>1
    <3>5. /\ Bytes(new) \intersect (read \union Bytes(current)) = {}
          /\ \A i \in DOMAIN channel : Bytes(new) \intersect Bytes(channel[i]) = {}
          /\ \A u \in Sending : Bytes(new) \intersect Bytes(chunk[u]) = {}
      BY <3>4, AccountedBytes
    <3>6. NowhereTwice'
      BY <3>1, <3>5, <2>3, <2>4 DEF NowhereTwice
    <3> QED BY <3>3, <3>6
  <2> QED BY <2>1, <2>5, <2>6 DEF BytesAccounted
<1> QED BY <1>2, <1>3

(* Sending it moves it from the call to the end of the channel.            *)
LEMMA SendAccounts ==
    ASSUME UploadInv, NEW t \in Threads, Send(t)
    PROVE  BytesAccounted'
<1> DEFINE last == Len(channel) + 1
<1>1. TypeOK /\ Accounted = 0..(accepted - 1) /\ NowhereTwice /\ chunk[t] \in Chunk
  BY DEF UploadInv, BytesAccounted, Send, TypeOK
<1>2. UNCHANGED <<accepted, read, current, task>> /\ Return(t) /\ t \in Sending
  BY DEF Send, Sending
<1>3. Sending' = Sending \ {t} /\ \A u \in Sending' : chunk'[u] = chunk[u]
  BY <1>1, <1>2, ContinueSets, NoBytesIsChunk DEF Return, PcState, Sending
<1>4. /\ DOMAIN channel' = DOMAIN channel \union {last} /\ last \notin DOMAIN channel
      /\ channel'[last] = chunk[t]
      /\ \A i \in DOMAIN channel : channel'[i] = channel[i]
  BY <1>1, ChannelWithChunk DEF Send
<1> HIDE DEF last
<1>5. Accounted' = Accounted
  <2>1. \A b : (\E i \in DOMAIN channel' : b \in Bytes(channel'[i]))
            <=> (\E i \in DOMAIN channel : b \in Bytes(channel[i])) \/ b \in Bytes(chunk[t])
    BY <1>4
  <2>2. \A b : (\E u \in Sending : b \in Bytes(chunk[u]))
            <=> (\E u \in Sending' : b \in Bytes(chunk'[u])) \/ b \in Bytes(chunk[t])
    BY <1>2, <1>3
  <2> QED BY <1>2, <2>1, <2>2, AccountedBytes
<1>6. /\ Bytes(chunk[t]) \intersect (read \union Bytes(current)) = {}
      /\ \A i \in DOMAIN channel : Bytes(chunk[t]) \intersect Bytes(channel[i]) = {}
      /\ \A u \in Sending' : Bytes(chunk[t]) \intersect Bytes(chunk[u]) = {}
  BY <1>1, <1>2, <1>3 DEF NowhereTwice
<1>7. NowhereTwice'
  BY <1>1, <1>2, <1>3, <1>4, <1>6 DEF NowhereTwice
<1> QED BY <1>1, <1>2, <1>5, <1>7 DEF UploadInv, BytesAccounted

(* A read moves bytes from the current or the next chunk to grammers.      *)
LEMMA ReadAccounts ==
    ASSUME UploadInv, NEW room \in 1..(Size - Cardinality(read)), Read(room)
    PROVE  BytesAccounted' /\ read' \subseteq 0..(accepted - 1)
<1> DEFINE taken == Bytes(Taken(room))
           left == Bytes(current')
           from == Bytes(Available)
<1>1. TypeOK /\ ChunksHaveBytes /\ Accounted = 0..(accepted - 1) /\ NowhereTwice
  BY DEF UploadInv, BytesAccounted, Read
<1>2. /\ UNCHANGED <<accepted, chunk, pc, task, Sending>>
      /\ read' = read \union taken /\ current' = Rest(room)
  BY DEF Read, Sending
<1>3. from = taken \union left /\ taken \intersect left = {}
  BY <1>1, <1>2, RoomOfRead, ReadSplitsChunk DEF Read
<1>4. Accounted' = Accounted /\ NowhereTwice'
  <2>1. CASE current # NoBytes
    <3>1. from = Bytes(current) /\ channel' = channel
      BY <2>1 DEF Available, Read
    <3> HIDE DEF taken, left, from
    <3>2. Accounted' = Accounted
      BY <1>2, <1>3, <3>1, AccountedBytes DEF left
    <3>3. NowhereTwice'
      BY <1>1, <1>2, <1>3, <3>1 DEF NowhereTwice, left
    <3> QED BY <3>2, <3>3
  <2>2. CASE current = NoBytes
    <3>1. /\ 1 \in DOMAIN channel /\ from = Bytes(channel[1])
          /\ \A i \in DOMAIN channel' :
               i + 1 \in DOMAIN channel /\ i + 1 # 1 /\ channel'[i] = channel[i + 1]
          /\ \A i \in DOMAIN channel \ {1} :
               i - 1 \in DOMAIN channel' /\ channel[i] = channel'[i - 1]
      BY <1>1, <2>2, TailOfChannel DEF Available, Read
    <3>2. Bytes(current) = {}
      BY <2>2 DEF Bytes, NoBytes
    <3>3. DOMAIN channel \subseteq Nat /\ DOMAIN channel' \subseteq Nat
      <4>1. channel' \in Seq(Chunk) /\ channel \in Seq(Chunk)
        BY <1>1, <2>2, TailOfChannel DEF Read, TypeOK
      <4> QED BY <4>1
    <3> HIDE DEF taken, left, from
    <3>4. \A b : (\E i \in DOMAIN channel : b \in Bytes(channel[i]))
              <=> b \in from \/ \E i \in DOMAIN channel' : b \in Bytes(channel'[i])
      BY <3>1
    <3>5. Accounted' = Accounted
      BY <1>2, <1>3, <3>2, <3>4, AccountedBytes DEF left
    <3>6. /\ from \intersect read = {}
          /\ \A i \in DOMAIN channel' :
               /\ Bytes(channel'[i]) \intersect from = {}
               /\ Bytes(channel'[i]) \intersect read = {}
          /\ \A t \in Sending : Bytes(chunk[t]) \intersect from = {}
      BY <1>1, <3>1 DEF NowhereTwice
    <3>7. \A i \in DOMAIN channel' : \A j \in DOMAIN channel' \ {i} :
            Bytes(channel'[i]) \intersect Bytes(channel'[j]) = {}
      <4>1. \A i, j \in DOMAIN channel' : i # j => i + 1 # j + 1
        BY <3>3
      <4> QED BY <1>1, <3>1, <4>1 DEF NowhereTwice
    <3>8. \A t \in Sending : \A i \in DOMAIN channel' :
            Bytes(chunk[t]) \intersect Bytes(channel'[i]) = {}
      BY <1>1, <3>1 DEF NowhereTwice
    <3>9. read' \intersect left = {}
      BY <1>2, <1>3, <3>6
    <3>10. NowhereTwice'
      BY <1>1, <1>2, <1>3, <3>6, <3>7, <3>8, <3>9 DEF NowhereTwice, left
    <3> QED BY <3>5, <3>10
  <2> QED BY <2>1, <2>2
<1>5. read' \subseteq Accounted'
  BY AccountedBytes
<1> QED BY <1>1, <1>2, <1>4, <1>5 DEF UploadInv, BytesAccounted, Reading

(* When grammers has read as much as was declared, it has read everything. *)
LEMMA CompleteReadsAll ==
    ASSUME UploadInv, Complete
    PROVE  accepted = Size /\ read = 0..(Size - 1) /\ Sending = {}
<1> USE UploadAssumption
<1>1. /\ accepted \in Nat /\ accepted <= Size /\ read \subseteq 0..(accepted - 1)
      /\ Cardinality(read) = Size /\ Reading
  BY DEF UploadInv, TypeOK, BytesAccounted, ReadIsCounted, Complete, Reading
<1>2. IsFiniteSet(0..(accepted - 1)) /\ Cardinality(0..(accepted - 1)) = accepted
  BY <1>1, FS_Interval
<1>3. read = 0..(accepted - 1) /\ accepted = Size
  <2>1. /\ Cardinality(read) <= Cardinality(0..(accepted - 1))
        /\ Cardinality(read) = Cardinality(0..(accepted - 1)) => read = 0..(accepted - 1)
    BY <1>1, <1>2, FS_Subset
  <2> QED BY <1>1, <1>2, <2>1
<1>4. ASSUME NEW t \in Sending
      PROVE  FALSE
  <2>1. chunk[t] \in Chunk /\ chunk[t].from < chunk[t].upto
    BY DEF UploadInv, TypeOK, ChunksHaveBytes, Sending
  <2>2. chunk[t].from \in Bytes(chunk[t])
    BY <2>1 DEF Chunk, Bytes
  <2>3. Accounted = read /\ Bytes(chunk[t]) \intersect read = {}
    BY <1>1, <1>3 DEF UploadInv, BytesAccounted, NowhereTwice
  <2>4. chunk[t].from \in Accounted
    BY <2>2, AccountedBytes
  <2> QED BY <2>2, <2>3, <2>4
<1> QED BY <1>3, <1>4

(* That bytes are accounted for, and that reading ends with all of them.   *)
LEMMA AccountStep ==
    ASSUME UploadInv, Next
    PROVE  BytesAccounted' /\ ReadIsCounted'
<1> USE NoBytesIsChunk
<1> TypeOK /\ Sending \subseteq Threads
  BY DEF UploadInv, Sending
<1>1. ASSUME NEW t \in Threads, NEW n \in ChunkSizes, TakeHandle(t, n)
      PROVE  BytesAccounted' /\ ReadIsCounted'
  <2>1. [from |-> 0, upto |-> n] \in Chunk /\ t \notin Sending
    BY <1>1, UploadAssumption DEF Chunk, TakeHandle, Sending
  <2>2. /\ UNCHANGED <<accepted, read, current, channel, task, result>>
        /\ UNCHANGED Sending /\ \A u \in Sending : chunk'[u] = chunk[u]
    <3>1. Continue(t, "holding", [from |-> 0, upto |-> n]) /\ "holding" \in PcState
      BY <1>1 DEF TakeHandle, PcState
    <3>2. Sending' = Sending \ {t} /\ \A u \in Threads \ {t} : chunk'[u] = chunk[u]
      BY <2>1, <3>1, ContinueSets
    <3> QED BY <1>1, <2>1, <3>2 DEF TakeHandle, taskVars
  <2>3. (Reading' => Reading) /\ (task' = "done" => accepted = Size) /\ ReadIsCounted'
    BY <2>2 DEF Reading, UploadInv, BytesAccounted, ReadIsCounted
  <2> QED BY <2>2, <2>3, SameAccounts
<1>2. ASSUME NEW t \in Threads, TakeStream(t)
      PROVE  BytesAccounted' /\ ReadIsCounted'
  <2>1. t \notin Sending
    BY <1>2 DEF TakeStream, Sending
  <2>2. /\ UNCHANGED <<accepted, read, current, channel, task, result>>
        /\ UNCHANGED Sending /\ \A u \in Sending : chunk'[u] = chunk[u]
    BY <1>2, <2>1, ContinueSets DEF TakeStream, PcState, taskVars
  <2>3. (Reading' => Reading) /\ (task' = "done" => accepted = Size) /\ ReadIsCounted'
    BY <2>2 DEF Reading, UploadInv, BytesAccounted, ReadIsCounted
  <2> QED BY <2>2, <2>3, SameAccounts
<1>3. ASSUME NEW t \in Threads, Count(t)
      PROVE  BytesAccounted' /\ ReadIsCounted'
  <2>1. /\ chunk[t].from = 0 /\ chunk[t].upto \in Nat \ {0} /\ accepted \in Nat
        /\ UNCHANGED <<read, task, result>> /\ t \notin Sending
    BY <1>3, UploadAssumption
       DEF UploadInv, Count, ChunksHaveBytes, TypeOK, taskVars, Sending
  <2>2. accepted' \in Nat /\ accepted <= accepted'
    BY <1>3, <2>1 DEF Count, SizeOf
  <2>3. read' \subseteq 0..(accepted' - 1)
    <3>1. \A a, z \in Nat : a <= z => 0..(a - 1) \subseteq 0..(z - 1)
      OBVIOUS
    <3>2. 0..(accepted - 1) \subseteq 0..(accepted' - 1)
      BY <2>1, <2>2, <3>1
    <3> QED BY <2>1, <3>2 DEF UploadInv, ReadIsCounted
  <2>4. task = "done" => Return(t)
    BY <1>3, <2>1, UploadAssumption DEF Count, SizeOf, UploadInv, BytesAccounted
  <2>5. task = "done" => Sending' = Sending
    BY <2>1, <2>4, ContinueSets DEF Return, PcState
  <2> QED BY <1>3, <2>1, <2>3, <2>5, CountAccounts DEF ReadIsCounted, UploadInv
<1>4. ASSUME NEW t \in Threads, Send(t)
      PROVE  BytesAccounted' /\ ReadIsCounted'
  <2>1. UNCHANGED <<accepted, read, task, result>> /\ task # "done"
    BY <1>4 DEF Send, Reading
  <2> QED BY <1>4, <2>1, SendAccounts DEF UploadInv, ReadIsCounted
<1>5. ASSUME NEW t \in Threads, SendFails(t)
      PROVE  BytesAccounted' /\ ReadIsCounted'
  <2>1. UNCHANGED <<accepted, read, task, result>> /\ ~Reading /\ Return(t)
    BY <1>5 DEF SendFails, taskVars
  <2>2. Sending' = Sending \ {t}
    BY <2>1, ContinueSets DEF Return, PcState
  <2> QED BY <2>1, <2>2 DEF UploadInv, ReadIsCounted, BytesAccounted, Reading
<1>6. ASSUME NEW t \in Threads, CheckReceived(t)
      PROVE  BytesAccounted' /\ ReadIsCounted'
  <2>1. t \notin Sending /\ UNCHANGED <<accepted, read, current, channel>>
    BY <1>6 DEF CheckReceived, Sending
  <2>2. UNCHANGED Sending /\ \A u \in Sending : chunk'[u] = chunk[u]
    BY <1>6, <2>1, ContinueSets DEF CheckReceived, Return, PcState
  <2>3. /\ Reading' => Reading
        /\ task' = "done" <=> task = "done"
        /\ result' # "ok" \/ result' = result
    BY <1>6 DEF CheckReceived, Reading
  <2> QED BY <2>1, <2>2, <2>3, SameAccounts DEF UploadInv, BytesAccounted, ReadIsCounted
<1>7. ASSUME NEW t \in Threads, Await(t)
      PROVE  BytesAccounted' /\ ReadIsCounted'
  <2>1. t \notin Sending /\ UNCHANGED <<accepted, read, current, channel, task>> /\ Return(t)
    BY <1>7 DEF Await, Sending, taskVars
  <2>2. UNCHANGED Sending /\ \A u \in Sending : chunk'[u] = chunk[u]
    <3>1. Continue(t, "idle", NoBytes) /\ "idle" \in PcState
      BY <2>1 DEF Return, PcState
    <3>2. Sending' = Sending \ {t} /\ \A u \in Threads \ {t} : chunk'[u] = chunk[u]
      BY <3>1, ContinueSets
    <3> QED BY <2>1, <3>2
  <2>3. (Reading' => Reading) /\ (result' = "ok" => task = "done")
    BY <1>7, <2>1 DEF Await, Reading
  <2> QED BY <2>1, <2>2, <2>3, SameAccounts DEF UploadInv, BytesAccounted, ReadIsCounted
<1>8. ASSUME NEW room \in 1..(Size - Cardinality(read)), Read(room)
      PROVE  BytesAccounted' /\ ReadIsCounted'
  <2>1. UNCHANGED <<accepted, task, result>> /\ task # "done"
    BY <1>8 DEF Read, Reading
  <2> QED BY <1>8, <2>1, ReadAccounts DEF UploadInv, ReadIsCounted
<1>9. ASSUME Complete
      PROVE  BytesAccounted' /\ ReadIsCounted'
  <2>1. UNCHANGED <<accepted, read, result, Sending>> /\ task' = "done"
    BY <1>9 DEF Complete, TaskEnds, Sending
  <2> QED BY <1>9, <2>1, CompleteReadsAll
          DEF UploadInv, BytesAccounted, ReadIsCounted, Reading
<1>10. ASSUME EndOfFile \/ Cancelled \/ Fail
       PROVE  BytesAccounted' /\ ReadIsCounted'
  <2>1. UNCHANGED <<accepted, read, result>> /\ task' = "failed" /\ task # "done"
    BY <1>10 DEF EndOfFile, Cancelled, Fail, TaskEnds, Reading
  <2> QED BY <2>1 DEF UploadInv, BytesAccounted, ReadIsCounted, Reading
<1> QED BY <1>1, <1>2, <1>3, <1>4, <1>5, <1>6, <1>7, <1>8, <1>9, <1>10, StepsOfUpload

-----------------------------------------------------------------------------
(* The theorems.                                                           *)

\* The inductive invariant holds of every upload: chunks that are handed over have
\* bytes, only counted bytes are read, every counted byte is in one place.
THEOREM UploadInvariant == Spec => []UploadInv
<1>1. Init => UploadInv
  <2> SUFFICES ASSUME Init
               PROVE  UploadInv
    OBVIOUS
  <2> USE NoBytesIsChunk, UploadAssumption DEF Init
  <2>1. TypeOK
    <3>1. <<>> \in Seq(Chunk) /\ Len(<<>>) = 0
      OBVIOUS
    <3> QED BY <3>1 DEF TypeOK, PcState
  <2>2. Bytes(current) = {} /\ Sending = {} /\ DOMAIN channel = {}
    BY DEF Bytes, NoBytes, Sending
  <2>3. ChunksHaveBytes /\ ReadIsCounted
    BY <2>2 DEF ChunksHaveBytes, ReadIsCounted
  <2>4. Accounted = 0..(accepted - 1) /\ NowhereTwice
    BY <2>2, AccountedBytes DEF NowhereTwice
  <2> QED BY <2>1, <2>3, <2>4 DEF UploadInv, BytesAccounted
<1>2. UploadInv /\ [Next]_vars => UploadInv'
  <2>1. UploadInv /\ Next => UploadInv'
    BY TypeStep, ChunksStep, AccountStep DEF UploadInv
  <2>2. UploadInv /\ UNCHANGED vars => UploadInv'
    BY DEF UploadInv, vars, TypeOK, ChunksHaveBytes, ReadIsCounted, BytesAccounted,
           Accounted, InChannel, InCalls, NowhereTwice, Sending, Reading
  <2> QED BY <2>1, <2>2
<1> QED BY <1>1, <1>2, PTL DEF Spec

\* Every variable of the upload has its type; the channel never holds more chunks
\* than it has room for, whoever sends.
THEOREM UploadTypeCorrect == Spec => []TypeOK
<1>1. UploadInv => TypeOK
  BY DEF UploadInv
<1> QED BY <1>1, UploadInvariant, PTL

\* Whatever the threads' interleaving, at most the declared size is counted, and
\* while the task reads every counted byte is in exactly one place.
THEOREM EveryByteAccounted == Spec => []BytesAccounted
<1>1. UploadInv => BytesAccounted
  BY DEF UploadInv
<1> QED BY <1>1, UploadInvariant, PTL

\* A finish that reports success has had every declared byte handed to grammers,
\* and no chunk is on its way any more.
THEOREM FinishedIsComplete == Spec => []FinishIsComplete
<1>1. UploadInv => FinishIsComplete
  BY DEF UploadInv, ReadIsCounted, FinishIsComplete
<1> QED BY <1>1, UploadInvariant, PTL
=============================================================================
