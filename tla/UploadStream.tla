---------------------------- MODULE UploadStream ----------------------------
(***************************************************************************)
(* One streamed upload (client.rs start_stream_upload and append_stream,   *)
(* ops/files.rs upload_stream_finish, upload.rs).                          *)
(*                                                                         *)
(* Threads hand chunks to a bounded channel; a task reads the channel for  *)
(* grammers, which was told the size beforehand; one call finishes the     *)
(* stream.  A chunk is counted before it is sent, so the sending may still *)
(* be under way when the finish looks at the count.                        *)
(*                                                                         *)
(* Bytes are numbered in the order in which they are counted, so a counted *)
(* chunk is the range of its bytes' numbers.                               *)
(***************************************************************************)
EXTENDS Integers, Sequences, FiniteSets

CONSTANTS
    Threads,    \* threads calling uploadStreamChunk and uploadStreamFinish
    Size,       \* the size uploadStreamBegin declared
    Capacity,   \* chunks the channel holds, 4 in the code
    ChunkSizes  \* sizes of the chunks threads hand over

ASSUME UploadAssumption ==
    /\ Size \in Nat
    /\ Capacity \in Nat \ {0}
    /\ ChunkSizes \subseteq Nat \ {0}

VARIABLES
    open,       \* the stream is registered: it takes chunks
    accepted,   \* bytes counted
    channel,    \* the chunks in the channel
    current,    \* what is left of the chunk the reader is handing over
    read,       \* the bytes handed to grammers; uploadProgress reports how many
    task,       \* the upload task
    pc,         \* per thread: where its call is
    chunk,      \* per thread: its chunk, numbered from 0 until it is counted
    result      \* how the finish ended

taskVars == <<channel, current, read, task>>
vars == <<open, accepted, channel, current, read, task, pc, chunk, result>>

(* Bytes from one number up to, not including, another.                    *)
Chunk == [from : Nat, upto : Nat]
NoBytes == [from |-> 0, upto |-> 0]
Bytes(c) == c.from .. (c.upto - 1)
SizeOf(c) == c.upto - c.from

PcState == {"idle", "holding", "sending", "finishing", "awaiting"}

TypeOK ==
    /\ open \in BOOLEAN
    /\ accepted \in Nat
    /\ channel \in Seq(Chunk) /\ Len(channel) <= Capacity
    /\ current \in Chunk
    /\ read \subseteq Nat
    /\ task \in {"running", "aborted", "done", "failed"}
    /\ pc \in [Threads -> PcState]
    /\ chunk \in [Threads -> Chunk]
    /\ result \in {"none", "ok", "mismatch", "failed"}

\* uploadStreamBegin has registered the stream and spawned the task.
Init ==
    /\ open = TRUE
    /\ accepted = 0
    /\ channel = <<>> /\ current = NoBytes /\ read = {}
    /\ task = "running"
    /\ pc = [t \in Threads |-> "idle"]
    /\ chunk = [t \in Threads |-> NoBytes]
    /\ result = "none"

Continue(t, p, c) ==
    /\ pc' = [pc EXCEPT ![t] = p]
    /\ chunk' = [chunk EXCEPT ![t] = c]

Return(t) == Continue(t, "idle", NoBytes)

\* An aborted task reads on until it next yields.
Reading == task \in {"running", "aborted"}

\* The task ends, and the channel's receiving end goes with it.
TaskEnds(how) ==
    /\ task' = how
    /\ channel' = <<>> /\ current' = NoBytes

-----------------------------------------------------------------------------
(* uploadStreamChunk.  An empty chunk is answered at once and changes      *)
(* nothing; one for a stream that is not registered is an error.           *)

\* stream_handle: the call gets a sender of its own.
TakeHandle(t, n) ==
    /\ pc[t] = "idle"
    /\ open
    /\ Continue(t, "holding", [from |-> 0, upto |-> n])
    /\ UNCHANGED <<open, accepted, result>> /\ UNCHANGED taskVars

\* Faulty: the chunk is refused only once the size has been reached.
CountLate(t) ==
    /\ pc[t] = "holding"
    /\ IF accepted < Size
       THEN /\ accepted' = accepted + SizeOf(chunk[t])
            /\ Continue(t, "sending", [from |-> accepted, upto |-> accepted'])
       ELSE accepted' = accepted /\ Return(t)
    /\ UNCHANGED <<open, result>> /\ UNCHANGED taskVars

\* The chunk is counted, atomically, or refused as beyond the declared size.
Count(t) ==
    /\ pc[t] = "holding"
    /\ IF accepted + SizeOf(chunk[t]) <= Size
       THEN /\ accepted' = accepted + SizeOf(chunk[t])
            /\ Continue(t, "sending", [from |-> accepted, upto |-> accepted'])
       ELSE accepted' = accepted /\ Return(t)
    /\ UNCHANGED <<open, result>> /\ UNCHANGED taskVars

\* Faulty: the channel takes any number of chunks.
SendUnbounded(t) ==
    /\ pc[t] = "sending"
    /\ Reading
    /\ channel' = Append(channel, chunk[t])
    /\ Return(t)
    /\ UNCHANGED <<open, accepted, current, read, task, result>>

\* The send awaits room.
Send(t) ==
    /\ pc[t] = "sending"
    /\ Reading
    /\ Len(channel) < Capacity
    /\ channel' = Append(channel, chunk[t])
    /\ Return(t)
    /\ UNCHANGED <<open, accepted, current, read, task, result>>

\* Faulty: the end of the task is not noticed by those who await room.
SendFailsNever(t) == t \in {} /\ UNCHANGED vars

\* The task is gone: the chunk cannot be delivered any more.
SendFails(t) ==
    /\ pc[t] = "sending"
    /\ ~Reading
    /\ Return(t)
    /\ UNCHANGED <<open, accepted, result>> /\ UNCHANGED taskVars

-----------------------------------------------------------------------------
(* The upload task: grammers reading through ProgressReader, ChannelReader *)

(* The chunk the next bytes come from: the current one or the next one.    *)
Available == IF current # NoBytes THEN current ELSE Head(channel)

(* As many of its bytes as a buffer with this much room takes.             *)
Taken(room) ==
    IF SizeOf(Available) <= room
    THEN Available
    ELSE [Available EXCEPT !.upto = Available.from + room]

(* What is left of it then; a chunk without any is cleared.                *)
Rest(room) ==
    IF SizeOf(Available) <= room
    THEN NoBytes
    ELSE [Available EXCEPT !.from = Available.from + room]

\* Faulty: what a read leaves of a chunk is forgotten.
ReadDropping(room) ==
    /\ Reading
    /\ current # NoBytes \/ channel # <<>>
    /\ read' = read \union Bytes(Taken(room))
    /\ current' = NoBytes
    /\ channel' = IF current # NoBytes THEN channel ELSE Tail(channel)
    /\ UNCHANGED <<open, accepted, task, pc, chunk, result>>

\* A read into a buffer with this much room takes what is left of the current
\* chunk, or the next one; what does not fit is kept for the next read.
Read(room) ==
    /\ Reading
    /\ current # NoBytes \/ channel # <<>>
    /\ read' = read \union Bytes(Taken(room))
    /\ current' = Rest(room)
    /\ channel' = IF current # NoBytes THEN channel ELSE Tail(channel)
    /\ UNCHANGED <<open, accepted, task, pc, chunk, result>>

\* Every sender is dropped and the channel drained: end of file, too early.
EndOfFile ==
    /\ Reading
    /\ Cardinality(read) < Size
    /\ current = NoBytes /\ channel = <<>>
    /\ ~open
    /\ \A t \in Threads : pc[t] \notin {"holding", "sending"}
    /\ TaskEnds("failed")
    /\ UNCHANGED <<open, accepted, read, pc, chunk, result>>

\* grammers has read and sent the whole file.
Complete ==
    /\ task = "running"
    /\ Cardinality(read) = Size
    /\ TaskEnds("done")
    /\ UNCHANGED <<open, accepted, read, pc, chunk, result>>

\* Sending a part fails.
Fail ==
    /\ Reading
    /\ TaskEnds("failed")
    /\ UNCHANGED <<open, accepted, read, pc, chunk, result>>

\* The abort a finish asked for takes effect.
Cancelled ==
    /\ task = "aborted"
    /\ TaskEnds("failed")
    /\ UNCHANGED <<open, accepted, read, pc, chunk, result>>

-----------------------------------------------------------------------------
(* uploadStreamFinish.                                                     *)

\* take_stream: one call gets the stream, every other one an error.
TakeStream(t) ==
    /\ pc[t] = "idle"
    /\ open
    /\ open' = FALSE
    /\ Continue(t, "finishing", NoBytes)
    /\ UNCHANGED <<accepted, result>> /\ UNCHANGED taskVars

\* A stream that received less than it declared is aborted; otherwise the
\* task is awaited, although counted chunks may still be on their way to it.
CheckReceived(t) ==
    /\ pc[t] = "finishing"
    /\ IF accepted # Size
       THEN /\ task' = IF task = "running" THEN "aborted" ELSE task
            /\ result' = "mismatch"
            /\ Return(t)
       ELSE /\ Continue(t, "awaiting", NoBytes)
            /\ UNCHANGED <<task, result>>
    /\ UNCHANGED <<open, accepted, channel, current, read>>

\* Faulty: that the task has ended is taken for its success.
AwaitAnyEnd(t) ==
    /\ pc[t] = "awaiting"
    /\ ~Reading
    /\ result' = "ok"
    /\ Return(t)
    /\ UNCHANGED <<open, accepted>> /\ UNCHANGED taskVars

\* The task's result is the call's; a finished upload gets its handle.
Await(t) ==
    /\ pc[t] = "awaiting"
    /\ ~Reading
    /\ result' = IF task = "done" THEN "ok" ELSE "failed"
    /\ Return(t)
    /\ UNCHANGED <<open, accepted>> /\ UNCHANGED taskVars

-----------------------------------------------------------------------------
TaskStep ==
    \/ \E room \in 1..(Size - Cardinality(read)) : Read(room)
    \/ EndOfFile \/ Complete \/ Cancelled

ThreadStep(t) ==
    Count(t) \/ Send(t) \/ SendFails(t) \/ CheckReceived(t) \/ Await(t)

Next ==
    \/ \E t \in Threads :
          \/ \E n \in ChunkSizes : TakeHandle(t, n)
          \/ TakeStream(t)
          \/ ThreadStep(t)
    \/ TaskStep \/ Fail

Spec == Init /\ [][Next]_vars

(* Threads run and the upload goes on, or fails; the channel's senders are *)
(* served in the order they came, so others cannot keep one from its turn. *)
FairSpec ==
    /\ Spec
    /\ WF_vars(TaskStep)
    /\ \A t \in Threads : SF_vars(ThreadStep(t))

-----------------------------------------------------------------------------
(* Properties.                                                             *)

Sending == {t \in Threads : pc[t] = "sending"}

\* An upload reported as finished has had all declared bytes handed over, no
\* counted chunk still on its way.
FinishIsComplete ==
    result = "ok" => read = 0..(Size - 1) /\ Sending = {}

(* The bytes that are somewhere: handed to grammers, in the reader, in the *)
(* channel or in a call that awaits room.                                  *)
InChannel == UNION {Bytes(channel[i]) : i \in DOMAIN channel}
InCalls == UNION {Bytes(chunk[t]) : t \in Sending}
Accounted == read \union Bytes(current) \union InChannel \union InCalls

(* No byte is in two of these places, nor in two chunks of the channel or  *)
(* of the calls.                                                           *)
NowhereTwice ==
    /\ read \intersect Bytes(current) = {}
    /\ \A i \in DOMAIN channel :
          /\ Bytes(channel[i]) \intersect (read \union Bytes(current)) = {}
          /\ \A j \in DOMAIN channel \ {i} : Bytes(channel[i]) \intersect Bytes(channel[j]) = {}
    /\ \A t \in Sending :
          /\ Bytes(chunk[t]) \intersect (read \union Bytes(current)) = {}
          /\ \A i \in DOMAIN channel : Bytes(chunk[t]) \intersect Bytes(channel[i]) = {}
          /\ \A u \in Sending \ {t} : Bytes(chunk[t]) \intersect Bytes(chunk[u]) = {}

\* No interleaving of chunks gets more than the declared size counted, so grammers
\* is never left with bytes it does not read; and while the task reads, every byte
\* counted is somewhere exactly once, none is lost, repeated or made up.
BytesAccounted ==
    /\ accepted <= Size
    /\ task = "done" => accepted = Size
    /\ Reading => Accounted = 0..(accepted - 1) /\ NowhereTwice

\* Every chunk and finish call returns: one that awaits room gets it or hears
\* that the task ended, a finish never waits for bytes nobody is sending.
CallsReturn == \A t \in Threads : (pc[t] # "idle") ~> (pc[t] = "idle")
=============================================================================
