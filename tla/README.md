# Kotlogram: TLA+ models, checks and proofs

Kotlogram is a Telegram client library for Kotlin. A Kotlin facade
(`com.github.badoualy.telegram.api`) sits on a thin Kotlin bridge
(`org.kotlogramme`), which calls a native Rust library over JNI; the native
library runs the grammers client on a tokio runtime. Requests and answers cross
the boundary as JSON, and blocking JVM calls are carried out with `block_on`.

This directory holds models of the parts of that program that several threads
and tasks work on at once, of what its operations do in which order, and of the
conversions they make; the TLC configurations that check them; and theorems
about them that TLAPS checks for every value of the constants. `PROJECT.json`
maps every definition to the lines it models.

## 1. Inventory

| Component | Where | State it keeps | Operations | Hard about it | What makes it correct |
|---|---|---|---|---|---|
| Update pump | `native/src/update_pump/mod.rs`, `ops/updates.rs` | a task owning grammers' stream, the handoff channel and its lock, the command queue, the task handle | start, run, nextUpdate, nextRawUpdate, syncUpdateState, stop | waits that give up while a poll is in the middle of a batch, late sync requests, failed polls, abort at any yield | while it runs no update is lost, doubled or overtaken; an abort loses for good only what the stream had buffered and a written state covered; calls return |
| Update loop | `api/UpdateLoop.kt`, `UpdatesApi.kt` | worker thread, stop flag, last failure, monitor | start, stop, isRunning, lastFailure, run | starts and stops from several threads and from the loop's own callback, a join outside the monitor | one loop at a time, always reachable by a stop, a stop joins what it stops, no deadlock |
| Login flow | `native/src/ops/auth.rs` | `AuthenticationState`: idle, code token or password token | requestLoginCode, signIn, checkPassword, signOut | the token is taken out, the lock let go, and the answer awaited | a token is used by one call, settled tokens stay gone, a sign-out clears |
| Client registry | `native/src/client.rs`, `lib.rs`, `Transport.kt`, bridge `TelegramClient.kt` | registry of addresses, shared ownership, closed flags | create, lookup, call, close | calls racing a close; an address used again | handles stay unambiguous, a close stops its own client, closed clients are dropped |
| Streamed uploads | `client.rs`, `ops/files.rs`, `upload.rs` | stream table, counters, bounded channel, upload task | uploadStreamBegin, -Chunk, -Finish, -Progress | concurrent chunks, backpressure, a finish racing a chunk, a failing task | bytes counted once, a finish reports complete uploads only, nobody hangs |
| Facade client | `api/InternalTelegramClient.kt`, `Kotlogram.kt` | unsynchronised closed flag | create, close | close against a running loop, from a callback, twice at once | the bridge is closed under no loop that was there before; no loop keeps a closed client |
| Operations | `ops/*.rs`, dispatched by `ops/mod.rs` | none of their own | some ninety handlers | a step in the middle fails after others were done | what was refused or has failed has changed nothing |
| Peer registry | `client.rs` | map from handles to peers, counter | register, resolve | handles drawn before the map is locked, by all calls at once | a handle always means the same peer |
| Paged listings | `ops/dialogs.rs`, `contacts.rs`, `messages.rs`, `DialogsApi.kt` | none between pages; the cursor names a row | getHistory, getBlocked, getDialogs, ... | the list changes between two pages, and during a walk; a cursor may be incomplete or name a row that moved | rows are skipped or repeated for changes only, as far as the cursor holds |
| Data transfer objects | `dto/*.rs`, `payload.rs`, `ops/markup.rs` | none | project, build | two shapes of the same thing, numbers that share a range, bytes as text | what is read can be written back |
| Raw TL codec | `raw/TlCodec.kt`, `RawTlDynamicCodec.kt` | none | encode, decode | length prefixes and padding at boundaries | decode inverts encode |
| Library loading, session files, build | see `PROJECT.json` | per process | | | |

How they interact. The loop thread calls `nextUpdate` like any other thread, so
it queues with application threads at the pump's handoff. All native calls,
those included, look the client up in the registry and own a share of it while
they run. `InternalTelegramClient.close` stops the loop (joining its thread)
and then the bridge; the native close takes the client out of the registry,
aborts the pump task, and quits grammers' sender pool, which ends the calls
still running. Login, uploads and the pump share nothing but the client they
belong to. The other operations share its peer registry: what one call projects
another may address.

## 2. Modules

| Module | Models | Role |
|---|---|---|
| `UpdateQueue` | what the pump promises | abstract specification |
| `UpdatePump` | the pump task, the readers, the syncing threads, stop | implements `UpdateQueue` |
| `ReadWaits` | how long a read takes | timing of the same handoff, in ticks |
| `UpdateLoop` | `start`, `stop` and `run` | component |
| `LoginFlow` | the four login operations | component |
| `ClientRegistry` | create, lookup, call, close | component |
| `UploadStream` | one stream from begin to finish | component |
| `ClientShutdown` | `InternalTelegramClient.close` | composes `UpdateLoop` with the bridge and the closing threads |
| `MessageHandlers`, `ChatHandlers`, `AccountHandlers` | each handler of `ops/*.rs` as the set of its paths | tables |
| `Operations` | calls that take those paths, and the peer registry | component, over the tables |
| `Listings` | pages of lists that change | component |
| `Records` | optional fields | helper |
| `Markup` | reply markups: specification, TL, projection | functions |
| `Base64` | the hand-written encoder and decoder | functions |
| `Peers` | peer numbers, users, chats, members, rights | functions |
| `Content` | entities, media, messages, files | functions |
| `Settings` | privacy, notifications, folders, chat lists | functions |
| `Projections` | updates, actions, dialogs, contacts, inline results, stickers | functions |
| `Requests` | inline answers, pages, filters, chunks, ids | functions |
| `MCUpdatePump`, `MCUpdateLoop` | | symmetry set, or nothing but the component, for TLC |
| `MCOperations` | | `Operations` and `Listings` for TLC |
| `MCConversions` | | assumptions about the functions, evaluated by TLC |
| `UpdatePumpProofs`, `UpdateLoopProofs` (with `ClientShutdown`), `LoginFlowProofs`, `ClientRegistryProofs`, `OperationsProofs` (with `Listings`), `ReadWaitsProofs`, `UploadStreamProofs`, `ContentProofs` | | theorems |

Definitions whose comment begins with "Faulty:" are not part of any
specification. Each is one action as a plausible slip would have written it; a
property is worth keeping only if some such slip violates it, and `PROJECT.json`
lists under `mutants` which one violates which property.

Where a property needs to speak of the past, a history variable (marked as such)
records it. History variables appear in no guard.

### UpdatePump

| State | Code |
|---|---|
| `pool` | the mpsc channel of grammers' sender pool (external) |
| `held`, `buffer` | a batch whose peers are being resolved, and the stream's own buffer (external) |
| `phase` | where the task is: the `try_recv` drain, a command, the poll, inside the poll, or gone |
| `commands`, `performing` | the command channel and the request taken from it, with its reply channel |
| `handoff`, `line` | the unbounded channel, and the tokio mutex around its receiver with its FIFO waiters |
| `sync`, `since`, `saved` | a caller's reply; the updates received when it called (history); what the written state covers |
| `stop` | abort, then the wait of `SHUTDOWN_WAIT` |

One action per step between two yields: `TakeCommand`, `FinishSync`,
`StartPoll`, `TakeBatch`, `Resolve`, `HandOver` and `FailPoll` are the task;
`CallNext`, `Receive`, `GiveUp`, `ReadClosed` are `Handoff::next`; `CallSync`
and `GiveUpSync` are `sync_update_state` with its timeout; `Abort`, `TaskGone`,
`StopReturns` are `stop`. An update is a number; its content decides nothing
here. An update the pool drops because its channel is full was never accepted,
as in the code, which learns nothing of it. `TakeBatch` takes any number of
waiting updates because a batch is what one answer from Telegram contained.
What grammers' stream does while a poll is abandoned, and that writing the
state covers everything taken off the pool, is taken from how the pump's own
comments and tests describe and use it; these definitions are marked external.
Whether dropping the stream writes the state the sources say both ways
(section 5), so `TaskGone` may or may not write it.

### ReadWaits

The same line at the handoff's lock, with each read's timeout and a clock.
`timeout_of` supplies the default and clamps; the clamping is modelled because
the native boundary does it for every caller. (The Kotlin bridge refuses values
outside 1 to 60000 before that; `UpdateLoop.start` itself only asks for a
positive one.) Timers are exact and time is discrete: scheduling delays are not
part of the bounds.

### UpdateLoop

`lock` is the monitor; `stopped`, `thread` and `lastFailure` are the volatile
fields; `loop[w]` is the place of loop thread `w` in `run`; `pc[t]` the place of
thread `t` in `start` or `stop`. Loop threads are threads too: while they are in
the callback (`calling`) or the error handler (`reporting`) they may call
`start` and `stop` themselves. A call is split where the code takes or lets go
of the monitor and where it joins; what happens inside the monitor is one
action, as the volatile fields are written only there, and `run` reads only the
stop flag outside it. `StartLoop` also covers a `Thread.start` that throws,
which leaves the fields set, and `JoinInterrupted` the interrupt that makes
`stop` throw out of its join. What a poll brings is a choice: nothing, an update
or an exception.

### LoginFlow

`authentication` is the slot, behind a mutex no call holds while it
waits for Telegram, so each operation is split at its await and before it
stores: `CallRequestCode`, `RequestCodeAnswered`, `Store`; `TakeCode` or
`SignInRefused`, `SignInAnswered`, `Store`; `TakePassword` or
`CheckPasswordRefused`, `CheckPasswordAnswered`; `CallSignOut`,
`SignOutAnswered`, `Clear`. Only an invalid code puts the token back.

### ClientRegistry

A client's handle is the address of its native client. `Create` may pick any
address no live client has, which is what an allocator promises and no more.
`Call` is `Transport.call` finding the flag unset; `Lookup` is `get_client`,
which clones the `Arc`; `Close` is the flag's compare-and-set; `Remove` and
`CloseEnds` are `close_client`. What an operation does while it runs is left to
the other modules.

### UploadStream

`accepted` is the atomic counter, `channel` the bounded channel, `current` the
remainder the reader keeps of a chunk, `read` the bytes grammers was given,
which `uploadProgress` reports. A chunk call is `TakeHandle`, `Count`, then
`Send` or `SendFails`: counting and sending are two steps, as in the code.
A finish is `TakeStream`, `CheckReceived`, `Await`. Bytes are numbered in the
order they are counted in, and a chunk is the range of its bytes, so that a byte
that is lost or read twice can be told from another. A chunk that is not
counted yet is numbered from 0.
grammers reads until it has the declared size (external: `Complete`) and may
fail at any time (`Fail`). An abort takes effect when the task next yields, so an
`aborted` task may still read.

### ClientShutdown

Extends `UpdateLoop` with `closing[t]`, the place of thread `t` in `close`, and
`bridge`. `closed` is a plain field, so a thread that did not set it may or may
not see it set: `Close` is guarded only by the thread's own earlier close, which
covers every value the field can be read as. The stop inside `close` is the
loop's own `stop`, action by action; `CloseInterrupted` is the interrupt that
leaves `close` by an exception with the flag set and the bridge open. A poll of
a closed bridge throws (`Transport.call`), which `PollBridge` says; everything
else of the loop is unchanged, so a behaviour of `ClientSpec` is one of `Spec`
(theorem `ClosingIsStopping`).

### Operations and the handler tables

A handler is what it does in which order. The tables give each the set of its
paths, sequences of words such as `<<"check", "peer", "upload", "send", "show">>`:
conditions, peers resolved, questions asked, uploads, the one request that
changes something, what is read back, what is projected. `MessageHandlers` lists
the words. In `Operations` a call takes one path (`Start`) and goes through it
while other calls do the same; each word is an action or two, with the errors it
can end in: refused by the library (`Check`, `ResolveHandle`), by Telegram
(`Ask`, `SendRejected`), or not answered (`SendUnanswered`: the change may or may
not have been made). Projecting a peer is `Allocate`, the counter's `fetch_add`,
and then `Insert` under the map's lock. `sent` counts the changes made.

### Listings

`stamp` orders the rows; `Arrive` and `Remove` change the list at any time, and
`Move` gives a dialog another place or another last message: a message sent, the
last one deleted, the only one deleted, a dialog pinned or unpinned, a new one. It
may rise or sink to any free place, with any message or with none, as Telegram
gives no guarantee about it (external). A page by id (`FetchMessages`) or by index
(`FetchBlocked`) is one request. A page of dialogs walks grammers' iterator from
the top: `SkipDialog` until the row of the cursor, a peer with its last message,
has passed, then `ListDialog` until the page is full, with changes between any two
rows. A cursor without a last message is incomplete, and `StartDialogs` drops it, as
`from_payload` does: the page is again the first. The caller's side is what the
documentation tells callers to do: continue from the last row and stop at a page
that is not full.

`stayed`, `lowered` and `astray` are history: dialogs that did not change, those that
went down or left, and whether a walk has gone on from another place than that of
its cursor. It does so after an incomplete cursor, and when the cursor's dialog, with
the message it was listed with, stands elsewhere because it was pinned or unpinned.

### The conversion modules

Operators from records to records. A record has the fields that are there; a
field that is null in JSON or `None` in Rust is absent. TL types are tagged by a
`kind`, in the letters the projections use. Texts, names and JSON are opaque;
byte strings are sequences of bytes where base64 or a payload depends on them.
Each module takes what it cannot say from the outside: a text's parser, a file
name's MIME type, what grammers resolves. `Markup` has markups in their three
shapes; `Peers` the numbers (`DialogId`, `PeerIdFromBotApiId`) and the rights in
both directions; `Content` entities in both directions, captions, media and the
projections of messages; `Settings` what an account reads and writes;
`Projections` what only arrives; `Requests` what only leaves.
Much of these last two records which fields there are and when a record is refused;
what is claimed of them is what section 4 and `MCConversions` state, and no more.

## 3. Runs

| Run | Checks | Bounds |
|---|---|---|
| `pump_safety` | `NothingLost`, `HandoffComplete`, `AbortSparesPoolAndHandoff`, `SyncCoversReceived`, `RequestsMatchWaiters`, and that the pump implements `UpdateQueue` | 2 readers, 2 syncers, pool of 2, 3 updates, 1 unread error, 2 queued requests; readers and syncers symmetric |
| `pump_live` | `ReadReturns`, `SyncReturns`, `PoolIsDrained`, `AbortTakesEffect` under `FairSpec` | 2 readers, 1 syncer, 2 updates; no symmetry |
| `loop` | `RunningLoopIsKnown`, `StopIsHonoured`, `LoopEndsForAReason`, `FailureIsOfLastLoop`, `CallsReturn` | 2 application threads, 2 loop threads ever started |
| `shutdown` | `StoppedBeforeClosed`, and `ClosedClientIsLetGo` under `FairClientSpec` | 2 application threads, 2 loops; one application thread and the first loop's callback may close |
| `read_waits` | `WaitBoundedByLine` | 3 readers, requests of nothing, 0, 1 and 5 against limits 1 to 3 |
| `read_waits_own` | violates `WaitBounded` | the same |
| `login` | `TokensAreUsedOnce`, `OldTokenWasInFlight` | 2 callers, 4 tokens |
| `login_signout` | violates `SignOutClears` | the same |
| `registry` | `HandlesAreUnique`, `RegisteredWhileOpen`, `CloseStopsOwnClient`, `ClosedIsDropped` | 3 clients, 2 threads, 2 addresses |
| `registry_reuse` | violates `CallReachesOwnClient` | the same |
| `upload` | `FinishIsComplete`, `BytesAccounted`, `CallsReturn` | 3 threads, size 4, chunks of 1 or 2, channel of 1 |
| `operations` | `RefusedIsUnsent`, `FailedIsUnsentOrUnanswered`, `HandleNamesItsPeer`; `MessagesAreListedOnce`, `IndexDriftsByTheChanges`, `DialogsAreListedWhileTheCursorHolds`; the assumptions of `MCConversions` | 2 callers over all paths of all handlers, 2 peers, 2 handles; 4 items, pages of 2, 6 stamps; of dialogs 2 last messages or none, 2 changes, no page asked for after 6 rows |

`read_waits`, `upload` and `operations` also check a type invariant, which holds a
bound of the code: the limits of a timeout, the channel's capacity, the size of a
page. The types of the other modules are proved.

`MCOperations` runs two components that share no state. A behaviour of both is
an interleaving of one of each, and no property speaks of both, so its
next-state relation moves the operations only while the listing is at one fixed
state, and the listing only while no call has been made: every state of either
is reached, none is multiplied by the other's.

`MCConversions` states assumptions about the functions: joining optional fields,
which folders are written back as they were read, the order of unique ids, the
second a date is in, the bounds of a page, and which message of the updates is
the one just sent. TLC evaluates them before it starts the run. Section 4 has
theorems about the conversions that matter more, and about the dates, folders,
users and sent messages of these assumptions for all values.

Why the bounds are enough to see the interesting cases:

- Pump: with three updates one can be read, one be in the handoff and one in
  the pool or a batch at the same time; a pool of two makes batches of more
  than one and a full pool possible; a second syncer queues behind one that
  timed out. More unread errors or commands only repeat these. The proofs
  carry the safety properties to all values.
- Loop: two starts give a loop, its stop with a join, and a second loop started
  during that join, by an application thread or by the first loop's callback.
- ReadWaits: a read with two others ahead of it, with timeouts below, within
  and above the limits.
- Login: four tokens allow a code, its password, and a second login overtaking
  both, around a sign-out.
- Registry: three clients over two addresses force an address to be used again
  while a call on its former owner is still on its way.
- Upload: more bytes on offer than declared, chunks larger than the reader's
  room, and more senders than the channel has room for.
- Shutdown: two loops, so that one can be started while the other is being
  closed, and a close from an application thread racing one from a callback.
- Operations: a call alone takes each path with each way to fail, and two calls
  with two handles meet in every place of the registry. The proofs carry the
  properties to all numbers of threads and handles.
- Listings: four items and pages of two give two full pages and the short one
  that ends the listing, with two changes or more at every point between. Lists of
  dialogs begin with up to four dialogs above a free place, so that one can sink
  below all others; two changes move the cursor's dialog and bring it back. A
  cursor that leads astray can repeat pages for ever, so a caller asks for no page
  after six rows; everything before that is explored.

Deadlock is checked everywhere but in `registry`, `registry_reuse` and
`upload`: there all clients may have been closed, or the upload be over, and
nothing is left to do.

### Fairness

- Pump: the tokio runtime keeps running the task; an abort takes effect at a
  yield; timers fire; the holder of a tokio mutex runs. `TakeBatch` and
  `TaskGone` have strong fairness: grammers does not fail every poll for ever
  while a batch waits, and an aborted task does not sit for ever at the one
  place where it would not yield. `PoolIsDrained` further assumes that sync
  requests end, because the drain loop serves every request that arrives while
  it drains; this condition is part of the property, not of the specification.
- Loop: every thread goes on, poll waits end and the caller's callbacks return.
  Strong fairness, because a Java monitor does not let the same threads
  overtake a waiting one for ever in any JVM the library runs on. A callback
  that blocks for good would block a stop for good, as the code's comments say.
- Shutdown: the same. Nothing makes anybody call `close`, and interrupts may
  happen or not.
- Registry: operations end. After a close this rests on grammers failing what
  its sender pool can no longer send.
- Upload: the upload goes on or fails. Senders have strong fairness because
  tokio's bounded channel serves them in the order they came.

## 4. Proofs

All theorems hold for arbitrary constants satisfying the named assumptions
(`PumpAssumption`, `LoopAssumption`, `CloserAssumption`, `LoginAssumption`,
`IdleAssumption`, `RegistryAssumption`, `OperationsAssumption`,
`ListingAssumption`, `ReadWaitsAssumption`, `UploadAssumption`), which say no
more than that bounds are naturals, that pages, capacities and chunks are not
empty, that model values are distinct, that those who close are threads, and
that the default timeout is within its limits. The sets of threads, clients,
handles and listed items need not be finite, with one exception: what
`WaitBoundedByLine` bounds a wait by is a sum over the readers, who are
therefore finitely many (`ReadWaitsAssumption`).

### State machines

Each of these modules has one lemma for the initial states and one for the
steps, with a step of the proof per action. None of the properties is inductive
alone; the strengthening is what the proofs are about.

- `UpdatePumpProofs`. `IInv == TypeOK /\ Pipeline /\ Handoff /\ Coverage`. That
  nothing is lost needs to know not only that an update is somewhere but in
  which order the stages hold them. `Pipeline` says that buffer, batch and pool
  hold exactly the consecutive numbers after `handed`, up to `accepted`;
  `Handoff` that the handoff, errors aside, holds exactly those from `got + 1` to
  `handed` in order; `Coverage` that what was saved is bounded by what the
  stream has taken, and how requests relate to what their callers had received.
  From it follow `NothingLost`, `HandoffComplete`, `AbortSparesPoolAndHandoff`,
  `SyncCoversReceived`, and the refinement: each step of the pump is a step of
  `UpdateQueue` or leaves it unchanged. `RequestsMatchWaiters` has an invariant of
  its own, `Requests`, which says without counting that a caller waits exactly as
  long as a request in its name is queued or carried out, that no two places hold
  one, and that a request is carried out only in the phase for it: a request
  taken from the queue therefore never pushes out another.
- `ReadWaitsProofs`. `WaitInv == TypeOK /\ HolderIsInTime /\ ReadersAreDistinct /\
  WaitBoundedByLine`. What a line still waits is a sum over its reads, less what
  the holder of the lock has waited. `HolderIsInTime` says that this difference
  is never negative; a tick takes one from it, a read that leaves takes its
  whole timeout and resets the clock. `ReadersAreDistinct` bounds the length of
  the line, from which the types of the bounds follow.
- `UploadStreamProofs`. `UploadInv == TypeOK /\ ChunksHaveBytes /\ ReadIsCounted /\
  BytesAccounted`. `BytesAccounted` is nearly inductive: counting adds the next
  numbers to the calls, sending moves a range from a call to the channel,
  a read splits one. `ChunksHaveBytes` makes every chunk in flight hold at least
  one byte, so that a task that has read as many bytes as were declared leaves
  no call sending; `ReadIsCounted` carries that past the end of the task, to the
  finish that reports it. Gives `BytesAccounted` and `FinishIsComplete`.
- `UpdateLoopProofs`, the loop. `LInv == TypeOK /\ Room /\ Field /\ Stopping /\
  Ending /\ Failing`. `Room` keeps the number of starts under way within the
  bound; `Field` ties the running loop to the `thread` field; `Stopping` says
  what a stop knows at each of its places: which loops it has seen dead, and that
  clearing the field can no longer hide a running one; `Ending` that the flag set
  means that the running loop was asked to stop; `Failing` that the field names
  the loop started last, the only one that can still fail. Gives `AtMostOneLoop`,
  `RunningLoopIsKnown`, `StopIsHonoured`, `LoopEndsForAReason`,
  `FailureIsOfLastLoop`.
- `UpdateLoopProofs`, closing. `ClosingIsStopping` shows that `ClientSpec`
  implements the loop's `Spec`, so what was proved of the loop holds of the
  closing client. `CInv` adds `Closing`, what a close knows while its stop is
  under way: that the loops started before it are among those its join accounts
  for. Gives
  `StoppedBeforeClosed`.
- `LoginFlowProofs`. The invariant follows a token from its issue to its end:
  issued tokens are within the count, calls hold tokens only where they should,
  a token is in one place, settled tokens are nowhere, and an older token in the
  slot was noted as under way. Gives `TokensAreUsedOnce` and `OldTokenWasInFlight`.
- `ClientRegistryProofs`. The invariant says that calls are on clients, shares are
  held only by running calls, one close per client is under way, and a
  registered client was created. Gives `HandlesAreUnique`,
  `RegisteredWhileOpen` and `CloseStopsOwnClient`.
- `OperationsProofs`. `OInv == TypeOK /\ Progress /\ Numbered /\ Named`. First, a
  lemma per handler module: in every path what comes after the send is only
  what comes late, reading back, the slug, projecting. `Progress` says that
  this is so of what is still to do, and that a call that has sent has nothing else
  left; so an error before the send leaves nothing behind and one after it is
  one of the exceptions the properties name. `Numbered` says that every handle
  is below the counter, and in the map or in the hands of one call; `Named` that
  what answers will name is in the map. Gives `RefusedIsUnsent`,
  `FailedIsUnsentOrUnanswered`, `HandleNamesItsPeer`.
- `OperationsProofs`, the listings. `ListingInv == Ordering /\ MessageInv /\ DialogInv
  /\ IndexInv`. A row's rank is the number of rows not below it. `PageIsWithoutGaps`
  says that a page holds all ranks after its start, up to its size. For pages
  that continue from a row, `ListedDownToCursor` says that what stayed was listed
  exactly if it is not below the cursor; `DialogsListedDown` is its weaker form for
  dialogs, which speaks only of those that did not go down. `DialogInv` adds where a
  walk stands while it skips, that it lists at its cursor unless it went astray, and
  that it can run off the end only if its cursor's row was touched.
  For pages by index, the rows that slipped past the index unlisted (`Missed`) and
  those listed again or about to be (`Repeated`) grow by at most one with
  a removal or an arrival. Gives `MessagesAreListedOnce`,
  `DialogsAreListedWhileTheCursorHolds` and `IndexDriftsByTheChanges`.
  `CheckedIsBoth` shows that what the run `operations` checks are behaviours of both
  specifications, so that these theorems apply to it (`CheckedTypeCorrect`).

### Conversions

These theorems say of the two directions of a conversion whether what goes out
comes back, for every value rather than for a few.

All of them are in `ContentProofs`:

- `Base64RoundTrip`, for byte strings of every length, from the round trip of a
  group of three bytes and the padding of the last one.
- `EntitiesReadBack`, `EntitiesAreSentAgain`; `BuiltMarkupReadsBack`, for all kinds of
  markups and buttons and any number of rows.
- `PrivacyRulesAreWrittenAgain`, `SoundsAreWrittenAgain`, `MutesAreWrittenAgain`;
  `OldInlineIdsAreSentBack`, `OwnedInlineIdsAreSentBack`; `LoadingCurrentChangesNothing`
  and `RightsReadBack`.
- `FoldersAreWrittenBack`, for folders with any number of peers: the peers that are
  written are those at the places that could be reached, in their order
  (`EntriesAtPlaces`), which is the whole list only when every place is one
  (`EntriesAtAllPlaces`); the records a projection joins have no field in common,
  so that each field is the one of its part (`JoinedApart`).
- `NumbersNamePeers` and `PeersHaveNumbers`, that the ranges of users', chats' and
  channels' numbers do not meet and map to and fro; `MonoforumsAreRefused`.
- `UsersAreAskedForOnce`, for any list of ids: the ids asked for are those at the
  first place of each, and places are counted up without gaps (`Ranks`);
  `SentMessageIsFound`, for updates of any length; `SecondsContainTheirDate`, for all
  dates.

### Induction

The library's induction theorems take an operator and cannot be used here. What
they are for is had from a theorem that takes none: strict inclusion of finite
sets is well-founded, so a nonempty set of naturals has a least member
(`LeastNumber`, through the initial segments of the naturals). An induction is then
a set of good numbers, without a least one outside it (`InductionUpTo`), and a
function defined by recursion is shown to satisfy its equation in the same way
(`TotalWaitIsTheSum`).

### Only model-checked

Every liveness property: `ReadReturns`, `SyncReturns`, `PoolIsDrained`,
`AbortTakesEffect`, the two `CallsReturn`, `ClosedIsDropped` and
`ClosedClientIsLetGo`. TLAPS does not prove liveness under fairness here. Of the
assumptions of `MCConversions`, those about joined records, pages and alternatives. The provers have
no definition of `SelectSeq`, so a list that is proved about is cut down with `At`
instead, which takes the entries at some places.

## 5. Where code and documentation disagree

With a run that shows it:

1. *A read may take longer than its timeout* (`read_waits_own`).
   `Handoff::next` takes the lock before it starts the timed wait, so a read
   waits for those before it first. An update loop polling every 250 ms behind
   an application's `getNextUpdate` of 30 s makes `stopUpdateLoop` wait about
   30 s, which `UpdatesApi.kt` says it does not. What does hold is
   `WaitBoundedByLine`.
2. *A sign-out may leave an older token* (`login_signout`). A call that has its
   answer but has not stored its token stores it after `sign_out` has emptied
   the state, although the comment there says no such token remains. What does
   hold is `OldTokenWasInFlight`.
3. *A call may run on another client* (`registry_reuse`). `Transport.call`
   checks the closed flag and then calls with an address; if a close and a
   create happen in between and the allocator returns the same address, the
   call is served by the new client. What does hold is `HandlesAreUnique` and
   `CloseStopsOwnClient`.

Met while modelling, and part of the models as they are:

- A loop started while `close` is under way or after it, or whose own callback
  calls `close`, is alive when `close` returns, although
  `InternalTelegramClient.kt:27-28` says no thread is left holding the client;
  so is one a second, concurrent close has not waited for. What holds is
  `StoppedBeforeClosed` and `ClosedClientIsLetGo`.
- `UpdatesApi.kt:30-31` and `UpdatesBridge.kt:46` say that grammers writes the update
  state whenever the stream is dropped; the comment on `stop_task`
  (`update_pump/mod.rs:263`) says that an abort, which drops it, leaves the state on
  disk untouched. `TaskGone` allows both. If the state is written, an abort also
  loses a batch whose peers were being resolved, for the state covers it; what holds
  either way is `AbortSparesPoolAndHandoff`.
- A partial dialog cursor is dropped because it "would silently re-serve the first
  page" (`ops/dialogs.rs:88-89`, `protocol/Dialogs.kt:12`); dropping it serves the
  first page, as `DialogsApi.kt` documents. A page whose last dialog has no message
  leaves its caller no other cursor, and the listing starts over. A dialog pinned or
  unpinned since is passed where it stands now, and dialogs are repeated or skipped.
  What holds is `DialogsAreListedWhileTheCursorHolds`.
- `loadCurrent` is documented as applying the requested rights on top of those in
  place (`ops/chats.rs:61-62`, `ChatsApi.kt:57-58`), but every flag is requested,
  so that nothing loaded is left (`LoadingCurrentChangesNothing`).
- `searchMessagesTotal` is said to count what "the same options" as a search
  match (`ops/messages.rs:572`); it leaves the two dates out.
- `peer_id_from_bot_api_id` has a range for monoforums whose ends are exchanged,
  so that they are refused (`MonoforumsAreRefused`).
- The id of an inline message of the newer kind is projected without its owner
  and goes back as one of the older kind (`OldInlineIdsAreSentBack`).
- A collapsed quotation is projected as an open one (`EntitiesAreSentAgain`).
- Privacy rules that list users can be read and not written
  (`PrivacyRulesAreWrittenAgain`).
- A folder that is written back as it was read becomes a plain one without
  emoticon, colour, formatted title and unreachable peers (`FoldersAreWrittenBack`).
- The end of a restriction outside 32 bits wraps (`RightsReadBack` covers those
  inside), where other dates outside them are refused.
- `get_chat_photos` is documented as re-walking its list for every page
  (`ops/messages.rs:452-455`); it resumes from a message id.

## 6. Not modelled

JSON and its keys; the Kotlin data classes, which mirror the DTOs; the JNI
boundary itself; errors' texts; how `html` and `markdown` are parsed, which
grammers does; Telegram and grammers except as described; memory reclamation
beyond ownership. Authorizations and password information, copied field by field.
The raw TL codec, which nothing else here depends on. Kotlin's `uploadStream`,
which leaves its native stream open when its source throws. `signInBot`.
Library loading, session files and the build are made of calls to the file system,
the class loader and other tools.

What the tables of handlers leave out is the order of neighbouring conditions,
which change nothing, and what an answer holds, which the conversion modules have.

## 7. Plan

Done, in this order: `UpdatePump` with its abstract queue, `UpdateLoop`,
`ReadWaits`, `LoginFlow`, `ClientRegistry`, `UploadStream`; then the conversion
modules, the handler tables and `Operations`, `Listings`, `ClientShutdown`; and
the proof modules, until every invariant the runs check was a theorem.

What could follow:

1. `UploadStream` under Kotlin's `uploadStream`, including a stream abandoned
   when its source throws, and the upload handles kept for sends.
2. `TlCodec`: length prefixes, padding and flags as functions, against a
   reference over bounded inputs.
3. The loop over the pump: `nextUpdate` as the poll of `UpdateLoop`, to carry
   `CallsReturn` down to the native side.
4. Theorems: that the loop over the pump of point 3 still implements
   `UpdateQueue`.
