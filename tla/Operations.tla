------------------------------ MODULE Operations ------------------------------
(***************************************************************************)
(* Operations carried out by the native library: native/src/ops, with the  *)
(* peer registry of client.rs they all share.  Any number of threads run   *)
(* operations of one client at once (a JVM thread is blocked in each).  A   *)
(* call takes one path of a handler, step by step, and ends with an answer  *)
(* ("ok"), with an error of this library ("refused") or with an error of    *)
(* Telegram or of the connection ("failed").                                *)
(*                                                                         *)
(* What an operation asks or sends is abstracted; what is kept is the order *)
(* in which a handler checks, resolves, asks, changes and projects, and     *)
(* what is left behind when a step in the middle fails.                     *)
(***************************************************************************)
EXTENDS MessageHandlers, ChatHandlers, AccountHandlers, Naturals, Sequences

CONSTANTS Callers,      \* threads calling operations
          Peers,        \* peers that answers name
          MaxHandles    \* bound: peer handles given out

ASSUME OperationsAssumption == MaxHandles \in Nat

VARIABLES todo,         \* what a call has still to do
          end,          \* how it ended: "none" before the first, "busy" while it runs
          at,           \* the step it was refused or failed at
          sent,         \* how often its change was made at Telegram
          lost,         \* whether the answer to its send was lost
          nextPeer,     \* next_peer_handle
          peers,        \* the registry: from handles to peers
          fresh,        \* the handle it allocated and has not inserted, or 0
          got,          \* the handles, with their peers, its answer will name
          given         \* history: what answers have named

vars == <<todo, end, at, sent, lost, nextPeer, peers, fresh, got, given>>
call == <<end, at, sent, lost>>
registry == <<nextPeer, peers, fresh, got, given>>

Handlers == MessageHandlers \cup ChatHandlers \cup AccountHandlers

Words == {"check", "peer", "peers", "ask", "list", "found", "upload", "uploads",
          "send", "fetch", "slug", "show", "keep"}

Init ==
    /\ todo = [c \in Callers |-> <<>>]
    /\ end = [c \in Callers |-> "none"]
    /\ at = [c \in Callers |-> "none"]
    /\ sent = [c \in Callers |-> 0]
    /\ lost = [c \in Callers |-> FALSE]
    /\ nextPeer = 1
    /\ peers = <<>>
    /\ fresh = [c \in Callers |-> 0]
    /\ got = [c \in Callers |-> {}]
    /\ given = {}

(* --- Calling ------------------------------------------------------------ *)

Going(c, words) == end[c] = "busy" /\ todo[c] # <<>> /\ Head(todo[c]) \in words

GoOn(c) == todo' = [todo EXCEPT ![c] = Tail(@)] /\ UNCHANGED call

StopWith(c, how) ==
    /\ end' = [end EXCEPT ![c] = how]
    /\ at' = [at EXCEPT ![c] = Head(todo[c])]
    /\ todo' = [todo EXCEPT ![c] = <<>>]
    /\ UNCHANGED <<sent, lost>>

\* dispatch finds the handler; the payload decides its path.
Start(c) ==
    /\ end[c] # "busy"
    /\ \E path \in Handlers : todo' = [todo EXCEPT ![c] = path]
    /\ end' = [end EXCEPT ![c] = "busy"]
    /\ at' = [at EXCEPT ![c] = "none"]
    /\ sent' = [sent EXCEPT ![c] = 0]
    /\ lost' = [lost EXCEPT ![c] = FALSE]
    /\ got' = [got EXCEPT ![c] = {}]
    /\ UNCHANGED <<nextPeer, peers, fresh, given>>

\* A condition holds, or is refused.  A finished upload is registered, and
\* refused when it is not one grammers makes.
Check(c) ==
    /\ Going(c, {"check", "found", "slug", "keep"})
    /\ GoOn(c) \/ StopWith(c, "refused")
    /\ UNCHANGED registry

(* --- Peers and files ---------------------------------------------------- *)

\* By handle: one the registry knows, unless the peer is not usable on its own.
ResolveHandle(c) ==
    /\ Going(c, {"peer", "peers"})
    /\ \E h \in 1..MaxHandles :
         \/ h \in DOMAIN peers /\ GoOn(c)
         \/ StopWith(c, "refused")
    /\ UNCHANGED registry

\* By username: Telegram is asked.  No selector, or no such name: refused.
ResolveName(c) ==
    /\ Going(c, {"peer", "peers"})
    /\ GoOn(c) \/ StopWith(c, "refused") \/ StopWith(c, "failed")
    /\ UNCHANGED registry

\* From a path: sent to Telegram.  By handle: an upload the registry kept.
Upload(c) ==
    /\ Going(c, {"upload", "uploads"})
    /\ GoOn(c) \/ StopWith(c, "refused") \/ StopWith(c, "failed")
    /\ UNCHANGED registry

(* --- Requests ----------------------------------------------------------- *)

Ask(c) ==
    /\ Going(c, {"ask", "fetch"})
    /\ GoOn(c) \/ StopWith(c, "failed")
    /\ UNCHANGED registry

\* The next page fails; the rows projected so far are registered and lost.
ListFails(c) ==
    /\ Going(c, {"list"})
    /\ fresh[c] = 0
    /\ StopWith(c, "failed")
    /\ UNCHANGED registry

\* Telegram makes the change and answers.
Send(c) ==
    /\ Going(c, {"send"})
    /\ todo' = [todo EXCEPT ![c] = Tail(@)]
    /\ sent' = [sent EXCEPT ![c] = @ + 1]
    /\ UNCHANGED <<end, at, lost, registry>>

\* Telegram answers with an error and makes no change.
SendRejected(c) ==
    /\ Going(c, {"send"})
    /\ StopWith(c, "failed")
    /\ UNCHANGED registry

\* The connection ends before the answer; the change may have been made.
SendUnanswered(c) ==
    /\ Going(c, {"send"})
    /\ end' = [end EXCEPT ![c] = "failed"]
    /\ at' = [at EXCEPT ![c] = "send"]
    /\ lost' = [lost EXCEPT ![c] = TRUE]
    /\ \E made \in {0, 1} : sent' = [sent EXCEPT ![c] = @ + made]
    /\ todo' = [todo EXCEPT ![c] = <<>>]
    /\ UNCHANGED registry

(* --- The answer --------------------------------------------------------- *)

\* Faulty: the handle is taken from the size of the map instead of a counter.
AllocateBySize(c) ==
    /\ Going(c, {"list", "show"})
    /\ fresh[c] = 0
    /\ nextPeer <= MaxHandles
    /\ \E h \in 1..MaxHandles :
         /\ h \notin DOMAIN peers
         /\ \A k \in 1..(h - 1) : k \in DOMAIN peers
         /\ fresh' = [fresh EXCEPT ![c] = h]
    /\ nextPeer' = nextPeer + 1
    /\ UNCHANGED <<todo, call, peers, got, given>>

\* register_peer: the counter is advanced ...
Allocate(c) ==
    /\ Going(c, {"list", "show"})
    /\ fresh[c] = 0
    /\ nextPeer <= MaxHandles
    /\ fresh' = [fresh EXCEPT ![c] = nextPeer]
    /\ nextPeer' = nextPeer + 1
    /\ UNCHANGED <<todo, call, peers, got, given>>

\* ... and the peer inserted under it, with the map locked.
Insert(c) ==
    /\ Going(c, {"list", "show"})
    /\ fresh[c] # 0
    /\ \E p \in Peers :
         /\ peers' = [h \in DOMAIN peers \cup {fresh[c]} |->
                        IF h = fresh[c] THEN p ELSE peers[h]]
         /\ got' = [got EXCEPT ![c] = @ \cup {<<fresh[c], p>>}]
    /\ fresh' = [fresh EXCEPT ![c] = 0]
    /\ UNCHANGED <<todo, call, nextPeer, given>>

Shown(c) ==
    /\ Going(c, {"list", "show"})
    /\ fresh[c] = 0
    /\ GoOn(c)
    /\ UNCHANGED registry

Answer(c) ==
    /\ end[c] = "busy"
    /\ todo[c] = <<>>
    /\ end' = [end EXCEPT ![c] = "ok"]
    /\ given' = given \cup got[c]
    /\ got' = [got EXCEPT ![c] = {}]
    /\ UNCHANGED <<todo, at, sent, lost, nextPeer, peers, fresh>>

Step(c) ==
    \/ Start(c)
    \/ Check(c)
    \/ ResolveHandle(c)
    \/ ResolveName(c)
    \/ Upload(c)
    \/ Ask(c)
    \/ ListFails(c)
    \/ Send(c)
    \/ SendRejected(c)
    \/ SendUnanswered(c)
    \/ Allocate(c)
    \/ Insert(c)
    \/ Shown(c)
    \/ Answer(c)

Next == \E c \in Callers : Step(c)

Spec == Init /\ [][Next]_vars

(* --- Properties --------------------------------------------------------- *)

TypeOK ==
    /\ todo \in [Callers -> Seq(Words)]
    /\ end \in [Callers -> {"none", "busy", "ok", "refused", "failed"}]
    /\ at \in [Callers -> Words \cup {"none"}]
    /\ sent \in [Callers -> Nat]
    /\ lost \in [Callers -> BOOLEAN]
    /\ nextPeer \in 1..(MaxHandles + 1)
    /\ DOMAIN peers \subseteq 1..MaxHandles
    /\ \A h \in DOMAIN peers : peers[h] \in Peers
    /\ fresh \in [Callers -> 0..MaxHandles]
    /\ got \in [Callers -> SUBSET ((1..MaxHandles) \X Peers)]
    /\ given \subseteq (1..MaxHandles) \X Peers

\* An operation this library refuses has changed nothing, so it can be corrected
\* and called again: whatever a handler can object to it objects to before its one
\* request that changes something.  The exception is an invite whose URL has no
\* slug: it is exported, or edited, and the caller is given an error.
RefusedIsUnsent ==
    \A c \in Callers : end[c] = "refused" => sent[c] = 0 \/ at[c] = "slug"

\* An operation that failed has changed nothing, unless the answer was lost: a
\* handler reads and uploads first and changes last, and changes once.  The
\* exception is the message sent from an inline result, which is read back.
FailedIsUnsentOrUnanswered ==
    \A c \in Callers :
      end[c] = "failed" => sent[c] = 0 \/ (sent[c] = 1 /\ lost[c]) \/ at[c] = "fetch"

\* A peer handle of an answer names, for as long as the client lives, the peer it
\* was given for, whichever calls registered peers at the same time: no send goes
\* to another peer than the one the application was shown.
HandleNamesItsPeer ==
    \A g \in given : g[1] \in DOMAIN peers /\ peers[g[1]] = g[2]
===============================================================================
