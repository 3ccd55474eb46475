--------------------------- MODULE ClientRegistry ---------------------------
(***************************************************************************)
(* Creating, calling and closing native clients (client.rs, lib.rs,        *)
(* Transport.kt, TelegramClient.kt).                                       *)
(*                                                                         *)
(* A Kotlin client knows its native one by a handle, the address the       *)
(* native client was allocated at.  The registry maps the handles of open  *)
(* clients to them.  Every native call looks its client up and shares its  *)
(* ownership while it runs, so a closed client lives on until the last     *)
(* call on it has returned; then its address may be used again.            *)
(***************************************************************************)
EXTENDS Naturals

CONSTANTS
    Clients,    \* Kotlin clients, each with the native client it created
    Threads,    \* threads of the application, the update loop's among them
    Handles,    \* addresses the allocator hands out
    NoClient,   \* nothing is registered under a handle
    NoHandle    \* the handle of a client that was not created yet

ASSUME RegistryAssumption == NoClient \notin Clients /\ NoHandle \notin Handles

VARIABLES
    handle,     \* per client: its handle
    registry,   \* per handle: the native client registered under it
    closed,     \* the clients whose transport is closed
    pc,         \* per thread: where its call is
    client,     \* per thread: the Kotlin client its call is on
    target      \* per thread: the native client its call owns a share of

vars == <<handle, registry, closed, pc, client, target>>

PcState == {"idle", "checked", "running", "closing", "stopping"}

TypeOK ==
    /\ handle \in [Clients -> Handles \cup {NoHandle}]
    /\ registry \in [Handles -> Clients \cup {NoClient}]
    /\ closed \subseteq Clients
    /\ pc \in [Threads -> PcState]
    /\ client \in [Threads -> Clients \cup {NoClient}]
    /\ target \in [Threads -> Clients \cup {NoClient}]

Init ==
    /\ handle = [c \in Clients |-> NoHandle]
    /\ registry = [h \in Handles |-> NoClient]
    /\ closed = {}
    /\ pc = [t \in Threads |-> "idle"]
    /\ client = [t \in Threads |-> NoClient]
    /\ target = [t \in Threads |-> NoClient]

\* Arc<NativeClient>: owned by the registry and by the calls that found it.
Alive(c) ==
    \/ \E h \in Handles : registry[h] = c
    \/ \E t \in Threads : target[t] = c

Continue(t, p, c, d) ==
    /\ pc' = [pc EXCEPT ![t] = p]
    /\ client' = [client EXCEPT ![t] = c]
    /\ target' = [target EXCEPT ![t] = d]

Return(t) == Continue(t, "idle", NoClient, NoClient)

-----------------------------------------------------------------------------
\* Faulty: handles are numbered by how many clients are registered.
CreateNumbered(c, h) ==
    /\ handle[c] = NoHandle
    /\ handle' = [handle EXCEPT ![c] = h]
    /\ registry' = [registry EXCEPT ![h] = c]
    /\ UNCHANGED <<closed, pc, client, target>>

\* create_client allocates the native client, at an address no live one has,
\* and registers it; creating it may also fail, which changes nothing.
Create(c, h) ==
    /\ handle[c] = NoHandle
    /\ \A d \in Clients : handle[d] = h => ~Alive(d)
    /\ handle' = [handle EXCEPT ![c] = h]
    /\ registry' = [registry EXCEPT ![h] = c]
    /\ UNCHANGED <<closed, pc, client, target>>

\* Transport.call finds the client open; on a closed one it throws.
Call(t, c) ==
    /\ pc[t] = "idle"
    /\ handle[c] # NoHandle
    /\ c \notin closed
    /\ Continue(t, "checked", c, NoClient)
    /\ UNCHANGED <<handle, registry, closed>>

\* get_client, by the handle alone; one that is not registered is an error.
Lookup(t) ==
    /\ pc[t] = "checked"
    /\ IF registry[handle[client[t]]] = NoClient
       THEN Return(t)
       ELSE Continue(t, "running", client[t], registry[handle[client[t]]])
    /\ UNCHANGED <<handle, registry, closed>>

\* The operation ends and gives up its share of the client.
CallEnds(t) ==
    /\ pc[t] = "running"
    /\ Return(t)
    /\ UNCHANGED <<handle, registry, closed>>

\* Faulty: closed is read and then set; a second close may pass as well.
CloseUnguarded(t, c) ==
    /\ pc[t] = "idle"
    /\ handle[c] # NoHandle
    /\ c \notin closed \/ \E u \in Threads : pc[u] \in {"closing", "stopping"} /\ client[u] = c
    /\ closed' = closed \cup {c}
    /\ Continue(t, "closing", c, NoClient)
    /\ UNCHANGED <<handle, registry>>

\* Transport.close: one call sets the flag, every other one returns at once.
Close(t, c) ==
    /\ pc[t] = "idle"
    /\ handle[c] # NoHandle
    /\ c \notin closed
    /\ closed' = closed \cup {c}
    /\ Continue(t, "closing", c, NoClient)
    /\ UNCHANGED <<handle, registry>>

\* Faulty: the client is stopped but stays registered.
RemoveNothing(t) ==
    /\ pc[t] = "closing"
    /\ Continue(t, "stopping", client[t], registry[handle[client[t]]])
    /\ UNCHANGED <<handle, registry, closed>>

\* close_client takes the client out of the registry, and its share with it.
Remove(t) ==
    /\ pc[t] = "closing"
    /\ registry' = [registry EXCEPT ![handle[client[t]]] = NoClient]
    /\ IF registry[handle[client[t]]] = NoClient
       THEN Return(t)
       ELSE Continue(t, "stopping", client[t], registry[handle[client[t]]])
    /\ UNCHANGED <<handle, closed>>

\* Faulty: the share is kept after the client was stopped.
CloseEndsLeaking(t) ==
    /\ pc[t] = "stopping"
    /\ pc' = [pc EXCEPT ![t] = "idle"]
    /\ UNCHANGED <<handle, registry, closed, client, target>>

\* The pump is stopped, the sender pool quit, the share given up.
CloseEnds(t) ==
    /\ pc[t] = "stopping"
    /\ Return(t)
    /\ UNCHANGED <<handle, registry, closed>>

-----------------------------------------------------------------------------
Proceed(t) == Lookup(t) \/ CallEnds(t) \/ Remove(t) \/ CloseEnds(t)

Next ==
    \/ \E c \in Clients, h \in Handles : Create(c, h)
    \/ \E t \in Threads :
          \/ \E c \in Clients : Call(t, c) \/ Close(t, c)
          \/ Proceed(t)

Spec == Init /\ [][Next]_vars

(* Threads run, and an operation on a client whose sender pool has quit    *)
(* ends: grammers fails what it can no longer send.                        *)
FairSpec == Spec /\ \A t \in Threads : WF_vars(Proceed(t))

-----------------------------------------------------------------------------
(* Properties.                                                             *)

\* A handle is unambiguous while it means anything: two clients that are
\* both alive never share one, and a client is registered under its own.
HandlesAreUnique ==
    /\ \A c, d \in Clients : Alive(c) /\ Alive(d) /\ handle[c] = handle[d] => c = d
    /\ \A h \in Handles : registry[h] # NoClient => handle[registry[h]] = h

\* A client is registered from its creation until the one close that found
\* it open removes it: an open client is not lost, a closed one is not found.
RegisteredWhileOpen ==
    \A c \in Clients : (\E h \in Handles : registry[h] = c) <=>
        /\ handle[c] # NoHandle
        /\ c \in closed => \E t \in Threads : pc[t] = "closing" /\ client[t] = c

\* A close only ever stops the client it was called on, although the handle
\* of a closed client may by then belong to another one.
CloseStopsOwnClient ==
    \A t \in Threads : pc[t] = "stopping" => target[t] = client[t]

\* A closed client is let go of once the calls on it have returned.
ClosedIsDropped == \A c \in Clients : (c \in closed) ~> ~Alive(c)

\* What the documentation of get_client says: the client found by a handle
\* is the one of the Kotlin client that holds the handle.
CallReachesOwnClient ==
    \A t \in Threads : pc[t] = "running" => target[t] = client[t]
=============================================================================
