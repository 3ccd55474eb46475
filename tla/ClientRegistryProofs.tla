------------------------ MODULE ClientRegistryProofs ------------------------
(***************************************************************************)
(* Proofs about ClientRegistry, for any clients, threads and handles.      *)
(***************************************************************************)
EXTENDS ClientRegistry, TLAPS

\* A thread in a call is in one on a client that was created.
CallsAreOnClients ==
    \A t \in Threads : pc[t] # "idle" =>
        client[t] \in Clients /\ handle[client[t]] # NoHandle

\* A thread owns a share of a client only where the code holds one.
SharesAreHeld ==
    \A t \in Threads : target[t] # NoClient => pc[t] \in {"running", "stopping"}

\* The close that set the flag is the only one on its way to the registry.
OneCloser ==
    \A t \in Threads : pc[t] = "closing" =>
        /\ client[t] \in closed
        /\ \A u \in Threads : pc[u] = "closing" /\ client[u] = client[t] => u = t

\* Only clients that were created are closed or owned.
CreatedFirst ==
    /\ \A c \in closed : handle[c] # NoHandle
    /\ \A c \in Clients : Alive(c) => handle[c] # NoHandle

RInv ==
    /\ TypeOK /\ CallsAreOnClients /\ SharesAreHeld /\ OneCloser /\ CreatedFirst
    /\ HandlesAreUnique /\ RegisteredWhileOpen /\ CloseStopsOwnClient

-----------------------------------------------------------------------------
LEMMA InitEstablishes == Init => RInv
  BY RegistryAssumption
     DEF Init, RInv, TypeOK, CallsAreOnClients, SharesAreHeld, OneCloser, CreatedFirst,
         HandlesAreUnique, RegisteredWhileOpen, CloseStopsOwnClient, Alive, PcState

\* Every step preserves the invariant: one step of the proof per action.
LEMMA StepPreserves == RInv /\ [Next]_vars => RInv'
  <1> SUFFICES ASSUME RInv, [Next]_vars PROVE RInv'
    OBVIOUS
  <1> USE RegistryAssumption
      DEF RInv, TypeOK, CallsAreOnClients, SharesAreHeld, OneCloser, CreatedFirst,
          HandlesAreUnique, RegisteredWhileOpen, CloseStopsOwnClient, Alive, PcState
  <1>1. ASSUME NEW c \in Clients, NEW h \in Handles, Create(c, h) PROVE RInv'
    BY <1>1 DEF Create
  <1>2. ASSUME NEW t \in Threads, NEW c \in Clients, Call(t, c) PROVE RInv'
    BY <1>2 DEF Call, Continue
  <1>3. ASSUME NEW t \in Threads, NEW c \in Clients, Close(t, c) PROVE RInv'
    BY <1>3 DEF Close, Continue
  <1>4. ASSUME NEW t \in Threads, Lookup(t) PROVE RInv'
    BY <1>4 DEF Lookup, Return, Continue
  <1>5. ASSUME NEW t \in Threads, CallEnds(t) PROVE RInv'
    BY <1>5 DEF CallEnds, Return, Continue
  <1>6. ASSUME NEW t \in Threads, Remove(t) PROVE RInv'
    BY <1>6 DEF Remove, Return, Continue
  <1>7. ASSUME NEW t \in Threads, CloseEnds(t) PROVE RInv'
    BY <1>7 DEF CloseEnds, Return, Continue
  <1>8. CASE UNCHANGED vars
    BY <1>8 DEF vars
  <1> QED
    BY <1>1, <1>2, <1>3, <1>4, <1>5, <1>6, <1>7, <1>8 DEF Next, Proceed

-----------------------------------------------------------------------------
\* In every reachable state the registry, the flags and the calls agree.
THEOREM RegistryInvariance == Spec => []RInv
  BY InitEstablishes, StepPreserves, PTL DEF Spec

\* For any clients, threads and handles every variable keeps its type.
THEOREM RegistryTypeCorrect == Spec => []TypeOK
  <1>1. RInv => TypeOK
    BY DEF RInv
  <1> QED
    BY <1>1, RegistryInvariance, PTL

\* For any number of clients, threads and handles, a handle names at most one
\* live client, also when addresses are used again.
THEOREM HandleIdentity == Spec => []HandlesAreUnique
  <1>1. RInv => HandlesAreUnique
    BY DEF RInv
  <1> QED
    BY <1>1, RegistryInvariance, PTL

\* For any number of clients, threads and handles, a client is registered
\* exactly as long as it is open, or being closed by the one call that is.
THEOREM RegistrationIsOpenness == Spec => []RegisteredWhileOpen
  <1>1. RInv => RegisteredWhileOpen
    BY DEF RInv
  <1> QED
    BY <1>1, RegistryInvariance, PTL

\* For any number of clients, threads and handles, closing a client never
\* stops another one that was given its handle.
THEOREM CloseIsExact == Spec => []CloseStopsOwnClient
  <1>1. RInv => CloseStopsOwnClient
    BY DEF RInv
  <1> QED
    BY <1>1, RegistryInvariance, PTL
=============================================================================
