----------------------------- MODULE LoginFlow ------------------------------
(***************************************************************************)
(* The login state of one client (ops/auth.rs, AuthenticationState).       *)
(*                                                                         *)
(* The state is one slot holding the token of the step reached: nothing, a *)
(* login code's or a password's.  signIn and checkPassword take the token  *)
(* out before they ask Telegram and hold no lock while they wait, so any   *)
(* number of calls of any number of threads may be under way.  Tokens are  *)
(* numbered in the order Telegram issued them.                             *)
(***************************************************************************)
EXTENDS Naturals

CONSTANTS
    Callers,    \* threads using the client
    MaxTokens,  \* bound: tokens Telegram issues
    Idle        \* no token: the slot of a client that is not logging in

ASSUME LoginAssumption == MaxTokens \in Nat

Token == [kind : {"code", "password"}, id : 1..MaxTokens]

ASSUME IdleAssumption == Idle \notin Token

VARIABLES
    authentication, \* the slot
    pc,             \* per caller: where its call is
    token,          \* per caller: the token its call holds, or Idle
    issued,         \* how many tokens Telegram has issued
    mark,           \* per caller: tokens issued when its sign-out was done
    used,           \* history: tokens answered with anything but InvalidCode
    cleared,        \* history: tokens issued when the last sign-out was done
    escaped         \* history: older tokens in calls under way at that time

vars == <<authentication, pc, token, issued, mark, used, cleared, escaped>>
history == <<mark, used, cleared, escaped>>

PcState == {"idle", "requesting", "storing", "signingIn", "checking",
            "signingOut", "clearing"}

TypeOK ==
    /\ authentication \in Token \cup {Idle}
    /\ pc \in [Callers -> PcState]
    /\ token \in [Callers -> Token \cup {Idle}]
    /\ issued \in 0..MaxTokens
    /\ mark \in [Callers -> 0..MaxTokens]
    /\ used \subseteq 1..MaxTokens
    /\ cleared \in 0..MaxTokens
    /\ escaped \subseteq 1..MaxTokens

Init ==
    /\ authentication = Idle
    /\ pc = [c \in Callers |-> "idle"]
    /\ token = [c \in Callers |-> Idle]
    /\ issued = 0
    /\ mark = [c \in Callers |-> 0]
    /\ used = {}
    /\ cleared = 0
    /\ escaped = {}

\* Caller c goes on to p, holding t.
Continue(c, p, t) ==
    /\ pc' = [pc EXCEPT ![c] = p]
    /\ token' = [token EXCEPT ![c] = t]

\* Caller c's call returns, dropping whatever token it holds.
Return(c) == Continue(c, "idle", Idle)

\* Telegram issues a token, which c is about to store.
Issue(c, k) ==
    /\ issued < MaxTokens
    /\ issued' = issued + 1
    /\ Continue(c, "storing", [kind |-> k, id |-> issued + 1])

-----------------------------------------------------------------------------
(* requestLoginCode                                                        *)

CallRequestCode(c) ==
    /\ pc[c] = "idle"
    /\ Continue(c, "requesting", Idle)
    /\ UNCHANGED <<authentication, issued>> /\ UNCHANGED history

\* Telegram sends a code, or the request fails and the slot stays as it is.
RequestCodeAnswered(c) ==
    /\ pc[c] = "requesting"
    /\ \/ Issue(c, "code")
       \/ Return(c) /\ UNCHANGED issued
    /\ UNCHANGED authentication /\ UNCHANGED history

\* The token replaces whatever the slot holds, also what another call has
\* put there since; signIn stores its answer in the same way.
Store(c) ==
    /\ pc[c] = "storing"
    /\ authentication' = token[c]
    /\ Return(c)
    /\ UNCHANGED issued /\ UNCHANGED history

-----------------------------------------------------------------------------
(* signIn                                                                  *)

\* Faulty: the token is copied, not taken.
TakeCodeCopying(c) ==
    /\ pc[c] = "idle"
    /\ authentication # Idle /\ authentication.kind = "code"
    /\ Continue(c, "signingIn", authentication)
    /\ UNCHANGED <<authentication, issued>> /\ UNCHANGED history

\* The slot is emptied and its code's token goes with the request.
TakeCode(c) ==
    /\ pc[c] = "idle"
    /\ authentication # Idle /\ authentication.kind = "code"
    /\ authentication' = Idle
    /\ Continue(c, "signingIn", authentication)
    /\ UNCHANGED issued /\ UNCHANGED history

\* Any other slot is an error, and is emptied as well.
SignInRefused(c) ==
    /\ pc[c] = "idle"
    /\ authentication # Idle => authentication.kind # "code"
    /\ authentication' = Idle
    /\ UNCHANGED <<pc, token, issued>> /\ UNCHANGED history

\* Faulty: every failure puts the token back.
SignInAnsweredForgiving(c) ==
    /\ pc[c] = "signingIn"
    /\ \/ /\ Issue(c, "password")
          /\ used' = used \cup {token[c].id}
       \/ /\ Return(c)
          /\ used' = used \cup {token[c].id} /\ UNCHANGED issued
       \/ /\ Continue(c, "storing", token[c])
          /\ used' \in {used, used \cup {token[c].id}} /\ UNCHANGED issued
    /\ UNCHANGED <<authentication, mark, cleared, escaped>>

\* A password is asked for; or the call ends authorized or in an error that
\* drops the token; or the code is wrong and the token is put back.
SignInAnswered(c) ==
    /\ pc[c] = "signingIn"
    /\ \/ /\ Issue(c, "password")
          /\ used' = used \cup {token[c].id}
       \/ /\ Return(c)
          /\ used' = used \cup {token[c].id} /\ UNCHANGED issued
       \/ /\ Continue(c, "storing", token[c])
          /\ UNCHANGED <<used, issued>>
    /\ UNCHANGED <<authentication, mark, cleared, escaped>>

-----------------------------------------------------------------------------
(* checkPassword                                                           *)

TakePassword(c) ==
    /\ pc[c] = "idle"
    /\ authentication # Idle /\ authentication.kind = "password"
    /\ authentication' = Idle
    /\ Continue(c, "checking", authentication)
    /\ UNCHANGED issued /\ UNCHANGED history

CheckPasswordRefused(c) ==
    /\ pc[c] = "idle"
    /\ authentication # Idle => authentication.kind # "password"
    /\ authentication' = Idle
    /\ UNCHANGED <<pc, token, issued>> /\ UNCHANGED history

\* Right or wrong, the password's token is consumed.
CheckPasswordAnswered(c) ==
    /\ pc[c] = "checking"
    /\ Return(c)
    /\ used' = used \cup {token[c].id}
    /\ UNCHANGED <<authentication, issued, mark, cleared, escaped>>

-----------------------------------------------------------------------------
(* signOut                                                                 *)

CallSignOut(c) ==
    /\ pc[c] = "idle"
    /\ Continue(c, "signingOut", Idle)
    /\ UNCHANGED <<authentication, issued>> /\ UNCHANGED history

\* Telegram signs the session out, or the call fails and clears nothing.
SignOutAnswered(c) ==
    /\ pc[c] = "signingOut"
    /\ \/ /\ Continue(c, "clearing", Idle)
          /\ mark' = [mark EXCEPT ![c] = issued]
       \/ Return(c) /\ UNCHANGED mark
    /\ UNCHANGED <<authentication, issued, used, cleared, escaped>>

Cleared(c) ==
    /\ pc[c] = "clearing"
    /\ cleared' = IF mark[c] > cleared THEN mark[c] ELSE cleared
    /\ escaped' = {token[d].id : d \in {e \in Callers : token[e] # Idle}}
                    \cap 1..cleared'
    /\ mark' = [mark EXCEPT ![c] = 0]
    /\ Return(c)
    /\ UNCHANGED <<issued, used>>

\* Faulty: the login under way is forgotten.
ClearNothing(c) == Cleared(c) /\ UNCHANGED authentication

\* The slot is emptied, whatever it holds by now.
Clear(c) == Cleared(c) /\ authentication' = Idle

-----------------------------------------------------------------------------
Next == \E c \in Callers :
    \/ CallRequestCode(c) \/ RequestCodeAnswered(c) \/ Store(c)
    \/ TakeCode(c) \/ SignInRefused(c) \/ SignInAnswered(c)
    \/ TakePassword(c) \/ CheckPasswordRefused(c) \/ CheckPasswordAnswered(c)
    \/ CallSignOut(c) \/ SignOutAnswered(c) \/ Clear(c)

Spec == Init /\ [][Next]_vars

-----------------------------------------------------------------------------
(* Properties.                                                             *)

\* A token is in one place at a time, the slot or one call: two concurrent
\* signIns never submit codes for the same token.
TokenOnce ==
    \A c \in Callers : token[c] # Idle =>
        /\ authentication = Idle \/ authentication.id # token[c].id
        /\ \A d \in Callers \ {c} : token[d] = Idle \/ token[d].id # token[c].id

\* A token whose answer settled it is neither in the slot nor in a call.
UsedTokensAreGone ==
    /\ authentication # Idle => authentication.id \notin used
    /\ \A c \in Callers : token[c] # Idle => token[c].id \notin used

\* A token is submitted by one call at a time and never again once its answer
\* settled it, however answers and later calls interleave.
TokensAreUsedOnce == TokenOnce /\ UsedTokensAreGone

\* A token from before the last sign-out is in the slot only if a call that
\* was under way when the sign-out emptied it has put it there.
OldTokenWasInFlight ==
    authentication # Idle /\ authentication.id <= cleared
        => authentication.id \in escaped

\* What the comment on sign_out says: no token from before a sign-out is left.
SignOutClears == authentication # Idle => authentication.id > cleared
=============================================================================
