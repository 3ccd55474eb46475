-------------------------- MODULE LoginFlowProofs ---------------------------
(***************************************************************************)
(* Proofs about LoginFlow, for any callers and any bound on the tokens.    *)
(***************************************************************************)
EXTENDS LoginFlow, TLAPS

\* Every token in the slot or in a call has been issued.
TokensIssued ==
    /\ authentication # Idle => authentication.id <= issued
    /\ \A c \in Callers : token[c] # Idle => token[c].id <= issued

\* A call holds a token exactly where it has one to use or to store.
CallsHoldTokens ==
    \A c \in Callers :
        token[c] # Idle <=> pc[c] \in {"storing", "signingIn", "checking"}

\* Settled tokens and those cleared away have been issued.
HistoryIssued ==
    /\ \A n \in used : n <= issued
    /\ cleared <= issued
    /\ \A c \in Callers : mark[c] <= issued

\* A token in a call that is older than the last sign-out was noted there.
OldTokensNoted ==
    \A c \in Callers : token[c] # Idle /\ token[c].id <= cleared
                          => token[c].id \in escaped

LInv ==
    /\ TypeOK /\ TokensIssued /\ CallsHoldTokens /\ HistoryIssued
    /\ TokenOnce /\ UsedTokensAreGone
    /\ OldTokenWasInFlight /\ OldTokensNoted

-----------------------------------------------------------------------------
LEMMA InitEstablishes == Init => LInv
  BY LoginAssumption, IdleAssumption
     DEF Init, LInv, TypeOK, TokensIssued, CallsHoldTokens, HistoryIssued, TokenOnce,
         UsedTokensAreGone, OldTokenWasInFlight, OldTokensNoted, PcState

\* Every step preserves the invariant: one step of the proof per action.
LEMMA StepPreserves == LInv /\ [Next]_vars => LInv'
  <1> SUFFICES ASSUME LInv, [Next]_vars PROVE LInv'
    OBVIOUS
  <1> USE LoginAssumption, IdleAssumption
      DEF LInv, TypeOK, TokensIssued, CallsHoldTokens, HistoryIssued, TokenOnce,
          UsedTokensAreGone, OldTokenWasInFlight, OldTokensNoted, Token, PcState, history
  <1>1. ASSUME NEW c \in Callers, CallRequestCode(c) PROVE LInv'
    BY <1>1 DEF CallRequestCode, Continue
  <1>2. ASSUME NEW c \in Callers, RequestCodeAnswered(c) PROVE LInv'
    BY <1>2 DEF RequestCodeAnswered, Issue, Return, Continue
  <1>3. ASSUME NEW c \in Callers, Store(c) PROVE LInv'
    BY <1>3 DEF Store, Return, Continue
  <1>4. ASSUME NEW c \in Callers, TakeCode(c) PROVE LInv'
    BY <1>4 DEF TakeCode, Continue
  <1>5. ASSUME NEW c \in Callers, SignInRefused(c) PROVE LInv'
    BY <1>5 DEF SignInRefused
  <1>6. ASSUME NEW c \in Callers, SignInAnswered(c) PROVE LInv'
    <2>1. CASE Issue(c, "password") /\ used' = used \cup {token[c].id}
      \* The code's token is settled and the password's is new.
      <3>1. /\ token[c] \in Token /\ token'[c] \in Token /\ token'[c].id = issued + 1
            /\ \A d \in Callers \ {c} : token'[d] = token[d]
        BY <1>6, <2>1 DEF SignInAnswered, Issue, Continue
      <3>2. TokenOnce' /\ UsedTokensAreGone'
        BY <1>6, <2>1, <3>1 DEF SignInAnswered, Issue, Continue
      <3>3. TypeOK'
        <4>1. pc' \in [Callers -> PcState] /\ token' \in [Callers -> Token \cup {Idle}]
          BY <1>6, <2>1, <3>1 DEF Issue, Continue
        <4>2. used' \subseteq 1..MaxTokens
          BY <1>6, <2>1, <3>1
        <4>3. issued' \in 0..MaxTokens
          BY <1>6, <2>1 DEF Issue
        <4> QED
          BY <1>6, <4>1, <4>2, <4>3 DEF SignInAnswered
      <3>5. CallsHoldTokens'
        BY <1>6, <2>1, <3>1 DEF SignInAnswered, Issue, Continue
      <3>6. TokensIssued' /\ HistoryIssued'
        BY <1>6, <2>1, <3>1 DEF SignInAnswered, Issue
      <3>4. OldTokenWasInFlight' /\ OldTokensNoted'
        BY <1>6, <2>1, <3>1 DEF SignInAnswered, Issue, Continue
      <3> QED
        BY <3>2, <3>3, <3>4, <3>5, <3>6
    <2>2. CASE Return(c) /\ used' = used \cup {token[c].id} /\ UNCHANGED issued
      BY <1>6, <2>2 DEF SignInAnswered, Return, Continue
    <2>3. CASE Continue(c, "storing", token[c]) /\ UNCHANGED <<used, issued>>
      BY <1>6, <2>3 DEF SignInAnswered, Continue
    <2> QED
      BY <1>6, <2>1, <2>2, <2>3 DEF SignInAnswered
  <1>7. ASSUME NEW c \in Callers, TakePassword(c) PROVE LInv'
    BY <1>7 DEF TakePassword, Continue
  <1>8. ASSUME NEW c \in Callers, CheckPasswordRefused(c) PROVE LInv'
    BY <1>8 DEF CheckPasswordRefused
  <1>9. ASSUME NEW c \in Callers, CheckPasswordAnswered(c) PROVE LInv'
    BY <1>9 DEF CheckPasswordAnswered, Return, Continue
  <1>10. ASSUME NEW c \in Callers, CallSignOut(c) PROVE LInv'
    BY <1>10 DEF CallSignOut, Continue
  <1>11. ASSUME NEW c \in Callers, SignOutAnswered(c) PROVE LInv'
    BY <1>11 DEF SignOutAnswered, Return, Continue
  <1>12. ASSUME NEW c \in Callers, Clear(c) PROVE LInv'
    BY <1>12 DEF Clear, Cleared, Return, Continue
  <1>13. CASE UNCHANGED vars
    BY <1>13 DEF vars
  <1> QED
    BY <1>1, <1>2, <1>3, <1>4, <1>5, <1>6, <1>7, <1>8, <1>9, <1>10, <1>11, <1>12, <1>13 DEF Next

-----------------------------------------------------------------------------
\* In every reachable state tokens are where the code put them: issued before
\* they are held, held only where a call uses or stores them, noted when a
\* sign-out finds them under way.
THEOREM LoginInvariance == Spec => []LInv
  BY InitEstablishes, StepPreserves, PTL DEF Spec

\* For any number of callers and tokens every variable keeps its type.
THEOREM LoginTypeCorrect == Spec => []TypeOK
  <1>1. LInv => TypeOK
    BY DEF LInv
  <1> QED
    BY <1>1, LoginInvariance, PTL

\* For any number of threads, no two signIn or checkPassword calls, and no
\* call and the slot, have the same token, and a token Telegram has settled
\* is never sent or stored again.
THEOREM TokensAreUnique == Spec => []TokensAreUsedOnce
  <1>1. LInv => TokensAreUsedOnce
    BY DEF LInv, TokensAreUsedOnce
  <1> QED
    BY <1>1, LoginInvariance, PTL

\* For any number of threads, a sign-out leaves no older token behind except
\* through a call that was under way.
THEOREM SignOutClearsAtRest == Spec => []OldTokenWasInFlight
  <1>1. LInv => OldTokenWasInFlight
    BY DEF LInv
  <1> QED
    BY <1>1, LoginInvariance, PTL
=============================================================================
