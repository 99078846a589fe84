-------------------------- MODULE ServiceCallsProofs --------------------------
(***************************************************************************)
(* Theorems about ServiceCalls, for every number of rotations, every       *)
(* overlap of published keys and every number of expired tokens.           *)
(***************************************************************************)
EXTENDS ServiceCalls, TLAPS

\* Nothing of this call has run, and nothing of it can run later.
Clean == runs = 0 /\ abandoned = 0

\* How far a call in progress has come: whatever is sent again was refused before, by
\* the interceptor (Clean) or by the handler (forwarded).
ProgressInv ==
    /\ forwarded <= runs
    /\ pc # "idle" => attempt \in 1..2 /\ result = "none"
    /\ pc = "sent" => runs < attempt /\ (Clean \/ (attempt = 2 /\ forwarded > 0 /\ abandoned = 0))
    /\ pc = "renew" => attempt = 1 /\ (Clean \/ (forwarded > 0 /\ abandoned = 0))
    /\ pc = "answered" /\ attempt = 1 /\ reply = "unauthenticated" => 
            Clean \/ (forwarded > 0 /\ abandoned = 0)

\* While the callee is settled, a second attempt carries a token it knows the key of.
Settled == calledAt > 0 /\ calledAt = authGen
SettledInv ==
    /\ keys <= authGen /\ calledAt <= authGen
    /\ Settled => keys = authGen
    /\ Settled /\ pc # "idle" /\ attempt = 2 => token.gen = authGen
    /\ pc = "answered" /\ attempt = 2 /\ reply = "unauthenticated"
            => forwarded > 0 \/ ~Settled \/ token.state = "expired"

IInv == TypeOK /\ ProgressInv /\ SettledInv /\ AtMostOneEffect /\ RefusedOnlyForLag

LEMMA FreshTokens == MaxGen \in Nat /\ authGen \in 0..MaxGen => Fresh \in Tokens
  BY DEF Fresh, Tokens

LEMMA InitInvariant == Init => IInv
<1> SUFFICES ASSUME Init PROVE IInv
  OBVIOUS
<1>1. keys = 0 /\ authGen = 0
  BY DEF Init, Store!Init
<1>2. Fresh \in Tokens
  BY <1>1, FreshTokens, CallsAssumption DEF CallsAssumption
<1>3. TypeOK
  BY <1>1, <1>2, CallsAssumption DEF CallsAssumption, Init, TypeOK, Replies
<1>4. ProgressInv
  BY DEF Init, ProgressInv, Clean
<1>5. SettledInv
  BY <1>1 DEF Init, SettledInv, Settled
<1>6. AtMostOneEffect
  BY DEF Init, AtMostOneEffect
<1>7. RefusedOnlyForLag
  BY DEF Init, RefusedOnlyForLag
<1> QED
  BY <1>3, <1>4, <1>5, <1>6, <1>7 DEF IInv

LEMMA StepInvariant == IInv /\ [Next]_vars => IInv'
<1> SUFFICES ASSUME IInv, [Next]_vars PROVE IInv'
  OBVIOUS
<1>0. /\ MaxGen \in Nat /\ Overlap \in Nat \ {0} /\ MaxExpiries \in Nat
      /\ keys \in Int /\ authGen \in Int
      /\ Fresh \in Tokens /\ Fresh.gen = authGen /\ Fresh.state = "valid"
  BY CallsAssumption, FreshTokens DEF CallsAssumption, IInv, TypeOK, Fresh
<1> USE <1>0 DEF IInv, TypeOK, ProgressInv, SettledInv, AtMostOneEffect, RefusedOnlyForLag,
                 Replies, Clean, Settled, storeVars, history
<1>1. CASE BeginCall
  BY <1>1 DEF BeginCall, Send
<1>2. CASE Receive
  BY <1>2 DEF Receive, Retried, Return
<1>3. CASE Renew
  BY <1>3 DEF Renew, NewToken, Send, Return
<1>4. CASE Refuse
  \* The only place where the overlap of keys matters.
  <2>1. Settled /\ attempt = 2 => token.state = "expired"
    <3> SUFFICES ASSUME Settled, attempt = 2 PROVE token.state = "expired"
      OBVIOUS
    <3>1. token.gen = keys /\ keys > 0
      BY <1>4 DEF Refuse
    <3>2. token.gen \in keys - Overlap + 1 .. keys
      BY <3>1
    <3> QED
      BY <1>4, <3>1, <3>2 DEF Refuse, Verifies, Tokens
  <2> QED
    BY <1>4, <2>1 DEF Refuse
<1>5. CASE Handle
  BY <1>5 DEF Handle
<1>6. CASE Lose
  BY <1>6 DEF Lose
<1>7. CASE Replace
  BY <1>7 DEF Replace
<1>8. CASE Rotate
  BY <1>8 DEF Rotate, Store!Rotate, callVars
<1>9. CASE Refresh
  BY <1>9 DEF Refresh, Store!Refresh, callVars
<1>10. CASE Expire
  <2>1. /\ held' \in Tokens /\ token' \in Tokens
        /\ token'.gen = token.gen /\ (token.state = "expired" => token'.state = "expired")
    BY <1>10 DEF Expire, Tokens
  <2> QED
    BY <1>10, <2>1 DEF Expire
<1>11. CASE UNCHANGED vars
  BY <1>11 DEF vars, callVars
<1> QED
  BY <1>1, <1>2, <1>3, <1>4, <1>5, <1>6, <1>7, <1>8, <1>9, <1>10, <1>11 DEF Next, Call

THEOREM Invariance == Spec => []IInv
<1> QED
  BY InitInvariant, StepInvariant, PTL DEF Spec

\* The types of the variables.
THEOREM TypeCorrect == Spec => []TypeOK
<1>1. IInv => TypeOK
  BY DEF IInv
<1> QED
  BY <1>1, Invariance, PTL

\* The retry makes no handler run twice that did not ask for it (s2s.go:36-49).
THEOREM OneEffect == Spec => []AtMostOneEffect
<1>1. IInv => AtMostOneEffect
  BY DEF IInv
<1> QED
  BY <1>1, Invariance, PTL

\* Only a callee whose keys lag, or that rotates meanwhile, refuses a call to the end
\* (s2s.go:39-44).
THEOREM RefusalsAreLag == Spec => []RefusedOnlyForLag
<1>1. IInv => RefusedOnlyForLag
  BY DEF IInv
<1> QED
  BY <1>1, Invariance, PTL
=============================================================================
