----------------------------- MODULE ServiceCalls -----------------------------
(***************************************************************************)
(* Calls from one service to another: s2s.Call (grpc/s2s/s2s.go) at one    *)
(* end, the authentication interceptor (grpc/interceptors) over the keys   *)
(* of a KeyStore at the other, and an authservice that signs tokens with   *)
(* the keys of its latest rotation and publishes those of the last Overlap *)
(* rotations.                                                              *)
(*                                                                         *)
(* A token is the rotation whose key signed it (0: none) and whether it    *)
(* has expired.                                                            *)
(* gRPC, the handler and the authservice are external: a request may be    *)
(* lost or outlive the caller's patience, a handler may fail or pass on a  *)
(* refusal it met itself.                                                  *)
(***************************************************************************)
EXTENDS Integers

CONSTANTS
    MaxGen,         \* bound: the number of rotations
    Overlap,        \* rotations whose keys are published together
    MaxExpiries     \* bound: tokens that expire

ASSUME CallsAssumption == MaxGen \in Nat /\ Overlap \in Nat \ {0} /\ MaxExpiries \in Nat

VARIABLES
    keys, authGen,  \* KeyStore: the keys the callee verifies with
    pc,             \* Call: "idle", "sent", "answered", "renew"
    held,           \* the token the caller passes to Call
    token,          \* the one of the present attempt
    attempt,
    reply,          \* the answer on its way
    result,         \* what Call returned last
    runs,           \* history: how often the handler ran for this call
    abandoned,      \* history: requests of this call given up unanswered
    forwarded,      \* history: how often the handler itself answered Unauthenticated
    calledAt,       \* history: the rotation at which this call began, 0 if the callee's
                    \* keys were older
    expiries

storeVars == <<keys, authGen>>
history == <<runs, abandoned, forwarded>>
callVars == <<pc, held, token, attempt, reply, result, history>>
vars == <<storeVars, callVars, calledAt, expiries>>

Store == INSTANCE KeyStore

Fresh == [gen |-> authGen, state |-> "valid"]

Init ==
    /\ Store!Init
    /\ pc = "idle" /\ held = Fresh /\ token = Fresh
    /\ attempt = 0 /\ reply = "none" /\ result = "none"
    /\ runs = 0 /\ abandoned = 0 /\ forwarded = 0
    /\ calledAt = 0 /\ expiries = 0

----------------------------------------------------------------------------
\* The callee.  A rotation publishes its keys with those before it.
Verifies(t) == t.state = "valid" /\ t.gen > 0 /\ t.gen \in keys - Overlap + 1 .. keys

\* Any error of Evaluate is Unauthenticated, and the handler does not run.
Refuse ==
    /\ pc = "sent" /\ ~Verifies(token)
    /\ reply' = "unauthenticated"
    /\ pc' = "answered"
    /\ UNCHANGED <<storeVars, held, token, attempt, result, history, calledAt, expiries>>

Handle ==
    /\ pc = "sent" /\ Verifies(token)
    /\ runs' = runs + 1
    /\ reply' \in {"ok", "failed", "unauthenticated"}
    /\ forwarded' = forwarded + (IF reply' = "unauthenticated" THEN 1 ELSE 0)
    /\ pc' = "answered"
    /\ UNCHANGED <<storeVars, held, token, attempt, result, abandoned, calledAt, expiries>>

\* The request or its answer is lost, or the deadline passes: the client answers for
\* the callee, who may handle the request yet.
Lose ==
    /\ pc \in {"sent", "answered"} /\ reply # "unavailable"
    /\ reply' = "unavailable"
    /\ abandoned' = abandoned + (IF pc = "sent" THEN 1 ELSE 0)
    /\ pc' = "answered"
    /\ UNCHANGED <<storeVars, held, token, attempt, result, runs, forwarded, calledAt, expiries>>

----------------------------------------------------------------------------
\* The caller.
Send(t) == token' = t /\ pc' = "sent" /\ reply' = "none"

BeginCall ==
    /\ pc = "idle"
    /\ Send(held) /\ attempt' = 1
    /\ result' = "none" /\ runs' = 0 /\ abandoned' = 0 /\ forwarded' = 0
    /\ calledAt' = IF keys = authGen THEN authGen ELSE 0
    /\ UNCHANGED <<storeVars, held, expiries>>

Return(r) == result' = r /\ pc' = "idle"

\* Mutants of Retried: an answer that never came is retried too; there is no last
\* attempt.
RetriedIfLost(r) == attempt = 1 /\ r \in {"unauthenticated", "unavailable"}
RetriedAgain(r) == attempt < 3 /\ r = "unauthenticated"

\* Only a refusal is retried, and once.
Retried(r) == attempt = 1 /\ r = "unauthenticated"

Receive ==
    /\ pc = "answered"
    /\ IF Retried(reply) THEN pc' = "renew" /\ UNCHANGED result ELSE Return(reply)
    /\ UNCHANGED <<storeVars, held, token, attempt, reply, history, calledAt, expiries>>

\* Mutant of NewToken: the caller's token again.
HeldToken == held

NewToken == Fresh

\* newTokenFN.  The new token is not handed back: the next call begins with `held` again.
Renew ==
    /\ pc = "renew"
    /\ \/ authGen > 0 /\ Send(NewToken) /\ attempt' = 2 /\ UNCHANGED result
       \/ Return("tokenless") /\ UNCHANGED <<token, attempt, reply>>
    /\ UNCHANGED <<storeVars, held, history, calledAt, expiries>>

\* A caller that looks after its token itself.
Replace ==
    /\ pc = "idle" /\ held # Fresh
    /\ held' = Fresh
    /\ UNCHANGED <<storeVars, pc, token, attempt, reply, result, history, calledAt, expiries>>

----------------------------------------------------------------------------
\* Around them: keys are rotated and refreshed, tokens expire.
Rotate ==
    /\ Store!Rotate
    /\ UNCHANGED <<callVars, calledAt, expiries>>

Refresh ==
    /\ Store!Refresh /\ keys' # keys
    /\ UNCHANGED <<callVars, calledAt, expiries>>

\* Tokens issued together expire together.
Expire ==
    /\ expiries < MaxExpiries
    /\ \E t \in {held, token} :
        /\ t.state = "valid"
        /\ LET Old(u) == IF u = t THEN [u EXCEPT !.state = "expired"] ELSE u
           IN  held' = Old(held) /\ token' = Old(token)
    /\ expiries' = expiries + 1
    /\ UNCHANGED <<storeVars, pc, attempt, reply, result, history, calledAt>>

Call == BeginCall \/ Receive \/ Renew
Next == Call \/ Refuse \/ Handle \/ Lose \/ Replace \/ Rotate \/ Refresh \/ Expire

Spec == Init /\ [][Next]_vars

\* The caller and the callee are scheduled, and the callee's keys are refreshed again
\* and again (JwtKeysCache!RecoversWhenServiceIsBack).
Fairness ==
    /\ WF_vars(Call) /\ WF_vars(Refuse \/ Handle)
    /\ WF_vars(Refresh /\ keys' = authGen)

FairSpec == Spec /\ Fairness

----------------------------------------------------------------------------
Replies == {"ok", "failed", "unauthenticated", "unavailable"}
Tokens == [gen : 0..MaxGen, state : {"valid", "expired"}]

\* The types of the variables; a call makes two attempts at most.
TypeOK ==
    /\ keys \in 0..MaxGen /\ authGen \in 0..MaxGen
    /\ pc \in {"idle", "sent", "answered", "renew"}
    /\ held \in Tokens /\ token \in Tokens
    /\ attempt \in 0..2 /\ runs \in 0..2 /\ runs <= attempt
    /\ reply \in Replies \cup {"none"} /\ result \in Replies \cup {"none", "tokenless"}
    /\ abandoned \in 0..1 /\ forwarded \in 0..2 /\ calledAt \in 0..MaxGen
    /\ expiries \in 0..MaxExpiries

\* s2s.go:36-49: the retry never makes a handler run twice, not even a request that
\* the caller gave up waiting for and the callee handles later, unless the handler
\* itself answered Unauthenticated (as one does that passes on a refusal it met).
AtMostOneEffect ==
    runs + abandoned + (IF pc = "sent" THEN 1 ELSE 0) > 1 => forwarded > 0

\* s2s.go:39-44: whatever token a call begins with, it is not refused by a callee that
\* held the latest keys from its beginning to its end, if the new token has not
\* expired on the way.
RefusedOnlyForLag ==
    result = "unauthenticated" =>
        forwarded > 0 \/ calledAt = 0 \/ calledAt # authGen \/ token.state = "expired"

\* s2s.go:17-20: once the authservice rotates its keys no more, no call is
\* refused for good, though the caller may hold a token that is never valid again.
RefusalsEnd ==
    (<>[](authGen > 0)) => <>[](result = "unauthenticated" => forwarded > 0)
=============================================================================
