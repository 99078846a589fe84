----------------------------- MODULE TokenBucket -----------------------------
(***************************************************************************)
(* What ratelimit/limiter.go promises a caller: every key has a bucket of  *)
(* Burst tokens that fills at a steady rate and pays for each request,     *)
(* whether or not the limiter remembers the key.                           *)
(*                                                                         *)
(* The unit of time is the time one credit takes to flow in; a request     *)
(* costs Cost credits.  An auditor watches one key over a window that      *)
(* begins at any moment (history, no part of the program).                 *)
(***************************************************************************)
EXTENDS Naturals

CONSTANTS
    Keys,       \* the callers' addresses
    Cost,       \* credits a request costs
    Burst,      \* requests an idle key may make at once
    MaxWindow   \* bound: the length of the auditor's windows

Capacity == Burst * Cost


VARIABLES
    level,      \* credits in each key's bucket
    verdict,    \* the latest answer of Allow
    window      \* the auditor's window: its key, its length, what was spent in it

bucketVars == <<level, verdict, window>>

NoVerdict == [kind |-> "none"]
Verdict(k, ok) == [kind |-> "answer", key |-> k, ok |-> ok]
Window(k) == [key |-> k, len |-> 0, spent |-> 0]

\* The refill, up to the burst.
Pour(n) == IF n < Capacity THEN n + 1 ELSE Capacity

Init ==
    /\ level = [k \in Keys |-> Capacity]
    /\ verdict = NoVerdict
    /\ \E k \in Keys : window = Window(k)

Grant(k) ==
    /\ level[k] >= Cost
    /\ level' = [level EXCEPT ![k] = @ - Cost]
    /\ verdict' = Verdict(k, TRUE)
    /\ window' = IF window.key = k
                 THEN [window EXCEPT !.spent = @ + Cost] ELSE window

Refuse(k) ==
    /\ level[k] < Cost
    /\ verdict' = Verdict(k, FALSE)
    /\ UNCHANGED <<level, window>>

Flow ==
    /\ level' = [k \in Keys |-> Pour(level[k])]
    /\ window' = IF window.len < MaxWindow
                 THEN [window EXCEPT !.len = @ + 1] ELSE Window(window.key)
    /\ UNCHANGED verdict

Audit(k) ==
    /\ window' = Window(k)
    /\ UNCHANGED <<level, verdict>>

Next ==
    \/ \E k \in Keys : Grant(k) \/ Refuse(k) \/ Audit(k)
    \/ Flow

Spec == Init /\ [][Next]_bucketVars

\* Levels stay between empty and the burst, and windows count in naturals.
TypeOK ==
    /\ level \in [Keys -> 0 .. Capacity]
    /\ verdict \in {NoVerdict} \cup [kind : {"answer"}, key : Keys, ok : BOOLEAN]
    /\ window \in [key : Keys, len : Nat, spent : Nat]

\* The promise of New (limiter.go:32-34): in any window of time, whenever it
\* begins, a key is granted no more than its burst and what flowed in since.
WithinRate == window.spent <= Capacity + window.len
=============================================================================
