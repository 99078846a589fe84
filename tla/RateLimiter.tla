----------------------------- MODULE RateLimiter -----------------------------
(***************************************************************************)
(* The limiter of ratelimit/limiter.go with the evictor goroutine of       *)
(* app/ratelimit.go.  Buckets are made when a key is first seen, hold a    *)
(* balance and the time it was struck (x/time/rate computes the refill     *)
(* when asked), and are dropped by Evict when the key has been idle.       *)
(* Limiter.mu makes Allow and Evict atomic.                                *)
(***************************************************************************)
EXTENDS Naturals

CONSTANTS
    Keys, Cost, Burst, MaxWindow,   \* as in TokenBucket
    IdleTTL,                        \* Limiter.idleTTL
    EvictPeriod                     \* the evictor's ticker

Capacity == Burst * Cost

ASSUME LimiterAssumption ==
    /\ Cost \in Nat \ {0} /\ Burst \in Nat /\ Capacity \in Nat
    /\ MaxWindow \in Nat /\ IdleTTL \in Nat /\ EvictPeriod \in Nat \ {0}

VARIABLES
    buckets,    \* Limiter.buckets: an entry, or Absent, for each key
    verdict,    \* the latest answer of Allow
    evictor,    \* "running", "sweeping" (a tick was received) or "stopped"
    tickIn,     \* countdown of the evictor's ticker
    tickPending,
    cancelled,  \* the background context
    window      \* history: the auditor's window of TokenBucket

evictVars == <<evictor, tickIn, tickPending, cancelled>>
vars == <<buckets, verdict, evictVars, window>>

Absent == [credit |-> 0, sinceLast |-> 0, sinceSeen |-> 0, present |-> FALSE]
Present(c, last, seen) ==
    [credit |-> c, sinceLast |-> last, sinceSeen |-> seen, present |-> TRUE]

AtMost(n, bound) == IF n < bound THEN n ELSE bound

\* rate.NewLimiter: a full bucket.
NewEntry == Present(Capacity, 0, 0)
Entry(k) == IF buckets[k].present THEN buckets[k] ELSE NewEntry

\* rate.Limiter.advance: what the bucket holds now.
Tokens(b) == AtMost(b.credit + b.sinceLast, Capacity)

NoVerdict == [kind |-> "none"]
Verdict(k, ok) == [kind |-> "answer", key |-> k, ok |-> ok]
Window(k) == [key |-> k, len |-> 0, spent |-> 0]

Init ==
    /\ buckets = [k \in Keys |-> Absent]
    /\ verdict = NoVerdict
    /\ evictor = "running" /\ tickIn = EvictPeriod /\ tickPending = FALSE
    /\ cancelled = FALSE
    /\ \E k \in Keys : window = Window(k)

-----------------------------------------------------------------------------
\* Mutant of Paid: the refill is taken but the balance is not struck anew.
PaidWithoutAdvance(b) == Present(Tokens(b) - Cost, b.sinceLast, 0)

\* Mutant of Paid: the refill is not cut off at the burst.
PaidUncapped(b) == Present(b.credit + b.sinceLast - Cost, 0, 0)

Paid(b) == Present(Tokens(b) - Cost, 0, 0)

Seen(b) == [b EXCEPT !.sinceSeen = 0]

AllowGrants(k) ==
    /\ Tokens(Entry(k)) >= Cost
    /\ buckets' = [buckets EXCEPT ![k] = Paid(Entry(k))]
    /\ verdict' = Verdict(k, TRUE)
    /\ window' = IF window.key = k
                 THEN [window EXCEPT !.spent = @ + Cost] ELSE window
    /\ UNCHANGED evictVars

AllowRefuses(k) ==
    /\ Tokens(Entry(k)) < Cost
    /\ buckets' = [buckets EXCEPT ![k] = Seen(Entry(k))]
    /\ verdict' = Verdict(k, FALSE)
    /\ UNCHANGED <<window, evictVars>>

Allow(k) == AllowGrants(k) \/ AllowRefuses(k)

\* Mutant of Idle: idle is measured against half the time to live.
IdleEarly(b) == 2 * b.sinceSeen > IdleTTL

\* Mutant of Idle: Before and After are swapped.
Recent(b) == b.sinceSeen < IdleTTL

Idle(b) == b.sinceSeen > IdleTTL

\* RateLimitEvictor: the tick is received, then Evict takes the lock.  The limiter is
\* there: its initializer has run before any background routine does.
EvictorTicks ==
    /\ evictor = "running" /\ tickPending
    /\ evictor' = "sweeping" /\ tickPending' = FALSE
    /\ UNCHANGED <<buckets, verdict, tickIn, cancelled, window>>

Evict ==
    /\ evictor = "sweeping"
    /\ evictor' = "running"
    /\ buckets' = [k \in Keys |->
                      IF buckets[k].present /\ Idle(buckets[k])
                      THEN Absent ELSE buckets[k]]
    /\ UNCHANGED <<verdict, tickIn, tickPending, cancelled, window>>

EvictorStops ==
    /\ evictor = "running" /\ cancelled
    /\ evictor' = "stopped" /\ tickPending' = FALSE
    /\ UNCHANGED <<buckets, verdict, tickIn, cancelled, window>>

Cancel ==
    /\ ~cancelled /\ cancelled' = TRUE
    /\ UNCHANGED <<buckets, verdict, evictor, tickIn, tickPending, window>>

-----------------------------------------------------------------------------
\* Ages stop where they no longer make a difference.
Aged(b) ==
    IF b.present
    THEN Present(b.credit, AtMost(b.sinceLast + 1, Capacity),
                 AtMost(b.sinceSeen + 1, IdleTTL + EvictPeriod + 1))
    ELSE b

Elapse ==
    /\ buckets' = [k \in Keys |-> Aged(buckets[k])]
    /\ tickIn' = IF tickIn > 1 THEN tickIn - 1 ELSE EvictPeriod
    /\ tickPending' = (evictor # "stopped" /\ (tickPending \/ tickIn <= 1))
    /\ window' = IF window.len < MaxWindow
                 THEN [window EXCEPT !.len = @ + 1] ELSE Window(window.key)
    /\ UNCHANGED <<verdict, evictor, cancelled>>

Audit(k) ==
    /\ window' = Window(k)
    /\ UNCHANGED <<buckets, verdict, evictVars>>

Next ==
    \/ \E k \in Keys : Allow(k) \/ Audit(k)
    \/ EvictorTicks \/ Evict \/ EvictorStops \/ Cancel \/ Elapse

Spec == Init /\ [][Next]_vars

-----------------------------------------------------------------------------
Entries ==
    [credit : 0 .. Capacity, sinceLast : 0 .. Capacity,
     sinceSeen : 0 .. IdleTTL + EvictPeriod + 1, present : BOOLEAN]

\* No bucket holds less than nothing or more than the burst.
TypeOK ==
    /\ buckets \in [Keys -> Entries]
    /\ verdict \in {NoVerdict} \cup [kind : {"answer"}, key : Keys, ok : BOOLEAN]
    /\ evictor \in {"running", "sweeping", "stopped"}
    /\ tickIn \in 1 .. EvictPeriod /\ tickPending \in BOOLEAN
    /\ cancelled \in BOOLEAN
    /\ window \in [key : Keys, len : Nat, spent : Nat]

\* The promise of New (limiter.go:32-34) across forgetting: in any window of
\* time a key is granted no more than its burst and what flowed in since.
WithinRate == window.spent <= Capacity + window.len

\* Memory is bounded by recent traffic (limiter.go:59-62): while the evictor
\* keeps up, so that no tick waits for it, a key that has been silent for the
\* time to live and a period has no bucket.
IdleKeysAreForgotten ==
    evictor = "running" /\ ~tickPending =>
        \A k \in Keys :
            buckets[k].present => buckets[k].sinceSeen <= IdleTTL + EvictPeriod

\* The limiter implements the bucket that never forgets: eviction cannot be
\* told from the outside, if a key idle for IdleTTL has a full bucket.
Level == [k \in Keys |-> Tokens(Entry(k))]
Promise == INSTANCE TokenBucket WITH level <- Level

ImplementsTokenBucket == Promise!Spec
=============================================================================
