---------------------------- MODULE JwtKeysCache ----------------------------
(***************************************************************************)
(* The public-key cache of jwtkeys/cache.go: one goroutine (Run, runLoop,  *)
(* tick) refreshes the keys on a ticker, every refresh starts a child      *)
(* goroutine that calls the authservice and answers on a channel of its    *)
(* own, and the refresh waits for that channel or for a timeout.           *)
(*                                                                         *)
(* A key set is the number of the authservice's rotation that published    *)
(* it; 0 is the empty set.  Time is discrete and every clock of the code   *)
(* is a counter: an age since an event, or a countdown to a timer.         *)
(***************************************************************************)
EXTENDS Integers, FiniteSets

CONSTANTS
    MaxGen,         \* bound: the number of key rotations of the authservice
    MaxLate,        \* bound: abandoned fetches that may still answer
    AgeCap,         \* bound: the ages stop counting here
    Intervals,      \* the arguments Configure is called with
    DefaultRefreshInterval,
    DefaultFetchTimeout,
    Minute,         \* runLoop's back-off after a panic
    Hour,           \* noteStale's distance between two reports
    Prompt,         \* TRUE: a goroutine that can run does so before time passes
    CanPanic,       \* TRUE: a refresh may panic
    LateConfigure   \* TRUE: Configure is also called while the loop runs

ASSUME ConstantsAssumption ==
    /\ MaxGen \in Nat /\ MaxLate \in Nat
    /\ AgeCap \in Nat
    /\ Intervals \subseteq Int
    /\ DefaultRefreshInterval \in Nat \ {0}
    /\ DefaultFetchTimeout \in Nat \ {0}
    /\ Minute \in Nat \ {0} /\ Hour \in Nat \ {0}
    /\ {Prompt, CanPanic, LateConfigure} \subseteq BOOLEAN

VARIABLES
    keys,             \* Cache.keys, as a rotation number
    sinceSuccess,     \* the age of Cache.lastSuccess, Never for the zero time
    staleLogged,      \* Cache.staleLogged
    sinceStaleLog,    \* the age of Cache.lastStaleLog
    refreshInterval,  \* Cache.refreshInterval
    refreshTimeout,   \* Cache.refreshTimeout
    pc,               \* where the refresh goroutine is
    timer,            \* countdown of the time.After it selects on
    period,           \* interval of its ticker, 0 when it has none
    tickIn,           \* countdown of the ticker
    tickPending,      \* a tick lies in the ticker's channel (capacity 1)
    fetch,            \* the child goroutine of the refresh in progress
    ch,               \* the channel of the refresh in progress
    late,             \* the child goroutines of timed-out refreshes
    cancelled,        \* ctx.Done() is closed
    sinceCancel,      \* the time since that, from Run on
    authGen,          \* the authservice's latest rotation
    up,               \* the authservice answers well and at once
    startGen          \* history: authGen when the refresh in progress began

cacheVars == <<keys, sinceSuccess, staleLogged, sinceStaleLog>>
confVars  == <<refreshInterval, refreshTimeout>>
tickVars  == <<period, tickIn, tickPending>>
fetchVars == <<fetch, ch, late, startGen>>
ctxVars   == <<cancelled, sinceCancel>>
envVars   == <<authGen, up>>
vars == <<cacheVars, confVars, pc, timer, tickVars, fetchVars, ctxVars, envVars>>

Never == -1

\* What a fetch yields.  A panic in the fetch is an error (recover).
KeysReply(g) == [kind |-> "keys", gen |-> g]
ErrorReply   == [kind |-> "error", gen |-> 0]
EmptyReply   == [kind |-> "empty", gen |-> 0]
Unserved     == [kind |-> "unserved", gen |-> 0]   \* no answer yet
NoReply      == [kind |-> "none", gen |-> 0]       \* an empty channel
Replies      == {KeysReply(g) : g \in 1 .. MaxGen} \cup {ErrorReply, EmptyReply}

Published == IF authGen = 0 THEN EmptyReply ELSE KeysReply(authGen)
Answers   == IF up THEN {Published} ELSE {Published, ErrorReply, EmptyReply}

Refreshing == pc \in {"first", "refresh"}

Init ==
    /\ keys = 0 /\ sinceSuccess = Never
    /\ staleLogged = FALSE /\ sinceStaleLog = AgeCap
    /\ refreshInterval = DefaultRefreshInterval
    /\ refreshTimeout = DefaultFetchTimeout
    /\ pc = "new" /\ timer = 0
    /\ period = 0 /\ tickIn = 0 /\ tickPending = FALSE
    /\ fetch = NoReply /\ ch = NoReply /\ late = {} /\ startGen = 0
    /\ cancelled = FALSE /\ sinceCancel = 0
    /\ authGen = 0 /\ up \in BOOLEAN

-----------------------------------------------------------------------------
\* Mutant of Tuned: zero and negative values are taken.
TunedToAnything(value, current) == value

Tuned(value, current) == IF value > 0 THEN value ELSE current

\* Configure: zero and negative values keep the current value.
Configure(interval, timeout) ==
    /\ pc = "new" \/ LateConfigure
    /\ refreshInterval' = Tuned(interval, refreshInterval)
    /\ refreshTimeout' = Tuned(timeout, refreshTimeout)
    /\ UNCHANGED <<cacheVars, pc, timer, tickVars, fetchVars, ctxVars, envVars>>

\* Mutant of FetchTimer: the two knobs are mixed up.
IntervalTimer == refreshInterval

FetchTimer == refreshTimeout

\* The head of refresh: a new channel, a new child goroutine, a new timer.
BeginRefresh ==
    /\ fetch' = Unserved
    /\ ch' = NoReply
    /\ startGen' = authGen
    /\ timer' = FetchTimer

\* Run and Start: the first refresh, before the loop and before any look
\* at ctx.
Run ==
    /\ pc = "new"
    /\ pc' = "first"
    /\ BeginRefresh
    /\ UNCHANGED <<cacheVars, confVars, tickVars, late, ctxVars, envVars>>

NewTicker ==
    /\ period' = refreshInterval
    /\ tickIn' = refreshInterval
    /\ tickPending' = FALSE

StopTicker ==
    /\ period' = 0
    /\ tickIn' = 0
    /\ tickPending' = FALSE

\* The end of refresh: back to tick's select, which the first refresh
\* enters with a new ticker.
EndRefresh ==
    /\ pc' = "select"
    /\ fetch' = NoReply /\ ch' = NoReply /\ startGen' = 0
    /\ timer' = 0
    /\ IF pc = "first" THEN NewTicker ELSE UNCHANGED tickVars

\* Mutant of Due: one report, never repeated.
DueOnce == ~staleLogged

Due == ~staleLogged \/ sinceStaleLog >= Hour

NoteStale ==
    /\ UNCHANGED <<keys, sinceSuccess>>
    /\ LET fresh == sinceSuccess # Never /\ sinceSuccess < refreshInterval
       IN  IF ~fresh /\ Due
           THEN staleLogged' = TRUE /\ sinceStaleLog' = 0
           ELSE UNCHANGED <<staleLogged, sinceStaleLog>>

TickerFires ==
    /\ pc = "select" /\ tickPending
    /\ tickPending' = FALSE
    /\ pc' = "refresh"
    /\ BeginRefresh
    /\ UNCHANGED <<cacheVars, confVars, period, tickIn, late, ctxVars, envVars>>

\* Mutant of Usable: an empty answer is installed.
NoError(r) == r.kind \in {"keys", "empty"}

Usable(r) == r.kind = "keys"

\* Mutant of Install: staleness tracking is not reset.
InstallOnly(g) == keys' = g /\ sinceSuccess' = 0 /\ UNCHANGED staleLogged

Install(g) == keys' = g /\ sinceSuccess' = 0 /\ staleLogged' = FALSE

RefreshSucceeds ==
    /\ Refreshing /\ Usable(ch)
    /\ Install(ch.gen)
    /\ EndRefresh
    /\ UNCHANGED <<sinceStaleLog, confVars, late, ctxVars, envVars>>

RefreshFails ==
    /\ Refreshing /\ ch.kind \in {"error", "empty"}
    /\ NoteStale
    /\ EndRefresh
    /\ UNCHANGED <<confVars, late, ctxVars, envVars>>

\* The timer fires.  The child goroutine runs on; it may answer later
\* (late) or never (it is forgotten: PublicKeys takes no deadline).
Abandon ==
    \/ late' = late
    \/ /\ fetch # NoReply /\ Cardinality(late) < MaxLate
       /\ late' = late \cup {fetch}

\* Mutant of RefreshTimesOut: only errors count as stale.
RefreshTimesOutSilently ==
    /\ Refreshing /\ timer = 0
    /\ Abandon
    /\ EndRefresh
    /\ UNCHANGED <<cacheVars, confVars, ctxVars, envVars>>

RefreshTimesOut ==
    /\ Refreshing /\ timer = 0
    /\ NoteStale
    /\ Abandon
    /\ EndRefresh
    /\ UNCHANGED <<confVars, ctxVars, envVars>>

\* A panic in a refresh of the loop: tick stops its ticker, runLoop backs
\* off for a minute and starts tick again.
RefreshPanics ==
    /\ CanPanic /\ pc = "refresh"
    /\ pc' = "backoff"
    /\ timer' = Minute
    /\ fetch' = NoReply /\ ch' = NoReply /\ startGen' = 0
    /\ Abandon
    /\ StopTicker
    /\ UNCHANGED <<cacheVars, confVars, ctxVars, envVars>>

\* Mutant of BackoffEnds: the loop resumes on the stopped ticker.
BackoffEndsWithoutTicker ==
    /\ pc = "backoff" /\ timer = 0
    /\ pc' = "select"
    /\ UNCHANGED <<cacheVars, confVars, timer, tickVars, fetchVars, ctxVars, envVars>>

BackoffEnds ==
    /\ pc = "backoff" /\ timer = 0
    /\ pc' = "select"
    /\ NewTicker
    /\ UNCHANGED <<cacheVars, confVars, timer, fetchVars, ctxVars, envVars>>

\* Mutant of Selecting: tick's select has no ctx.Done() case.
BackingOff == pc = "backoff"

Selecting == pc \in {"select", "backoff"}

\* ctx.Done() is seen in tick's select and in the back-off, and nowhere
\* else: a refresh in progress ends first.
StopLoop ==
    /\ Selecting /\ cancelled
    /\ pc' = "stopped"
    /\ timer' = 0
    /\ StopTicker
    /\ UNCHANGED <<cacheVars, confVars, fetchVars, ctxVars, envVars>>

-----------------------------------------------------------------------------
\* The child goroutine: the authservice answers the call, then the answer
\* reaches the goroutine, which sends it on its refresh's channel.  The
\* channel of a refresh that timed out has no reader.
Serve ==
    /\ Refreshing /\ fetch = Unserved
    /\ \E r \in Answers : fetch' = r
    /\ UNCHANGED <<cacheVars, confVars, pc, timer, tickVars, ch, late, startGen,
                   ctxVars, envVars>>

Answer ==
    /\ Refreshing /\ fetch \in Replies
    /\ ch' = fetch
    /\ fetch' = NoReply
    /\ UNCHANGED <<cacheVars, confVars, pc, timer, tickVars, late, startGen,
                   ctxVars, envVars>>

LateServe ==
    /\ Unserved \in late
    /\ \E r \in Answers : late' = (late \ {Unserved}) \cup {r}
    /\ UNCHANGED <<cacheVars, confVars, pc, timer, tickVars, fetch, ch, startGen,
                   ctxVars, envVars>>

\* Mutant of SendLate: all refreshes share one channel.
SendOnSharedChannel(r) == ch' = IF Refreshing THEN r ELSE ch

SendLate(r) == UNCHANGED ch

LateAnswer ==
    /\ \E r \in late \ {Unserved} : late' = late \ {r} /\ SendLate(r)
    /\ UNCHANGED <<cacheVars, confVars, pc, timer, tickVars, fetch, startGen,
                   ctxVars, envVars>>

-----------------------------------------------------------------------------
\* The surroundings: the authservice rotates its keys, fails and recovers;
\* the application cancels ctx; time passes.
Rotate ==
    /\ authGen < MaxGen
    /\ authGen' = authGen + 1
    /\ UNCHANGED <<cacheVars, confVars, pc, timer, tickVars, fetchVars, ctxVars, up>>

ServiceChanges ==
    /\ up' = ~up
    /\ UNCHANGED <<cacheVars, confVars, pc, timer, tickVars, fetchVars, ctxVars,
                   authGen>>

Cancel ==
    /\ ~cancelled
    /\ cancelled' = TRUE
    /\ UNCHANGED <<cacheVars, confVars, pc, timer, tickVars, fetchVars, sinceCancel,
                   envVars>>

\* Something is ready to run now.  An authservice that is up answers
\* within the unit of time.
Ready ==
    \/ pc = "select" /\ (tickPending \/ cancelled)
    \/ pc = "backoff" /\ (timer = 0 \/ cancelled)
    \/ Refreshing /\ (ch # NoReply \/ timer = 0 \/ fetch # Unserved \/ up)

Age(n) == IF n = Never \/ n >= AgeCap THEN n ELSE n + 1

Elapse ==
    /\ Prompt => ~Ready
    /\ sinceSuccess' = Age(sinceSuccess)
    /\ sinceStaleLog' = Age(sinceStaleLog)
    /\ sinceCancel' = IF cancelled /\ pc # "new" THEN Age(sinceCancel) ELSE sinceCancel
    /\ timer' = IF timer > 0 THEN timer - 1 ELSE 0
    /\ IF period = 0
       THEN UNCHANGED <<tickIn, tickPending>>
       ELSE /\ tickIn' = IF tickIn > 1 THEN tickIn - 1 ELSE period
            /\ tickPending' = (tickPending \/ tickIn <= 1)
    /\ UNCHANGED <<keys, staleLogged, confVars, pc, period, fetchVars, cancelled,
                   envVars>>

-----------------------------------------------------------------------------
LoopStep ==
    \/ TickerFires \/ RefreshSucceeds \/ RefreshFails \/ RefreshTimesOut
    \/ RefreshPanics \/ BackoffEnds \/ StopLoop

Next ==
    \/ \E i, t \in Intervals : Configure(i, t)
    \/ Run
    \/ LoopStep
    \/ Serve \/ Answer \/ LateServe \/ LateAnswer
    \/ Rotate \/ ServiceChanges \/ Cancel \/ Elapse

Spec == Init /\ [][Next]_vars

\* Fairness: the goroutine is scheduled, time passes (an authservice that comes
\* and goes does not stop the clock), and a select with several ready cases does not refuse the same one for ever (Go chooses
\* among them at random).  Nothing is assumed of the authservice, except
\* that it answers while it is up.
Fairness ==
    /\ SF_vars(Elapse)
    /\ WF_vars(LoopStep)
    /\ SF_vars(StopLoop)
    /\ SF_vars(TickerFires)
    /\ SF_vars(RefreshSucceeds)
    /\ WF_vars(up /\ Serve)
    /\ WF_vars(Answer)

FairSpec == Spec /\ Fairness

-----------------------------------------------------------------------------
\* Rotations and ages within their bounds, and positive tunables: NewTicker
\* panics on any other.
TypeOK ==
    /\ keys \in 0 .. MaxGen
    /\ sinceSuccess \in 0 .. AgeCap \cup {Never}
    /\ staleLogged \in BOOLEAN
    /\ sinceStaleLog \in 0 .. AgeCap
    /\ refreshInterval \in Nat \ {0}
    /\ refreshTimeout \in Nat \ {0}
    /\ pc \in {"new", "first", "select", "refresh", "backoff", "stopped"}
    /\ timer \in Nat
    /\ period \in Nat /\ tickIn \in Nat /\ tickPending \in BOOLEAN
    /\ fetch \in Replies \cup {Unserved, NoReply}
    /\ ch \in Replies \cup {NoReply}
    /\ late \subseteq Replies \cup {Unserved}
    /\ cancelled \in BOOLEAN
    /\ sinceCancel \in 0 .. AgeCap
    /\ authGen \in 0 .. MaxGen
    /\ up \in BOOLEAN
    /\ startGen \in 0 .. MaxGen

\* Keys never go back: no interleaving of slow fetches, timeouts and
\* rotations replaces the cached keys by an older rotation's, and no
\* failure, empty answer or timeout clears them ("a transient failure
\* never clears previously-cached good keys", cache.go:145).
KeysNeverGoBack == [][keys' >= keys]_vars

\* Whatever happens to fetches, timers and channels, those who verify tokens see
\* a KeyStore: its keys jump from one rotation to the same or a later one, published
\* already, and never to none (cache.go:140-199).
Store == INSTANCE KeyStore
ImplementsKeyStore == Store!Spec

\* The answer a refresh finds in its channel was current at some moment
\* since that refresh began: the late answer of an earlier refresh, one
\* that timed out, is never taken for its result.
AnswersAreFresh ==
    ch.kind = "keys" => Refreshing /\ startGen <= ch.gen /\ ch.gen <= authGen

\* The report of staleness is no false alarm: it stands only while the
\* last success is a whole refresh interval old (noteStale's comment).
NoFalseAlarm ==
    staleLogged /\ sinceSuccess # Never => sinceSuccess >= refreshInterval

\* Staleness does not go unreported: with goroutines that run promptly,
\* keys that have the age of two intervals and a fetch are reported, and
\* keys that were never fetched are reported as soon as the first refresh
\* is over.
StaleIsReported ==
    /\ pc \in {"select", "refresh"}
    /\ sinceSuccess = Never \/ sinceSuccess >= 2 * refreshInterval + refreshTimeout
    => staleLogged

\* "then re-logs at most hourly while still stale": the reports of a
\* lasting outage do not dry up, the latest one is always younger than an
\* hour, an interval and a fetch.
ReportsGoOn ==
    pc \in {"select", "refresh"} /\ staleLogged
    => sinceStaleLog < Hour + refreshInterval + refreshTimeout

\* A fetch that hangs does not hold up shutdown: with goroutines that run
\* promptly and a timeout below the interval, the loop has stopped one
\* fetch timeout after ctx was cancelled ("a stuck downstream call can
\* never wedge the refresh loop", cache.go:5).
StopsWithinATimeout ==
    cancelled /\ pc # "stopped" /\ refreshTimeout < refreshInterval
    => sinceCancel <= refreshTimeout

\* The goroutine a WaitGroup tracks does exit: once ctx is cancelled the
\* loop stops, whatever the authservice does.
StopsWhenCancelled == (cancelled /\ pc # "new") ~> (pc = "stopped")

\* Recovery: an authservice that stays up for good is believed, and the
\* cache comes to hold its latest keys again and again, after every panic,
\* hanging fetch and failed refresh that came before.
RecoversWhenServiceIsBack ==
    (<>[](up /\ authGen > 0 /\ pc # "new"))
    => \/ []<>(keys = authGen \/ cancelled)
       \/ []<><<RefreshPanics>>_vars
=============================================================================
