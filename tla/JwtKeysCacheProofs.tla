------------------------- MODULE JwtKeysCacheProofs -------------------------
(***************************************************************************)
(* The safety of the key cache for every number of rotations and of late   *)
(* fetches, all intervals, and every bound on the ages.                    *)
(***************************************************************************)
EXTENDS JwtKeysCache, TLAPS

-----------------------------------------------------------------------------
LEMMA InitType == Init => TypeOK
<1> SUFFICES ASSUME Init PROVE TypeOK
  OBVIOUS
<1> USE ConstantsAssumption DEF ConstantsAssumption, Init
<1>1. /\ keys \in 0 .. MaxGen /\ authGen \in 0 .. MaxGen /\ startGen \in 0 .. MaxGen
      /\ sinceSuccess \in 0 .. AgeCap \cup {Never}
      /\ sinceStaleLog \in 0 .. AgeCap /\ sinceCancel \in 0 .. AgeCap
  OBVIOUS
<1>2. /\ refreshInterval \in Nat \ {0} /\ refreshTimeout \in Nat \ {0}
      /\ timer \in Nat /\ period \in Nat /\ tickIn \in Nat
  OBVIOUS
<1>3. {tickPending, cancelled, up, staleLogged} \subseteq BOOLEAN
  OBVIOUS
<1>4. /\ fetch \in Replies \cup {Unserved, NoReply} /\ ch \in Replies \cup {NoReply}
      /\ late \subseteq Replies \cup {Unserved}
      /\ pc \in {"new", "first", "select", "refresh", "backoff", "stopped"}
  OBVIOUS
<1> QED
  BY <1>1, <1>2, <1>3, <1>4, Zenon DEF TypeOK

LEMMA StepType == TypeOK /\ [Next]_vars => TypeOK'
<1> SUFFICES ASSUME TypeOK, [Next]_vars PROVE TypeOK'
  OBVIOUS
<1> USE ConstantsAssumption DEF ConstantsAssumption, TypeOK
<1>1. CASE \E i, t \in Intervals : Configure(i, t)
  BY <1>1 DEF Configure, Tuned, cacheVars, tickVars, fetchVars, ctxVars, envVars
<1>2. CASE Run
  BY <1>2 DEF Run, BeginRefresh, FetchTimer, cacheVars, confVars, tickVars, ctxVars, envVars
<1>3. CASE TickerFires
  BY <1>3 DEF TickerFires, BeginRefresh, FetchTimer, cacheVars, confVars, ctxVars, envVars
<1>4. CASE RefreshSucceeds
  <2> USE <1>4 DEF RefreshSucceeds, confVars, ctxVars, envVars
  <2>1. ch.gen \in 0 .. MaxGen /\ sinceStaleLog' = sinceStaleLog
    BY DEF Usable, Replies, KeysReply, NoReply, ErrorReply, EmptyReply
  <2>2. keys' \in 0 .. MaxGen /\ sinceSuccess' \in 0 .. AgeCap \cup {Never}
    BY <2>1 DEF Install
  <2>5. staleLogged' \in BOOLEAN
    BY DEF Install
  <2>3. pc' = "select" /\ timer' \in Nat /\ period' \in Nat /\ tickIn' \in Nat /\ tickPending' \in BOOLEAN
    BY DEF EndRefresh, NewTicker, tickVars
  <2>4. fetch' = NoReply /\ ch' = NoReply /\ startGen' \in 0 .. MaxGen
    BY DEF EndRefresh
  <2> QED
    BY <2>1, <2>2, <2>3, <2>4, <2>5
<1>5. CASE RefreshFails
  <2> USE <1>5 DEF RefreshFails, confVars, ctxVars, envVars
  <2>1. keys' \in 0 .. MaxGen /\ sinceSuccess' \in 0 .. AgeCap \cup {Never}
    BY DEF NoteStale
  <2>2. sinceStaleLog' \in 0 .. AgeCap
    BY DEF NoteStale
  <2>6. staleLogged' \in BOOLEAN
    BY DEF NoteStale
  <2>3. pc' = "select" /\ timer' \in Nat /\ period' \in Nat /\ tickIn' \in Nat /\ tickPending' \in BOOLEAN
    BY DEF EndRefresh, NewTicker, tickVars
  <2>4. fetch' = NoReply /\ ch' = NoReply /\ startGen' \in 0 .. MaxGen
    BY DEF EndRefresh
  <2> QED
    BY <2>1, <2>2, <2>3, <2>4, <2>6
<1>6. CASE RefreshTimesOut
  <2> USE <1>6 DEF RefreshTimesOut, confVars, ctxVars, envVars
  <2>1. keys' \in 0 .. MaxGen /\ sinceSuccess' \in 0 .. AgeCap \cup {Never}
    BY DEF NoteStale
  <2>2. sinceStaleLog' \in 0 .. AgeCap
    BY DEF NoteStale
  <2>6. staleLogged' \in BOOLEAN
    BY DEF NoteStale
  <2>3. pc' = "select" /\ timer' \in Nat /\ period' \in Nat /\ tickIn' \in Nat /\ tickPending' \in BOOLEAN
    BY DEF EndRefresh, NewTicker, tickVars
  <2>4. fetch' = NoReply /\ ch' = NoReply /\ startGen' \in 0 .. MaxGen
    BY DEF EndRefresh
  <2>5. late' \subseteq Replies \cup {Unserved}
    BY DEF Abandon
  <2> QED
    BY <2>1, <2>2, <2>3, <2>4, <2>5, <2>6
<1>7. CASE RefreshPanics
  <2> USE <1>7 DEF RefreshPanics, cacheVars, confVars, ctxVars, envVars
  <2>1. late' \subseteq Replies \cup {Unserved}
    BY DEF Abandon
  <2>2. timer' \in Nat /\ period' \in Nat /\ tickIn' \in Nat
    BY DEF StopTicker
  <2>3. tickPending' \in BOOLEAN
    BY DEF StopTicker
  <2>4. fetch' = NoReply /\ ch' = NoReply /\ startGen' \in 0 .. MaxGen
    OBVIOUS
  <2> QED
    BY <2>1, <2>2, <2>3, <2>4
<1>8. CASE BackoffEnds
  BY <1>8 DEF BackoffEnds, NewTicker, cacheVars, confVars, fetchVars, ctxVars, envVars
<1>9. CASE StopLoop
  BY <1>9 DEF StopLoop, StopTicker, cacheVars, confVars, fetchVars, ctxVars, envVars
<1>10. CASE Serve
  BY <1>10 DEF Serve, Answers, Published, Replies, cacheVars, confVars, tickVars, ctxVars, envVars
<1>11. CASE Answer
  BY <1>11 DEF Answer, cacheVars, confVars, tickVars, ctxVars, envVars
<1>12. CASE LateServe
  BY <1>12 DEF LateServe, Answers, Published, Replies, cacheVars, confVars, tickVars, ctxVars, envVars
<1>13. CASE LateAnswer
  BY <1>13 DEF LateAnswer, SendLate, cacheVars, confVars, tickVars, ctxVars, envVars
<1>14. CASE Rotate
  BY <1>14 DEF Rotate, cacheVars, confVars, tickVars, fetchVars, ctxVars
<1>15. CASE ServiceChanges
  BY <1>15 DEF ServiceChanges, cacheVars, confVars, tickVars, fetchVars, ctxVars
<1>16. CASE Cancel
  BY <1>16 DEF Cancel, cacheVars, confVars, tickVars, fetchVars, envVars
<1>17. CASE Elapse
  <2> USE <1>17 DEF Elapse, confVars, fetchVars, envVars
  <2>1. \A n \in 0 .. AgeCap : Age(n) \in 0 .. AgeCap
    BY DEF Age
  <2>2. Age(Never) = Never
    BY DEF Age
  <2>3. sinceSuccess' \in 0 .. AgeCap \cup {Never} /\ sinceStaleLog' \in 0 .. AgeCap /\ sinceCancel' \in 0 .. AgeCap
    BY <2>1, <2>2
  <2>4. timer' \in Nat /\ tickIn' \in Nat
    OBVIOUS
  <2>5. tickPending' \in BOOLEAN
    OBVIOUS
  <2> QED
    BY <2>3, <2>4, <2>5
<1>18. CASE UNCHANGED vars
  BY <1>18 DEF vars, cacheVars, confVars, tickVars, fetchVars, ctxVars, envVars
<1> QED
  BY <1>1, <1>2, <1>3, <1>4, <1>5, <1>6, <1>7, <1>8, <1>9, <1>10, <1>11, <1>12,
     <1>13, <1>14, <1>15, <1>16, <1>17, <1>18 DEF Next, LoopStep

\* The cache never holds a key set, nor a goroutine an answer, that the
\* authservice has not published yet (TypeOK of the module).
THEOREM TypeCorrect == Spec => []TypeOK
<1> QED
  BY InitType, StepType, PTL DEF Spec

-----------------------------------------------------------------------------
(* The strengthening of AnswersAreFresh and KeysNeverGoBack: the cached keys  *)
(* are no newer than the rotation at which the refresh in progress began, so  *)
(* that nothing a fetch of this refresh brings can be older than they are.    *)

Current(reply) ==
    reply.kind = "keys" => Refreshing /\ startGen <= reply.gen /\ reply.gen <= authGen

GenerationsInv ==
    /\ keys <= authGen
    /\ Refreshing => keys <= startGen /\ startGen <= authGen
    /\ Current(fetch)
    /\ Current(ch)

LEMMA InitGenerations == Init => GenerationsInv
<1> QED
  BY DEF Init, GenerationsInv, Current, Refreshing, NoReply

LEMMA ReplyKinds ==
    /\ \A r \in Replies : r.kind = "keys" => r.gen \in 1 .. MaxGen
    /\ NoReply.kind = "none" /\ Unserved.kind = "unserved"
<1> QED
  BY DEF Replies, KeysReply, ErrorReply, EmptyReply, NoReply, Unserved

LEMMA StepGenerations ==
    TypeOK /\ TypeOK' /\ GenerationsInv /\ [Next]_vars => GenerationsInv'
<1> SUFFICES ASSUME TypeOK, TypeOK', GenerationsInv, [Next]_vars PROVE GenerationsInv'
  OBVIOUS
<1>0. /\ keys \in Int /\ authGen \in Int /\ startGen \in Int
      /\ keys' \in Int /\ authGen' \in Int /\ startGen' \in Int
  BY ConstantsAssumption DEF ConstantsAssumption, TypeOK
<1> USE <1>0 DEF GenerationsInv, Current, Refreshing
\* Nothing the invariant speaks of changes.
<1>1. CASE \E i, t \in Intervals : Configure(i, t)
  BY <1>1 DEF Configure, cacheVars, fetchVars, envVars
<1>2. CASE BackoffEnds
  BY <1>2 DEF BackoffEnds, cacheVars, fetchVars, envVars
<1>3. CASE StopLoop
  BY <1>3 DEF StopLoop, Selecting, cacheVars, fetchVars, envVars
<1>4. CASE ServiceChanges \/ Cancel \/ Elapse \/ UNCHANGED vars
  BY <1>4 DEF ServiceChanges, Cancel, Elapse, vars, cacheVars, fetchVars, envVars
<1>5. CASE LateServe \/ LateAnswer
  BY <1>5 DEF LateServe, LateAnswer, SendLate, cacheVars, envVars
\* A refresh begins with all that was published before it.
<1>6. CASE Run \/ TickerFires
  BY <1>6, ReplyKinds DEF Run, TickerFires, BeginRefresh, cacheVars, envVars
\* The authservice answers with what it has published by then.
<1>7. CASE Serve
  <2>1. Current(fetch)'
    BY <1>7, ReplyKinds DEF Serve, Answers, Published, KeysReply, ErrorReply, EmptyReply, envVars
  <2> QED
    BY <1>7, <2>1 DEF Serve, cacheVars, envVars
<1>8. CASE Answer
  BY <1>8, ReplyKinds DEF Answer, cacheVars, envVars
\* A refresh ends; only its own answer may become the keys.
<1>9. CASE RefreshSucceeds
  BY <1>9, ReplyKinds DEF RefreshSucceeds, Usable, Install, EndRefresh, envVars
<1>10. CASE RefreshFails \/ RefreshTimesOut
  BY <1>10, ReplyKinds DEF RefreshFails, RefreshTimesOut, NoteStale, EndRefresh, envVars
<1>11. CASE RefreshPanics
  BY <1>11, ReplyKinds DEF RefreshPanics, cacheVars, envVars
<1>12. CASE Rotate
  <2>1. \A r \in {fetch, ch} : r.kind = "keys" => r.gen \in Int
    BY ReplyKinds, ConstantsAssumption DEF ConstantsAssumption, TypeOK
  <2> QED
    BY <1>12, <2>1 DEF Rotate, cacheVars, fetchVars
<1> QED
  BY <1>1, <1>2, <1>3, <1>4, <1>5, <1>6, <1>7, <1>8, <1>9, <1>10, <1>11, <1>12
     DEF Next, LoopStep

THEOREM GenerationsInOrder == Spec => []GenerationsInv
<1> QED
  BY InitType, StepType, InitGenerations, StepGenerations, PTL DEF Spec

\* No refresh ever finds the answer of an earlier one in its channel
\* (cache.go:149-160), for all numbers of late fetches.
THEOREM FreshAnswers == Spec => []AnswersAreFresh
<1>1. GenerationsInv => AnswersAreFresh
  BY DEF GenerationsInv, Current, AnswersAreFresh
<1> QED
  BY <1>1, GenerationsInOrder, PTL

\* The keys a service verifies tokens with never go back to an older
\* rotation's and are never cleared (cache.go:143-145).
THEOREM KeysOnlyMoveForward == Spec => KeysNeverGoBack
<1>1. TypeOK /\ TypeOK' /\ GenerationsInv /\ [Next]_vars => [keys' >= keys]_vars
  <2> SUFFICES ASSUME TypeOK, GenerationsInv, Next PROVE keys' >= keys
    OBVIOUS
  <2>0. keys \in Int /\ startGen \in Int
    BY ConstantsAssumption DEF ConstantsAssumption, TypeOK
  <2>1. CASE RefreshSucceeds
    <3>1. keys <= startGen /\ startGen <= ch.gen /\ keys' = ch.gen
      BY <2>1 DEF RefreshSucceeds, Usable, Install, GenerationsInv, Current
    <3>2. ch.gen \in Int
      BY <2>1, ReplyKinds, ConstantsAssumption
         DEF ConstantsAssumption, RefreshSucceeds, Usable, TypeOK
    <3> QED
      BY <2>0, <3>1, <3>2
  <2>2. CASE ~RefreshSucceeds
    <3>1. keys' = keys
      BY <2>2 DEF Next, LoopStep, Configure, Run, TickerFires, RefreshFails,
         RefreshTimesOut, NoteStale, RefreshPanics, BackoffEnds, StopLoop, Serve, Answer,
         LateServe, LateAnswer, Rotate, ServiceChanges, Cancel, Elapse, cacheVars
    <3> QED
      BY <2>0, <3>1
  <2> QED
    BY <2>1, <2>2
<1> QED
  BY <1>1, TypeCorrect, GenerationsInOrder, PTL DEF Spec, KeysNeverGoBack

\* Whoever verifies tokens may take the cache for a KeyStore (cache.go:140-199): the
\* end of a successful refresh is a Refresh, a rotation is a Rotate, and
\* everything else is a stutter, for every number of rotations and fetches.
THEOREM Refinement == Spec => ImplementsKeyStore
<1>1. Init => Store!Init
  BY DEF Init, Store!Init
<1>2. ASSUME TypeOK, TypeOK', GenerationsInv, GenerationsInv', [Next]_vars, [keys' >= keys]_vars
      PROVE  [Store!Next]_<<keys, authGen>>
  <2>0. keys \in Int /\ keys' \in Int /\ authGen \in Int /\ authGen' \in Int
    BY <1>2, ConstantsAssumption DEF ConstantsAssumption, TypeOK
  <2>1. CASE Rotate
    BY <2>1 DEF Rotate, cacheVars, Store!Next, Store!Rotate
  <2>2. CASE ~Rotate /\ Next
    <3>1. authGen' = authGen
      BY <2>2 DEF Next, LoopStep, Configure, Run, TickerFires, RefreshSucceeds, RefreshFails,
         RefreshTimesOut, RefreshPanics, BackoffEnds, StopLoop, Serve, Answer,
         LateServe, LateAnswer, ServiceChanges, Cancel, Elapse, envVars
    <3>2. keys' = keys \/ keys' >= keys
      BY <1>2 DEF vars, cacheVars
    <3>3. keys' \in keys..authGen
      BY <2>0, <3>1, <3>2, <1>2 DEF GenerationsInv
    <3> QED
      BY <3>1, <3>3 DEF Store!Next, Store!Refresh
  <2>3. CASE UNCHANGED vars
    BY <2>3 DEF vars, cacheVars, envVars
  <2> QED
    BY <1>2, <2>1, <2>2, <2>3
<1> QED
  BY <1>1, <1>2, TypeCorrect, GenerationsInOrder, KeysOnlyMoveForward, PTL
     DEF Spec, ImplementsKeyStore, Store!Spec, KeysNeverGoBack

-----------------------------------------------------------------------------
(* The reports of staleness and the shutdown, with Configure called before the *)
(* loop starts, as its comment asks (cache.go:67): a later call leaves the     *)
(* ticker its old interval, and the tests of the age use the new one.          *)

\* The ticker of the loop has the configured interval, no fetch is waited for
\* longer than the configured timeout, and the first refresh is the first to
\* report anything.
TickerInv ==
    /\ pc \in {"new", "first"} => ~staleLogged
    /\ pc = "new" => sinceCancel = 0
    /\ pc = "backoff" => CanPanic
    /\ Refreshing => timer <= refreshTimeout
    /\ IF pc \in {"select", "refresh"}
       THEN period = refreshInterval /\ tickIn \in 1 .. period
       ELSE period = 0 /\ ~tickPending

LEMMA InitTicker == Init => TickerInv
<1> QED
  BY DEF Init, TickerInv, Refreshing

LEMMA StepTicker ==
  ASSUME ~LateConfigure
  PROVE  TypeOK /\ TypeOK' /\ TickerInv /\ [Next]_vars => TickerInv'
<1> SUFFICES ASSUME TypeOK, TypeOK', TickerInv, [Next]_vars PROVE TickerInv'
  OBVIOUS
<1>0. /\ timer \in Nat /\ tickIn \in Nat /\ period \in Nat
      /\ refreshInterval \in Nat \ {0} /\ refreshTimeout \in Nat \ {0}
      /\ sinceCancel \in Int
  BY ConstantsAssumption DEF ConstantsAssumption, TypeOK
<1> USE <1>0 DEF TickerInv, Refreshing
<1>1. CASE \E i, t \in Intervals : Configure(i, t)
  BY <1>1 DEF Configure, cacheVars, tickVars, ctxVars
<1>2. CASE Run
  BY <1>2 DEF Run, BeginRefresh, FetchTimer, cacheVars, confVars, tickVars, ctxVars
<1>3. CASE TickerFires
  BY <1>3 DEF TickerFires, BeginRefresh, FetchTimer, cacheVars, confVars, ctxVars
<1>4. CASE RefreshSucceeds \/ RefreshFails \/ RefreshTimesOut
  <2>1. /\ pc' = "select" /\ UNCHANGED <<refreshInterval, refreshTimeout>>
        /\ period' = refreshInterval /\ tickIn' \in 1 .. period'
    BY <1>4 DEF RefreshSucceeds, RefreshFails, RefreshTimesOut, EndRefresh, NewTicker,
       confVars, tickVars
  <2> QED
    BY <2>1
<1>5. CASE RefreshPanics
  BY <1>5 DEF RefreshPanics, StopTicker, cacheVars, confVars, ctxVars
<1>6. CASE BackoffEnds
  BY <1>6 DEF BackoffEnds, NewTicker, cacheVars, confVars, ctxVars
<1>7. CASE StopLoop
  BY <1>7 DEF StopLoop, Selecting, StopTicker, cacheVars, confVars, ctxVars
<1>8. CASE Serve \/ Answer \/ LateServe \/ LateAnswer \/ Rotate \/ ServiceChanges \/ Cancel
           \/ UNCHANGED vars
  <2>1. UNCHANGED <<staleLogged, refreshInterval, refreshTimeout, pc, timer, period, tickIn,
                    tickPending, sinceCancel>>
    BY <1>8 DEF Serve, Answer, LateServe, LateAnswer, Rotate, ServiceChanges, Cancel, vars,
       cacheVars, confVars, tickVars, ctxVars
  <2> QED
    BY <2>1
<1>9. CASE Elapse
  BY <1>9 DEF Elapse, confVars
<1> QED
  BY <1>1, <1>2, <1>3, <1>4, <1>5, <1>6, <1>7, <1>8, <1>9 DEF Next, LoopStep

LEMMA AgesGrow == TypeOK => /\ Age(Never) = Never
                            /\ \A n \in 0 .. AgeCap : Age(n) \in {n, n + 1}
<1> QED
  BY ConstantsAssumption DEF ConstantsAssumption, Age, Never

\* A report stands only while the last success is a whole interval old
\* (cache.go:184-200), whatever refreshes, panics and fetches do in between.
THEOREM AlarmsAreTrue ==
  ASSUME ~LateConfigure
  PROVE  Spec => []NoFalseAlarm
<1>1. Init => NoFalseAlarm
  BY DEF Init, NoFalseAlarm
<1>2. TypeOK /\ TypeOK' /\ TickerInv /\ NoFalseAlarm /\ [Next]_vars => NoFalseAlarm'
  <2> SUFFICES ASSUME TypeOK, TypeOK', TickerInv, NoFalseAlarm, [Next]_vars
               PROVE  NoFalseAlarm'
    OBVIOUS
  <2>0. /\ refreshInterval \in Nat \ {0} /\ AgeCap \in Nat
        /\ sinceSuccess \in 0 .. AgeCap \cup {Never}
    BY ConstantsAssumption DEF ConstantsAssumption, TypeOK
  <2> USE <2>0 DEF NoFalseAlarm
  <2>1. CASE \E i, t \in Intervals : Configure(i, t)
    BY <2>1 DEF Configure, TickerInv, cacheVars
  <2>2. CASE RefreshSucceeds
    BY <2>2 DEF RefreshSucceeds, Install
  <2>3. CASE RefreshFails \/ RefreshTimesOut
    <3>1. UNCHANGED <<sinceSuccess, refreshInterval>>
      BY <2>3 DEF RefreshFails, RefreshTimesOut, NoteStale, confVars
    <3>2. CASE staleLogged
      BY <3>1, <3>2
    <3>3. CASE sinceSuccess = Never \/ sinceSuccess >= refreshInterval
      BY <3>1, <3>3
    <3>4. CASE ~staleLogged /\ sinceSuccess # Never /\ sinceSuccess < refreshInterval
      <4>1. UNCHANGED staleLogged
        BY <2>3, <3>4 DEF RefreshFails, RefreshTimesOut, NoteStale
      <4> QED
        BY <3>4, <4>1
    <3> QED
      BY <3>2, <3>3, <3>4 DEF Never
  <2>4. CASE Elapse
    <3>1. UNCHANGED <<staleLogged, refreshInterval>> /\ sinceSuccess' = Age(sinceSuccess)
      BY <2>4 DEF Elapse, confVars
    <3> QED
      BY <3>1, AgesGrow DEF Never
  <2>5. CASE Run \/ TickerFires \/ RefreshPanics \/ BackoffEnds \/ StopLoop \/ Serve \/ Answer
             \/ LateServe \/ LateAnswer \/ Rotate \/ ServiceChanges \/ Cancel
             \/ UNCHANGED vars
    <3>1. UNCHANGED <<staleLogged, sinceSuccess, refreshInterval>>
      BY <2>5 DEF Run, TickerFires, RefreshPanics, BackoffEnds, StopLoop, Serve, Answer,
         LateServe, LateAnswer, Rotate, ServiceChanges, Cancel, vars, cacheVars, confVars
    <3> QED
      BY <3>1
  <2> QED
    BY <2>1, <2>2, <2>3, <2>4, <2>5 DEF Next, LoopStep
<1> QED
  BY <1>1, <1>2, TypeCorrect, InitTicker, StepTicker, PTL DEF Spec

-----------------------------------------------------------------------------
(* With goroutines that run promptly (Prompt) an age and a countdown move      *)
(* together: their sum is what each of the three invariants bounds, over the   *)
(* wait for a tick and over the wait for a fetch.                              *)

\* Keys whose staleness is unreported: two intervals before the tick, and a
\* fetch more while that is waited for.
StaleInv ==
    pc \in {"select", "refresh"} /\ ~staleLogged =>
        /\ sinceSuccess # Never
        /\ pc = "select" /\ ~tickPending => sinceSuccess + tickIn < 2 * refreshInterval
        /\ pc = "select" /\ tickPending => sinceSuccess < 2 * refreshInterval
        /\ pc = "refresh" => sinceSuccess + timer < 2 * refreshInterval + refreshTimeout

\* The latest report of staleness that lasts: an hour and an interval, and a
\* fetch more while that is waited for.
ReportBounds ==
    /\ pc = "select" /\ ~tickPending => sinceStaleLog + tickIn < Hour + refreshInterval
    /\ pc = "select" /\ tickPending => sinceStaleLog < Hour + refreshInterval
    /\ pc = "refresh" => sinceStaleLog + timer < Hour + refreshInterval + refreshTimeout

ReportInv == staleLogged => ReportBounds

\* What leaves the two reports alone, in the state and in the clocks.
ReportsUnchanged ==
    UNCHANGED <<staleLogged, sinceSuccess, sinceStaleLog, refreshInterval, refreshTimeout, pc,
                timer, tickIn, tickPending>>

LEMMA OtherSteps ==
    Serve \/ Answer \/ LateServe \/ LateAnswer \/ Rotate \/ ServiceChanges \/ Cancel
    \/ UNCHANGED vars => ReportsUnchanged
<1> QED
  BY DEF Serve, Answer, LateServe, LateAnswer, Rotate, ServiceChanges, Cancel, vars,
     cacheVars, confVars, tickVars, ReportsUnchanged

\* Where the end of a refresh leaves the loop: at its select, with a ticker that
\* has an interval to go at most.
LEMMA RefreshEnds ==
    TypeOK /\ TickerInv /\ (RefreshSucceeds \/ RefreshFails \/ RefreshTimesOut)
    => /\ pc' = "select" /\ Refreshing
       /\ UNCHANGED <<refreshInterval, refreshTimeout>>
       /\ tickIn' \in 1 .. refreshInterval
<1> QED
  BY DEF TypeOK, TickerInv, RefreshSucceeds, RefreshFails, RefreshTimesOut, Refreshing,
     EndRefresh, NewTicker, confVars, tickVars

LEMMA StepStale ==
  ASSUME Prompt, ~CanPanic, ~LateConfigure
  PROVE  TypeOK /\ TypeOK' /\ TickerInv /\ TickerInv' /\ StaleInv /\ [Next]_vars => StaleInv'
<1> SUFFICES ASSUME TypeOK, TypeOK', TickerInv, TickerInv', StaleInv, [Next]_vars
             PROVE  StaleInv'
  OBVIOUS
<1>0. /\ timer \in Nat /\ tickIn \in Nat
      /\ refreshInterval \in Nat \ {0} /\ refreshTimeout \in Nat \ {0} /\ AgeCap \in Nat
      /\ sinceSuccess \in 0 .. AgeCap \cup {Never}
  BY ConstantsAssumption DEF ConstantsAssumption, TypeOK
<1> USE <1>0 DEF StaleInv, TickerInv, Never
<1>1. CASE \E i, t \in Intervals : Configure(i, t)
  BY <1>1 DEF Configure
<1>2. CASE Run \/ StopLoop
  BY <1>2 DEF Run, StopLoop
<1>3. CASE TickerFires
  BY <1>3 DEF TickerFires, BeginRefresh, FetchTimer, cacheVars, confVars
<1>4. CASE RefreshSucceeds
  <2>1. sinceSuccess' = 0
    BY <1>4 DEF RefreshSucceeds, Install
  <2> QED
    BY <1>4, <2>1, RefreshEnds
<1>5. CASE RefreshFails \/ RefreshTimesOut
  <2>1. UNCHANGED sinceSuccess
    BY <1>5 DEF RefreshFails, RefreshTimesOut, NoteStale
  <2>2. ~staleLogged' => sinceSuccess # Never /\ sinceSuccess < refreshInterval
    BY <1>5 DEF RefreshFails, RefreshTimesOut, NoteStale, Due
  <2> QED
    BY <1>5, <2>1, <2>2, RefreshEnds
<1>6. CASE RefreshPanics
  BY <1>6 DEF RefreshPanics
<1>7. CASE BackoffEnds
  BY <1>7 DEF BackoffEnds, TickerInv
<1>8. CASE ReportsUnchanged
  BY <1>8 DEF ReportsUnchanged
<1>9. CASE Elapse
  <2>1. /\ UNCHANGED <<staleLogged, refreshInterval, refreshTimeout, pc>>
        /\ sinceSuccess # Never => sinceSuccess' \in {sinceSuccess, sinceSuccess + 1}
        /\ timer' = IF timer > 0 THEN timer - 1 ELSE 0
    BY <1>9, AgesGrow DEF Elapse, confVars
  <2>2. CASE pc = "refresh"
    <3>1. timer > 0
      BY <1>9, <2>2 DEF Elapse, Ready, Refreshing
    <3> QED
      BY <2>1, <2>2, <3>1
  <2>3. CASE pc = "select"
    <3>1. ~tickPending
      BY <1>9, <2>3 DEF Elapse, Ready
    <3>2. period # 0 /\ (tickIn > 1 => tickIn' = tickIn - 1)
      BY <1>9, <2>3 DEF Elapse
    <3>3. tickPending' <=> tickIn <= 1
      BY <1>9, <3>1, <3>2, Zenon DEF Elapse
    <3> QED
      BY <2>1, <2>3, <3>1, <3>2, <3>3
  <2> QED
    BY <2>1, <2>2, <2>3
<1> QED
  BY <1>1, <1>2, <1>3, <1>4, <1>5, <1>6, <1>7, <1>8, <1>9, OtherSteps DEF Next, LoopStep

LEMMA InitReports == Init => StaleInv /\ ReportInv
<1> QED
  BY DEF Init, StaleInv, ReportInv

\* Keys that have the age of two intervals and a fetch are reported, and so are
\* keys that were never fetched, once the first refresh is over (cache.go:184-200).
THEOREM StalenessIsReported ==
  ASSUME Prompt, ~CanPanic, ~LateConfigure
  PROVE  Spec => []StaleIsReported
<1>1. TypeOK /\ TickerInv /\ StaleInv => StaleIsReported
  <2> SUFFICES ASSUME TypeOK, TickerInv, StaleInv, pc \in {"select", "refresh"}, ~staleLogged
               PROVE  /\ sinceSuccess # Never
                      /\ sinceSuccess < 2 * refreshInterval + refreshTimeout
    BY ConstantsAssumption DEF ConstantsAssumption, TypeOK, StaleIsReported, Never
  <2> QED
    BY ConstantsAssumption DEF ConstantsAssumption, TypeOK, TickerInv, StaleInv, Never
<1> QED
  BY <1>1, TypeCorrect, StepType, InitTicker, StepTicker, InitReports, StepStale, PTL DEF Spec

LEMMA ElapseKeepsBounds ==
  ASSUME Prompt
  PROVE  TypeOK /\ TickerInv /\ ReportBounds /\ Elapse => ReportBounds'
<1> SUFFICES ASSUME TypeOK, TickerInv, ReportBounds, Elapse PROVE ReportBounds'
  OBVIOUS
<1>0. /\ timer \in Nat /\ tickIn \in Nat /\ Hour \in Nat \ {0} /\ AgeCap \in Nat
      /\ refreshInterval \in Nat \ {0} /\ refreshTimeout \in Nat \ {0}
      /\ sinceStaleLog \in 0 .. AgeCap
  BY ConstantsAssumption DEF ConstantsAssumption, TypeOK
<1>1. /\ UNCHANGED <<refreshInterval, refreshTimeout, pc>>
      /\ sinceStaleLog' = sinceStaleLog \/ sinceStaleLog' = sinceStaleLog + 1
      /\ timer' = IF timer > 0 THEN timer - 1 ELSE 0
  BY <1>0, AgesGrow DEF Elapse, confVars
<1>2. CASE pc = "refresh"
  <2>1. timer' = timer - 1
    BY <1>0, <1>1, <1>2 DEF Elapse, Ready, Refreshing
  <2>2. CASE sinceStaleLog' = sinceStaleLog
    BY <1>0, <1>1, <1>2, <2>1, <2>2 DEF ReportBounds
  <2>3. CASE sinceStaleLog' = sinceStaleLog + 1
    BY <1>0, <1>1, <1>2, <2>1, <2>3 DEF ReportBounds
  <2> QED
    BY <1>1, <2>2, <2>3
<1>3. CASE pc = "select"
  <2>1. ~tickPending
    BY <1>3 DEF Elapse, Ready
  <2>2. period # 0 /\ (tickIn > 1 => tickIn' = tickIn - 1)
    BY <1>0, <1>3 DEF Elapse, TickerInv
  <2>3. tickPending' <=> tickIn <= 1
    BY <2>1, <2>2, Zenon DEF Elapse
  <2>4. tickIn \in Nat \ {0}
    BY <1>0, <1>3 DEF TickerInv
  <2>5. CASE sinceStaleLog' = sinceStaleLog
    BY <1>0, <1>1, <1>3, <2>1, <2>2, <2>3, <2>4, <2>5 DEF ReportBounds
  <2>6. CASE sinceStaleLog' = sinceStaleLog + 1
    BY <1>0, <1>1, <1>3, <2>1, <2>2, <2>3, <2>4, <2>6 DEF ReportBounds
  <2> QED
    BY <1>1, <2>5, <2>6
<1> QED
  BY <1>1, <1>2, <1>3 DEF ReportBounds

LEMMA StepReport ==
  ASSUME Prompt, ~CanPanic, ~LateConfigure
  PROVE  TypeOK /\ TypeOK' /\ TickerInv /\ NoFalseAlarm /\ ReportInv /\ [Next]_vars
         => ReportInv'
<1> SUFFICES ASSUME TypeOK, TypeOK', TickerInv, NoFalseAlarm, ReportInv, [Next]_vars,
                    staleLogged'
             PROVE  ReportBounds'
  BY DEF ReportInv
<1>0. /\ timer \in Nat /\ tickIn \in Nat /\ Hour \in Nat \ {0} /\ AgeCap \in Nat
      /\ refreshInterval \in Nat \ {0} /\ refreshTimeout \in Nat \ {0}
      /\ sinceStaleLog \in 0 .. AgeCap
      /\ sinceSuccess \in 0 .. AgeCap \cup {Never}
  BY ConstantsAssumption DEF ConstantsAssumption, TypeOK
<1> USE <1>0 DEF ReportBounds
<1>1. CASE \E i, t \in Intervals : Configure(i, t)
  BY <1>1 DEF Configure
<1>2. CASE Run \/ StopLoop
  BY <1>2 DEF Run, StopLoop
<1>3. CASE TickerFires
  BY <1>3 DEF TickerFires, BeginRefresh, FetchTimer, cacheVars, confVars, ReportInv
<1>4. CASE RefreshSucceeds
  <2>1. ~staleLogged'
    BY <1>4, Zenon DEF RefreshSucceeds, Install
  <2> QED
    BY <2>1, Zenon
\* A report that stands is no false alarm, so that only its age may keep the
\* failure from being reported again.
<1>5. CASE RefreshFails \/ RefreshTimesOut
  <2> DEFINE Fresh == sinceSuccess # Never /\ sinceSuccess < refreshInterval
  <2>1. NoteStale
    BY <1>5 DEF RefreshFails, RefreshTimesOut
  <2>2. staleLogged => ~Fresh
    <3>1. CASE sinceSuccess = Never
      BY <3>1
    <3>2. CASE sinceSuccess \in 0 .. AgeCap
      BY <3>2 DEF NoFalseAlarm
    <3> QED
      BY <3>1, <3>2
  <2>3. IF ~Fresh /\ Due THEN sinceStaleLog' = 0
                         ELSE staleLogged' = staleLogged /\ sinceStaleLog' = sinceStaleLog
    BY <2>1 DEF NoteStale
  <2>4. Due \/ (staleLogged /\ sinceStaleLog < Hour)
    BY DEF Due
  <2> HIDE DEF Fresh
  <2>5. CASE sinceStaleLog' = 0
    BY <1>5, <2>5, RefreshEnds
  <2>6. CASE sinceStaleLog' # 0
    <3>1. staleLogged /\ sinceStaleLog' = sinceStaleLog
      BY <2>3, <2>6, Zenon
    <3>2. sinceStaleLog < Hour
      BY <2>2, <2>3, <2>4, <2>6, <3>1, Zenon
    <3> QED
      BY <1>5, <3>1, <3>2, RefreshEnds
  <2> QED
    BY <2>5, <2>6
<1>6. CASE RefreshPanics
  BY <1>6 DEF RefreshPanics
<1>7. CASE BackoffEnds
  BY <1>7 DEF BackoffEnds, TickerInv
<1>8. CASE ReportsUnchanged
  <2>1. staleLogged
    BY <1>8, Zenon DEF ReportsUnchanged
  <2> QED
    BY <1>8, <2>1 DEF ReportsUnchanged, ReportInv
<1>9. CASE Elapse
  <2>1. staleLogged
    BY <1>9, Zenon DEF Elapse
  <2> QED
    BY <1>9, <2>1, ElapseKeepsBounds DEF ReportInv
<1> QED
  BY <1>1, <1>2, <1>3, <1>4, <1>5, <1>6, <1>7, <1>8, <1>9, OtherSteps DEF Next, LoopStep

\* The reports of a lasting outage do not dry up: the latest one is younger than
\* an hour, an interval and a fetch (cache.go:184-200).
THEOREM OutageIsReportedAgain ==
  ASSUME Prompt, ~CanPanic, ~LateConfigure
  PROVE  Spec => []ReportsGoOn
<1>1. TypeOK /\ TickerInv /\ ReportInv => ReportsGoOn
  BY ConstantsAssumption DEF ConstantsAssumption, TypeOK, TickerInv, ReportInv, ReportBounds, ReportsGoOn
<1> QED
  BY <1>1, TypeCorrect, StepType, InitTicker, StepTicker, AlarmsAreTrue, InitReports,
     StepReport, PTL DEF Spec

\* How long ctx has been cancelled: a refresh in progress has less of its timer
\* left than that, the loop at its select sees it at once.  With a timeout below
\* the interval no tick falls into the wait for a fetch.
StopInv ==
    /\ ~cancelled => sinceCancel = 0
    /\ refreshTimeout < refreshInterval =>
        /\ pc = "refresh" => ~tickPending /\ tickIn > timer
        /\ pc = "select" /\ tickPending => tickIn = period /\ sinceCancel = 0
        /\ Refreshing => sinceCancel + timer <= refreshTimeout
        /\ Selecting => sinceCancel <= refreshTimeout

LEMMA InitStop == Init => StopInv
<1> QED
  BY ConstantsAssumption
     DEF ConstantsAssumption, Init, StopInv, Refreshing, Selecting

LEMMA ElapseKeepsStop ==
  ASSUME Prompt
  PROVE  TypeOK /\ TypeOK' /\ TickerInv /\ StopInv /\ Elapse => StopInv'
<1> SUFFICES ASSUME TypeOK, TypeOK', TickerInv, StopInv, Elapse PROVE StopInv'
  OBVIOUS
<1>0. /\ timer \in Nat /\ tickIn \in Nat /\ sinceCancel \in Nat /\ sinceCancel' \in Nat
      /\ refreshInterval \in Nat \ {0} /\ refreshTimeout \in Nat \ {0}
  BY ConstantsAssumption DEF ConstantsAssumption, TypeOK
<1>1. /\ UNCHANGED <<refreshInterval, refreshTimeout, pc, period, cancelled>>
      /\ sinceCancel' = sinceCancel \/ (cancelled /\ sinceCancel' = sinceCancel + 1)
  BY AgesGrow DEF Elapse, confVars, TypeOK
<1>2. ~cancelled' => sinceCancel' = 0
  BY <1>1 DEF StopInv
<1>3. CASE refreshTimeout < refreshInterval /\ Refreshing
  <2>1. timer # 0 /\ timer' = timer - 1
    BY <1>0, <1>3 DEF Elapse, Ready
  <2>2. sinceCancel' + timer' <= refreshTimeout
    <3>1. sinceCancel + timer <= refreshTimeout
      BY <1>3 DEF StopInv
    <3>2. CASE sinceCancel' = sinceCancel
      BY <1>0, <2>1, <3>1, <3>2
    <3>3. CASE sinceCancel' = sinceCancel + 1
      BY <1>0, <2>1, <3>1, <3>3
    <3> QED
      BY <1>1, <3>2, <3>3
  <2>3. pc = "refresh" => ~tickPending' /\ tickIn' > timer'
    <3> SUFFICES ASSUME pc = "refresh" PROVE ~tickPending' /\ tickIn' > timer'
      OBVIOUS
    <3>1. ~tickPending /\ tickIn > timer /\ period # 0
      BY <1>0, <1>3 DEF StopInv, TickerInv
    <3>2. tickIn > 1
      BY <1>0, <2>1, <3>1
    <3>3. tickIn' = tickIn - 1
      BY <1>0, <3>1, <3>2 DEF Elapse
    <3>4. ~tickPending'
      <4>1. ~(tickIn <= 1)
        BY <1>0, <3>2
      <4> QED
        BY <3>1, <4>1, Zenon DEF Elapse
    <3> QED
      BY <1>0, <2>1, <3>1, <3>3, <3>4
  <2> QED
    BY <1>0, <1>1, <1>2, <1>3, <2>2, <2>3 DEF StopInv, Refreshing, Selecting
\* At its select, or backing off, the loop is ready as soon as ctx is cancelled.
<1>4. CASE refreshTimeout < refreshInterval /\ Selecting
  <2>1. ~cancelled /\ sinceCancel' = 0 /\ (pc = "select" => ~tickPending)
    BY <1>1, <1>4 DEF Elapse, Ready, Selecting, StopInv
  <2>2. pc = "select" /\ tickPending' => tickIn' = period
    <3> SUFFICES ASSUME pc = "select", tickPending' PROVE tickIn' = period
      OBVIOUS
    <3>1. period # 0
      BY <1>0 DEF TickerInv
    <3>2. tickIn <= 1
      BY <2>1, <3>1, Zenon DEF Elapse
    <3> QED
      BY <1>0, <3>1, <3>2 DEF Elapse
  <2> QED
    BY <1>0, <1>1, <1>2, <1>4, <2>1, <2>2 DEF StopInv, Refreshing, Selecting
<1>5. CASE ~(refreshTimeout < refreshInterval) \/ ~(Refreshing \/ Selecting)
  BY <1>1, <1>2, <1>5 DEF StopInv, Refreshing, Selecting
<1> QED
  BY <1>3, <1>4, <1>5

LEMMA StepStop ==
  ASSUME Prompt, ~LateConfigure
  PROVE  TypeOK /\ TypeOK' /\ TickerInv /\ TickerInv' /\ StopInv /\ [Next]_vars => StopInv'
<1> SUFFICES ASSUME TypeOK, TypeOK', TickerInv, TickerInv', StopInv, [Next]_vars
             PROVE  StopInv'
  OBVIOUS
<1>0. /\ timer \in Nat /\ tickIn \in Nat /\ sinceCancel \in Nat
      /\ refreshInterval \in Nat \ {0} /\ refreshTimeout \in Nat \ {0}
  BY ConstantsAssumption DEF ConstantsAssumption, TypeOK
<1> USE <1>0 DEF StopInv, Refreshing, Selecting
<1>1. CASE \E i, t \in Intervals : Configure(i, t)
  BY <1>1 DEF Configure, tickVars, ctxVars
<1>2. CASE Run
  BY <1>2 DEF Run, BeginRefresh, FetchTimer, TickerInv, confVars, tickVars, ctxVars
<1>3. CASE TickerFires
  BY <1>3 DEF TickerFires, BeginRefresh, FetchTimer, TickerInv, confVars, ctxVars
\* A refresh that ends leaves no tick behind it.
<1>4. CASE RefreshSucceeds \/ RefreshFails \/ RefreshTimesOut
  <2>1. /\ pc' = "select" /\ Refreshing
        /\ UNCHANGED <<refreshInterval, refreshTimeout, cancelled, sinceCancel>>
        /\ pc = "first" => ~tickPending'
        /\ pc = "refresh" => tickPending' = tickPending
    BY <1>4 DEF RefreshSucceeds, RefreshFails, RefreshTimesOut, EndRefresh, NewTicker,
       confVars, tickVars, ctxVars
  <2>2. refreshTimeout < refreshInterval => ~tickPending'
    BY <2>1
  <2>3. refreshTimeout < refreshInterval => sinceCancel <= refreshTimeout
    BY <2>1
  <2> QED
    BY <2>1, <2>2, <2>3
<1>5. CASE RefreshPanics
  BY <1>5 DEF RefreshPanics, confVars, ctxVars
<1>6. CASE BackoffEnds
  BY <1>6 DEF BackoffEnds, NewTicker, confVars, ctxVars
<1>7. CASE StopLoop
  BY <1>7 DEF StopLoop, confVars, ctxVars
<1>8. CASE Cancel
  BY <1>8 DEF Cancel, TickerInv, confVars, tickVars
<1>9. CASE Serve \/ Answer \/ LateServe \/ LateAnswer \/ Rotate \/ ServiceChanges
           \/ UNCHANGED vars
  <2>1. UNCHANGED <<refreshInterval, refreshTimeout, pc, timer, period, tickIn, tickPending,
                    cancelled, sinceCancel>>
    BY <1>9 DEF Serve, Answer, LateServe, LateAnswer, Rotate, ServiceChanges, vars,
       confVars, tickVars, ctxVars
  <2> QED
    BY <2>1
<1>10. CASE Elapse
  BY <1>10, ElapseKeepsStop
<1> QED
  BY <1>1, <1>2, <1>3, <1>4, <1>5, <1>6, <1>7, <1>8, <1>9, <1>10 DEF Next, LoopStep

\* A fetch that hangs does not hold up shutdown, and neither does a panic: with a
\* timeout below the interval the loop has stopped one fetch timeout after ctx was
\* cancelled (cache.go:5).
THEOREM ShutdownIsPrompt ==
  ASSUME Prompt, ~LateConfigure
  PROVE  Spec => []StopsWithinATimeout
<1>1. TypeOK /\ TickerInv /\ StopInv => StopsWithinATimeout
  <2> SUFFICES ASSUME TypeOK, TickerInv, StopInv, pc # "stopped",
                      refreshTimeout < refreshInterval
               PROVE  sinceCancel <= refreshTimeout
    BY DEF StopsWithinATimeout
  <2>0. timer \in Nat /\ sinceCancel \in Nat /\ refreshTimeout \in Nat
    BY ConstantsAssumption DEF ConstantsAssumption, TypeOK
  <2>1. CASE pc = "new"
    BY <2>0, <2>1 DEF TickerInv
  <2>2. CASE Refreshing
    BY <2>0, <2>2 DEF StopInv
  <2>3. CASE Selecting
    BY <2>3 DEF StopInv
  <2> QED
    BY <2>1, <2>2, <2>3 DEF TypeOK, Refreshing, Selecting
<1> QED
  BY <1>1, TypeCorrect, StepType, InitTicker, StepTicker, InitStop, StepStop, PTL DEF Spec
=============================================================================
