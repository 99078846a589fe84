-------------------------- MODULE RateLimiterProofs --------------------------
(***************************************************************************)
(* The limiter implements TokenBucket and keeps its rate, for all keys,    *)
(* costs, bursts and periods, if the time to live of an idle bucket is no  *)
(* shorter than the time it takes to fill.                                 *)
(***************************************************************************)
EXTENDS RateLimiter, TLAPS

LEMMA ConstantTypes ==
    /\ Capacity \in Nat /\ Cost \in Nat /\ Cost > 0
    /\ IdleTTL \in Nat /\ EvictPeriod \in Nat /\ EvictPeriod > 0 /\ MaxWindow \in Nat
<1> QED
  BY LimiterAssumption DEF LimiterAssumption

LEMMA EntryTypes ==
    ASSUME NEW b \in Entries
    PROVE  /\ b.credit \in 0 .. Capacity /\ b.sinceLast \in 0 .. Capacity
           /\ b.sinceSeen \in 0 .. IdleTTL + EvictPeriod + 1
           /\ Tokens(b) \in 0 .. Capacity
<1> QED
  BY ConstantTypes DEF Entries, Tokens, AtMost

LEMMA NewEntryType == NewEntry \in Entries /\ Absent \in Entries
<1> QED
  BY ConstantTypes DEF Entries, NewEntry, Absent, Present

\* What Allow, Elapse and Evict make of an entry is an entry.
LEMMA EntryKept ==
    ASSUME NEW b \in Entries
    PROVE  /\ Tokens(b) >= Cost => Paid(b) \in Entries
           /\ Seen(b) \in Entries
           /\ Aged(b) \in Entries
<1>1. Tokens(b) >= Cost => Tokens(b) - Cost \in 0 .. Capacity
  BY ConstantTypes, EntryTypes
<1>2. Tokens(b) >= Cost => Paid(b) \in Entries
  BY <1>1, ConstantTypes DEF Paid, Present, Entries
<1>3. Seen(b) \in Entries
  BY ConstantTypes DEF Seen, Entries
<1>4. /\ AtMost(b.sinceLast + 1, Capacity) \in 0 .. Capacity
      /\ AtMost(b.sinceSeen + 1, IdleTTL + EvictPeriod + 1) \in 0 .. IdleTTL + EvictPeriod + 1
  BY ConstantTypes, EntryTypes DEF AtMost
<1>5. Aged(b) \in Entries
  BY <1>4, EntryTypes DEF Aged, Present, Entries
<1> QED
  BY <1>2, <1>3, <1>5

\* The entry of a key is well formed whether or not the key has one.
LEMMA EntryOfKey == TypeOK => \A k \in Keys : Entry(k) \in Entries
<1> QED
  BY NewEntryType DEF TypeOK, Entry

-----------------------------------------------------------------------------
LEMMA InitType == Init => TypeOK
<1> SUFFICES ASSUME Init PROVE TypeOK
  OBVIOUS
<1>1. buckets \in [Keys -> Entries]
  BY NewEntryType DEF Init
<1>2. window \in [key : Keys, len : Nat, spent : Nat]
  BY DEF Init, Window
<1>3. tickIn \in 1 .. EvictPeriod
  BY ConstantTypes DEF Init
<1> QED
  BY <1>1, <1>2, <1>3 DEF Init, TypeOK

LEMMA StepType == TypeOK /\ [Next]_vars => TypeOK'
<1> SUFFICES ASSUME TypeOK, [Next]_vars PROVE TypeOK'
  OBVIOUS
<1> USE DEF TypeOK
<1>1. ASSUME NEW k \in Keys, AllowGrants(k) PROVE TypeOK'
  <2>1. buckets' \in [Keys -> Entries]
    BY <1>1, EntryOfKey, EntryKept DEF AllowGrants
  <2>2. window' \in [key : Keys, len : Nat, spent : Nat]
    BY <1>1, ConstantTypes DEF AllowGrants
  <2>3. verdict' \in [kind : {"answer"}, key : Keys, ok : BOOLEAN]
    BY <1>1 DEF AllowGrants, Verdict
  <2> QED
    BY <1>1, <2>1, <2>2, <2>3 DEF AllowGrants, evictVars
<1>2. ASSUME NEW k \in Keys, AllowRefuses(k) PROVE TypeOK'
  <2>1. buckets' \in [Keys -> Entries]
    BY <1>2, EntryOfKey, EntryKept DEF AllowRefuses
  <2>2. verdict' \in [kind : {"answer"}, key : Keys, ok : BOOLEAN]
    BY <1>2 DEF AllowRefuses, Verdict
  <2> QED
    BY <1>2, <2>1, <2>2 DEF AllowRefuses, evictVars
<1>3. ASSUME NEW k \in Keys, Audit(k) PROVE TypeOK'
  BY <1>3 DEF Audit, Window, evictVars
<1>4. CASE EvictorTicks
  BY <1>4 DEF EvictorTicks
<1>5. CASE Evict
  BY <1>5, NewEntryType DEF Evict
<1>6. CASE EvictorStops
  BY <1>6 DEF EvictorStops
<1>7. CASE Cancel
  BY <1>7 DEF Cancel
<1>8. CASE Elapse
  <2>1. buckets' \in [Keys -> Entries]
    BY <1>8, EntryKept DEF Elapse
  <2>2. window' \in [key : Keys, len : Nat, spent : Nat]
    BY <1>8 DEF Elapse, Window
  <2>3. tickIn' \in 1 .. EvictPeriod
    BY <1>8, ConstantTypes DEF Elapse
  <2>4. tickPending' \in BOOLEAN
    BY <1>8 DEF Elapse
  <2> QED
    BY <1>8, <2>1, <2>2, <2>3, <2>4 DEF Elapse
<1>9. CASE UNCHANGED vars
  BY <1>9 DEF vars, evictVars
<1> QED
  BY <1>1, <1>2, <1>3, <1>4, <1>5, <1>6, <1>7, <1>8, <1>9 DEF Next, Allow

\* Balances stay between nothing and the burst (limiter.go:44-57), for every
\* cost, burst and time to live.
THEOREM TypeCorrect == Spec => []TypeOK
<1> QED
  BY InitType, StepType, PTL DEF Spec

-----------------------------------------------------------------------------
(* The strengthening the refinement needs: a bucket has been filling at least *)
(* as long as its key has been silent, or has had the time to fill.           *)

FillsWhileIdle ==
    \A k \in Keys :
        \/ buckets[k].sinceSeen <= buckets[k].sinceLast
        \/ buckets[k].sinceLast = Capacity

LEMMA InitFills == Init => FillsWhileIdle
<1>1. Absent.sinceSeen = 0 /\ Absent.sinceLast = 0
  BY DEF Absent
<1>2. ASSUME Init, NEW k \in Keys PROVE buckets[k].sinceSeen <= buckets[k].sinceLast
  <2>1. buckets[k] = Absent
    BY <1>2 DEF Init
  <2> QED
    BY <1>1, <2>1
<1> QED
  BY <1>2 DEF FillsWhileIdle

LEMMA StepFills == TypeOK /\ FillsWhileIdle /\ [Next]_vars => FillsWhileIdle'
<1> SUFFICES ASSUME TypeOK, FillsWhileIdle, [Next]_vars, NEW k \in Keys
             PROVE  \/ buckets'[k].sinceSeen <= buckets'[k].sinceLast
                    \/ buckets'[k].sinceLast = Capacity
  BY DEF FillsWhileIdle
<1>0. buckets \in [Keys -> Entries]
  BY DEF TypeOK
<1>1. \/ buckets[k].sinceSeen <= buckets[k].sinceLast
      \/ buckets[k].sinceLast = Capacity
  BY DEF FillsWhileIdle
<1>2. CASE \E j \in Keys : AllowGrants(j)
  BY <1>0, <1>1, <1>2 DEF AllowGrants, Paid, Present
<1>3. CASE \E j \in Keys : AllowRefuses(j)
  <2> PICK j \in Keys : AllowRefuses(j)
    BY <1>3
  <2>1. Entry(j) \in Entries
    BY EntryOfKey
  <2>2. buckets' = [buckets EXCEPT ![j] = Seen(Entry(j))]
    BY DEF AllowRefuses
  <2>3. CASE k = j
    <3>1. buckets'[k].sinceSeen = 0 /\ buckets'[k].sinceLast = Entry(j).sinceLast
      BY <1>0, <2>1, <2>2, <2>3 DEF Seen, Entries
    <3> QED
      BY <2>1, <3>1, EntryTypes, ConstantTypes
  <2>4. CASE k # j
    BY <1>0, <1>1, <2>2, <2>4
  <2> QED
    BY <2>3, <2>4
<1>4. CASE Evict
  BY <1>0, <1>1, <1>4 DEF Evict, Absent
<1>5. CASE Elapse
  <2>1. buckets'[k] = Aged(buckets[k]) /\ buckets[k] \in Entries
    BY <1>0, <1>5 DEF Elapse
  <2>2. CASE buckets[k].present
    <3>1. /\ buckets'[k].sinceLast = AtMost(buckets[k].sinceLast + 1, Capacity)
          /\ buckets'[k].sinceSeen
                = AtMost(buckets[k].sinceSeen + 1, IdleTTL + EvictPeriod + 1)
      BY <2>1, <2>2 DEF Aged, Present
    <3> QED
      BY <1>1, <2>1, <3>1, EntryTypes, ConstantTypes DEF AtMost
  <2>3. CASE ~buckets[k].present
    BY <1>1, <2>1, <2>3 DEF Aged
  <2> QED
    BY <2>2, <2>3
<1>6. CASE EvictorTicks \/ EvictorStops \/ Cancel \/ UNCHANGED vars
          \/ \E j \in Keys : Audit(j)
  BY <1>1, <1>6 DEF EvictorTicks, EvictorStops, Cancel, Audit, vars
<1> QED
  BY <1>2, <1>3, <1>4, <1>5, <1>6 DEF Next, Allow

LEMMA Invariants == Spec => [](TypeOK /\ FillsWhileIdle)
<1> QED
  BY InitType, StepType, InitFills, StepFills, PTL DEF Spec

-----------------------------------------------------------------------------
(* The refinement.  Capacity <= IdleTTL is what Evict relies on and nothing   *)
(* in New enforces.                                                           *)

LEMMA NewIsFull == Tokens(NewEntry) = Capacity
<1> QED
  BY ConstantTypes DEF Tokens, NewEntry, Present, AtMost

LEMMA AllowTokens ==
    ASSUME NEW b \in Entries
    PROVE  /\ Tokens(b) >= Cost => Tokens(Paid(b)) = Tokens(b) - Cost
           /\ Tokens(Seen(b)) = Tokens(b)
<1>1. ASSUME Tokens(b) >= Cost PROVE Tokens(Paid(b)) = Tokens(b) - Cost
  <2>1. Paid(b).credit = Tokens(b) - Cost /\ Paid(b).sinceLast = 0
    BY DEF Paid, Present
  <2>2. Tokens(b) - Cost \in 0 .. Capacity
    BY <1>1, EntryTypes, ConstantTypes
  <2> QED
    BY <2>1, <2>2, ConstantTypes DEF Tokens, AtMost
<1>2. Tokens(Seen(b)) = Tokens(b)
  BY DEF Seen, Tokens, Entries
<1> QED
  BY <1>1, <1>2

\* Time pours into every entry what it pours into the abstract bucket.
LEMMA AgedTokens ==
    ASSUME NEW b \in Entries, b.present
    PROVE  Tokens(Aged(b)) = Promise!Pour(Tokens(b))
<1>1. /\ Aged(b).credit = b.credit
      /\ Aged(b).sinceLast = AtMost(b.sinceLast + 1, Capacity)
  BY DEF Aged, Present
<1> QED
  BY <1>1, EntryTypes, ConstantTypes
     DEF Tokens, AtMost, Promise!Pour, Promise!Capacity, Capacity

\* Forgetting an idle key's entry does not change what the key may spend.
LEMMA ForgettingIsFair ==
    ASSUME Capacity <= IdleTTL, TypeOK, FillsWhileIdle, NEW k \in Keys,
           buckets[k].present, Idle(buckets[k])
    PROVE  Tokens(buckets[k]) = Capacity
<1>1. buckets[k] \in Entries
  BY DEF TypeOK
<1>2. buckets[k].sinceLast = Capacity
  BY <1>1, EntryTypes, ConstantTypes DEF FillsWhileIdle, Idle
<1> QED
  BY <1>1, <1>2, EntryTypes, ConstantTypes DEF Tokens, AtMost

LEMMA InitRefines == Init => Promise!Init
<1> SUFFICES ASSUME Init PROVE Promise!Init
  OBVIOUS
<1>1. Level = [k \in Keys |-> Promise!Capacity]
  BY NewIsFull DEF Init, Level, Entry, Absent, Promise!Capacity, Capacity
<1> QED
  BY <1>1 DEF Init, Promise!Init, Promise!NoVerdict, NoVerdict, Promise!Window, Window

LEMMA StepRefines ==
    ASSUME Capacity <= IdleTTL, TypeOK, TypeOK', FillsWhileIdle, [Next]_vars
    PROVE  [Promise!Next]_(Promise!bucketVars)
<1>0. /\ buckets \in [Keys -> Entries] /\ \A k \in Keys : Entry(k) \in Entries
      /\ Promise!Capacity = Capacity
  BY EntryOfKey DEF TypeOK, Promise!Capacity, Capacity
<1>1. ASSUME NEW k \in Keys, AllowGrants(k) PROVE Promise!Grant(k)
  <2>1. Level[k] = Tokens(Entry(k)) /\ Level[k] >= Cost
    BY <1>1 DEF AllowGrants, Level
  <2>2. Level' = [Level EXCEPT ![k] = @ - Cost]
    <3>1. /\ Entry(k)' = Paid(Entry(k))
          /\ \A j \in Keys \ {k} : Entry(j)' = Entry(j)
      BY <1>0, <1>1 DEF AllowGrants, Entry, Paid, Present
    <3>2. Tokens(Entry(k))' = Tokens(Entry(k)) - Cost
      BY <1>0, <2>1, <3>1, AllowTokens DEF Tokens
    <3>3. \A j \in Keys \ {k} : Tokens(Entry(j))' = Tokens(Entry(j))
      BY <3>1 DEF Tokens
    <3> QED
      BY <2>1, <3>2, <3>3 DEF Level
  <2> QED
    BY <1>1, <2>1, <2>2 DEF AllowGrants, Promise!Grant, Promise!Verdict, Verdict
<1>2. ASSUME NEW k \in Keys, AllowRefuses(k) PROVE Promise!Refuse(k)
  <2>1. Level[k] = Tokens(Entry(k)) /\ Level[k] < Cost
    BY <1>2 DEF AllowRefuses, Level
  <2>2. Level' = Level
    <3>1. /\ Tokens(buckets'[k]) = Tokens(Entry(k))
          /\ \A j \in Keys \ {k} : Entry(j)' = Entry(j)
      BY <1>0, <1>2, AllowTokens DEF AllowRefuses, Entry
    <3>2. Entry(k)' \in {buckets'[k], NewEntry}
      BY DEF Entry
    <3>3. buckets'[k].present
      BY <1>0, <1>2 DEF AllowRefuses, Seen, Entry, NewEntry, Present, Entries
    <3>4. \A j \in Keys : Tokens(Entry(j))' = Tokens(Entry(j))
      BY <3>1, <3>3 DEF Tokens, Entry
    <3> QED
      BY <3>4 DEF Level
  <2> QED
    BY <1>2, <2>1, <2>2 DEF AllowRefuses, Promise!Refuse, Promise!Verdict, Verdict
<1>3. ASSUME NEW k \in Keys, Audit(k) PROVE Promise!Audit(k)
  BY <1>3 DEF Audit, Promise!Audit, Promise!Window, Window, Level, Entry
<1>4. CASE Evict
  <2>1. \A k \in Keys : Tokens(Entry(k))' = Tokens(Entry(k))
    <3> TAKE k \in Keys
    <3>1. CASE buckets[k].present /\ Idle(buckets[k])
      BY <1>0, <1>4, <3>1, ForgettingIsFair, NewIsFull DEF Evict, Entry, Absent, Tokens
    <3>2. CASE ~(buckets[k].present /\ Idle(buckets[k]))
      BY <1>0, <1>4, <3>2 DEF Evict, Entry, Tokens
    <3> QED
      BY <3>1, <3>2
  <2>2. Level' = Level
    BY <2>1 DEF Level
  <2> QED
    BY <1>4, <2>2 DEF Evict, Promise!bucketVars
<1>5. CASE Elapse
  <2>1. \A k \in Keys : Tokens(Entry(k))' = Promise!Pour(Tokens(Entry(k)))
    <3> TAKE k \in Keys
    <3>1. buckets'[k] = Aged(buckets[k])
      BY <1>0, <1>5 DEF Elapse
    <3>2. CASE buckets[k].present
      BY <1>0, <3>1, <3>2, AgedTokens DEF Entry, Aged, Present, Tokens
    <3>3. CASE ~buckets[k].present
      BY <1>0, <3>1, <3>3, NewIsFull, ConstantTypes DEF Entry, Aged, Tokens, Promise!Pour
    <3> QED
      BY <3>2, <3>3
  <2>2. Level' = [k \in Keys |-> Promise!Pour(Level[k])]
    BY <2>1 DEF Level
  <2> QED
    BY <1>5, <2>2 DEF Elapse, Promise!Next, Promise!Flow, Promise!Window, Window
<1>6. CASE EvictorTicks \/ EvictorStops \/ Cancel \/ UNCHANGED vars
  <2>1. buckets' = buckets /\ verdict' = verdict /\ window' = window
    BY <1>6 DEF EvictorTicks, EvictorStops, Cancel, vars
  <2> QED
    BY <2>1 DEF Promise!bucketVars, Level, Entry
<1> QED
  BY <1>1, <1>2, <1>3, <1>4, <1>5, <1>6 DEF Next, Allow, Promise!Next

\* Making buckets on first use, computing refills when asked and forgetting
\* idle keys cannot be told from buckets that are never forgotten
\* (limiter.go:44-73), if no bucket is forgotten before it could fill.
THEOREM LimiterImplementsBucket ==
    ASSUME Capacity <= IdleTTL
    PROVE  Spec => ImplementsTokenBucket
<1>1. TypeOK /\ TypeOK' /\ FillsWhileIdle /\ [Next]_vars
        => [Promise!Next]_(Promise!bucketVars)
  BY StepRefines
<1> QED
  BY <1>1, InitRefines, Invariants, PTL DEF Spec, ImplementsTokenBucket, Promise!Spec

-----------------------------------------------------------------------------
(* The rate, by way of the refinement: in the abstract bucket what is left    *)
(* and what was spent in the window never exceed the burst and what flowed    *)
(* in since the window began.                                                 *)

SpentAndLeft == window.spent + Level[window.key] <= Capacity + window.len

LEMMA InitSpent == Init => SpentAndLeft
<1> SUFFICES ASSUME Init PROVE SpentAndLeft
  OBVIOUS
<1>1. /\ window.key \in Keys /\ window.spent = 0 /\ window.len = 0
      /\ buckets[window.key] = Absent
  BY DEF Init, Window
<1>2. Level[window.key] = Capacity
  BY <1>1, NewIsFull DEF Level, Entry, Absent
<1> QED
  BY <1>1, <1>2, ConstantTypes DEF SpentAndLeft

LEMMA StepSpent ==
    ASSUME TypeOK, SpentAndLeft, [Promise!Next]_(Promise!bucketVars)
    PROVE  SpentAndLeft'
<1>0. /\ window \in [key : Keys, len : Nat, spent : Nat]
      /\ \A k \in Keys : Level[k] \in 0 .. Capacity
      /\ Promise!Capacity = Capacity
  BY EntryOfKey, EntryTypes DEF TypeOK, Level, Promise!Capacity, Capacity
<1>1. ASSUME NEW k \in Keys, Promise!Grant(k) PROVE SpentAndLeft'
  <2>1. Level' = [Level EXCEPT ![k] = @ - Cost] /\ DOMAIN Level = Keys
    BY <1>1 DEF Promise!Grant, Level
  <2>2. CASE window.key = k
    <3>1. window'.key = k /\ window'.len = window.len /\ window'.spent = window.spent + Cost
      BY <1>0, <1>1, <2>2 DEF Promise!Grant
    <3>2. Level'[k] = Level[k] - Cost
      BY <2>1
    <3> QED
      BY <1>0, <2>2, <3>1, <3>2, ConstantTypes DEF SpentAndLeft
  <2>3. CASE window.key # k
    <3>1. window' = window /\ Level'[window.key] = Level[window.key]
      BY <1>0, <1>1, <2>1, <2>3 DEF Promise!Grant
    <3> QED
      BY <3>1 DEF SpentAndLeft
  <2> QED
    BY <2>2, <2>3
<1>2. ASSUME NEW k \in Keys, Promise!Refuse(k) PROVE SpentAndLeft'
  BY <1>2 DEF Promise!Refuse, SpentAndLeft
<1>3. ASSUME NEW k \in Keys, Promise!Audit(k) PROVE SpentAndLeft'
  BY <1>0, <1>3, ConstantTypes DEF Promise!Audit, Promise!Window, SpentAndLeft
<1>4. CASE Promise!Flow
  <2>1. /\ Level'[window.key] = Promise!Pour(Level[window.key])
        /\ window'.key = window.key
    BY <1>0, <1>4 DEF Promise!Flow, Promise!Window
  <2>2. CASE window.len < MaxWindow
    <3>1. window'.len = window.len + 1 /\ window'.spent = window.spent
      BY <1>0, <1>4, <2>2 DEF Promise!Flow
    <3> QED
      BY <1>0, <2>1, <3>1, ConstantTypes DEF SpentAndLeft, Promise!Pour
  <2>3. CASE ~(window.len < MaxWindow)
    <3>1. window'.len = 0 /\ window'.spent = 0
      BY <1>0, <1>4, <2>3 DEF Promise!Flow, Promise!Window
    <3> QED
      BY <1>0, <2>1, <3>1, ConstantTypes DEF SpentAndLeft, Promise!Pour
  <2> QED
    BY <2>2, <2>3
<1>5. CASE UNCHANGED Promise!bucketVars
  BY <1>5 DEF Promise!bucketVars, SpentAndLeft
<1> QED
  BY <1>1, <1>2, <1>3, <1>4, <1>5 DEF Promise!Next

\* In every window of time, whenever it begins, a key is granted no more than
\* its burst and what flowed in since (limiter.go:32-34), eviction included.
THEOREM RateIsKept ==
    ASSUME Capacity <= IdleTTL
    PROVE  Spec => []WithinRate
<1>1. TypeOK /\ TypeOK' /\ FillsWhileIdle /\ SpentAndLeft /\ [Next]_vars => SpentAndLeft'
  BY StepRefines, StepSpent
<1>2. TypeOK /\ SpentAndLeft => WithinRate
  <2> SUFFICES ASSUME TypeOK, SpentAndLeft PROVE WithinRate
    OBVIOUS
  <2>1. window \in [key : Keys, len : Nat, spent : Nat] /\ Level[window.key] \in 0 .. Capacity
    BY EntryOfKey, EntryTypes DEF TypeOK, Level
  <2> QED
    BY <2>1, ConstantTypes DEF SpentAndLeft, WithinRate
<1> QED
  BY <1>1, <1>2, InitSpent, Invariants, PTL DEF Spec

-----------------------------------------------------------------------------
(* Memory.  Each sweep leaves no bucket idle for longer than IdleTTL, and     *)
(* until the ticker fires again, a bucket ages no more than the ticker.       *)

AgedWithTicker ==
    evictor = "running" /\ ~tickPending =>
        \A k \in Keys :
            buckets[k].present => buckets[k].sinceSeen + tickIn <= IdleTTL + EvictPeriod

LEMMA InitAged == Init => AgedWithTicker
  BY DEF Init, Absent, AgedWithTicker

LEMMA StepAged == TypeOK /\ AgedWithTicker /\ [Next]_vars => AgedWithTicker'
<1> SUFFICES ASSUME TypeOK, AgedWithTicker, [Next]_vars,
                    evictor' = "running", ~tickPending',
                    NEW k \in Keys, buckets'[k].present
             PROVE  buckets'[k].sinceSeen + tickIn' <= IdleTTL + EvictPeriod
  BY DEF AgedWithTicker
<1>0. /\ buckets \in [Keys -> Entries] /\ buckets[k] \in Entries
      /\ tickIn \in 1 .. EvictPeriod
  BY DEF TypeOK
<1>a. buckets[k].sinceSeen \in Nat
  BY <1>0, EntryTypes, ConstantTypes
<1>1. ASSUME NEW j \in Keys, Allow(j) PROVE buckets'[k].sinceSeen + tickIn' <= IdleTTL + EvictPeriod
  <2>0. UNCHANGED evictVars
    BY <1>1 DEF Allow, AllowGrants, AllowRefuses
  <2>1. evictor = "running" /\ ~tickPending /\ tickIn' = tickIn
    BY <2>0, Zenon DEF evictVars
  <2>2. CASE k = j
    <3>1. Entry(j) \in Entries
      BY EntryOfKey
    <3>2. Paid(Entry(j)).sinceSeen = 0 /\ Seen(Entry(j)).sinceSeen = 0
      BY <3>1 DEF Paid, Seen, Present, Entries
    <3>3. buckets'[k].sinceSeen = 0
      BY <1>0, <1>1, <2>2, <3>2 DEF Allow, AllowGrants, AllowRefuses
    <3> QED
      BY <1>0, <2>1, <3>3, ConstantTypes
  <2>3. CASE k # j
    <3>1. buckets'[k] = buckets[k]
      BY <1>0, <1>1, <2>3 DEF Allow, AllowGrants, AllowRefuses
    <3> QED
      BY <2>1, <3>1 DEF AgedWithTicker
  <2> QED
    BY <2>2, <2>3
<1>2. CASE Evict
  <2>1. buckets[k].sinceSeen <= IdleTTL /\ buckets'[k] = buckets[k] /\ tickIn' = tickIn
    BY <1>2, <1>a, ConstantTypes DEF Evict, Idle, Absent
  <2> QED
    BY <1>0, <1>a, <2>1, ConstantTypes
<1>3. CASE Elapse
  <2>0. evictor = "running" /\ ~tickPending /\ ~(tickIn <= 1)
    <3>1. evictor' = evictor /\ tickPending' = (evictor # "stopped" /\ (tickPending \/ tickIn <= 1))
      BY <1>3 DEF Elapse
    <3>2. evictor = "running" /\ evictor # "stopped"
      BY <3>1
    <3> QED
      BY <3>1, <3>2, Zenon
  <2>1. evictor = "running" /\ ~tickPending /\ tickIn > 1 /\ tickIn' = tickIn - 1
    BY <1>0, <1>3, <2>0 DEF Elapse
  <2>2. buckets[k].present /\ buckets'[k] = Aged(buckets[k])
    BY <1>3 DEF Elapse, Aged
  <2>3. buckets'[k].sinceSeen = AtMost(buckets[k].sinceSeen + 1, IdleTTL + EvictPeriod + 1)
    BY <2>2 DEF Aged, Present
  <2>4. buckets'[k].sinceSeen <= buckets[k].sinceSeen + 1 /\ buckets'[k].sinceSeen \in Nat
    BY <1>a, <2>3, ConstantTypes DEF AtMost
  <2>5. buckets[k].sinceSeen + tickIn <= IdleTTL + EvictPeriod
    BY <2>1, <2>2 DEF AgedWithTicker
  <2> QED
    BY <1>0, <1>a, <2>1, <2>4, <2>5, ConstantTypes
<1>4. CASE Cancel \/ UNCHANGED vars \/ \E j \in Keys : Audit(j)
  BY <1>4 DEF Cancel, Audit, vars, evictVars, AgedWithTicker
<1>5. CASE EvictorTicks \/ EvictorStops
  BY <1>5 DEF EvictorTicks, EvictorStops
<1> QED
  BY <1>1, <1>2, <1>3, <1>4, <1>5 DEF Next

\* Memory is bounded by recent traffic (limiter.go:59-62): for every time to live and
\* period, once a sweep is over and until the next tick, no bucket belongs to a key
\* that has been silent for longer than both together.
THEOREM IdleBucketsGo == Spec => []IdleKeysAreForgotten
<1>1. TypeOK /\ AgedWithTicker => IdleKeysAreForgotten
  <2> SUFFICES ASSUME TypeOK, AgedWithTicker, evictor = "running", ~tickPending,
                      NEW k \in Keys, buckets[k].present
               PROVE  buckets[k].sinceSeen <= IdleTTL + EvictPeriod
    BY DEF IdleKeysAreForgotten
  <2>1. buckets[k] \in Entries /\ tickIn \in 1 .. EvictPeriod
    BY DEF TypeOK
  <2>2. buckets[k].sinceSeen + tickIn <= IdleTTL + EvictPeriod
    BY DEF AgedWithTicker
  <2> QED
    BY <2>1, <2>2, EntryTypes, ConstantTypes
<1> QED
  BY <1>1, InitAged, StepAged, Invariants, PTL DEF Spec
=============================================================================
