---------------------------- MODULE SecretsProofs ----------------------------
(***************************************************************************)
(* Theorems about Secrets, for every set of keys and fingerprints, every   *)
(* alphabet and every order of backup codes.                               *)
(***************************************************************************)
EXTENDS Secrets, SequenceTheorems, WellFoundedInduction, TLAPS

\* A list of keys has a last one of each fingerprint that occurs in it.
LEMMA LastExists ==
  ASSUME NEW given \in Seq(Keys), NEW f, NEW i0 \in DOMAIN given,
         Fingerprint[given[i0]] = f
  PROVE  \E i \in DOMAIN given : IsLast(given, f, i)
<1> DEFINE n == Len(given)
           T == {m \in Nat : m < n /\ Fingerprint[given[n - m]] = f}
<1>1. n \in Nat /\ DOMAIN given = 1 .. n
  BY LenProperties
<1>2. n - i0 \in T
  BY <1>1
<1>3. PICK m \in T : \A y \in T : ~ (<<y, m>> \in OpToRel(<, Nat))
  <2> HIDE DEF T
  <2>1. T \subseteq Nat
    BY DEF T
  <2> QED
    BY <1>2, <2>1, NatLessThanWellFounded, WFMin
<1>4. \A y \in T : ~ (y < m)
  BY <1>3 DEF OpToRel
<1>5. \A j \in (n - m) + 1 .. n : Fingerprint[given[j]] # f
  <2> SUFFICES ASSUME NEW j \in (n - m) + 1 .. n, Fingerprint[given[j]] = f
               PROVE  FALSE
    OBVIOUS
  <2>1. n - j \in Nat /\ n - j < n /\ n - (n - j) = j /\ n - j < m
    BY <1>1
  <2>2. n - j \in T
    BY <2>1
  <2> QED
    BY <1>4, <2>1, <2>2
<1>6. n - m \in DOMAIN given /\ Fingerprint[given[n - m]] = f
  BY <1>1
<1> QED
  BY <1>5, <1>6 DEF IsLast

LEMMA LastIsOne ==
  ASSUME NEW given \in Seq(Keys), NEW f \in {Fingerprint[given[i]] : i \in DOMAIN given}
  PROVE  \E i \in DOMAIN given : LastWith(given, f) = given[i] /\ Fingerprint[given[i]] = f
<1>1. PICK i0 \in DOMAIN given : Fingerprint[given[i0]] = f
  OBVIOUS
<1>2. \E i \in DOMAIN given : IsLast(given, f, i)
  BY <1>1, LastExists
<1> DEFINE last == CHOOSE i \in DOMAIN given : IsLast(given, f, i)
<1>3. last \in DOMAIN given /\ IsLast(given, f, last)
  BY <1>2
<1> QED
  BY <1>3 DEF LastWith, IsLast

\* What Decrypt relies on: a ring holds a key for each fingerprint it was given,
\* and it is one of the keys with that fingerprint.
RingShape(r) ==
  /\ r.current \in Sized /\ r.currentID = Fingerprint[r.current]
  /\ DOMAIN r.keys = {Fingerprint[k] : k \in r.given}
  /\ \A f \in DOMAIN r.keys : r.keys[f] \in r.given /\ Fingerprint[r.keys[f]] = f

LEMMA RingsHaveShape == ASSUME NEW r \in Rings PROVE RingShape(r)
<1>0. PICK k \in Sized, previous \in UNION {[1 .. m -> Sized] : m \in 0 .. MaxPrevious} :
         r = NewKeyRing(k, previous)
  BY SecretsAssumption DEF SecretsAssumption, Rings, Parsed
<1>1. PICK n \in 0 .. MaxPrevious : previous \in [1 .. n -> Sized]
  OBVIOUS
<1> DEFINE given == Given(k, previous)
<1>2. n \in Nat /\ previous \in Seq(Keys) /\ k \in Keys
  BY SecretsAssumption DEF SecretsAssumption
<1>3. given \in Seq(Keys) /\ given[1] = k /\ 1 \in DOMAIN given
  BY <1>2 DEF Given
<1> DEFINE ids == {Fingerprint[given[i]] : i \in DOMAIN given}
<1>4. r = [current |-> k, currentID |-> Fingerprint[k],
           keys |-> [f \in ids |-> LastWith(given, f)],
           given |-> {given[i] : i \in DOMAIN given}]
  BY <1>0 DEF NewKeyRing
<1> HIDE DEF given
<1>5. \A f \in ids : \E i \in DOMAIN given :
         LastWith(given, f) = given[i] /\ Fingerprint[given[i]] = f
  BY <1>3, LastIsOne
<1>6. r.given = {given[i] : i \in DOMAIN given}
  BY <1>4
<1>7. DOMAIN r.keys = ids /\ ids = {Fingerprint[x] : x \in r.given}
  BY <1>4, <1>6
<1>8. \A f \in DOMAIN r.keys : r.keys[f] \in r.given /\ Fingerprint[r.keys[f]] = f
  BY <1>4, <1>5, <1>6, <1>7
<1> QED
  <2>1. r.current = k /\ r.currentID = Fingerprint[k]
    BY <1>4
  <2> QED
    BY <2>1, <1>7, <1>8 DEF RingShape
----------------------------------------------------------------------------
(* The invariant: TypeOK, and what the codes drawn so far are. *)

Distinct(list) == \A i, j \in DOMAIN list : list[i] = list[j] => i = j

EnrolInv ==
  enrolling # NoUser =>
    /\ enrolling.secret \in UserSecrets
    /\ enrolling.seen \in Seq(Codes) /\ Distinct(enrolling.seen)

IInv == TypeOK /\ EnrolInv

LEMMA InitInvariant == Init => IInv
<1> SUFFICES ASSUME Init PROVE IInv
  OBVIOUS
<1>1. Start \in Nat /\ Horizon \in Nat
  BY SecretsAssumption DEF SecretsAssumption
<1>2. <<>> \in Seq(Codes) /\ DOMAIN <<>> = {}
  OBVIOUS
<1> QED
  BY <1>1, <1>2 DEF Init, IInv, TypeOK, EnrolInv

\* Storing a record: the ring names the key it seals with.
LEMMA StoreKeeps ==
  ASSUME IInv, NEW secret \in UserSecrets, NEW list \in Seq(Codes), Distinct(list),
         Store(secret, list), ring' = ring, cfg' = cfg, clock' = clock,
         answer' \in {answer, "none"}
  PROVE  IInv'
<1>1. RingShape(ring)
  BY RingsHaveShape DEF IInv, TypeOK
<1>2. record' = [blob |-> [key |-> ring.current, secret |-> secret],
                 keyID |-> ring.currentID]
  BY DEF Store, EncryptCurrent, Encrypt
<1>3. /\ record'.blob.key \in Sized /\ record'.blob.secret \in UserSecrets
      /\ record'.keyID = Fingerprint[record'.blob.key]
  BY <1>1, <1>2 DEF RingShape
<1> QED
  BY <1>3 DEF IInv, TypeOK, EnrolInv, Store, Distinct

LEMMA DrawKeeps == ASSUME IInv, NEW code \in Codes, Draw(code) PROVE IInv'
<1> DEFINE seen == enrolling.seen
<1>1. enrolling # NoUser /\ seen \in Seq(Codes) /\ Distinct(seen)
      /\ enrolling.order \in Orders /\ enrolling.secret \in UserSecrets
  BY DEF IInv, TypeOK, EnrolInv, Draw
<1>2. enrolling' = [enrolling EXCEPT !.seen = Append(seen, code)]
  BY DEF Draw
<1>3. \A i \in DOMAIN seen : seen[i] # code
  BY DEF Draw, SeenBefore
<1>4. Append(seen, code) \in Seq(Codes) /\ Distinct(Append(seen, code))
  BY <1>1, <1>3 DEF Distinct
<1> QED
  BY <1>1, <1>2, <1>4 DEF IInv, TypeOK, EnrolInv, Draw

LEMMA StepInvariant == IInv /\ [Next]_vars => IInv'
<1> SUFFICES ASSUME IInv, [Next]_vars PROVE IInv'
  OBVIOUS
<1>1. ASSUME NEW s \in UserSecrets, NEW o \in Orders, Enrol(s, o) PROVE IInv'
  <2>1. CASE o.n <= 0 /\ Store(s, <<>>)
    <3>1. <<>> \in Seq(Codes) /\ Distinct(<<>>)
      BY DEF Distinct
    <3> QED
      BY <1>1, <2>1, <3>1, StoreKeeps DEF Enrol
  <2>2. CASE enrolling' = [secret |-> s, order |-> o, seen |-> <<>>]
             /\ UNCHANGED <<record, codes>>
    BY <1>1, <2>2 DEF IInv, TypeOK, EnrolInv, Enrol, Distinct
  <2> QED
    BY <1>1, <2>1, <2>2 DEF Enrol
<1>2. ASSUME NEW c \in Codes, Draw(c) PROVE IInv'
  BY <1>2, DrawKeeps
<1>3. CASE Enrolled
  BY <1>3, StoreKeeps DEF Enrolled, IInv, EnrolInv
<1>4. CASE RandomFails
  BY <1>4 DEF RandomFails, IInv, TypeOK, EnrolInv
<1>5. ASSUME NEW s \in UserSecrets, NEW skew \in -MaxSkew .. MaxSkew, Show(s, skew)
      PROVE  IInv'
  BY <1>5 DEF Show, IInv, TypeOK, EnrolInv
<1>6. CASE Login
  BY <1>6 DEF Login, IInv, TypeOK, EnrolInv
<1>7. CASE GiveUp
  BY <1>7 DEF GiveUp, IInv, TypeOK, EnrolInv
<1>8. CASE Tick
  <2>1. Start \in Nat /\ Horizon \in Nat
    BY SecretsAssumption DEF SecretsAssumption
  <2> QED
    BY <1>8, <2>1 DEF Tick, IInv, TypeOK, EnrolInv
<1>9. CASE Restart
  BY <1>9 DEF Restart, IInv, TypeOK, EnrolInv
<1>10. CASE UNCHANGED vars
  BY <1>10 DEF vars, IInv, TypeOK, EnrolInv
<1> QED
  BY <1>1, <1>2, <1>3, <1>4, <1>5, <1>6, <1>7, <1>8, <1>9, <1>10 DEF Next

THEOREM Invariance == Spec => []IInv
<1> QED
  BY InitInvariant, StepInvariant, PTL DEF Spec

\* Types, and distinct backup codes: the loop of GenerateBackupCodes tells a code
\* from every earlier one, whatever the alphabet and the length.
THEOREM TypeCorrect == Spec => []TypeOK
<1>1. IInv => TypeOK
  BY DEF IInv
<1> QED
  BY <1>1, Invariance, PTL

\* A rotation loses nothing (NewKeyRing, KeyRing.Decrypt): a ring built from any
\* keys opens what any of them sealed, its fingerprint being its own.
LEMMA RingsOpen ==
  ASSUME NEW r \in Rings, NEW sealed, sealed.blob.key \in r.given,
         sealed.keyID = Fingerprint[sealed.blob.key],
         \A k \in r.given : Fingerprint[k] = sealed.keyID => k = sealed.blob.key
  PROVE  Opens(r, sealed)
<1>1. RingShape(r)
  BY RingsHaveShape
<1>2. sealed.keyID \in DOMAIN r.keys
  BY <1>1 DEF RingShape
<1>3. r.keys[sealed.keyID] = sealed.blob.key
  BY <1>1, <1>2 DEF RingShape
<1> QED
  BY <1>2, <1>3 DEF Opens, Decrypts

THEOREM RotationsLoseNothing == Spec => []KeptKeysOpen
<1>1. IInv => KeptKeysOpen
  <2> SUFFICES ASSUME IInv, record # NoUser, record.blob.key \in ring.given,
                      ~ \E k \in ring.given : /\ k # record.blob.key
                                              /\ Fingerprint[k] = Fingerprint[record.blob.key]
               PROVE  Opens(ring, record)
    BY DEF KeptKeysOpen
  <2>1. ring \in Rings /\ record.keyID = Fingerprint[record.blob.key]
    BY DEF IInv, TypeOK
  <2> QED
    BY <2>1, RingsOpen
<1> QED
  BY <1>1, Invariance, PTL

-----------------------------------------------------------------------------
(* The windows of Validate.  A counter is the number of whole periods since    *)
(* 1970, although the code divides twice: by the second, then by the step.     *)

LEMMA DivBounds ==
  ASSUME NEW a \in Int, NEW b \in Nat \ {0}
  PROVE  a \div b \in Int /\ b * (a \div b) <= a /\ a < b * (a \div b) + b
  OBVIOUS

LEMMA DivUnique ==
  ASSUME NEW a \in Int, NEW b \in Nat \ {0}, NEW q \in Int, b * q <= a, a < b * q + b
  PROVE  a \div b = q
  OBVIOUS

LEMMA WholePart ==
  ASSUME NEW a \in Nat \ {0}, NEW b \in Nat \ {0}
  PROVE  /\ a \div b \in Nat /\ b * (a \div b) <= a
         /\ a % b = 0 => b * (a \div b) = a
<1>1. a \div b \in Int /\ b * (a \div b) <= a /\ a < b * (a \div b) + b
  BY DivBounds
<1>2. a % b = 0 => b * (a \div b) = a
  OBVIOUS
<1>3. a \div b >= 0
  <2>1. CASE a \div b <= -1
    <3>1. b * (a \div b) <= b * (-1)
      BY <1>1, <2>1
    <3> QED
      BY <1>1, <3>1
  <2> QED
    BY <1>1, <2>1
<1> QED
  BY <1>1, <1>2, <1>3

LEMMA NestedDiv ==
  ASSUME NEW t \in Int, NEW m \in Nat \ {0}, NEW n \in Nat \ {0}
  PROVE  (t \div m) \div n = t \div (n * m)
<1> DEFINE u == t \div m
           k == u \div n
<1>1. u \in Int /\ m * u <= t /\ t < m * u + m
  BY DivBounds
<1> HIDE DEF u
<1>2. k \in Int /\ n * k <= u /\ u <= n * k + n - 1
  BY <1>1, DivBounds
<1> HIDE DEF k
<1>3. m * (n * k) <= m * u
  BY <1>1, <1>2
<1>4. m * u <= m * (n * k + n - 1)
  BY <1>1, <1>2
<1>5. m * (n * k + n - 1) = m * (n * k) + m * n - m
  BY <1>2
<1>6. n * m \in Nat \ {0}
  OBVIOUS
<1>7. (n * m) * k = m * (n * k) /\ m * n = n * m
  BY <1>2
<1>9. m * u \in Int /\ m * (n * k) \in Int
  BY <1>1, <1>2
<1>8. (n * m) * k <= t /\ t < (n * m) * k + n * m
  BY <1>1, <1>3, <1>4, <1>5, <1>6, <1>7, <1>9
<1> QED
  <2>1. t \div (n * m) = k
    BY <1>2, <1>6, <1>8, DivUnique
  <2> QED
    BY <2>1 DEF k, u

\* The period of a counter, in ticks: the step, cut to whole seconds.
Period(c) == WholeSeconds(c) * Second

\* What the package makes of a Config, the one a device takes from the URL included.
AllConfigs == Configs \cup {GenerateOTPAuthURL(s).cfg : s \in UserSecrets}

LEMMA DefaultsFit ==
  ASSUME NEW c \in AllConfigs, NEW d, d = withDefaults(c)
  PROVE  /\ d.step \in Nat \ {0} /\ d.grace \in Nat
         /\ WholeSeconds(c) \in Nat /\ Period(c) \in Nat /\ Period(c) <= d.step
         /\ d.step % Second = 0 => Period(c) = d.step
<1>1. c \in [step : Int, grace : Int, length : Int]
  BY SecretsAssumption DEF SecretsAssumption, AllConfigs, GenerateOTPAuthURL
<1>2. DefaultStep \in Nat \ {0} /\ Second \in Nat \ {0}
  BY SecretsAssumption DEF SecretsAssumption
<1>3. d.step = IF c.step <= 0 THEN DefaultStep ELSE c.step
  BY DEF withDefaults
<1>4. d.grace = IF c.grace < 0 THEN 0 ELSE c.grace
  BY DEF withDefaults
<1>5. d.step \in Nat \ {0} /\ d.grace \in Nat
  BY <1>1, <1>2, <1>3, <1>4
<1>6. WholeSeconds(c) = d.step \div Second
  BY DEF WholeSeconds
<1>7. /\ d.step \div Second \in Nat /\ Second * (d.step \div Second) <= d.step
      /\ d.step % Second = 0 => Second * (d.step \div Second) = d.step
  BY <1>2, <1>5, WholePart
<1>8. WholeSeconds(c) \in Nat /\ Period(c) = Second * (d.step \div Second)
  BY <1>2, <1>6, <1>7 DEF Period
<1>9. Period(c) \in Nat
  BY <1>2, <1>8 DEF Period
<1> QED
  BY <1>5, <1>7, <1>8, <1>9

LEMMA CounterIsPeriods ==
  ASSUME NEW c \in AllConfigs, ~ Panics(c), NEW t \in Int
  PROVE  /\ Period(c) \in Nat \ {0}
         /\ Counter(t, c) = t \div Period(c) /\ Counter(t, c) \in Int
         /\ Period(c) * Counter(t, c) <= t
         /\ t < Period(c) * Counter(t, c) + Period(c)
<1>1. Second \in Nat \ {0}
  BY SecretsAssumption DEF SecretsAssumption
<1>2. WholeSeconds(c) \in Nat \ {0}
  BY DefaultsFit DEF Panics
<1>3. Period(c) \in Nat \ {0}
  BY <1>1, <1>2 DEF Period
<1>4. Counter(t, c) = t \div Period(c)
  BY <1>1, <1>2, NestedDiv DEF Counter, Period
<1> QED
  BY <1>3, <1>4, DivBounds

\* A window is a shift by whole periods, if the step is whole seconds.
LEMMA ShiftedCounter ==
  ASSUME NEW c \in AllConfigs, ~ Panics(c), NEW t \in Int, NEW i \in Int,
         withDefaults(c).step = Period(c)
  PROVE  Counter(t + i * withDefaults(c).step, c) = Counter(t, c) + i
<1> DEFINE P == Period(c)
           k == Counter(t, c)
<1>1. P \in Nat \ {0} /\ k \in Int /\ P * k <= t /\ t < P * k + P
  BY CounterIsPeriods
<1> DEFINE moved == t + i * P
<1>2. moved \in Int
  <2> HIDE DEF P
  <2> QED
    BY <1>1
<1>6. Counter(moved, c) = moved \div P
  <2> HIDE DEF moved
  <2> QED
    BY <1>2, CounterIsPeriods
<1> HIDE DEF P, k
<1>3. P * (k + i) = P * k + i * P /\ P * k \in Int /\ i * P \in Int
  BY <1>1
<1>4. P * (k + i) <= t + i * P /\ t + i * P < P * (k + i) + P
  BY <1>1, <1>3
<1>5. (t + i * P) \div P = k + i
  BY <1>1, <1>2, <1>3, <1>4, DivUnique
<1> QED
  BY <1>5, <1>6 DEF P, k

\* Counters that agree although the periods differ: the time since 1970 is short.
LEMMA UnequalPeriods ==
  ASSUME NEW m \in Nat \ {0}, NEW s1 \in Nat \ {0}, NEW s2 \in Nat \ {0}, s1 # s2,
         NEW a \in Int, NEW b \in Nat, NEW D \in Nat, a - b <= D, b - a <= D,
         NEW k \in Int,
         (s1 * m) * k <= a, a < (s1 * m) * k + s1 * m,
         (s2 * m) * k <= b, b < (s2 * m) * k + s2 * m
  PROVE  b < (D + s2 * m + m) * s2
<1> DEFINE P1 == s1 * m
           P2 == s2 * m
           mk == m * k
<1>1. P1 \in Nat \ {0} /\ P2 \in Nat \ {0} /\ mk \in Int /\ P1 * k \in Int /\ P2 * k \in Int
  OBVIOUS
<1>2. k >= 0
  <2>1. CASE k <= -1
    <3>1. P2 * k <= P2 * (-1)
      BY <1>1, <2>1
    <3> QED
      BY <1>1, <3>1
  <2> QED
    BY <2>1
<1>3. mk >= 0
  BY <1>2
<1>4. mk < D + P2
  <2>1. CASE s1 > s2
    <3>1. (s2 + 1) * mk <= s1 * mk
      BY <1>1, <1>3, <2>1
    <3>2. (s2 + 1) * mk = s2 * mk + mk /\ s2 * mk = P2 * k /\ s1 * mk = P1 * k
      BY <1>1
    <3> HIDE DEF P1, P2, mk
    <3>3. P2 * k + mk <= P1 * k
      BY <3>1, <3>2
    <3>4. P1 * k <= a /\ b < P2 * k + P2
      BY DEF P1, P2
    <3> QED
      BY <1>1, <3>3, <3>4
  <2>2. CASE s2 > s1
    <3>1. (s1 + 1) * mk <= s2 * mk
      BY <1>1, <1>3, <2>2
    <3>2. (s1 + 1) * mk = s1 * mk + mk /\ s2 * mk = P2 * k /\ s1 * mk = P1 * k
      BY <1>1
    <3>3. P1 <= P2
      BY <2>2
    <3> HIDE DEF P1, P2, mk
    <3>4. P1 * k + mk <= P2 * k
      BY <3>1, <3>2
    <3>5. P2 * k <= b /\ a < P1 * k + P1
      BY DEF P1, P2
    <3> QED
      BY <1>1, <3>3, <3>4, <3>5
  <2> QED
    BY <2>1, <2>2
<1>5. s2 * (mk + m) <= s2 * (D + P2 + m)
  BY <1>1, <1>4
<1>6. s2 * (mk + m) = P2 * k + P2
  OBVIOUS
<1>7. s2 * (D + P2 + m) = (D + P2 + m) * s2
  BY <1>1
<1> QED
  BY <1>1, <1>5, <1>6, <1>7

-----------------------------------------------------------------------------
(* The code on its way from the device to the service. *)

\* A code is shown while no enrolment runs, so that the record it was computed from
\* is the one it is validated against; and the last answer is still about the
\* present moment.
LoginInv ==
  /\ cfg \in Configs
  /\ clock \in Start .. Start + Horizon
  /\ enrolling = NoUser \/ shown = NoUser
  /\ shown # NoUser =>
       /\ shown.at \in Start - MaxSkew .. clock + MaxSkew
       /\ shown.cfg \in AllConfigs /\ ~ Panics(shown.cfg)
       /\ shown.code = GenerateCode(shown.code.secret, shown.at, shown.cfg)
  /\ answer \in {"accepted", "wrong"} => shown # NoUser /\ ~ Panics(cfg)
  /\ answer = "accepted" => Validate(record.blob.secret, shown.code, clock, cfg)
  /\ answer = "wrong" => ~ Validate(record.blob.secret, shown.code, clock, cfg)

LEMMA InitLogin == Init => LoginInv
<1> QED
  BY SecretsAssumption DEF SecretsAssumption, Init, LoginInv

LEMMA StepLogin == LoginInv /\ [Next]_vars => LoginInv'
<1> SUFFICES ASSUME LoginInv, [Next]_vars PROVE LoginInv'
  OBVIOUS
<1>0. Start \in Nat /\ Horizon \in Nat /\ MaxSkew \in Nat
  BY SecretsAssumption DEF SecretsAssumption
<1>1. ASSUME NEW s \in UserSecrets, NEW o \in Orders, Enrol(s, o) PROVE LoginInv'
  BY <1>1 DEF Enrol, Idle, LoginInv
<1>2. CASE (\E c \in Codes : Draw(c)) \/ Enrolled
  <2>1. shown = NoUser /\ UNCHANGED <<cfg, clock, shown, answer>>
    BY <1>2 DEF Draw, Enrolled, LoginInv
  <2> QED
    BY <2>1 DEF LoginInv
<1>3. CASE RandomFails
  BY <1>3 DEF RandomFails, LoginInv
<1>4. ASSUME NEW s \in UserSecrets, NEW skew \in -MaxSkew .. MaxSkew, Show(s, skew)
      PROVE  LoginInv'
  <2>1. PICK c \in {cfg, GenerateOTPAuthURL(s).cfg} :
          /\ ~ Panics(c)
          /\ shown' = [code |-> GenerateCode(s, clock + skew, c), at |-> clock + skew,
                       cfg |-> c]
    BY <1>4 DEF Show
  <2>2. c \in AllConfigs
    BY DEF LoginInv, AllConfigs
  <2>3. shown'.at \in Start - MaxSkew .. clock + MaxSkew
    BY <1>0, <2>1 DEF LoginInv
  <2>4. shown'.code = GenerateCode(shown'.code.secret, shown'.at, shown'.cfg)
    BY <2>1 DEF GenerateCode
  <2>5. enrolling' = NoUser /\ answer' = "none" /\ UNCHANGED <<cfg, clock>>
    BY <1>4 DEF Show, Idle
  <2> QED
    BY <2>1, <2>2, <2>3, <2>4, <2>5 DEF LoginInv
<1>5. CASE Login
  <2>1. UNCHANGED <<cfg, record, enrolling, clock, shown>> /\ shown # NoUser
    BY <1>5 DEF Login
  <2>2. answer' = "accepted" =>
          Validate(record.blob.secret, shown.code, clock, cfg) /\ ~ Panics(cfg)
    BY <1>5 DEF Login
  <2>3. answer' = "wrong" =>
          ~ Validate(record.blob.secret, shown.code, clock, cfg) /\ ~ Panics(cfg)
    BY <1>5 DEF Login
  <2>4. Validate(record.blob.secret, shown.code, clock, cfg)'
        <=> Validate(record.blob.secret, shown.code, clock, cfg)
    BY <2>1 DEF Validate, withDefaults, GenerateCode, Counter, WholeSeconds
  <2> QED
    BY <2>1, <2>2, <2>3, <2>4 DEF LoginInv
<1>6. CASE GiveUp
  BY <1>6 DEF GiveUp, LoginInv
<1>7. CASE Tick
  BY <1>0, <1>7 DEF Tick, LoginInv
<1>8. CASE Restart
  BY <1>8 DEF Restart, LoginInv
<1>9. CASE UNCHANGED vars
  BY <1>9 DEF vars, LoginInv
<1> QED
  BY <1>1, <1>2, <1>3, <1>4, <1>5, <1>6, <1>7, <1>8, <1>9 DEF Next

THEOREM LoginInvariance == Spec => []LoginInv
<1> QED
  BY InitLogin, StepLogin, PTL DEF Spec

\* 1970 is long ago: longer than the time a code may be on its way, times the
\* seconds of a step.  Today, with a step of half a minute, that leaves a code more
\* than a year.
LongSince1970 ==
  \A c \in Configs :
    LET d == withDefaults(c)
        span == Horizon + MaxSkew + d.grace * d.step
    IN Start >= d.grace * d.step + (span + Period(c) + Second) * WholeSeconds(c)

LEMMA EqualCountersAreNear ==
  ASSUME LongSince1970, NEW c \in Configs, ~ Panics(c), NEW e \in AllConfigs, ~ Panics(e),
         NEW t \in Start .. Start + Horizon, NEW at \in Start - MaxSkew .. t + MaxSkew,
         NEW g \in Nat, g = withDefaults(c).grace,
         NEW st \in Nat \ {0}, st = withDefaults(c).step,
         NEW i \in -g .. g, Counter(t + i * st, c) = Counter(at, e)
  PROVE  Distance(at, t) < (g + 1) * st
<1>0. /\ Start \in Nat /\ Horizon \in Nat /\ MaxSkew \in Nat /\ Second \in Nat \ {0}
      /\ t \in Nat /\ at \in Int /\ i \in Int
  BY SecretsAssumption DEF SecretsAssumption
<1> DEFINE w == g * st
           move == i * st
           b == t + move
<1>1. move \in Int /\ w \in Nat /\ move <= w /\ -w <= move
  <2>1. i <= g /\ -g <= i /\ -g \in Int
    OBVIOUS
  <2>2. i * st <= g * st
    BY <1>0, <2>1
  <2>3. (-g) * st <= i * st
    BY <1>0, <2>1
  <2>4. (-g) * st = -(g * st)
    OBVIOUS
  <2>5. i * st \in Int /\ g * st \in Nat
    BY <1>0
  <2> QED
    BY <2>2, <2>3, <2>4, <2>5
<1>2. (g + 1) * st = w + st
  OBVIOUS
<1>3. c \in AllConfigs /\ b \in Int
  BY <1>0, <1>1 DEF AllConfigs
<1> DEFINE k == Counter(at, e)
<1>4. /\ Period(c) \in Nat \ {0} /\ k \in Int
      /\ Period(c) * k <= b /\ b < Period(c) * k + Period(c)
  <2>1. Counter(b, c) = k
    OBVIOUS
  <2> HIDE DEF b, k
  <2> QED
    BY <1>3, <2>1, CounterIsPeriods
<1>5. /\ Period(e) \in Nat \ {0}
      /\ Period(e) * k <= at /\ at < Period(e) * k + Period(e)
  BY <1>0, CounterIsPeriods
<1>6. Period(c) <= st
  BY <1>3, DefaultsFit
<1>7. WholeSeconds(c) \in Nat \ {0} /\ WholeSeconds(e) \in Nat \ {0}
  BY <1>3, DefaultsFit DEF Panics
<1> HIDE DEF w, move, k
<1>8. CASE Period(c) = Period(e)
  <2>1. Period(c) * k \in Int
    BY <1>4
  <2>2. at - b < st /\ b - at < st
    BY <1>0, <1>1, <1>3, <1>4, <1>5, <1>6, <1>8, <2>1
  <2>3. at - t < w + st /\ t - at < w + st
    BY <1>0, <1>1, <2>2
  <2> QED
    BY <1>0, <1>2, <2>3 DEF Distance
\* Impossible: with unequal periods, equal counters are counters of the early years.
<1>9. CASE Period(c) # Period(e)
  <2> DEFINE D == Horizon + MaxSkew + w
             late == (D + Period(c) + Second) * WholeSeconds(c)
  <2>1. D \in Nat /\ late \in Nat /\ Start >= w + late
    <3>1. D \in Nat
      BY <1>0, <1>1
    <3>2. late \in Nat
      BY <1>0, <1>4, <1>7, <3>1
    <3>3. Start >= w + late
      BY DEF LongSince1970, w
    <3> QED
      BY <3>1, <3>2, <3>3
  <2> HIDE DEF late
  <2>2. b \in Nat /\ at - b <= D /\ b - at <= D /\ b >= late
    BY <1>0, <1>1, <2>1
  <2>3. /\ Period(c) = WholeSeconds(c) * Second /\ Period(e) = WholeSeconds(e) * Second
        /\ WholeSeconds(c) # WholeSeconds(e)
    BY <1>9 DEF Period
  <2> HIDE DEF D, b
  <2>4. b < (D + Period(c) + Second) * WholeSeconds(c)
    BY <1>0, <1>4, <1>5, <1>7, <2>1, <2>2, <2>3, UnequalPeriods
  <2> QED
    BY <2>1, <2>2, <2>4 DEF late, b
<1> QED
  BY <1>8, <1>9

\* A code is accepted only while it is recent: even when the step is no whole number
\* of seconds, and whatever the steps of the device and the service (Validate).
THEOREM OnlyRecentCodes ==
  ASSUME LongSince1970
  PROVE  Spec => []AcceptedIsRecent
<1>1. LoginInv => AcceptedIsRecent
  <2> SUFFICES ASSUME LoginInv, answer = "accepted" PROVE AcceptedIsRecent
    BY DEF AcceptedIsRecent
  <2> DEFINE d == withDefaults(cfg)
  <2>1. /\ shown.cfg \in AllConfigs /\ ~ Panics(shown.cfg) /\ cfg \in Configs /\ ~ Panics(cfg)
        /\ clock \in Start .. Start + Horizon
        /\ shown.at \in Start - MaxSkew .. clock + MaxSkew
        /\ shown.code = GenerateCode(shown.code.secret, shown.at, shown.cfg)
    BY DEF LoginInv
  <2>2. PICK i \in -d.grace .. d.grace :
          GenerateCode(record.blob.secret, clock + i * d.step, cfg) = shown.code
    BY DEF LoginInv, Validate
  <2>3. shown.code.secret = record.blob.secret
    BY <2>2 DEF GenerateCode
  <2>4. Counter(clock + i * d.step, cfg) = Counter(shown.at, shown.cfg)
    BY <2>1, <2>2 DEF GenerateCode
  <2>5. d.grace \in Nat /\ d.step \in Nat \ {0}
    BY <2>1, DefaultsFit DEF AllConfigs
  <2>6. Distance(shown.at, clock) < (d.grace + 1) * d.step
    BY <2>1, <2>4, <2>5, EqualCountersAreNear
  <2> QED
    BY <2>3, <2>6 DEF AcceptedIsRecent
<1> QED
  BY <1>1, LoginInvariance, PTL

\* A code shown within the grace period is never refused as wrong, for every grace
\* period and every step of whole seconds (Validate).
THEOREM GraceIsKept == Spec => []InGraceIsAccepted
<1>1. LoginInv => InGraceIsAccepted
  <2> DEFINE d == withDefaults(cfg)
             e == withDefaults(shown.cfg)
  <2> SUFFICES ASSUME LoginInv, answer = "wrong", shown.code.secret = record.blob.secret,
                      d.step = e.step, d.length = e.length, d.step % Second = 0,
                      ~ (Distance(Counter(shown.at, cfg), Counter(clock, cfg)) > d.grace)
               PROVE  FALSE
    BY DEF InGraceIsAccepted
  <2>0. Start \in Nat /\ Horizon \in Nat /\ MaxSkew \in Nat
    BY SecretsAssumption DEF SecretsAssumption
  <2>1. /\ shown.cfg \in AllConfigs /\ cfg \in AllConfigs /\ ~ Panics(cfg)
        /\ clock \in Int /\ shown.at \in Int
        /\ shown.code = GenerateCode(shown.code.secret, shown.at, shown.cfg)
    BY <2>0 DEF LoginInv, AllConfigs
  <2> DEFINE i == Counter(shown.at, cfg) - Counter(clock, cfg)
  <2>2. Counter(shown.at, cfg) \in Int /\ Counter(clock, cfg) \in Int
    BY <2>1, CounterIsPeriods
  <2>3. d.grace \in Nat /\ d.step = Period(cfg)
    BY <2>1, DefaultsFit
  <2>4. i \in -d.grace .. d.grace
    BY <2>2, <2>3 DEF Distance
  <2>5. Counter(clock + i * d.step, cfg) = Counter(shown.at, cfg)
    <3>1. i \in Int
      BY <2>2
    <3>2. Counter(clock, cfg) + i = Counter(shown.at, cfg)
      BY <2>2
    <3> HIDE DEF i
    <3> QED
      BY <2>1, <2>3, <3>1, <3>2, ShiftedCounter
  <2>6. Counter(shown.at, cfg) = Counter(shown.at, shown.cfg)
    BY DEF Counter, WholeSeconds
  <2>7. GenerateCode(record.blob.secret, clock + i * d.step, cfg) = shown.code
    BY <2>1, <2>5, <2>6 DEF GenerateCode
  <2>8. Validate(record.blob.secret, shown.code, clock, cfg)
    BY <2>4, <2>7 DEF Validate
  <2> QED
    BY <2>8 DEF LoginInv
<1> QED
  BY <1>1, LoginInvariance, PTL
=============================================================================
