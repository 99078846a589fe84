------------------------------ MODULE Secrets ------------------------------
(***************************************************************************)
(* One-time passwords (src/totp) whose secret is kept sealed by a key ring *)
(* (src/encryption).  One user of a service, step by step: the service     *)
(* enrols the user (a fresh secret, a set of backup codes, the secret      *)
(* sealed under the ring's current key and stored with the key's           *)
(* fingerprint), a device shows a code, the user submits it some time      *)
(* later, and the service opens the secret and validates the code.  At any *)
(* moment the service may restart with a rotated master key.               *)
(*                                                                         *)
(* The service and the device are outside the repository.  Time counts     *)
(* ticks, Second of them to the second, so that a TimeStep can be a        *)
(* fraction of a second.  Sealing and codes are ideal: only the sealing    *)
(* key opens a blob, and two codes are equal only when secret, counter and *)
(* length are.                                                             *)
(***************************************************************************)
EXTENDS Integers, Sequences, FiniteSets

CONSTANTS
  Keys,              \* master keys an operator may configure
  Sized,             \* those that decode to KeySize bytes
  Fingerprint,       \* a function: the truncated hash of each key
  MaxPrevious,       \* bound: previous keys configured at once
  UserSecrets,       \* secrets GenerateSecret may return
  Configs,           \* totp.Config values: [step, grace, length], step in ticks
  Second,            \* ticks in a second
  DefaultStep, DefaultLength, MaxLength,   \* the package's defaults and limit
  Alphabet,          \* characters of a backup code
  Orders,            \* backup codes asked for: [n, length]
  Start, Horizon,    \* the ticks a behaviour spans
  MaxSkew,           \* bound: ticks the device's clock may be off
  NoUser             \* no record, no code, no enrolment: a model value

KeyId == {Fingerprint[k] : k \in Keys}

ASSUME SecretsAssumption ==
  /\ Sized \subseteq Keys /\ Fingerprint \in [Keys -> KeyId]
  /\ {Second, DefaultStep, DefaultLength, Horizon} \subseteq Nat \ {0}
  /\ {MaxPrevious, MaxSkew, Start} \subseteq Nat
  /\ MaxLength \in Nat /\ DefaultLength <= MaxLength
  /\ DefaultStep % Second = 0
  /\ Configs \subseteq [step : Int, grace : Int, length : Int]
  /\ Orders \subseteq [n : Int, length : Int]

VARIABLES
  ring,      \* the running service's KeyRing, and what it was built from
  cfg,       \* the totp.Config the service passes to every call
  record,    \* what the service stored for the user, or NoUser
  enrolling, \* the call of GenerateBackupCodes in progress, or NoUser
  codes,     \* the backup codes handed out at the last enrolment
  clock,     \* the service's time
  shown,     \* the code the device shows and the user carries, or NoUser
  answer     \* what the last login answered; "none" after any other step

vars == <<ring, cfg, record, enrolling, codes, clock, shown, answer>>

----------------------------------------------------------------------------
(* The key ring *)

Given(current, previous) == <<current>> \o previous

\* Mutant: the map holds the previous keys and not the current one.
NewKeyRingOfPrevious(current, previous) ==
  LET ids == {Fingerprint[previous[i]] : i \in DOMAIN previous}
  IN [current   |-> current,
      currentID |-> Fingerprint[current],
      keys      |-> [f \in ids |-> CHOOSE k \in Keys :
                       Fingerprint[k] = f /\ \E i \in DOMAIN previous : previous[i] = k],
      given     |-> {current} \cup {previous[i] : i \in DOMAIN previous}]

IsLast(given, f, i) ==
  /\ Fingerprint[given[i]] = f
  /\ \A j \in i + 1 .. Len(given) : Fingerprint[given[j]] # f
LastWith(given, f) == given[CHOOSE i \in DOMAIN given : IsLast(given, f, i)]

\* The keys by fingerprint: a later key replaces an earlier one whose
\* fingerprint it shares, the current key included.
NewKeyRing(current, previous) ==
  LET given == Given(current, previous)
  IN [current   |-> current,
      currentID |-> Fingerprint[current],
      keys      |-> [f \in {Fingerprint[given[i]] : i \in DOMAIN given} |->
                       LastWith(given, f)],
      given     |-> {given[i] : i \in DOMAIN given}]

Encrypt(key, secret) == [key |-> key, secret |-> secret]
EncryptCurrent(r, secret) ==
  [blob |-> Encrypt(r.current, secret), keyID |-> r.currentID]

\* GCM authenticates: no other key opens the blob.
Decrypts(key, blob) == key = blob.key

\* What the ring's Decrypt fails on: a fingerprint it does not hold, or the
\* wrong key under it.
Opens(r, sealed) ==
  /\ sealed.keyID \in DOMAIN r.keys
  /\ Decrypts(r.keys[sealed.keyID], sealed.blob)

----------------------------------------------------------------------------
(* One-time passwords *)

withDefaults(c) ==
  [step   |-> IF c.step <= 0 THEN DefaultStep ELSE c.step,
   grace  |-> IF c.grace < 0 THEN 0 ELSE c.grace,
   length |-> IF c.length < 1 THEN DefaultLength
              ELSE IF c.length > MaxLength THEN MaxLength ELSE c.length]

\* The step is cut to whole seconds before the division.
WholeSeconds(c) == withDefaults(c).step \div Second
Counter(t, c) == (t \div Second) \div WholeSeconds(c)

GenerateCode(secret, t, c) ==
  [secret |-> secret, counter |-> Counter(t, c), length |-> withDefaults(c).length]

\* Mutants: one window too many at either end; the last window left out.
ValidateWider(secret, code, t, c) ==
  LET d == withDefaults(c)
  IN \E i \in -d.grace - 1 .. d.grace + 1 :
       GenerateCode(secret, t + i * d.step, c) = code

ValidateShort(secret, code, t, c) ==
  LET d == withDefaults(c)
  IN \E i \in -d.grace .. d.grace - 1 : GenerateCode(secret, t + i * d.step, c) = code

\* A window is a shift of the time, not of the counter.
Validate(secret, code, t, c) ==
  LET d == withDefaults(c)
  IN \E i \in -d.grace .. d.grace : GenerateCode(secret, t + i * d.step, c) = code

\* A step below one second divides by zero.
Panics(c) == WholeSeconds(c) = 0

\* The URL a device is set up with carries neither period nor digits: the
\* device falls back on its own defaults.
GenerateOTPAuthURL(secret) ==
  [secret |-> secret, cfg |-> [step |-> 0, grace |-> 0, length |-> 0]]

----------------------------------------------------------------------------
(* Backup codes *)

Space(length) == [1 .. length -> Alphabet]
Codes == UNION {Space(o.length) : o \in Orders}

\* What ParseMasterKey lets through.
Parsed == {k \in Keys : k \in Sized}

Rings ==
  {NewKeyRing(k, previous) :
     k \in Parsed, previous \in UNION {[1 .. n -> Parsed] : n \in 0 .. MaxPrevious}}

Init ==
  /\ ring \in Rings
  /\ cfg \in Configs
  /\ record = NoUser /\ enrolling = NoUser /\ codes = <<>>
  /\ clock = Start /\ shown = NoUser /\ answer = "none"

(* The service enrols the user: GenerateSecret, then GenerateBackupCodes,    *)
(* which returns at once when nothing is asked for or the length is wrong.   *)
Idle == enrolling = NoUser /\ shown = NoUser

Store(secret, list) ==
  /\ record' = EncryptCurrent(ring, secret)
  /\ codes' = list
  /\ enrolling' = NoUser

Enrol(secret, o) ==
  /\ Idle
  /\ record # NoUser => record.blob.secret # secret
  /\ \/ /\ o.n <= 0
        /\ Store(secret, <<>>)
     \/ /\ o.n > 0 /\ o.length > 0
        /\ enrolling' = [secret |-> secret, order |-> o, seen |-> <<>>]
        /\ UNCHANGED <<record, codes>>
  /\ answer' = "none"
  /\ UNCHANGED <<ring, cfg, clock, shown>>

\* Mutant: only the code drawn last is compared.
SeenJustBefore(code) ==
  /\ enrolling.seen # <<>>
  /\ enrolling.seen[Len(enrolling.seen)] = code

SeenBefore(code) == \E i \in DOMAIN enrolling.seen : enrolling.seen[i] = code

\* One turn of the loop: a random code is kept unless it was drawn before.
Draw(code) ==
  /\ enrolling # NoUser
  /\ Len(enrolling.seen) < enrolling.order.n
  /\ code \in Space(enrolling.order.length)
  /\ ~ SeenBefore(code)
  /\ enrolling' = [enrolling EXCEPT !.seen = Append(@, code)]
  /\ UNCHANGED <<ring, cfg, record, codes, clock, shown, answer>>

\* Mutant: one code more than was asked for.
EnrolledLate ==
  /\ enrolling # NoUser
  /\ Len(enrolling.seen) > enrolling.order.n
  /\ Store(enrolling.secret, enrolling.seen)
  /\ UNCHANGED <<ring, cfg, clock, shown, answer>>

Enrolled ==
  /\ enrolling # NoUser
  /\ Len(enrolling.seen) >= enrolling.order.n
  /\ Store(enrolling.secret, enrolling.seen)
  /\ UNCHANGED <<ring, cfg, clock, shown, answer>>

\* No random bytes, for a code or for the nonce the secret is sealed with: the call
\* returns its error and the enrolment is given up.
RandomFails ==
  /\ enrolling # NoUser
  /\ enrolling' = NoUser
  /\ UNCHANGED <<ring, cfg, record, codes, clock, shown, answer>>

(* The device shows a code.  It was set up from the URL, or it computes      *)
(* codes with this package and the service's own Config.                     *)
Show(secret, skew) ==
  /\ Idle
  /\ record # NoUser
  /\ \E c \in {cfg, GenerateOTPAuthURL(secret).cfg} :
       /\ ~ Panics(c)
       /\ shown' = [code |-> GenerateCode(secret, clock + skew, c),
                    at |-> clock + skew, cfg |-> c]
  /\ answer' = "none"
  /\ UNCHANGED <<ring, cfg, record, enrolling, codes, clock>>

(* The service opens the stored secret and validates the code. *)
Login ==
  /\ shown # NoUser /\ answer = "none"
  /\ answer' = CASE ~ Opens(ring, record) -> "unreadable"
                 [] Opens(ring, record) /\ Panics(cfg) -> "panic"
                 [] OTHER -> IF Validate(record.blob.secret, shown.code, clock, cfg)
                             THEN "accepted" ELSE "wrong"
  /\ UNCHANGED <<ring, cfg, record, enrolling, codes, clock, shown>>

GiveUp ==
  /\ shown # NoUser
  /\ shown' = NoUser /\ answer' = "none"
  /\ UNCHANGED <<ring, cfg, record, enrolling, codes, clock>>

Tick ==
  /\ clock < Start + Horizon
  /\ clock' = clock + 1 /\ answer' = "none"
  /\ UNCHANGED <<ring, cfg, record, enrolling, codes, shown>>

\* The service is started again, perhaps with other master keys: an enrolment
\* in progress is lost.
Restart ==
  /\ ring' \in Rings
  /\ enrolling' = NoUser /\ answer' = "none"
  /\ UNCHANGED <<cfg, record, codes, clock, shown>>

Next ==
  \/ \E s \in UserSecrets, o \in Orders : Enrol(s, o)
  \/ \E c \in Codes : Draw(c)
  \/ Enrolled
  \/ RandomFails
  \/ \E s \in UserSecrets, skew \in -MaxSkew .. MaxSkew : Show(s, skew)
  \/ Login
  \/ GiveUp
  \/ Tick
  \/ Restart

\* The random source returns every code sooner or later, and the call runs.
Fairness == (\A c \in Codes : WF_vars(Draw(c))) /\ WF_vars(Enrolled)

Spec == Init /\ [][Next]_vars
FairSpec == Spec /\ Fairness

----------------------------------------------------------------------------
(* Properties *)

\* Every variable has its type: the ring is one the package can build, a record
\* carries the fingerprint of the key it was sealed under, and the backup codes
\* handed out are distinct (GenerateBackupCodes).
TypeOK ==
  /\ ring \in Rings /\ cfg \in Configs
  /\ record # NoUser => /\ record.blob.key \in Sized /\ record.blob.secret \in UserSecrets
                        /\ record.keyID = Fingerprint[record.blob.key]
  /\ enrolling # NoUser => enrolling.order \in Orders
  /\ codes \in Seq(Codes)
  /\ \A i, j \in DOMAIN codes : codes[i] = codes[j] => i = j
  /\ clock \in Start .. Start + Horizon
  /\ answer \in {"none", "accepted", "wrong", "unreadable", "panic"}

\* A rotation loses nothing: whatever the ring a secret was sealed by and
\* however often the service restarted since, a login can open it as long as
\* the sealing key is still configured, current or previous, and no other
\* configured key has its fingerprint (NewKeyRing, KeyRing.Decrypt).
KeptKeysOpen ==
  record # NoUser =>
    \/ Opens(ring, record)
    \/ record.blob.key \notin ring.given
    \/ \E k \in ring.given : k # record.blob.key /\ Fingerprint[k] = Fingerprint[record.blob.key]

\* A code is accepted only while it is recent: what the device showed is at
\* most the grace period and one step away from the moment of the login, even
\* when the step is not a whole number of seconds (Validate).
Distance(a, b) == IF a < b THEN b - a ELSE a - b

AcceptedIsRecent ==
  answer = "accepted" =>
    /\ shown.code.secret = record.blob.secret
    /\ LET d == withDefaults(cfg)
       IN Distance(shown.at, clock) < (d.grace + 1) * d.step

\* A code shown within the grace period is never refused as wrong, however
\* close to the edge of a window it was shown or submitted: provided that the
\* device computes codes the service's way and the step is whole seconds.
InGraceIsAccepted ==
  answer = "wrong" =>
    \/ shown.code.secret # record.blob.secret
    \/ LET d == withDefaults(cfg)
           e == withDefaults(shown.cfg)
       IN \/ d.step # e.step \/ d.length # e.length
          \/ d.step % Second # 0
          \/ Distance(Counter(shown.at, cfg), Counter(clock, cfg)) > d.grace

\* Asking for no more codes than there are always ends (the loop of
\* GenerateBackupCodes has no other bound: asking for more never does).
GenerationEnds ==
  (/\ enrolling # NoUser
   /\ enrolling.order.n <= Cardinality(Space(enrolling.order.length)))
     ~> enrolling = NoUser
=============================================================================
