# A TLA+ model of swlib

swlib is the Go library SwayRider's services are built from. This directory
models the parts of it that carry state across calls, goroutines or processes,
checks them with TLC on small instances and proves theorems about them with
TLAPS. Paths below are relative to `src/`.

## Inventory

| Component | State | Operations | Hard behaviour |
|---|---|---|---|
| `jwtkeys` public-key cache | keys, last success, staleness report, tunables | Configure, Run/Start, tick, refresh, noteStale | fetch goroutine against timeout against ticker; late answers; panics and back-off; cancellation during a refresh |
| `ratelimit` limiter, `app/ratelimit.go` evictor | a token bucket and a last-seen time per key | Allow, Evict, the evictor's ticker | eviction between any two requests; lazily computed refill |
| `app` lifecycle | builder options, background context, WaitGroup, gRPC server, gateway, callbacks | the builder, Run, startGrpc, stopGrpcServer | signal at any moment; goroutines scheduled late; RPCs and gateway requests in flight; unbounded waits |
| `app` configuration, `env`, `flag` | one value per field | the builder's declarations, Parse, Value | two declarations of a name; precedence of .env file, environment, flags, defaults; several flag sets |
| `security` | registry of endpoint profiles; identity in a context | registrations, lookup, Evaluate, ResolveUserID | registrations in any order; keys that change between requests |
| interceptors and middleware | none of their own | rate limit, authentication, client information | the order of the chain; two entrances (gRPC port, gateway) to one endpoint |
| `grpc/s2s` | none | Call | one retry with a new token |
| `svcreg` (deprecated) | list of services | sync loop, Get, Stop | stale lists, a second Stop |
| `cache`, `AppData` | a map under a lock | Get, Set, Delete | concurrent use |
| `compression` | a stack of writers, a destination directory | Tar, Zip, UnTar, UnZip | closing order and dropped errors; a source that changes; extraction tried again over its own leftovers |
| `totp` | none | GenerateSecret, GenerateCode, Validate, GenerateBackupCodes | window arithmetic; a loop bounded by luck |
| `encryption` | a key ring | NewKeyRing, EncryptCurrent, Decrypt, ParseMasterKey | data that outlives rotations; keys found by fingerprint |
| `jwt`, `http/cookies`, `http/compression` | none | tokens, cookies, gzip | conversions |
| `logger`, `crypto`, `hibp`, `math`, `str` | none to speak of | pure functions | - |

How they meet: a service builds an `app`, whose `Run` parses the configuration, starts the key cache's
loop and the evictor as background routines and the gRPC server with its interceptors; the authentication interceptor asks the key cache for keys and
`security` for a verdict, the rate-limit interceptor and middleware share one
limiter; `Run`'s shutdown stops servers first and cancels the background
context last. A service that calls another wraps the call in `s2s.Call`, whose second
attempt is judged by the callee's interceptor with the keys its cache holds at that moment.
A service that keeps secrets seals them with a key ring; one-time-password secrets are the
ones this library itself makes.

What makes each of them correct: the cache never trades newer keys for older
ones, reports staleness truthfully and stops when told; the limiter keeps its
rate in every window of time and forgets idle keys unnoticed; shutdown cuts
nothing off and completes; an endpoint lets in exactly the callers its
declarations describe, tells the handler the truth about them and meters each
of their requests once; a call between services has one effect and survives a rotation of
keys; a field's value comes from the one source that outranks the others; an archive
reported as made is complete and comes back as it went in; a login accepts recent codes and
only those, and a rotated master key loses nothing.

## Modules

| Module | Models | Checked by |
|---|---|---|
| `KeyStore` | what `jwtkeys` promises to those who verify tokens | as a property of `JwtKeysCache` |
| `JwtKeysCache` | `jwtkeys/cache.go`, and its wiring in `app/jwtkeys.go`; implements `KeyStore` | `MCJwtKeysCache` |
| `TokenBucket` | the promise of `ratelimit` | as a property of `RateLimiter` |
| `RateLimiter` | `ratelimit/limiter.go`, evictor of `app/ratelimit.go`; implements `TokenBucket` | `MCRateLimiter` |
| `AppLifecycle` | `app/app.go` Run, `app/grpc.go`, `app/http.go`, `app/db.go`, `app/service_clients.go` | `MCAppLifecycle` |
| `EndpointAccess` | `security/endpoint_profile.go`, `security/context.go`, interceptors and middleware | `MCEndpointAccess` |
| `ServiceCalls` | `grpc/s2s/s2s.go` over the callee's interceptor and a `KeyStore` | `MCServiceCalls` |
| `Config` | `app/config.go`, `app/config_field.go`, `app/constants.go`, the builder's declarations in `app/app.go`, `env/`, `flag/` | `MCConfig` |
| `Archive` | `compression/tar.go`, `compression/zip.go` | `MCArchive` |
| `Secrets` | `totp/totp.go`, `encryption/` | `MCSecrets` |
| `JwtKeysCacheProofs`, `RateLimiterProofs`, `AppLifecycleProofs`, `ServiceCallsProofs`, `SecretsProofs`, `EndpointAccessProofs`, `ArchiveProofs`, `ConfigProofs` | theorems about the eight | tlapm |

Operators named "Mutant of ..." in comments are not part of any specification:
each is a plausible bug of the definition below it, which one property catches.

### JwtKeysCache

The refresh goroutine is `pc`: `new` (before Run), `first` and `refresh` (in
`refresh`), `select` (in `tick`), `backoff` (in `runLoop` after a panic),
`stopped`. The child goroutine of the refresh in progress is `fetch`, its
channel `ch`; children of refreshes that timed out live on in `late` and send on
channels without a reader. Time is discrete: `Elapse` advances every timer and
age by one. The ticker has a channel of capacity one (`tickPending`), and Go's
random choice among ready cases is the interleaving of `TickerFires` and
`StopLoop`, or of `RefreshSucceeds` and `RefreshTimesOut`. A key set is the
number of the rotation that published it. `Start` runs the same steps in another
goroutine. Not modelled: log output other than the staleness report, and the
scheduling inside `mu`, under which each critical section is one step.

`ImplementsKeyStore` maps `keys` and `authGen` to those of `KeyStore`, which allows
less than the cache does internally and all that a reader can see of it.

* `JwtKeysSafety`: two rotations, one late fetch, reconfiguration before the loop runs,
  goroutines that run before time passes (`Prompt`) and no panics. Two rotations are enough to have older and
  newer keys on their way at once; one late fetch is enough for a reply to land in
  another refresh; the ages count past the longest bound any property uses.
  `AnswersAreFresh`, `KeysNeverGoBack` and `ImplementsKeyStore` need neither
  `Prompt` nor the absence of panics: their proofs make no use of them.
* `JwtKeysLiveness`: shutdown and recovery under `Fairness` (see there), with panics, every duration
  of one unit, which lets a timeout, a tick and an answer fall together.

### TokenBucket and RateLimiter

The unit of time is the time in which one credit flows in; a request costs
`Cost` credits and a bucket holds `Burst * Cost`. `TokenBucket` never forgets a
key; `RateLimiter` makes buckets on first use, strikes the balance when asked
(`golang.org/x/time/rate` is external: balance, time it was struck, refill
capped at the burst) and evicts. `ImplementsTokenBucket` maps the abstract level to
what the (possibly absent) bucket would hold if asked now. It needs the
assumption that a bucket idle for longer than `IdleTTL` is full, that is
`Burst * Cost <= IdleTTL`, which no code checks (see Findings).
An auditor's window, opened at any moment (`Audit`), is history: it lets `WithinRate`
speak of every interval of time, not only of those that begin with the program.
`IdleKeysAreForgotten` speaks of an evictor that keeps up: no tick waits for it.
Ages stop at the smallest value past which they make no difference (`Aged`).

Two keys are enough: buckets share only the evictor and the lock. Cost and burst
of 2 let a bucket be partly full.

### AppLifecycle

Main walks through `Startup` and `Shutdown`, tables of the stages of `Run` and
`stopGrpcServer` in their order; the actions say what a stage does. The
goroutines for `Serve` and `ListenAndServe` are `ready` from the `go` statement on
and run when scheduled. `Shutdown` (net/http) waits for requests at most 5 seconds,
so `EndShutdown` may happen with requests in flight and says so in `timedOut`;
`GracefulStop` (grpc-go) waits for handlers without a bound. Initializers and
database bootstrap are single steps that may fail as the code lets them.
Two requests and two routines are enough for one to be finished and another in
flight, and one RPC called directly to meet them. A ctor that returns no client ends the
process (`ClientMissing`). A process that has ended stutters (`Exited`).

### EndpointAccess

One endpoint, registered for any method (`"any"`) or for one. `profiles` is the
registry's map; `declared` remembers, as history, what the registrations said, so that
`DeclarationsAddUp` can compare verdicts with declarations and not with the
profile the code built from them. A token is a record of its claims, the key
that signed it and whether it has expired at the time of the request; all tokens
are for this audience. `outcome` is the latest request with what was known when it was judged:
one request under each registry and set of keys is enough, since requests change
neither. `MCEndpointAccess` has five tokens that differ in every field `Evaluate` looks at,
two keys of which any set may be cached, three profiles that no sequence of the
other calls builds, and two registrations, enough for one to meet what another left.

### KeyStore and ServiceCalls

`ServiceCalls` has one caller and one callee. The caller's `pc` walks through `Call`: an
attempt is `sent`, `answered`, and after a refusal a new token is fetched (`renew`). The
callee verifies with the keys of a `KeyStore` (instantiated, its actions are steps
of this module), so that it may lag by any number of rotations; a rotation's keys are published
for `Overlap` rotations. A token is the rotation that signed it and whether it has
expired. The network may lose a request or answer at any moment (`Lose`), and a request
given up unanswered may be handled later: `abandoned` counts it as if it were. A handler
may itself answer Unauthenticated, as one that passes on a refusal it met does; then
the retry does run it again, which `AtMostOneEffect` says and excepts.
Three rotations with an overlap of two let a token be too new, valid and too old for the
callee; two expiries let both attempts' tokens expire.

### Config

A behaviour is a program (the builder's calls), an environment, a .env file, a command
line and the flag sets given to `Parse`. `Declare` adds the fields of one call, `Parse`
reads the variables and registers the flags (`configureFlag`), `ParseArg`, `RejectArg` and
`EndSet` (at the end of the arguments, at a word, or for a set that is nil) are package flag
on one argument, and `SetValues` ends it. Texts are sequences of the parts between commas,
which is what the array variants of `env` and `flag` look at: `Keep` is their loop that
appends some of the parts. `AddFields` is the loop over the declarations, as a function
of the name: what a name has already, or else the first declaration of it. Every set parses all the
arguments, and a set that is given twice parses them twice, into the same flags.
`declared` remembers all declarations, so that `ValueIsWinner` computes the value from what
was said and not from the fields the code made of it. `MCConfig` has programs that declare a
name twice in every way there is (constructor, group, group and service, service
clients), fields on a flag set of their own, parsed once and twice, scalar and array fields of every kind but
float, which is like integer; up to two arguments in every order, three for one array.

### Archive

A tree is the list of its nodes in the order of Walk, each with a kind, a parent, the
owner's write permission and, for a link, whether it leads inside; contents are sizes. Making:
`Create`, then `Visit` and `Copy` per node, then `Close` once per deferred call in
the order they run. `Change` lets a file grow or shrink between lstat and copy. The
external writers are modelled by what they check: a tar entry takes no more than its
header announced, and a shortfall is noticed by the next header or by `Close`. `dropped`
remembers errors that deferred calls dropped. Extraction may be run again on its own
result. At most `MaxFaults` operations on the disk fail.
The properties speak of archives that were `SoundlyMade`; what a dropped error does is the
finding below. `RoundTrip` compares with the tree as it was (`Original`), except where the comments promise more than the code
does: those nodes are `Unpreserved`, and `Replacement` says what comes instead. Modification
times are not modelled. Assumed of the client: it extracts only what was reported as made, into
an existing directory, and is not root.
Sizes up to 2 let a file be empty, shrink and grow; two faults let one hit the making
and one the extraction; two extractions let one meet what another left.

### Secrets

One user of a service that stores a one-time-password secret sealed by a key ring. `Enrol`,
`Draw`, `Enrolled` and `RandomFails` are `GenerateSecret` and the loop of
`GenerateBackupCodes`, whose draws interleave with everything else; `Login` opens the
secret and validates a code that a device showed some time before; `Restart` builds
another ring. Time is in ticks, two to a second, so that a step of a second and a half
shows that `Validate` shifts by the whole step while `GenerateCode` divides by its whole seconds.
A device is set up from the URL, which carries neither step nor length, or runs this
package. A step below one second divides by zero (`Panics`).
Two of three keys share a fingerprint, so that `NewKeyRing` may lose the current key. Nine
ticks are longer than the grace period and a step, two codes of one character
are fewer than three codes asked for, which is the order that never ends.

## Fairness

`JwtKeysCache!Fairness`: the goroutine is scheduled (WF of its steps), time
passes (strongly fair, so that an authservice that comes and goes does not stop the clock), a
ready case of a `select` is not passed over for ever, which Go's uniform random
choice guarantees (SF of `StopLoop`, `TickerFires`, `RefreshSucceeds`), and an authservice that is
up answers. Nothing is assumed of one that is down. `RecoversWhenServiceIsBack`
excepts executions in which the loop panics for ever.
`AppLifecycle!Fairness`: main is scheduled, handlers return, routines return once the
background context is cancelled, as the documentation of `BackgroundRoutine` asks. A
handler that itself waits for the background context breaks that assumption, and would
hold up `GracefulStop` for good.
`ServiceCalls!Fairness`: caller and callee are scheduled, and the callee's keys catch up
again and again, which is what `JwtKeysCache!RecoversWhenServiceIsBack` shows of a cache whose
authservice stays up. `Secrets!Fairness`: the random source returns every code sooner or later,
which holds with probability one, and the loop runs. No run assumes fairness for safety.

## Findings

Each run with `violation` shows the code doing something its documentation denies.

* `AppLifecycleExit` (`app/grpc.go:178`): `Serve` called after `GracefulStop` returns
  `ErrServerStopped`, and the goroutine ends the process with status 1 in the middle of
  a graceful shutdown.
* `AppLifecycleCtor` (`app/app.go:235`): constructors of service clients see the zero
  values of the configuration their documentation tells them to read.
* `ArchiveSuccess` (`compression/tar.go:333`): the last file shrinks while it is archived, the
  deferred `tw.Close` alone notices, its error is dropped, and `Tar` returns nil for an
  archive that ends in the middle of an entry.

Also seen while modelling, and excepted where a property would meet it:

* `ratelimit/limiter.go:70`: with an idle time to live below `burst / requestsPerSecond`
  eviction hands the burst out anew; no check relates the two. `LimiterAssumption` and
  the theorems name the condition.
* `security/endpoint_profile.go:383`: a public endpoint ("no authentication required")
  refuses a caller because it presents a valid service token.
* `app/config.go:14-17` lists the environment as the highest priority; a flag overrides it
  (`ValueIsWinner` states the code's order). An array of strings without elements and
  without a variable becomes one empty string, since its default goes through
  `strings.Split`; an array variable whose parts are all invalid gives an empty array and
  not the fallback `env/env.go:4-5` promises.
* `totp/totp.go:46` documents a default `GracePeriod` of 1; `withDefaults` leaves 0, as
  its test wants, and `defaultGracePeriod` is unused.
* `compression/tar.go:57-58`: `UnTar` is said to return an error for unsupported entry types,
  for which there is an `ErrUnsupportedTarEntry` that names FIFOs (`tar.go:22-24`); nothing uses it, and such entries
  are skipped without an error (`tar.go:184-187`), as `TestUnTar_UnsupportedEntryTypes` wants.
  `Tar` does write FIFOs, so a tree that has one comes back without it, and nobody is told.
* `compression/zip.go:168`: a zip "preserves file permissions, modification times, and
  directory structure". Directories without files are not in it (`zip.go:215-218`,
  `TestZip_EmptyDirectory`), what is no file becomes one, and `UnZip` ignores modes and times that `Zip` wrote.
  `RoundTrip` states the comments' promise and names all these exceptions in `Unpreserved`.
* `compression/tar.go:334`: the compressor is closed before the tar writer, whose `Close`
  then always fails unseen; readers accept the archive without its trailer.

## Proofs

`JwtKeysCacheProofs` (from `ConstantsAssumption`: the bounds are naturals, the default tunables
positive) proves `TypeOK`, `AnswersAreFresh`, `KeysNeverGoBack` and `ImplementsKeyStore` of `Spec`.
`KeysNeverGoBack` is not inductive: that a refresh installs nothing older than what is
cached needs to know how old its answer can be. `GenerationsInv` says so: during a
refresh the cached keys are no newer than the rotation at which it began (`startGen`,
history), and whatever its own fetch holds or its own channel contains was published since
then. Late fetches do not occur in it: their channels are others, which is
the whole point of a channel per refresh. The refinement follows: `Rotate` maps to
`KeyStore!Rotate`, `RefreshSucceeds` to its `Refresh`, and every other step to a stutter.

It also proves the four timing properties, under hypotheses that `JwtKeysSafety` gives its
constants too. `~LateConfigure`: `Configure` comes before `Run`, as in `app/jwtkeys.go`;
called later it leaves the ticker its old interval, while the tests of ages use the new one. `Prompt`: a goroutine
that can run does so before time passes, without which no bound in time holds; `NoFalseAlarm`
needs none. `~CanPanic`: after a panic the loop backs off for a minute (`cache.go:67`), in which
nothing is reported; `StopsWithinATimeout` and `NoFalseAlarm` hold with panics as well. The
argument is one of clocks that run against each other: while the loop waits for a tick,
an age and the time to the tick keep their sum, and while it waits for a fetch, an age and the
fetch's timer do. `StaleInv`, `ReportInv` and `StopInv` bound those sums; the properties
are what is left of them once the timers are dropped.

`RateLimiterProofs` (from `LimiterAssumption`) proves `TypeOK`; that the limiter
implements `TokenBucket`; `WithinRate`; and `IdleKeysAreForgotten`. The two in the middle assume
`Capacity <= IdleTTL`. The last rests on `AgedWithTicker`: from one sweep to the next tick a
bucket's silence and the time to the tick do not exceed the time to live and the period together.
The refinement needs `FillsWhileIdle`: a bucket has been filling for at least as long as its key
has been silent, or long enough to be full. So an evicted bucket was full, and
forgetting it is a stutter of the abstract bucket; `AllowTokens` and `AgedTokens` are the
lemmas that carry `Allow` to `Grant` and `Refuse` and the passing of time to `Flow`. `WithinRate` is then shown of the
abstract steps: what was spent in the window and what is left in the bucket never
exceed the burst and the inflow (`SpentAndLeft`).

`AppLifecycleProofs` (from `LifecycleAssumption`: the routines are finitely many) proves all safety
properties of `AppLifecycle` but the one of the constructors' finding: `TypeOK`,
`BackgroundOutlivesRpcs`, `NothingCutOff`, `RefusedOnlyAfterTimeout`. None is inductive: each needs to know, for every
place of `main`, what can still be open. `RoutineInv` says that the WaitGroup counts exactly
the routines that run, so that `Wait` returns when they have; `LifeInv` relates `pc` to the servers (a gateway only
between its start and its shutdown, a gRPC server until `GracefulStop` is done) and to the work in flight (none
behind a stopped server, none behind a gateway that was not given up on).

`ServiceCallsProofs` (from `CallsAssumption`: bounds are naturals, keys are published for at least
one rotation) proves `TypeOK`, `AtMostOneEffect` and `RefusedOnlyForLag`. The second needs to know that
whatever is sent again was refused before it ran: `ProgressInv` says at each `pc` how much of
the call can have run (`Clean`, or forwarded by a handler). The third needs `SettledInv`: while the
callee has held the latest keys since the call began, the second attempt's token is of that
rotation.

`SecretsProofs` (from `SecretsAssumption`) proves `TypeOK` and `KeptKeysOpen`. The first holds
distinct backup codes, for which `EnrolInv` says that those drawn so far are distinct. The
second rests on `RingsHaveShape`: a ring holds one of its own keys for the
fingerprint of each, since a list of keys has a last one of each fingerprint (`LastExists`, by
the well-foundedness of the naturals); so a key that is alone with its fingerprint is found.

It also proves the validation windows, `AcceptedIsRecent` and `InGraceIsAccepted`. `LoginInv` says that a code that is
shown was computed from the record it is validated against, and that the answer is about
the present. The rest is arithmetic: counters are periods of the clock
(`CounterIsPeriods`, by the uniqueness of quotients and remainders, `DivUnique`), so that
equal counters of device and service are near in time. `OnlyRecentCodes` assumes `LongSince1970`:
counters have no lower bound otherwise, and a device with a longer step would have the counter of a service with a
shorter one at quite another time, near the origin of both. With today's clock and a step of half a minute it
allows behaviours of more than a year; the constants of `Secrets.cfg` satisfy it. `GraceIsKept` assumes nothing.

`EndpointAccessProofs` (from `AccessAssumption` and `ProfilesAssumption`: a profile given whole has the
fields of one, its flags Booleans) proves all five properties. `RegistryInv` says
that the profile a lookup finds for a pattern, the zero profile included, agrees with the
declarations (`Agree`), which every kind of registration keeps; from it `Judgement` derives that
`Evaluate` accepts a token exactly if it meets the declarations. The
properties of `outcome` need no strengthening: a request is judged in one step, from a registry
that agrees, and whatever changes the registry or the keys forgets it.

`ArchiveProofs` (from `ArchiveAssumption`: a tree is what Walk finds, `IsTree`, with parents before
what is in them) proves `TypeOK`, `SuccessIsComplete`, `RoundTrip` and `NoSpuriousRefusal` for all trees, sizes, formats and
numbers of faults and attempts. The invariant has a part for each thing that is built. `EntriesInv`: entries
are in the order of the walk, of nodes that are not left out, and never longer than announced.
`StageInv`: which deferred calls are left. `WalkInv`: unless a deferred call has dropped an error, every node
behind the walk has its entry, and all but the last are exact; the last is once the tar writer has accepted another
header or its `Close`, which is why a shortfall cannot go unnoticed. `DestInv`: a node of the destination has the
kind and mode the archive gives it, and in `UnZip` comes with the directories above it. `ExtractInv`: what
is behind `upto` is there. `SuccessIsComplete` and `RoundTrip` follow without another
induction (`SoundEntries`) but that only files have contents (`SizesInv`); `NoSpuriousRefusal` needs one more, in which `ParentsFirst` says that
a directory has been extracted, with its mode, before what is in it. `Above` is written as
an intersection of closed sets rather than by recursion, so that `AboveAreDirs` can be proved by
giving one such set.

`ConfigProofs` (from `ConfigAssumption`: fields have defaults of their kind, overrides keep the type,
variables and arguments have texts of the parts there are, of which the empty one is no number, and `Parse` is given a
list of flag sets, some of them nil) proves all three properties. For `NothingIgnored`: every set parses all the
arguments anew, so `ParseInv` speaks of both loops: the sets still to parse are the last ones of those given, what is
left is the end of the arguments, the sets behind have accepted all that comes before the first word (`Covered`), and
the present one has accepted, without meeting a word, what it has read. At a word or at the end
of the arguments it has read exactly what counts (`FlaggedAtEnd`), and the second becomes the first.

`TypeOK` needs `FieldsInv`: the fields are the first declarations of their names, until `Parse` as they were declared
and from then on with their variables read (`Configured`), and each call of the builder
declares fields (`DeclaresFields`). What remains is that every way to a value keeps its kind: a variable or its
fallback (`FromEnvMakesValue`), an argument that is valid (`TakenIsValue`), its elements behind
others (`ConcatMakesValue`).

`ValueIsWinner` compares the end of `Parse` with what was said at its beginning, so `SaidInv` says what a flag holds
in between (`FlagAfter`): for an array, all its arguments' elements once for each time its set
has been parsed, and those of the arguments the present set has read, if it is the field's; for a scalar the last word
so far. An argument that is read adds to it (`FlagGrows`); at the end of a set the part it
has read becomes one more of those that are done (`PassEnds`). `VariableWins` says which of
variable and default the fallback of the flag is, through the splitting of an empty default.

Here elements are gathered with `FlattenSeq`, a recursive function, and its step (`FlattenStep`) and type
(`FlattenType`) are proved by induction. The library's induction theorems have an operator as their parameter;
`SetInduction` says the same of a set of naturals, from the least element of its complement, which
is all these lemmas need.

## What is only model-checked

* Liveness (fairness and ENABLED are beyond TLAPS here): `StopsWhenCancelled`,
  `RecoversWhenServiceIsBack`, `ShutdownCompletes`, `RefusalsEnd`, `GenerationEnds`.
* The three violations of the findings, which are counterexamples.

Every invariant and every action property of a passing run is a theorem, some of them under the
hypotheses named above.

## Not modelled

* `svcreg`: deprecated, and nothing in the repository uses it.
* `cache` and `AppData`: maps under one lock, each operation one step; a model would be the map.
* `jwt`, `http/cookies`, `http/compression`, client information, static files: conversions
  of one request's data without state; what verification says of a token is in `EndpointAccess`.
* `logger`, `crypto`, `hibp`, `math`, `str`: output and pure functions over foreign primitives.
* In modelled components: what a service's callbacks do, the getters of `security/context.go`,
  the refresh-token cookie, `GetConfigField`, the paths an archive's entries name (those our own makers write
  never leave the destination) and hard links, texts and encodings.

## Plan

What is left: the consequences of a failing initializer (`app/app.go:423`) in `AppLifecycle`.
