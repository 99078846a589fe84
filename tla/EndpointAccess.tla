--------------------------- MODULE EndpointAccess ---------------------------
(***************************************************************************)
(* Who may call an endpoint: the registry of profiles and Evaluate         *)
(* (security/endpoint_profile.go), the gRPC interceptors for rate limiting *)
(* and authentication and the HTTP gateway in front of them, the HTTP Auth *)
(* and WebAuth middleware, and what a handler learns of its caller         *)
(* (security/context.go).                                                  *)
(*                                                                         *)
(* One endpoint is modelled, registered for any method or for one.  A      *)
(* token is a record of what its claims say and which key signed it, and   *)
(* all of them are for this audience; the cached public keys change        *)
(* between requests.                                                       *)
(***************************************************************************)
EXTENDS Naturals, FiniteSets

CONSTANTS
    Methods,        \* HTTP methods
    KeyIds,         \* the authservice's signing keys
    Tokens,         \* the tokens callers hold
    Scopes,         \* service scopes
    Profiles,       \* the arguments of SetEndpointProfile
    Users,          \* user ids a gateway forwards
    MaxCalls        \* bound: registrations

ASSUME AccessAssumption ==
    /\ MaxCalls \in Nat \ {0}
    /\ "any" \notin Methods /\ "" \notin Users
    /\ \A t \in Tokens : t.kind \in {"user", "service"} /\ t.signer \in KeyIds

Flags == {"AllowPublic", "AllowUnverified", "DenyVerified", "AllowExpiredJwt",
          "RequiresAdmin", "SkipRateLimit"}
Nobody == ""
NoToken == [kind |-> "none"]
Garbled == [kind |-> "garbled"]     \* a cookie that does not decode

ZeroProfile ==
    [AllowPublic |-> FALSE, AllowUnverified |-> FALSE, DenyVerified |-> FALSE,
     AllowExpiredJwt |-> FALSE, RequiresAdmin |-> FALSE, SkipRateLimit |-> FALSE,
     AllowService |-> FALSE, AllowUser |-> FALSE, AllowedScopes |-> {},
     AllowedAccountTypes |-> {}]

ASSUME ProfilesAssumption ==
    \A p \in Profiles : /\ DOMAIN p = DOMAIN ZeroProfile
                        /\ \A f \in Flags \cup {"AllowService"} : p[f] \in BOOLEAN

Patterns == Methods \cup {"any"}

VARIABLES
    profiles,   \* endpointProfiles: a function on the patterns registered
    publicKeys, \* what PublicKeysFn returns; none is its error
    calls,      \* how many registrations were made
    declared,   \* history: the words used, and the scopes given, for each pattern
    outcome     \* the latest request under this registry and these keys

vars == <<profiles, publicKeys, calls, declared, outcome>>

NoOutcome == [response |-> "none"]
Undeclared == [words |-> {}, scopes |-> {}, levels |-> {}]

Init ==
    /\ profiles = [m \in {} |-> ZeroProfile]
    /\ publicKeys = {}
    /\ calls = 0
    /\ declared = [m \in Patterns |-> Undeclared]
    /\ outcome = NoOutcome

-----------------------------------------------------------------------------
\* A map lookup: the zero profile if there is none.
GetEndpointProfile(m) == IF m \in DOMAIN profiles THEN profiles[m] ELSE ZeroProfile

\* Mutant of ForMethod: a method's own profile is never found.
ForAnyMethod(m) == "any"

\* The pattern whose profile rules a request.
ForMethod(m) == IF m \in DOMAIN profiles THEN m ELSE "any"

Register(m, profile, words, scopes, levels) ==
    /\ calls < MaxCalls /\ calls' = calls + 1
    /\ profiles' = [p \in DOMAIN profiles \cup {m} |->
                       IF p = m THEN profile ELSE profiles[p]]
    /\ declared' = [declared EXCEPT ![m] =
                       [words |-> words, scopes |-> scopes, levels |-> levels]]
    /\ outcome' = NoOutcome
    /\ UNCHANGED publicKeys

\* Mutant of Flagged: what was registered before is forgotten.
FlaggedAfresh(m, flag) == [ZeroProfile EXCEPT ![flag] = TRUE]

Flagged(m, flag) == [GetEndpointProfile(m) EXCEPT ![flag] = TRUE]

\* PublicEndpoint, UnverifiedEndpoint, AdminEndpoint and their likes.
FlagEndpoint(m, flag) ==
    Register(m, Flagged(m, flag),
        declared[m].words \cup {flag}, declared[m].scopes, declared[m].levels)

\* No scope means every scope.
ScopesAllowed(scopes) == IF scopes = {} THEN {"*"} ELSE scopes

\* ServiceClientEndpoint, and UserOrServiceEndpoint when user is TRUE.
ServiceEndpoint(m, scopes, user) ==
    Register(m,
        [GetEndpointProfile(m) EXCEPT
            !.AllowService = TRUE, !.AllowedScopes = ScopesAllowed(scopes),
            !.AllowUser = @ \/ user],
        declared[m].words \cup {"AllowService"}, scopes, declared[m].levels)

\* Every field is given: what was declared before is replaced.  A profile without
\* scopes allows no service, whatever its AllowService.
SetEndpointProfile(m, profile) ==
    Register(m, profile,
        {f \in Flags : profile[f]} \cup
            {w \in {"AllowService"} : profile.AllowService /\ profile.AllowedScopes # {}},
        profile.AllowedScopes, profile.AllowedAccountTypes)

\* The cache behind PublicKeysFn is refreshed.
KeysChange ==
    /\ \E ks \in SUBSET KeyIds : ks # {} /\ ks # publicKeys /\ publicKeys' = ks
    /\ outcome' = NoOutcome
    /\ UNCHANGED <<profiles, calls, declared>>

-----------------------------------------------------------------------------
Ok(claims) == [err |-> "none", claims |-> claims]
Err(e) == [err |-> e, claims |-> NoToken]

\* Mutant of VerifyJwt: the token's age is never looked at.
VerifyAnyAge(p, t) == t.signer \in publicKeys

\* verifyJwt: one of the cached keys verifies the token.
VerifyJwt(p, t) == t.signer \in publicKeys /\ (t.expired => p.AllowExpiredJwt)

\* The checks in the order of the code: the first to fail names the error.
EvaluateUserClaims(p, t) ==
    CASE p.RequiresAdmin /\ ~t.admin -> Err("ErrUserNotAdmin")
      [] p.AllowPublic /\ (t.admin \/ ~p.RequiresAdmin) -> Ok(t)
      [] OTHER ->
           IF p.AllowedAccountTypes # {} /\ t.level \notin p.AllowedAccountTypes
           THEN Err("ErrUserMissingRequiredAccount")
           ELSE IF ~p.AllowUnverified /\ ~t.verified THEN Err("ErrUserNotVerified")
           ELSE IF p.DenyVerified /\ t.verified THEN Err("ErrUserAlreadyVerified")
           ELSE Ok(t)

EvaluateServiceClaims(p, t) ==
    IF p.AllowService /\ p.AllowedScopes # {}
       /\ ("*" \in p.AllowedScopes \/ p.AllowedScopes \subseteq t.scopes)
    THEN Ok(t) ELSE Err("ErrServiceClientNotAllowed")

\* A token no key verifies counts for none on a public endpoint.
Unverifiable(p) ==
    IF p.AllowPublic THEN Ok(NoToken)
    ELSE Err(IF publicKeys = {} THEN "ErrNoKeys" ELSE "ErrInvalidJwt")

Evaluate(p, t) ==
    IF t = NoToken THEN IF p.AllowPublic THEN Ok(NoToken) ELSE Err("ErrNoAuthToken")
    ELSE IF ~VerifyJwt(p, t) THEN Unverifiable(p)
    ELSE IF t.kind = "user" THEN EvaluateUserClaims(p, t)
    ELSE EvaluateServiceClaims(p, t)

\* Mutant of ResolveUserID: what is forwarded wins.
ForwardedFirst(claims, forwarded) ==
    IF forwarded # Nobody THEN forwarded
    ELSE IF claims.kind = "user" THEN claims.subject ELSE Nobody

\* Whom the handler takes the caller for; forwarded is the x-user-id metadata.
ResolveUserID(claims, forwarded) ==
    CASE claims.kind = "user" -> claims.subject
      [] claims.kind = "service" -> forwarded
      [] OTHER -> Nobody

-----------------------------------------------------------------------------
\* Mutant of Metered: the gateway's own loopback calls are metered again.
MeteredAgain(peer) == ~GetEndpointProfile("any").SkipRateLimit /\ peer # "unknown"

\* Whether RateLimitInterceptor asks the limiter about the peer: not for an
\* exempted endpoint, a peer without an address, or the gateway's loopback.
Metered(peer) == ~GetEndpointProfile("any").SkipRateLimit /\ peer = "remote"

\* A request leaves the registry and the keys alone, so that one request under
\* each of their states is enough.
Judged(result) ==
    /\ outcome = NoOutcome /\ outcome' = result
    /\ UNCHANGED <<profiles, publicKeys, calls, declared>>

Answer(limited, v, refusal) ==
    IF limited THEN "limited" ELSE IF v.err = "none" THEN "handled" ELSE refusal

\* The chain of grpcInterceptors behind the HTTP gateway or a connection of the
\* caller's own.  asked is how often the limiter was asked before, allowed its
\* answer, forwarded the x-user-id metadata.  grpc-go gives every call that comes in
\* metadata, so that AuthInterceptor's error for none is not reached.
GrpcChain(surface, token, caller, peer, asked, allowed, forwarded) ==
    LET v == Evaluate(GetEndpointProfile("any"), token)
    IN  Judged(
            [surface |-> surface, caller |-> caller, wanted |-> declared["any"],
             token |-> token, keys |-> publicKeys,
             asked |-> asked + (IF Metered(peer) THEN 1 ELSE 0),
             response |-> Answer(Metered(peer) /\ ~allowed, v, "denied"),
             claims |-> v.claims,
             user |-> ResolveUserID(v.claims, forwarded)])

\* A call over a connection to the gRPC port.
GrpcCall(token, peer, allowed, forwarded) ==
    GrpcChain("grpc", token, peer, peer, 0, allowed, forwarded)

\* Refused by the RateLimit middleware, before the gateway.
GatewayLimited(token) ==
    Judged(
          [surface |-> "gateway", caller |-> "remote", wanted |-> declared["any"],
           token |-> token, keys |-> publicKeys, asked |-> 1,
           response |-> "limited", claims |-> NoToken, user |-> Nobody])

\* Passed by the middleware, which exempts the loopback, and proxied over the
\* loopback to the gRPC server.
GatewayCall(token, caller, allowed, forwarded) ==
    /\ caller # "unknown"
    /\ GrpcChain("gateway", token, caller, "loopback",
                 IF caller = "remote" THEN 1 ELSE 0, allowed, forwarded)

\* The Authorization header is tried when there is no cookie; a cookie that
\* does not decode leaves the request without a token.
HttpToken(cookie, header) ==
    CASE cookie = NoToken -> header
      [] cookie = Garbled -> NoToken
      [] OTHER -> cookie

\* Mutant of Refusal: a page shows the error and does not redirect.
RefusalAsError(page, method, err) ==
    IF page /\ method = "GET"
    THEN IF err = "ErrUserNotVerified" THEN "verify" ELSE err
    ELSE "denied"

Refusal(page, method, err) ==
    IF page /\ method = "GET"
    THEN IF err = "ErrUserNotVerified" THEN "verify" ELSE "login"
    ELSE "denied"

\* Auth, and WebAuth when page is TRUE.
HttpRequest(method, page, cookie, header) ==
    LET t == HttpToken(cookie, header)
        v == Evaluate(GetEndpointProfile(ForMethod(method)), t)
    IN  Judged(
               [surface |-> "http", caller |-> "remote",
                wanted |-> declared[IF method \in DOMAIN profiles THEN method ELSE "any"],
                token |-> t, keys |-> publicKeys, asked |-> 0,
                response |-> Answer(FALSE, v, Refusal(page, method, v.err)),
                claims |-> v.claims,
                user |-> ResolveUserID(v.claims, Nobody)])

Offered == Tokens \cup {NoToken}

Next ==
    \/ \E m \in Patterns, f \in Flags : FlagEndpoint(m, f)
    \/ \E m \in Patterns, s \in SUBSET Scopes, u \in BOOLEAN : ServiceEndpoint(m, s, u)
    \/ \E m \in Patterns, p \in Profiles : SetEndpointProfile(m, p)
    \/ KeysChange
    \/ \E t \in Offered, peer \in {"loopback", "remote", "unknown"},
          a \in BOOLEAN, u \in Users \cup {Nobody} : GrpcCall(t, peer, a, u)
    \/ \E t \in Offered : GatewayLimited(t)
    \/ \E t \in Offered, caller \in {"loopback", "remote"},
          a \in BOOLEAN, u \in Users \cup {Nobody} : GatewayCall(t, caller, a, u)
    \/ \E m \in Methods, page \in BOOLEAN, c \in Offered \cup {Garbled}, h \in Offered :
          HttpRequest(m, page, c, h)

Spec == Init /\ [][Next]_vars

-----------------------------------------------------------------------------
Answered == outcome.response # "none"
Handled == outcome.response = "handled"
Declared(word) == word \in outcome.wanted.words

\* The registry holds a profile for exactly the patterns of the calls made.
TypeOK ==
    /\ DOMAIN profiles \subseteq Patterns /\ calls \in 0..MaxCalls
    /\ \A m \in DOMAIN profiles :
          /\ DOMAIN profiles[m] = DOMAIN ZeroProfile
          /\ \A f \in Flags : profiles[m][f] \in BOOLEAN
    /\ publicKeys \subseteq KeyIds
    /\ Answered =>
          /\ outcome.response \in {"handled", "denied", "limited", "login", "verify"}
          /\ outcome.claims \in Offered /\ outcome.asked \in 0..1

\* Claims a handler reads from its context are those of the token the request
\* was judged by, verified with a key the cache held at that moment, and never
\* of an expired token unless the endpoint was declared to take one.
ClaimsAreVerified ==
    Handled /\ outcome.claims # NoToken =>
        /\ outcome.claims = outcome.token
        /\ outcome.token.signer \in outcome.keys
        /\ outcome.token.expired => Declared("AllowExpiredJwt")

\* What the declarations made of an endpoint, in whatever order, ask of a user,
\* of a service client and of a caller without a token.
UserWelcome(t) ==
    /\ Declared("RequiresAdmin") => t.admin
    /\ \/ Declared("AllowPublic")
       \/ /\ IF t.verified THEN ~Declared("DenyVerified") ELSE Declared("AllowUnverified")
          /\ outcome.wanted.levels # {} => t.level \in outcome.wanted.levels
ServiceWelcome(t) ==
    /\ Declared("AllowService")
    /\ outcome.wanted.scopes \ {"*"} \subseteq t.scopes \/ "*" \in outcome.wanted.scopes

\* The declarations of an endpoint, made one at a time and in any order, add
\* up: a request that reaches the limiter's far side is handled if and only if
\* its caller meets all that was declared of the pattern that rules it, with
\* the method's own declarations in place of the general ones.
DeclarationsAddUp ==
    Answered /\ outcome.response # "limited" =>
        LET verified == /\ outcome.token # NoToken
                        /\ outcome.token.signer \in outcome.keys
                        /\ outcome.token.expired => Declared("AllowExpiredJwt")
        IN  Handled <=>
                IF ~verified THEN Declared("AllowPublic")
                ELSE IF outcome.token.kind = "user" THEN UserWelcome(outcome.token)
                ELSE ServiceWelcome(outcome.token)

\* A handler takes a user for nobody else, whatever identity is forwarded with
\* the call, and a caller without verified claims for nobody.
NoImpersonation ==
    Handled =>
        /\ outcome.claims.kind = "user" => outcome.user = outcome.claims.subject
        /\ outcome.claims = NoToken => outcome.user = Nobody

\* A request of a remote caller is metered exactly once, whether it comes over
\* the gateway and so passes both limiters' places or straight to gRPC, where
\* the endpoints probes use are exempt.
MeteredOnce ==
    Answered /\ outcome.surface # "http" =>
        outcome.asked =
            IF outcome.caller # "remote" THEN 0
            ELSE IF outcome.surface = "gateway" THEN 1
            ELSE IF Declared("SkipRateLimit") THEN 0 ELSE 1
=============================================================================
