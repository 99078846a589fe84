------------------------- MODULE EndpointAccessProofs -------------------------
(***************************************************************************)
(* Theorems about EndpointAccess, for every set of tokens, keys, scopes    *)
(* and profiles and any number of registrations in any order.              *)
(***************************************************************************)
EXTENDS EndpointAccess, TLAPS

\* What a profile says is what was declared of its pattern.
Agree(p, d) ==
    /\ DOMAIN p = DOMAIN ZeroProfile
    /\ \A f \in Flags : p[f] \in BOOLEAN /\ (p[f] = TRUE <=> f \in d.words)
    /\ (p.AllowService = TRUE /\ p.AllowedScopes # {}) <=> "AllowService" \in d.words
    /\ "AllowService" \in d.words => p.AllowedScopes = ScopesAllowed(d.scopes)
    /\ p.AllowedAccountTypes = d.levels

RegistryInv ==
    /\ DOMAIN profiles \subseteq Patterns /\ calls \in 0..MaxCalls
    /\ publicKeys \subseteq KeyIds
    /\ DOMAIN declared = Patterns
    /\ \A m \in Patterns : Agree(GetEndpointProfile(m), declared[m])

LEMMA ZeroAgrees == Agree(ZeroProfile, Undeclared)
  BY DEF Agree, ZeroProfile, Undeclared, Flags

\* A registration replaces the profile and the declarations of one pattern.
LEMMA RegisterKeeps ==
    ASSUME RegistryInv, NEW m \in Patterns, NEW profile, NEW words, NEW scopes, NEW levels,
           Register(m, profile, words, scopes, levels),
           Agree(profile, [words |-> words, scopes |-> scopes, levels |-> levels])
    PROVE  RegistryInv'
<1>1. /\ DOMAIN profiles' = DOMAIN profiles \cup {m}
      /\ profiles'[m] = profile
      /\ \A n \in DOMAIN profiles : n # m => profiles'[n] = profiles[n]
  BY DEF Register
<1>2. /\ DOMAIN declared' = Patterns
      /\ declared'[m] = [words |-> words, scopes |-> scopes, levels |-> levels]
      /\ \A n \in Patterns : n # m => declared'[n] = declared[n]
  BY DEF Register, RegistryInv
<1>3. ASSUME NEW n \in Patterns PROVE Agree(GetEndpointProfile(n)', declared'[n])
  <2>1. CASE n = m
    BY <1>1, <1>2, <2>1 DEF GetEndpointProfile
  <2>2. CASE n # m
    <3>1. GetEndpointProfile(n)' = GetEndpointProfile(n)
      BY <1>1, <2>2 DEF GetEndpointProfile
    <3> QED
      BY <1>2, <2>2, <3>1 DEF RegistryInv
  <2> QED
    BY <2>1, <2>2
<1>4. calls' \in 0..MaxCalls
  <2>1. MaxCalls \in Nat
    BY AccessAssumption
  <2>2. calls \in 0..MaxCalls /\ calls < MaxCalls /\ calls' = calls + 1
    BY DEF Register, RegistryInv
  <2> QED
    BY <2>1, <2>2
<1> QED
  BY <1>1, <1>2, <1>3, <1>4 DEF RegistryInv, Register

LEMMA FlagKeeps ==
    ASSUME RegistryInv, NEW m \in Patterns, NEW flag \in Flags, FlagEndpoint(m, flag)
    PROVE  RegistryInv'
<1> DEFINE p == GetEndpointProfile(m)
           d == declared[m]
           q == Flagged(m, flag)
           e == [words |-> d.words \cup {flag}, scopes |-> d.scopes, levels |-> d.levels]
<1>1. Agree(p, d)
  BY DEF RegistryInv
<1>2. flag \in DOMAIN p /\ "AllowService" \notin Flags /\ "AllowedScopes" \notin Flags
      /\ "AllowedAccountTypes" \notin Flags
  BY <1>1 DEF Agree, ZeroProfile, Flags
<1>3. /\ DOMAIN q = DOMAIN p /\ q[flag] = TRUE
      /\ \A f \in DOMAIN p : f # flag => q[f] = p[f]
  BY <1>2 DEF Flagged
<1>4. /\ q.AllowService = p.AllowService /\ q.AllowedScopes = p.AllowedScopes
      /\ q.AllowedAccountTypes = p.AllowedAccountTypes
  <2>1. {"AllowService", "AllowedScopes", "AllowedAccountTypes"} \subseteq DOMAIN p
    BY <1>1 DEF Agree, ZeroProfile
  <2> QED
    BY <1>2, <1>3, <2>1
<1>5. \A f \in Flags : q[f] \in BOOLEAN /\ (q[f] = TRUE <=> f \in e.words)
  <2>1. Flags \subseteq DOMAIN p
    BY <1>1 DEF Agree, ZeroProfile, Flags
  <2> QED
    BY <1>1, <1>3, <2>1 DEF Agree
<1>6. "AllowService" \in e.words <=> "AllowService" \in d.words
  BY <1>2
<1>7. Agree(q, e)
  <2> HIDE DEF q, p
  <2> QED
    BY <1>1, <1>3, <1>4, <1>5, <1>6 DEF Agree
<1> QED
  BY <1>7, RegisterKeeps DEF FlagEndpoint

LEMMA ServiceKeeps ==
    ASSUME RegistryInv, NEW m \in Patterns, NEW scopes \in SUBSET Scopes, NEW user \in BOOLEAN,
           ServiceEndpoint(m, scopes, user)
    PROVE  RegistryInv'
<1> DEFINE p == GetEndpointProfile(m)
           d == declared[m]
           q == [p EXCEPT !.AllowService = TRUE, !.AllowedScopes = ScopesAllowed(scopes),
                          !.AllowUser = @ \/ user]
           e == [words |-> d.words \cup {"AllowService"}, scopes |-> scopes,
                 levels |-> d.levels]
<1>1. Agree(p, d)
  BY DEF RegistryInv
<1>2. /\ DOMAIN q = DOMAIN p /\ q.AllowService = TRUE
      /\ q.AllowedScopes = ScopesAllowed(scopes)
      /\ q.AllowedAccountTypes = p.AllowedAccountTypes
      /\ \A f \in Flags : q[f] = p[f]
  BY <1>1 DEF Agree, ZeroProfile, Flags
<1>3. ScopesAllowed(scopes) # {}
  BY DEF ScopesAllowed
<1>4. \A f \in Flags : f \in e.words <=> f \in d.words
  BY DEF Flags
<1>5. Agree(q, e)
  <2> HIDE DEF q, p
  <2>1. e.words = d.words \cup {"AllowService"} /\ e.scopes = scopes /\ e.levels = d.levels
    OBVIOUS
  <2> HIDE DEF e, d
  <2> QED
    BY <1>1, <1>2, <1>3, <1>4, <2>1 DEF Agree
<1> QED
  BY <1>5, RegisterKeeps DEF ServiceEndpoint

LEMMA ProfileKeeps ==
    ASSUME RegistryInv, NEW m \in Patterns, NEW p \in Profiles, SetEndpointProfile(m, p)
    PROVE  RegistryInv'
<1> DEFINE e == [words |-> {f \in Flags : p[f]} \cup
                     {w \in {"AllowService"} : p.AllowService /\ p.AllowedScopes # {}},
                 scopes |-> p.AllowedScopes, levels |-> p.AllowedAccountTypes]
<1>1. /\ DOMAIN p = DOMAIN ZeroProfile
      /\ \A f \in Flags \cup {"AllowService"} : p[f] \in BOOLEAN
  BY ProfilesAssumption
<1>2. "AllowService" \notin Flags
  BY DEF Flags
<1>3. \A f \in Flags : p[f] = TRUE <=> f \in e.words
  BY <1>1, <1>2
<1>4. (p.AllowService = TRUE /\ p.AllowedScopes # {}) <=> "AllowService" \in e.words
  BY <1>1, <1>2
<1>5. Agree(p, e)
  <2>1. e.scopes = p.AllowedScopes /\ e.levels = p.AllowedAccountTypes
    OBVIOUS
  <2> HIDE DEF e
  <2> QED
    BY <1>1, <1>3, <1>4, <2>1 DEF Agree, ScopesAllowed
<1> QED
  BY <1>5, RegisterKeeps DEF SetEndpointProfile

\* Every step but a registration leaves the registry and its history alone.
LEMMA RegistryStep == RegistryInv /\ [Next]_vars => RegistryInv'
<1> SUFFICES ASSUME RegistryInv, [Next]_vars PROVE RegistryInv'
  OBVIOUS
<1>1. ASSUME UNCHANGED <<profiles, calls, declared>>, publicKeys' \subseteq KeyIds
      PROVE  RegistryInv'
  BY <1>1 DEF RegistryInv, GetEndpointProfile
<1>2. publicKeys \subseteq KeyIds
  BY DEF RegistryInv
<1>3. ASSUME NEW m \in Patterns, NEW f \in Flags, FlagEndpoint(m, f) PROVE RegistryInv'
  BY <1>3, FlagKeeps
<1>4. ASSUME NEW m \in Patterns, NEW s \in SUBSET Scopes, NEW u \in BOOLEAN,
             ServiceEndpoint(m, s, u)
      PROVE  RegistryInv'
  BY <1>4, ServiceKeeps
<1>5. ASSUME NEW m \in Patterns, NEW p \in Profiles, SetEndpointProfile(m, p)
      PROVE  RegistryInv'
  BY <1>5, ProfileKeeps
<1>6. CASE KeysChange
  BY <1>1, <1>6 DEF KeysChange
<1>7. ASSUME NEW result, Judged(result) PROVE RegistryInv'
  BY <1>1, <1>2, <1>7 DEF Judged
<1>8. ASSUME NEW t, NEW peer, NEW a, NEW u, GrpcCall(t, peer, a, u) PROVE RegistryInv'
  BY <1>7, <1>8 DEF GrpcCall, GrpcChain
<1>9. ASSUME NEW t, GatewayLimited(t) PROVE RegistryInv'
  BY <1>7, <1>9 DEF GatewayLimited
<1>10. ASSUME NEW t, NEW caller, NEW a, NEW u, GatewayCall(t, caller, a, u) PROVE RegistryInv'
  BY <1>7, <1>10 DEF GatewayCall, GrpcChain
<1>11. ASSUME NEW m, NEW page, NEW c, NEW h, HttpRequest(m, page, c, h) PROVE RegistryInv'
  BY <1>7, <1>11 DEF HttpRequest
<1>12. CASE UNCHANGED vars
  BY <1>1, <1>2, <1>12 DEF vars
<1> QED
  BY <1>3, <1>4, <1>5, <1>6, <1>8, <1>9, <1>10, <1>11, <1>12 DEF Next

-----------------------------------------------------------------------------
\* What was declared of an endpoint asks of a caller with token t.
Verified(words, t) ==
    /\ t # NoToken /\ t.signer \in publicKeys
    /\ t.expired => "AllowExpiredJwt" \in words
UserMeets(d, t) ==
    /\ "RequiresAdmin" \in d.words => t.admin
    /\ \/ "AllowPublic" \in d.words
       \/ /\ IF t.verified THEN "DenyVerified" \notin d.words
             ELSE "AllowUnverified" \in d.words
          /\ d.levels # {} => t.level \in d.levels
ServiceMeets(d, t) ==
    /\ "AllowService" \in d.words
    /\ d.scopes \ {"*"} \subseteq t.scopes \/ "*" \in d.scopes
Meets(d, t) ==
    IF ~Verified(d.words, t) THEN "AllowPublic" \in d.words
    ELSE IF t.kind = "user" THEN UserMeets(d, t) ELSE ServiceMeets(d, t)

LEMMA UserJudged ==
    ASSUME NEW p, NEW d, NEW t, Agree(p, d)
    PROVE  /\ EvaluateUserClaims(p, t).err = "none" <=> UserMeets(d, t)
           /\ EvaluateUserClaims(p, t).err = "none" => EvaluateUserClaims(p, t).claims = t
           /\ EvaluateUserClaims(p, t).claims \in {t, NoToken}
<1>1. /\ p.RequiresAdmin <=> "RequiresAdmin" \in d.words
      /\ p.AllowPublic <=> "AllowPublic" \in d.words
      /\ p.AllowUnverified <=> "AllowUnverified" \in d.words
      /\ p.DenyVerified <=> "DenyVerified" \in d.words
      /\ p.AllowedAccountTypes = d.levels
  BY DEF Agree, Flags
<1>2. CASE p.RequiresAdmin /\ ~t.admin
  <2>1. EvaluateUserClaims(p, t) = Err("ErrUserNotAdmin")
    BY <1>2 DEF EvaluateUserClaims
  <2> QED
    BY <1>1, <1>2, <2>1 DEF UserMeets, Err
<1>3. CASE ~(p.RequiresAdmin /\ ~t.admin) /\ p.AllowPublic
  <2>1. EvaluateUserClaims(p, t) = Ok(t)
    BY <1>3 DEF EvaluateUserClaims
  <2> QED
    BY <1>1, <1>3, <2>1 DEF UserMeets, Ok
<1>4. CASE ~(p.RequiresAdmin /\ ~t.admin) /\ ~p.AllowPublic
  <2>1. EvaluateUserClaims(p, t) =
           IF p.AllowedAccountTypes # {} /\ t.level \notin p.AllowedAccountTypes
           THEN Err("ErrUserMissingRequiredAccount")
           ELSE IF ~p.AllowUnverified /\ ~t.verified THEN Err("ErrUserNotVerified")
           ELSE IF p.DenyVerified /\ t.verified THEN Err("ErrUserAlreadyVerified")
           ELSE Ok(t)
    BY <1>4 DEF EvaluateUserClaims
  <2> QED
    BY <1>1, <1>4, <2>1 DEF UserMeets, Ok, Err
<1> QED
  BY <1>2, <1>3, <1>4

LEMMA ServiceJudged ==
    ASSUME NEW p, NEW d, NEW t, Agree(p, d)
    PROVE  /\ EvaluateServiceClaims(p, t).err = "none" <=> ServiceMeets(d, t)
           /\ EvaluateServiceClaims(p, t).err = "none" => EvaluateServiceClaims(p, t).claims = t
           /\ EvaluateServiceClaims(p, t).claims \in {t, NoToken}
<1>1. /\ (p.AllowService /\ p.AllowedScopes # {}) <=> "AllowService" \in d.words
      /\ "AllowService" \in d.words => p.AllowedScopes = ScopesAllowed(d.scopes)
  BY DEF Agree
<1>2. ("*" \in ScopesAllowed(d.scopes) \/ ScopesAllowed(d.scopes) \subseteq t.scopes)
          <=> (d.scopes \ {"*"} \subseteq t.scopes \/ "*" \in d.scopes)
  BY DEF ScopesAllowed
<1> QED
  BY <1>1, <1>2 DEF EvaluateServiceClaims, ServiceMeets, Ok, Err

\* Evaluate accepts a token if and only if it meets what was declared.
LEMMA Judgement ==
    ASSUME NEW p, NEW d, NEW t \in Offered, Agree(p, d)
    PROVE  /\ Evaluate(p, t).err = "none" <=> Meets(d, t)
           /\ Evaluate(p, t).claims \in {t, NoToken}
           /\ Evaluate(p, t).err = "none" /\ Evaluate(p, t).claims # NoToken
                  => Verified(d.words, t)
<1>1. /\ p.AllowPublic <=> "AllowPublic" \in d.words
      /\ p.AllowExpiredJwt <=> "AllowExpiredJwt" \in d.words
  BY DEF Agree, Flags
<1>2. t # NoToken => (VerifyJwt(p, t) <=> Verified(d.words, t))
  BY <1>1 DEF VerifyJwt, Verified
<1>3. CASE t = NoToken
  BY <1>1, <1>3 DEF Evaluate, Meets, Verified, Ok, Err
<1>4. CASE t # NoToken /\ ~VerifyJwt(p, t)
  BY <1>1, <1>2, <1>4 DEF Evaluate, Unverifiable, Meets, Ok, Err
<1>5. CASE t # NoToken /\ VerifyJwt(p, t)
  <2>1. CASE t.kind = "user"
    <3>1. Evaluate(p, t) = EvaluateUserClaims(p, t) /\ (Meets(d, t) <=> UserMeets(d, t))
      BY <1>2, <1>5, <2>1 DEF Evaluate, Meets
    <3> QED
      BY <3>1, <1>2, <1>5, UserJudged
  <2>2. CASE t.kind # "user"
    <3>1. Evaluate(p, t) = EvaluateServiceClaims(p, t) /\ (Meets(d, t) <=> ServiceMeets(d, t))
      BY <1>2, <1>5, <2>2 DEF Evaluate, Meets
    <3> QED
      BY <3>1, <1>2, <1>5, ServiceJudged
  <2> QED
    BY <2>1, <2>2
<1> QED
  BY <1>3, <1>4, <1>5

-----------------------------------------------------------------------------
Responses == {"handled", "denied", "limited", "login", "verify"}

\* The latest request's answer is of the shape TypeOK asks for, and was earned.
OutcomeOK ==
    /\ Answered => /\ outcome.response \in Responses
                   /\ outcome.claims \in Offered /\ outcome.asked \in 0..1
    /\ ClaimsAreVerified /\ NoImpersonation /\ DeclarationsAddUp /\ MeteredOnce

\* An answer that Evaluate gave for the declarations the request fell under.
LEMMA AnswerOK ==
    ASSUME NEW p, NEW d, NEW t \in Offered, Agree(p, d),
           NEW limited \in BOOLEAN, NEW refusal \in {"denied", "login", "verify"},
           NEW forwarded, NEW surface, NEW caller, NEW asked \in 0..1,
           outcome' = [surface |-> surface, caller |-> caller, wanted |-> d,
                       token |-> t, keys |-> publicKeys, asked |-> asked,
                       response |-> Answer(limited, Evaluate(p, t), refusal),
                       claims |-> Evaluate(p, t).claims,
                       user |-> ResolveUserID(Evaluate(p, t).claims, forwarded)],
           MeteredOnce'
    PROVE  OutcomeOK'
<1> DEFINE v == Evaluate(p, t)
<1>1. /\ v.err = "none" <=> Meets(d, t)
      /\ v.claims \in {t, NoToken}
      /\ v.err = "none" /\ v.claims # NoToken => Verified(d.words, t)
  BY Judgement
<1>2. /\ outcome'.wanted = d /\ outcome'.token = t /\ outcome'.keys = publicKeys
      /\ outcome'.asked = asked /\ outcome'.response = Answer(limited, v, refusal)
      /\ outcome'.claims = v.claims /\ outcome'.user = ResolveUserID(v.claims, forwarded)
  OBVIOUS
<1> HIDE DEF v
<1>3. /\ outcome'.response = "handled" => v.err = "none"
      /\ outcome'.response # "limited" => (outcome'.response = "handled" <=> v.err = "none")
      /\ outcome'.response \in Responses
  BY <1>2 DEF Answer, Responses
<1>4. outcome'.claims \in Offered
  BY <1>1, <1>2 DEF Offered
<1>5. ClaimsAreVerified'
  BY <1>1, <1>2, <1>3 DEF ClaimsAreVerified, Handled, Declared, Verified
<1>6. NoImpersonation'
  <2>1. v.claims.kind = "user" => outcome'.user = v.claims.subject
    BY <1>2 DEF ResolveUserID
  <2>2. v.claims = NoToken => outcome'.user = Nobody
    BY <1>2 DEF ResolveUserID, NoToken
  <2> QED
    BY <1>2, <2>1, <2>2 DEF NoImpersonation, Handled
<1>7. DeclarationsAddUp'
  BY <1>1, <1>2, <1>3 DEF DeclarationsAddUp, Answered, Handled, Declared, Meets, Verified,
     UserMeets, UserWelcome, ServiceMeets, ServiceWelcome
<1> QED
  BY <1>2, <1>3, <1>4, <1>5, <1>6, <1>7 DEF OutcomeOK, Answered

\* No answer is an answer that has earned nothing.
LEMMA NoAnswerOK == ASSUME outcome' = NoOutcome PROVE OutcomeOK'
  BY DEF OutcomeOK, NoOutcome, Answered, Handled, ClaimsAreVerified, NoImpersonation,
     DeclarationsAddUp, MeteredOnce

LEMMA GrpcCallOK ==
    ASSUME RegistryInv, NEW t \in Offered, NEW peer \in {"loopback", "remote", "unknown"},
           NEW a \in BOOLEAN, NEW u, GrpcCall(t, peer, a, u)
    PROVE  OutcomeOK'
<1> DEFINE p == GetEndpointProfile("any")
           d == declared["any"]
<1>1. Agree(p, d)
  BY DEF RegistryInv, Patterns
<1>2. p.SkipRateLimit <=> "SkipRateLimit" \in d.words
  BY <1>1 DEF Agree, Flags
<1>3. Metered(peer) <=> "SkipRateLimit" \notin d.words /\ peer = "remote"
  BY <1>2 DEF Metered
<1>4. outcome' = [surface |-> "grpc", caller |-> peer, wanted |-> d,
                  token |-> t, keys |-> publicKeys,
                  asked |-> 0 + (IF Metered(peer) THEN 1 ELSE 0),
                  response |-> Answer(Metered(peer) /\ ~a, Evaluate(p, t), "denied"),
                  claims |-> Evaluate(p, t).claims,
                  user |-> ResolveUserID(Evaluate(p, t).claims, u)]
  BY DEF GrpcCall, GrpcChain, Judged
<1> HIDE DEF p, d
<1>5. 0 + (IF Metered(peer) THEN 1 ELSE 0) \in 0..1 /\ (Metered(peer) /\ ~a) \in BOOLEAN
  BY <1>3
<1>6. MeteredOnce'
  <2>1. /\ outcome'.surface = "grpc" /\ outcome'.caller = peer /\ outcome'.wanted = d
        /\ outcome'.asked = IF Metered(peer) THEN 1 ELSE 0
    BY <1>4
  <2> QED
    BY <1>3, <2>1 DEF MeteredOnce, Declared
<1> QED
  BY <1>1, <1>4, <1>5, <1>6, AnswerOK

LEMMA GatewayCallOK ==
    ASSUME RegistryInv, NEW t \in Offered, NEW caller \in {"loopback", "remote"},
           NEW a \in BOOLEAN, NEW u, GatewayCall(t, caller, a, u)
    PROVE  OutcomeOK'
<1> DEFINE p == GetEndpointProfile("any")
           d == declared["any"]
           asked == IF caller = "remote" THEN 1 ELSE 0
<1>1. Agree(p, d)
  BY DEF RegistryInv, Patterns
<1>2. ~Metered("loopback")
  BY DEF Metered
<1>3. outcome' = [surface |-> "gateway", caller |-> caller, wanted |-> d,
                  token |-> t, keys |-> publicKeys, asked |-> asked,
                  response |-> Answer(FALSE, Evaluate(p, t), "denied"),
                  claims |-> Evaluate(p, t).claims,
                  user |-> ResolveUserID(Evaluate(p, t).claims, u)]
  <2>1. asked + 0 = asked
    OBVIOUS
  <2>2. Answer(Metered("loopback") /\ ~a, Evaluate(p, t), "denied")
          = Answer(FALSE, Evaluate(p, t), "denied")
    BY <1>2 DEF Answer
  <2> QED
    BY <1>2, <2>1, <2>2 DEF GatewayCall, GrpcChain, Judged
<1>4. MeteredOnce'
  <2>1. outcome'.surface = "gateway" /\ outcome'.caller = caller /\ outcome'.asked = asked
    BY <1>3
  <2> QED
    BY <2>1 DEF MeteredOnce
<1>5. asked \in 0..1
  OBVIOUS
<1> QED
  BY <1>1, <1>3, <1>4, <1>5, AnswerOK

LEMMA GatewayLimitedOK ==
    ASSUME NEW t \in Offered, GatewayLimited(t) PROVE OutcomeOK'
<1>1. /\ outcome'.surface = "gateway" /\ outcome'.caller = "remote" /\ outcome'.asked = 1
      /\ outcome'.response = "limited" /\ outcome'.claims = NoToken
  BY DEF GatewayLimited, Judged
<1> QED
  BY <1>1 DEF OutcomeOK, Responses, Offered, Answered, Handled, ClaimsAreVerified,
     NoImpersonation, DeclarationsAddUp, MeteredOnce

LEMMA HttpRequestOK ==
    ASSUME RegistryInv, NEW m \in Methods, NEW page \in BOOLEAN,
           NEW c \in Offered \cup {Garbled}, NEW h \in Offered, HttpRequest(m, page, c, h)
    PROVE  OutcomeOK'
<1> DEFINE n == ForMethod(m)
           t == HttpToken(c, h)
           p == GetEndpointProfile(n)
           refusal == Refusal(page, m, Evaluate(p, t).err)
<1>1. n \in Patterns /\ declared[IF m \in DOMAIN profiles THEN m ELSE "any"] = declared[n]
  BY DEF ForMethod, Patterns
<1>2. Agree(p, declared[n])
  BY <1>1 DEF RegistryInv
<1>3. t \in Offered
  BY DEF HttpToken, Offered
<1>4. refusal \in {"denied", "login", "verify"}
  BY DEF Refusal
<1>5. outcome' = [surface |-> "http", caller |-> "remote", wanted |-> declared[n],
                  token |-> t, keys |-> publicKeys, asked |-> 0,
                  response |-> Answer(FALSE, Evaluate(p, t), refusal),
                  claims |-> Evaluate(p, t).claims,
                  user |-> ResolveUserID(Evaluate(p, t).claims, Nobody)]
  BY <1>1 DEF HttpRequest, Judged
<1>6. MeteredOnce'
  <2>1. outcome'.surface = "http"
    BY <1>5
  <2> QED
    BY <2>1 DEF MeteredOnce
<1> HIDE DEF n, t, p, refusal
<1>7. 0 \in 0..1 /\ FALSE \in BOOLEAN
  OBVIOUS
<1> QED
  BY <1>2, <1>3, <1>4, <1>5, <1>6, <1>7, AnswerOK

IInv == RegistryInv /\ OutcomeOK

LEMMA Inductive == Spec => []IInv
<1>1. Init => IInv
  <2> SUFFICES ASSUME Init PROVE IInv
    OBVIOUS
  <2>1. RegistryInv
    <3>1. 0 \in 0..MaxCalls
      <4>1. MaxCalls \in Nat
        BY AccessAssumption
      <4> QED
        BY <4>1
    <3>2. /\ DOMAIN profiles = {} /\ publicKeys = {} /\ calls = 0
          /\ DOMAIN declared = Patterns
          /\ \A m \in Patterns : declared[m] = Undeclared
      BY DEF Init
    <3>3. \A m \in Patterns : GetEndpointProfile(m) = ZeroProfile
      BY <3>2 DEF GetEndpointProfile
    <3> QED
      BY <3>1, <3>2, <3>3, ZeroAgrees DEF RegistryInv
  <2>2. OutcomeOK
    BY DEF Init, OutcomeOK, NoOutcome, Answered, Handled, ClaimsAreVerified,
       NoImpersonation, DeclarationsAddUp, MeteredOnce
  <2> QED
    BY <2>1, <2>2 DEF IInv
<1>2. IInv /\ [Next]_vars => IInv'
  <2> SUFFICES ASSUME IInv, [Next]_vars PROVE IInv'
    OBVIOUS
  <2>1. RegistryInv'
    BY RegistryStep DEF IInv
  <2>2. OutcomeOK'
    <3>1. ASSUME NEW m \in Patterns, NEW f \in Flags, FlagEndpoint(m, f) PROVE OutcomeOK'
      BY <3>1, NoAnswerOK DEF FlagEndpoint, Register
    <3>2. ASSUME NEW m \in Patterns, NEW s \in SUBSET Scopes, NEW u \in BOOLEAN,
                 ServiceEndpoint(m, s, u)
          PROVE  OutcomeOK'
      BY <3>2, NoAnswerOK DEF ServiceEndpoint, Register
    <3>3. ASSUME NEW m \in Patterns, NEW p \in Profiles, SetEndpointProfile(m, p)
          PROVE  OutcomeOK'
      BY <3>3, NoAnswerOK DEF SetEndpointProfile, Register
    <3>4. CASE KeysChange
      BY <3>4, NoAnswerOK DEF KeysChange
    <3>5. CASE \E t \in Offered, peer \in {"loopback", "remote", "unknown"},
                  a \in BOOLEAN, u \in Users \cup {Nobody} : GrpcCall(t, peer, a, u)
      BY <3>5, GrpcCallOK DEF IInv
    <3>6. CASE \E t \in Offered : GatewayLimited(t)
      BY <3>6, GatewayLimitedOK
    <3>7. CASE \E t \in Offered, caller \in {"loopback", "remote"},
                  a \in BOOLEAN, u \in Users \cup {Nobody} : GatewayCall(t, caller, a, u)
      BY <3>7, GatewayCallOK DEF IInv
    <3>8. CASE \E m \in Methods, page \in BOOLEAN, c \in Offered \cup {Garbled}, h \in Offered :
                  HttpRequest(m, page, c, h)
      BY <3>8, HttpRequestOK DEF IInv
    <3>9. CASE UNCHANGED vars
      BY <3>9 DEF vars, IInv, OutcomeOK, Answered, Handled, Declared, ClaimsAreVerified,
         NoImpersonation, DeclarationsAddUp, UserWelcome, ServiceWelcome, MeteredOnce
    <3> QED
      BY <3>1, <3>2, <3>3, <3>4, <3>5, <3>6, <3>7, <3>8, <3>9 DEF Next
  <2> QED
    BY <2>1, <2>2 DEF IInv
<1> QED
  BY <1>1, <1>2, PTL DEF Spec

\* Every registration builds a profile of the zero profile's shape for one of the
\* patterns, and every answer is one of the five, with the claims of a token some
\* caller holds (the calls of endpoint_profile.go, Evaluate and its callers).
THEOREM TypeCorrect == Spec => []TypeOK
<1>1. IInv => TypeOK
  <2> SUFFICES ASSUME IInv PROVE TypeOK
    OBVIOUS
  <2>1. ASSUME NEW m \in DOMAIN profiles
        PROVE  /\ DOMAIN profiles[m] = DOMAIN ZeroProfile
               /\ \A f \in Flags : profiles[m][f] \in BOOLEAN
    <3>1. m \in Patterns /\ GetEndpointProfile(m) = profiles[m]
      BY DEF IInv, RegistryInv, GetEndpointProfile
    <3> QED
      BY <3>1 DEF IInv, RegistryInv, Agree
  <2> QED
    BY <2>1 DEF TypeOK, IInv, RegistryInv, OutcomeOK, Responses
<1> QED
  BY <1>1, Inductive, PTL

\* A handler sees claims only of the token its request was judged by, verified with
\* a key the cache held then, and expired only where that was declared (verifyJwt,
\* Evaluate and the interceptors and middleware that store its claims).
THEOREM OnlyVerifiedClaims == Spec => []ClaimsAreVerified
<1>1. IInv => ClaimsAreVerified
  BY DEF IInv, OutcomeOK
<1> QED
  BY <1>1, Inductive, PTL

\* A user is never taken for somebody else, nor a caller without claims for anybody,
\* whatever x-user-id comes with the call (ResolveUserID in security/context.go).
THEOREM NobodyImpersonated == Spec => []NoImpersonation
<1>1. IInv => NoImpersonation
  BY DEF IInv, OutcomeOK
<1> QED
  BY <1>1, Inductive, PTL

\* Whatever was declared of an endpoint, in any order, is exactly what Evaluate asks
\* of a caller (the declaring calls of endpoint_profile.go and Evaluate).
THEOREM DeclarationsRule == Spec => []DeclarationsAddUp
<1>1. IInv => DeclarationsAddUp
  BY DEF IInv, OutcomeOK
<1> QED
  BY <1>1, Inductive, PTL

\* The limiter is asked once about a remote caller's request, on either of its two
\* ways to a handler, and never about the gateway's own loopback calls
\* (RateLimitInterceptor and the RateLimit middleware).
THEOREM RemoteMeteredOnce == Spec => []MeteredOnce
<1>1. IInv => MeteredOnce
  BY DEF IInv, OutcomeOK
<1> QED
  BY <1>1, Inductive, PTL
=============================================================================
