SPECIFICATION Spec
CONSTANTS
    Methods <- OneMethod
    KeyIds <- TwoKeys
    Tokens <- SomeTokens
    Scopes <- TwoScopes
    Profiles <- SomeProfiles
    Users <- OneUser
    MaxCalls = 2
INVARIANTS TypeOK ClaimsAreVerified DeclarationsAddUp NoImpersonation MeteredOnce
CHECK_DEADLOCK FALSE
