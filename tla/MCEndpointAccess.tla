-------------------------- MODULE MCEndpointAccess --------------------------
(* Two signing keys, of which one is rotated in, and a token for every kind of *)
(* caller an endpoint can tell apart.                                          *)
EXTENDS EndpointAccess

User(signer, expired, verified, admin, level) ==
    [kind |-> "user", signer |-> signer, expired |-> expired, verified |-> verified,
     admin |-> admin, level |-> level, scopes |-> {}, subject |-> "alice"]

Service(signer, scopes) ==
    [kind |-> "service", signer |-> signer, expired |-> FALSE, verified |-> FALSE,
     admin |-> FALSE, level |-> "", scopes |-> scopes, subject |-> "gateway"]

SomeTokens ==
    {User("k1", FALSE, TRUE, FALSE, "standard"),
     User("k2", TRUE, TRUE, TRUE, "premium"),
     User("k1", FALSE, FALSE, TRUE, "standard"),
     Service("k1", {"s1"}), Service("k2", {"s1", "s2"})}

\* Profiles no sequence of the other calls builds.
SomeProfiles ==
    {[ZeroProfile EXCEPT !.AllowedAccountTypes = {"premium"}, !.AllowExpiredJwt = TRUE],
     [ZeroProfile EXCEPT !.AllowService = TRUE, !.AllowedScopes = {"s1"},
                         !.RequiresAdmin = TRUE],
     [ZeroProfile EXCEPT !.AllowService = TRUE]}

OneMethod == {"GET"}
TwoMethods == {"GET", "POST"}
TwoKeys == {"k1", "k2"}
TwoScopes == {"s1", "s2"}
OneUser == {"bob"}
=============================================================================
