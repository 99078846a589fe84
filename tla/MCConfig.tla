------------------------------- MODULE MCConfig -------------------------------
(* Small programs, environments and command lines for Config. *)
EXTENDS Config

Fields(fs) == [call |-> "WithConfigFields", fields |-> fs]
Groups(bits, overrides) ==
    [call |-> "WithDefaultConfigFields", bits |-> bits, overrides |-> overrides]
Clients(names) == [call |-> "WithServiceClients", names |-> names]
Builder(calls) == [new |-> <<>>, calls |-> calls]

NoOverrides == [n \in {} |-> <<>>]
Debug == Field("debug", "bool", <<"false">>, "main")
Hosts == Field("hosts", "strings", <<>>, "main")
Ports == Field("ports", "ints", <<"1", "2">>, "main")
Own == Field("ports", "ints", <<>>, "own")

SomePrograms == {
    \* a backend that is an HTMX service too; overrides; arrays
    Builder(<<Groups({2, 4, 128}, "http-port" :> <<"1">>), Fields(<<Hosts, Ports, Debug>>)>>),
    \* a field declared again by a group, and by the service itself
    Builder(<<Fields(<<Number("http-port", "2"), Debug>>), Groups({2, 4, 8, 16, 64, 128}, NoOverrides),
              Fields(<<Number("http-port", "1"), Field("hosts", "strings", <<"a", "b">>, "main")>>)>>),
    \* the constructor's fields, flags of a set of its own
    [new |-> <<Number("http-port", "1"), Number("http-port", "2"), Field("debug", "bool", <<"true">>, "own")>>,
     calls |-> <<Fields(<<Own>>), Groups({2}, NoOverrides)>>],
    [new |-> <<>>, calls |-> <<Fields(<<Own, [Debug EXCEPT !.set = "own"]>>)>>],
    \* service clients, and nothing at all
    Builder(<<Clients(<<"auth", "auth">>), Groups({128}, NoOverrides)>>),
    Builder(<<>>) }

Arg(name, text) == [name |-> name, text |-> text]
SomeArgs == {
    Arg("http-port", <<"1">>), Arg("http-port", <<"junk">>), Arg("debug", <<>>),
    Arg("debug", <<"false">>), Arg("hosts", <<"a">>), Arg("hosts", <<"b", "", "a">>),
    Arg("hosts", <<"", "">>), Arg("ports", <<"2", "1">>), Arg("ports", <<"1", "junk">>),
    Arg("log-level", <<"">>), Arg("auth-port", <<"2">>), Arg("", <<"word">>) }

NoVariables == [n \in {} |-> <<>>]
SomeEnvs == {
    NoVariables,
    ("http-port" :> <<"2">>) @@ ("hosts" :> <<"b", "">>) @@ ("ports" :> <<"junk", "2">>),
    ("http-port" :> <<"junk">>) @@ ("debug" :> <<"true">>) @@ ("ports" :> <<"junk">>) @@ ("log-level" :> <<"">>),
    ("hosts" :> <<"">>) @@ ("debug" :> <<"junk">>) @@ ("auth-host" :> <<"a">>) @@ ("auth-port" :> <<"1", "2">>) }
SomeDotEnvs == {
    NoVariables,
    ("http-port" :> <<"1">>) @@ ("hosts" :> <<"a">>) @@ ("log-level" :> <<"debug">>) }

SomeInputs ==
    [env : SomeEnvs, dotenv : SomeDotEnvs,
     args : BoundedSeq(SomeArgs, 2) \cup {<<Arg("ports", <<"1">>), Arg("ports", <<"2">>), Arg("ports", <<"2">>)>>},
     call : {<<>>, <<"own">>, <<"nil">>, <<"nil", "main">>, <<"own", "main">>, <<"own", "own">>}]

SomeParts == STRING
SomeNumerals == {"0", "1", "2", "8000", "8080", "8081", "9000"}
=============================================================================
