---------------------------- MODULE AppLifecycle ----------------------------
(***************************************************************************)
(* The life of a process built on app/app.go and app/grpc.go: the builder, *)
(* Run's start-up, the signal, Run's shutdown, and everything that runs    *)
(* beside main meanwhile: background routines, the goroutines that serve   *)
(* gRPC and HTTP, the RPCs and the gateway's requests in flight.           *)
(*                                                                         *)
(* net/http and grpc-go are external: Shutdown and GracefulStop stop       *)
(* accepting and wait for what is in flight, Shutdown at most 5 seconds.   *)
(***************************************************************************)
EXTENDS Integers, FiniteSets

CONSTANTS
    Routines,   \* WithBackgroundRoutines
    Rpcs,       \* RPCs called on the gRPC port
    Requests    \* requests to the HTTP gateway, each proxied to one RPC

ASSUME LifecycleAssumption == IsFiniteSet(Routines)

VARIABLES
    options,    \* what the builder was given, of "clients", "db", "grpc", "http"
    pc,         \* where main is
    exit,       \* the process: "running", or how it ended
    signalled,  \* the context of NotifyContext is done
    failed,     \* history: a start-up step or a listener failed
    ctorSaw,    \* the configuration a service client's ctor could read
    routine,    \* each background routine
    wg,         \* the WaitGroup's counter
    cancelled,  \* backgroundContext is cancelled
    grpcServer, \* the *grpc.Server
    serve,      \* the goroutine that calls grpcServer.Serve
    gateway,    \* the gateway's *http.Server
    listen,     \* the goroutine that calls httpGateway.ListenAndServe
    rpc,        \* each RPC on the gRPC port
    request,    \* each gateway request
    timedOut    \* history: httpGateway.Shutdown gave up waiting

sigVars  == <<signalled, failed, ctorSaw>>
bgVars   == <<routine, wg, cancelled>>
srvVars  == <<grpcServer, serve, gateway, listen>>
workVars == <<rpc, request, timedOut>>
vars == <<options, pc, exit, sigVars, bgVars, srvVars, workVars>>

Running == exit = "running"

Init ==
    /\ options \in SUBSET {"clients", "db", "grpc", "http"}
    /\ pc = "build" /\ exit = "running"
    /\ signalled = FALSE /\ failed = FALSE /\ ctorSaw = "none"
    /\ routine = [r \in Routines |-> "none"] /\ wg = 0 /\ cancelled = FALSE
    /\ grpcServer = "none" /\ serve = "none" /\ gateway = "none" /\ listen = "none"
    /\ rpc = [r \in Rpcs |-> "idle"]
    /\ request = [q \in Requests |-> "idle"]
    /\ timedOut = FALSE

Startup ==
    [build |-> "parse", parse |-> "notify", notify |-> "database",
     database |-> "initializers", initializers |-> "background",
     background |-> "grpc", grpc |-> "gateway", gateway |-> "http", http |-> "wait"]

\* Mutant of Shutdown: the background context is cancelled before the servers.
CancelFirst ==
    [wait |-> "cancel", cancel |-> "shutdown", shutdown |-> "draining",
     draining |-> "gracefulStop", gracefulStop |-> "stopping",
     stopping |-> "stopHttp", stopHttp |-> "waitGroup"]

\* Mutant of Shutdown: the gRPC server stops before the gateway in front of it.
GrpcFirst ==
    [wait |-> "gracefulStop", gracefulStop |-> "stopping", stopping |-> "shutdown",
     shutdown |-> "draining", draining |-> "stopHttp", stopHttp |-> "cancel",
     cancel |-> "waitGroup"]

Shutdown ==
    [wait |-> "shutdown", shutdown |-> "draining", draining |-> "gracefulStop",
     gracefulStop |-> "stopping", stopping |-> "stopHttp", stopHttp |-> "cancel",
     cancel |-> "waitGroup"]

\* Main leaves stage s of Run for the next one, and does no more to main's state.
Starts(s) == Running /\ pc = s /\ pc' = Startup[s] /\ UNCHANGED <<exit, options>>
Stops(s) == Running /\ pc = s /\ pc' = Shutdown[s] /\ UNCHANGED <<exit, options>>

\* Fatalf: the process exits with status 1, whatever else is running.
Fatal == exit' = "status 1" /\ UNCHANGED <<options, pc>>

-----------------------------------------------------------------------------
\* WithServiceClients calls the ctors at once.  The fields they may read (with
\* ServiceClientHostAndPort) have no value before Run parses the configuration.
CtorRuns == ctorSaw' \in IF "clients" \in options THEN {"none", "zero values"} ELSE {"none"}

BuildClients ==
    /\ Starts("build")
    /\ CtorRuns
    /\ UNCHANGED <<signalled, failed, bgVars, srvVars, workVars>>

\* A ctor that returns no client: configureSericeClient panics.
ClientMissing ==
    /\ Running /\ pc = "build" /\ "clients" \in options
    /\ CtorRuns
    /\ exit' = "status 2" /\ failed' = TRUE
    /\ UNCHANGED <<options, pc, signalled, bgVars, srvVars, workVars>>

\* Parse, NotifyContext, initDatabase, runInitializers (whose errors are logged
\* and no more), startHttpServer, and startGrpc without WithGrpc.
StartStep ==
    /\ \/ \E s \in {"parse", "notify", "database", "initializers", "http"} : Starts(s)
       \/ "grpc" \notin options /\ \E s \in {"grpc", "gateway"} : Starts(s)
    /\ UNCHANGED <<sigVars, bgVars, srvVars, workVars>>

StartFails ==
    /\ Running
    /\ \/ pc = "parse"
       \/ pc = "database" /\ "db" \in options
       \/ pc \in {"grpc", "gateway"} /\ "grpc" \in options
       \/ pc = "http" /\ "http" \in options
    /\ Fatal /\ failed' = TRUE
    /\ UNCHANGED <<signalled, ctorSaw, bgVars, srvVars, workVars>>

\* Mutant of Tracked: a routine's Done has no Add before it.
Untracked == 0

\* Mutant of Tracked: Add is called for the routines and by each of them.
TrackedTwice == 2 * Cardinality(Routines)

Tracked == Cardinality(Routines)

RunBackgroundRoutines ==
    /\ Starts("background")
    /\ wg' = wg + Tracked
    /\ routine' = [r \in Routines |-> "running"]
    /\ UNCHANGED <<sigVars, cancelled, srvVars, workVars>>

\* startGrpc up to its goroutine for Serve.
ListenGrpc ==
    /\ "grpc" \in options /\ Starts("grpc")
    /\ grpcServer' = "open" /\ serve' = "ready"
    /\ UNCHANGED <<sigVars, bgVars, gateway, listen, workVars>>

\* The rest of startGrpc, up to its goroutine for ListenAndServe.
StartGateway ==
    /\ "grpc" \in options /\ Starts("gateway")
    /\ gateway' = "open" /\ listen' = "ready"
    /\ UNCHANGED <<sigVars, bgVars, grpcServer, serve, workVars>>

\* Before NotifyContext a signal ends the process; after it the signal is
\* noted, and every further one is swallowed.
Signal ==
    /\ Running /\ ~signalled
    /\ IF pc \in {"build", "parse", "notify"}
       THEN exit' = "killed" /\ UNCHANGED signalled
       ELSE signalled' = TRUE /\ UNCHANGED exit
    /\ UNCHANGED <<options, pc, failed, ctorSaw, bgVars, srvVars, workVars>>

-----------------------------------------------------------------------------
AwaitSignal ==
    /\ signalled /\ Stops("wait")
    /\ UNCHANGED <<sigVars, bgVars, srvVars, workVars>>

\* stopHttpServer, and stopGrpcServer without WithGrpc.
StopStep ==
    /\ \/ Stops("stopHttp")
       \/ /\ "grpc" \notin options
          /\ \E s \in {"shutdown", "draining", "gracefulStop", "stopping"} : Stops(s)
    /\ UNCHANGED <<sigVars, bgVars, srvVars, workVars>>

BeginShutdown ==
    /\ "grpc" \in options /\ Stops("shutdown")
    /\ gateway' = "shut"
    /\ UNCHANGED <<sigVars, bgVars, grpcServer, serve, listen, workVars>>

InFlight == \E q \in Requests : request[q] \in {"handling", "proxied"}

\* Shutdown returns nil, or an error after 5 seconds, which is only logged.
EndShutdown ==
    /\ "grpc" \in options /\ Stops("draining")
    /\ timedOut' = (timedOut \/ InFlight)
    /\ UNCHANGED <<sigVars, bgVars, srvVars, rpc, request>>

BeginGracefulStop ==
    /\ "grpc" \in options /\ Stops("gracefulStop")
    /\ grpcServer' = "draining"
    /\ UNCHANGED <<sigVars, bgVars, serve, gateway, listen, workVars>>

Handling ==
    \/ \E r \in Rpcs : rpc[r] = "running"
    \/ \E q \in Requests : request[q] = "proxied"

EndGracefulStop ==
    /\ "grpc" \in options /\ ~Handling /\ Stops("stopping")
    /\ grpcServer' = "stopped"
    /\ UNCHANGED <<sigVars, bgVars, serve, gateway, listen, workVars>>

CancelBackground ==
    /\ Stops("cancel")
    /\ cancelled' = TRUE
    /\ UNCHANGED <<sigVars, routine, wg, srvVars, workVars>>

\* Mutant of Awaited: Run returns without wg.Wait.
NotAwaited == TRUE

Awaited == wg = 0

RunReturns ==
    /\ Running /\ pc = "waitGroup" /\ Awaited
    /\ exit' = "status 0"
    /\ UNCHANGED <<options, pc, sigVars, bgVars, srvVars, workVars>>

-----------------------------------------------------------------------------
\* A background routine returns, at the latest when the context is cancelled.
RoutineReturns(r) ==
    /\ Running /\ routine[r] = "running"
    /\ routine' = [routine EXCEPT ![r] = "done"]
    /\ wg' = wg - 1
    /\ UNCHANGED <<options, pc, exit, sigVars, cancelled, srvVars, workVars>>

\* Serve on a server already told to stop returns ErrServerStopped, which the
\* goroutine takes for a failure.
ServeRuns ==
    /\ Running /\ serve = "ready"
    /\ IF grpcServer = "open"
       THEN serve' = "serving" /\ UNCHANGED <<options, pc, exit>>
       ELSE serve' = "returned" /\ Fatal
    /\ UNCHANGED <<sigVars, bgVars, grpcServer, gateway, listen, workVars>>

\* ListenAndServe on a server already shut down returns ErrServerClosed, which
\* the goroutine lets pass.
ListenRuns ==
    /\ Running /\ listen = "ready"
    /\ listen' = IF gateway = "open" THEN "serving" ELSE "returned"
    /\ UNCHANGED <<options, pc, exit, sigVars, bgVars, grpcServer, serve, gateway,
                   workVars>>

\* The port is taken, or Accept fails.
ListenerFails ==
    /\ Running
    /\ \/ gateway = "open" /\ listen \in {"ready", "serving"}
       \/ grpcServer = "open" /\ serve = "serving"
    /\ Fatal /\ failed' = TRUE
    /\ UNCHANGED <<signalled, ctorSaw, bgVars, srvVars, workVars>>

Accepting == serve = "serving" /\ grpcServer = "open"

RpcStep(r, from, to) ==
    /\ Running /\ rpc[r] = from
    /\ rpc' = [rpc EXCEPT ![r] = to]
    /\ UNCHANGED <<options, pc, exit, sigVars, bgVars, srvVars, request, timedOut>>

RpcArrives(r) == Accepting /\ RpcStep(r, "idle", "running")
RpcReturns(r) == RpcStep(r, "running", "done")

RequestStep(q, from, to) ==
    /\ Running /\ request[q] = from
    /\ request' = [request EXCEPT ![q] = to]
    /\ UNCHANGED <<options, pc, exit, sigVars, bgVars, srvVars, rpc, timedOut>>

RequestArrives(q) ==
    listen = "serving" /\ gateway = "open" /\ RequestStep(q, "idle", "handling")
RequestProxied(q) == Accepting /\ RequestStep(q, "handling", "proxied")
RequestRefused(q) ==
    grpcServer \in {"draining", "stopped"} /\ RequestStep(q, "handling", "refused")
RequestAnswered(q) == RequestStep(q, "proxied", "done")

Exited == ~Running /\ UNCHANGED vars

MainStep ==
    \/ BuildClients \/ StartStep \/ RunBackgroundRoutines \/ ListenGrpc \/ StartGateway
    \/ AwaitSignal \/ StopStep \/ BeginShutdown \/ EndShutdown \/ BeginGracefulStop
    \/ EndGracefulStop \/ CancelBackground \/ RunReturns

Next ==
    \/ MainStep \/ ClientMissing \/ StartFails \/ Signal
    \/ ServeRuns \/ ListenRuns \/ ListenerFails
    \/ \E r \in Routines : RoutineReturns(r)
    \/ \E r \in Rpcs : RpcArrives(r) \/ RpcReturns(r)
    \/ \E q \in Requests :
           \/ RequestArrives(q) \/ RequestProxied(q) \/ RequestRefused(q)
           \/ RequestAnswered(q)
    \/ Exited

Spec == Init /\ [][Next]_vars

\* Main is scheduled, handlers return, and routines heed their context, as
\* BackgroundRoutine asks of them (app.go:63-65).
Fairness ==
    /\ WF_vars(MainStep)
    /\ \A r \in Rpcs : WF_vars(RpcReturns(r))
    /\ \A q \in Requests : WF_vars(RequestAnswered(q))
    /\ \A r \in Routines : WF_vars(cancelled /\ RoutineReturns(r))

FairSpec == Spec /\ Fairness

-----------------------------------------------------------------------------
Stages ==
    {"build", "parse", "notify", "database", "initializers", "background", "grpc",
     "gateway", "http", "wait", "shutdown", "draining", "gracefulStop", "stopping",
     "stopHttp", "cancel", "waitGroup"}

\* The counter of the WaitGroup is never negative (Done would panic) and every
\* part of the process is in a state of its life.
TypeOK ==
    /\ options \subseteq {"clients", "db", "grpc", "http"}
    /\ pc \in Stages
    /\ exit \in {"running", "killed", "status 0", "status 1", "status 2"}
    /\ {signalled, failed, cancelled, timedOut} \subseteq BOOLEAN
    /\ ctorSaw \in {"none", "zero values"}
    /\ routine \in [Routines -> {"none", "running", "done"}]
    /\ wg \in Nat
    /\ grpcServer \in {"none", "open", "draining", "stopped"}
    /\ serve \in {"none", "ready", "serving", "returned"}
    /\ gateway \in {"none", "open", "shut"}
    /\ listen \in {"none", "ready", "serving", "returned"}
    /\ rpc \in [Rpcs -> {"idle", "running", "done"}]
    /\ request \in [Requests -> {"idle", "handling", "proxied", "refused", "done"}]

\* No RPC in flight, called directly or through the gateway, sees the background
\* work it may rely on stop under it (app.go:414-416).
BackgroundOutlivesRpcs == Handling => ~cancelled

\* Graceful shutdown: when Run has returned no RPC was cut off, no background
\* routine is left, and a gateway request only if Shutdown's 5 seconds ran out.
NothingCutOff ==
    exit = "status 0" =>
        /\ ~Handling
        /\ \A r \in Routines : routine[r] # "running"
        /\ InFlight => timedOut

\* The gateway stops before the server behind it: a request it accepted finds
\* the gRPC server gone only after Shutdown's 5 seconds ran out.
RefusedOnlyAfterTimeout ==
    (\E q \in Requests : request[q] = "refused") => timedOut

\* Shutdown completes: once the signal came the process ends, provided that
\* handlers return and routines heed the background context.
ShutdownCompletes == signalled ~> ~Running

\* "The Run() method ... handles: ... Graceful shutdown" (app.go:34-41): a
\* process nothing of which failed does not end with status 1.
FailureStatusMeansFailure == exit = "status 1" => failed

\* ServiceClientCtor "receives the App instance for accessing configuration
\* values (host/port)" (service_clients.go:11): it does not see unset ones.
CtorReadsConfiguration == ctorSaw # "zero values"
=============================================================================
