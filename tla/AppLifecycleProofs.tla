-------------------------- MODULE AppLifecycleProofs --------------------------
(***************************************************************************)
(* Theorems about AppLifecycle, for any number of background routines, of  *)
(* RPCs and of gateway requests in flight, and every combination of        *)
(* options.                                                                *)
(***************************************************************************)
EXTENDS AppLifecycle, FiniteSetTheorems, TLAPS

\* The stages in which RunBackgroundRoutines has not run yet.
Early == {"build", "parse", "notify", "database", "initializers", "background"}

\* The stages in which an open gateway, and an open gRPC server, may be met, and
\* those after Shutdown and after GracefulStop.
GatewayUp == {"http", "wait", "shutdown"}
ServerUp  == {"gateway", "draining", "gracefulStop"} \cup GatewayUp
Stopped   == {"stopHttp", "cancel", "waitGroup"}
ShutDown  == {"gracefulStop", "stopping"} \cup Stopped

\* Main goes through the stages in the order of Startup and Shutdown.
LEMMA StartOrder ==
    /\ Startup["build"] = "parse" /\ Startup["parse"] = "notify"
    /\ Startup["notify"] = "database" /\ Startup["database"] = "initializers"
    /\ Startup["initializers"] = "background" /\ Startup["background"] = "grpc"
    /\ Startup["grpc"] = "gateway" /\ Startup["gateway"] = "http"
    /\ Startup["http"] = "wait"
  BY DEF Startup

LEMMA StopOrder ==
    /\ Shutdown["wait"] = "shutdown" /\ Shutdown["shutdown"] = "draining"
    /\ Shutdown["draining"] = "gracefulStop" /\ Shutdown["gracefulStop"] = "stopping"
    /\ Shutdown["stopping"] = "stopHttp" /\ Shutdown["stopHttp"] = "cancel"
    /\ Shutdown["cancel"] = "waitGroup"
  BY DEF Shutdown

-----------------------------------------------------------------------------
\* The WaitGroup counts the routines that run.
RunningRoutines == {r \in Routines : routine[r] = "running"}

RoutineInv ==
    /\ wg = Cardinality(RunningRoutines)
    /\ pc \in Early => \A r \in Routines : routine[r] = "none"

\* What a step does to the routines, the counter and their stage.
LEMMA RoutineSteps ==
    ASSUME TypeOK, [Next]_vars
    PROVE  \/ RunBackgroundRoutines
           \/ \E r \in Routines : RoutineReturns(r)
           \/ UNCHANGED <<routine, wg>> /\ (pc' \in Early => pc \in Early)
<1> USE StartOrder, StopOrder DEF Early
<1>1. CASE BuildClients
  BY <1>1 DEF BuildClients, Starts, bgVars
<1>2. CASE StartStep
  BY <1>2 DEF StartStep, Starts, bgVars
<1>3. CASE ListenGrpc \/ StartGateway
  BY <1>3 DEF ListenGrpc, StartGateway, Starts, bgVars
<1>4. CASE AwaitSignal \/ StopStep
  BY <1>4 DEF AwaitSignal, StopStep, Stops, bgVars
<1>5. CASE BeginShutdown \/ EndShutdown \/ BeginGracefulStop \/ EndGracefulStop
  BY <1>5 DEF BeginShutdown, EndShutdown, BeginGracefulStop, EndGracefulStop, Stops, bgVars
<1>6. CASE CancelBackground \/ RunReturns
  BY <1>6 DEF CancelBackground, RunReturns, Stops, bgVars
<1>7. CASE ClientMissing \/ StartFails \/ Signal \/ ServeRuns \/ ListenRuns \/ ListenerFails
  BY <1>7 DEF ClientMissing, StartFails, Signal, ServeRuns, ListenRuns, ListenerFails, Fatal, bgVars
<1>8. CASE \E r \in Rpcs : RpcArrives(r) \/ RpcReturns(r)
  BY <1>8 DEF RpcArrives, RpcReturns, RpcStep, bgVars
<1>9. CASE \E q \in Requests : \/ RequestArrives(q) \/ RequestProxied(q)
                               \/ RequestRefused(q) \/ RequestAnswered(q)
  BY <1>9 DEF RequestArrives, RequestProxied, RequestRefused, RequestAnswered, RequestStep, bgVars
<1>10. CASE Exited \/ UNCHANGED vars
  BY <1>10 DEF Exited, vars, bgVars
<1> QED
  BY <1>1, <1>2, <1>3, <1>4, <1>5, <1>6, <1>7, <1>8, <1>9, <1>10 DEF Next, MainStep

LEMMA RoutinesCounted ==
    ASSUME TypeOK, RoutineInv, [Next]_vars PROVE RoutineInv' /\ wg' \in Nat
<1>1. IsFiniteSet(RunningRoutines)
  <2>1. RunningRoutines \subseteq Routines
    BY DEF RunningRoutines
  <2> QED
    BY <2>1, FS_Subset, LifecycleAssumption DEF LifecycleAssumption
<1>2. CASE RunBackgroundRoutines
  <2>1. RunningRoutines = {} /\ wg = 0
    <3>1. RunningRoutines = {}
      BY <1>2 DEF RunBackgroundRoutines, Starts, RoutineInv, Early, RunningRoutines
    <3> QED
      BY <3>1, FS_EmptySet DEF RoutineInv
  <2>2. RunningRoutines' = Routines
    BY <1>2 DEF RunBackgroundRoutines, RunningRoutines
  <2>3. Cardinality(Routines) \in Nat
    BY FS_CardinalityType, LifecycleAssumption DEF LifecycleAssumption
  <2>4. wg' = Cardinality(Routines)
    BY <1>2, <2>1, <2>3 DEF RunBackgroundRoutines, Tracked
  <2>5. pc' \notin Early
    BY <1>2, StartOrder DEF RunBackgroundRoutines, Starts, Early
  <2> QED
    BY <2>2, <2>3, <2>4, <2>5 DEF RoutineInv
<1>3. ASSUME NEW r \in Routines, RoutineReturns(r) PROVE RoutineInv' /\ wg' \in Nat
  <2>1. r \in RunningRoutines /\ RunningRoutines' = RunningRoutines \ {r}
    BY <1>3 DEF RoutineReturns, RunningRoutines, TypeOK
  <2>2. /\ Cardinality(RunningRoutines \ {r}) = Cardinality(RunningRoutines) - 1
        /\ Cardinality(RunningRoutines \ {r}) \in Nat
    <3>1. IsFiniteSet(RunningRoutines \ {r})
      BY <1>1, FS_RemoveElement
    <3> QED
      BY <1>1, <2>1, <3>1, FS_RemoveElement, FS_CardinalityType
  <2>3. pc' \notin Early
    <3>1. pc' = pc /\ routine[r] = "running"
      BY <1>3 DEF RoutineReturns
    <3> QED
      BY <3>1 DEF RoutineInv
  <2> QED
    BY <1>3, <2>1, <2>2, <2>3 DEF RoutineInv, RoutineReturns
<1>4. CASE UNCHANGED <<routine, wg>> /\ (pc' \in Early => pc \in Early)
  BY <1>4 DEF RoutineInv, RunningRoutines, TypeOK
<1> QED
  BY <1>2, <1>3, <1>4, RoutineSteps

-----------------------------------------------------------------------------

LEMMA InitType == Init => TypeOK
<1> SUFFICES ASSUME Init PROVE TypeOK
  OBVIOUS
<1>1. pc \in Stages
  BY DEF Init, Stages
<1>2. {signalled, failed, cancelled, timedOut} \subseteq BOOLEAN
  BY DEF Init
<1> QED
  BY <1>1, <1>2 DEF Init, TypeOK


\* What a step may do to each variable.
LEMMA Moves ==
    ASSUME [Next]_vars
    PROVE  /\ options' = options /\ exit' \in {exit, "killed", "status 0", "status 1", "status 2"}
           /\ \/ pc' = pc
              \/ \E s \in DOMAIN Startup : pc' = Startup[s]
              \/ \E s \in DOMAIN Shutdown : pc' = Shutdown[s]
           /\ signalled' \in {signalled, TRUE} /\ failed' \in {failed, TRUE}
           /\ cancelled' \in {cancelled, TRUE}
           /\ timedOut' = timedOut \/ timedOut' = (timedOut \/ InFlight)
           /\ ctorSaw' \in {ctorSaw, "none", "zero values"}
           /\ grpcServer' \in {grpcServer, "open", "draining", "stopped"}
           /\ serve' \in {serve, "ready", "serving", "returned"}
           /\ gateway' \in {gateway, "open", "shut"}
           /\ listen' \in {listen, "ready", "serving", "returned"}
           /\ \/ routine' = routine
              \/ routine' = [r \in Routines |-> "running"]
              \/ \E r \in Routines : routine' = [routine EXCEPT ![r] = "done"]
           /\ \/ rpc' = rpc
              \/ \E r \in Rpcs, to \in {"running", "done"} : rpc' = [rpc EXCEPT ![r] = to]
           /\ \/ request' = request
              \/ \E q \in Requests, to \in {"handling", "proxied", "refused", "done"} :
                     request' = [request EXCEPT ![q] = to]
<1> USE DEF Next, MainStep, BuildClients, CtorRuns, StartStep, RunBackgroundRoutines, ListenGrpc, StartGateway,
        AwaitSignal, StopStep, BeginShutdown, EndShutdown, BeginGracefulStop, EndGracefulStop,
        CancelBackground, RunReturns, ClientMissing, StartFails, Signal, ServeRuns, ListenRuns,
        ListenerFails, RoutineReturns, RpcArrives, RpcReturns, RpcStep, RequestArrives, RequestProxied,
        RequestRefused, RequestAnswered, RequestStep, Exited, Starts, Stops, Fatal,
        vars, sigVars, bgVars, srvVars, workVars
<1>1. options' = options /\ exit' \in {exit, "killed", "status 0", "status 1", "status 2"}
  OBVIOUS
<1>2. \/ pc' = pc
      \/ \E s \in DOMAIN Startup : pc' = Startup[s]
      \/ \E s \in DOMAIN Shutdown : pc' = Shutdown[s]
  BY DEF Startup, Shutdown
<1>3. /\ signalled' \in {signalled, TRUE} /\ failed' \in {failed, TRUE}
      /\ cancelled' \in {cancelled, TRUE}
  OBVIOUS
<1>4. timedOut' = timedOut \/ timedOut' = (timedOut \/ InFlight)
  OBVIOUS
<1>5. ctorSaw' \in {ctorSaw, "none", "zero values"}
  OBVIOUS
<1>6. /\ grpcServer' \in {grpcServer, "open", "draining", "stopped"}
      /\ serve' \in {serve, "ready", "serving", "returned"}
  OBVIOUS
<1>7. /\ gateway' \in {gateway, "open", "shut"}
      /\ listen' \in {listen, "ready", "serving", "returned"}
  OBVIOUS
<1>8. \/ routine' = routine
      \/ routine' = [r \in Routines |-> "running"]
      \/ \E r \in Routines : routine' = [routine EXCEPT ![r] = "done"]
  OBVIOUS
<1>9. \/ rpc' = rpc
      \/ \E r \in Rpcs, to \in {"running", "done"} : rpc' = [rpc EXCEPT ![r] = to]
  OBVIOUS
<1>10. \/ request' = request
       \/ \E q \in Requests, to \in {"handling", "proxied", "refused", "done"} :
              request' = [request EXCEPT ![q] = to]
  OBVIOUS
<1> HIDE DEF Next, InFlight
<1> QED
  BY ONLY <1>1, <1>2, <1>3, <1>4, <1>5, <1>6, <1>7, <1>8, <1>9, <1>10, Zenon

LEMMA StagesClosed ==
    /\ \A s \in DOMAIN Startup : Startup[s] \in Stages
    /\ \A s \in DOMAIN Shutdown : Shutdown[s] \in Stages
  BY DEF Stages, Startup, Shutdown

\* RoutinesCounted has shown it of the counter.
LEMMA StepType ==
    ASSUME TypeOK, RoutineInv, [Next]_vars PROVE TypeOK'
<1>1. wg' \in Nat
  BY RoutinesCounted
<1>2. pc' \in Stages
  <2>1. pc \in Stages
    BY DEF TypeOK
  <2>2. \/ pc' = pc
        \/ \E s \in DOMAIN Startup : pc' = Startup[s]
        \/ \E s \in DOMAIN Shutdown : pc' = Shutdown[s]
    BY Moves
  <2> QED
    BY <2>1, <2>2, StagesClosed
<1>3. {signalled, failed, cancelled, timedOut}' \subseteq BOOLEAN
  <2>1. timedOut' \in BOOLEAN
    BY Moves DEF TypeOK
  <2>2. signalled' \in BOOLEAN /\ failed' \in BOOLEAN /\ cancelled' \in BOOLEAN
    BY Moves DEF TypeOK
  <2> QED
    BY <2>1, <2>2
<1>4. routine' \in [Routines -> {"none", "running", "done"}]
  BY Moves DEF TypeOK
<1>5. rpc' \in [Rpcs -> {"idle", "running", "done"}]
  BY Moves DEF TypeOK
<1>6. request' \in [Requests -> {"idle", "handling", "proxied", "refused", "done"}]
  BY Moves DEF TypeOK
<1>7. /\ options' \subseteq {"clients", "db", "grpc", "http"}
      /\ exit' \in {"running", "killed", "status 0", "status 1", "status 2"}
      /\ ctorSaw' \in {"none", "zero values"}
  BY Moves DEF TypeOK
<1>8. /\ grpcServer' \in {"none", "open", "draining", "stopped"}
      /\ serve' \in {"none", "ready", "serving", "returned"}
      /\ gateway' \in {"none", "open", "shut"}
      /\ listen' \in {"none", "ready", "serving", "returned"}
  BY Moves DEF TypeOK
<1> QED
  BY <1>1, <1>2, <1>3, <1>4, <1>5, <1>6, <1>7, <1>8, Zenon DEF TypeOK

-----------------------------------------------------------------------------
(* What is open, and what may still be in flight, at each stage of main.      *)

Refused == \E q \in Requests : request[q] = "refused"

ServersInv ==
    /\ grpcServer = "open" => pc \in ServerUp
    /\ grpcServer \in {"draining", "stopped"} => pc \in {"stopping"} \cup Stopped
    /\ gateway = "open" => pc \in GatewayUp
    /\ "grpc" \notin options => grpcServer = "none" /\ gateway = "none"

WorkInv ==
    /\ "grpc" \notin options => ~Handling /\ ~InFlight
    /\ Handling => pc \notin Stopped
    /\ InFlight /\ pc \in ShutDown => timedOut
    /\ Refused => timedOut
    /\ cancelled => pc = "waitGroup"
    /\ exit = "status 0" => pc = "waitGroup" /\ wg = 0

LifeInv == ServersInv /\ WorkInv

LEMMA ServersStep == ASSUME ServersInv, [Next]_vars PROVE ServersInv'
<1> USE StartOrder, StopOrder DEF ServersInv, ServerUp, GatewayUp, Stopped
<1>1. CASE BuildClients \/ StartStep \/ RunBackgroundRoutines
  BY <1>1 DEF BuildClients, StartStep, RunBackgroundRoutines, Starts, srvVars
<1>2. CASE ListenGrpc \/ StartGateway
  BY <1>2 DEF ListenGrpc, StartGateway, Starts
<1>3. CASE AwaitSignal \/ StopStep \/ EndShutdown \/ CancelBackground
  BY <1>3 DEF AwaitSignal, StopStep, EndShutdown, CancelBackground, Stops, srvVars
<1>4. CASE BeginShutdown \/ BeginGracefulStop \/ EndGracefulStop
  BY <1>4 DEF BeginShutdown, BeginGracefulStop, EndGracefulStop, Stops
<1>5. CASE ClientMissing \/ StartFails \/ Signal \/ RunReturns \/ ServeRuns \/ ListenRuns \/ ListenerFails
  BY <1>5 DEF ClientMissing, StartFails, Signal, RunReturns, ServeRuns, ListenRuns, ListenerFails,
              Fatal, srvVars
<1>6. CASE \/ \E r \in Routines : RoutineReturns(r)
           \/ \E r \in Rpcs : RpcArrives(r) \/ RpcReturns(r)
           \/ \E q \in Requests : \/ RequestArrives(q) \/ RequestProxied(q)
                                  \/ RequestRefused(q) \/ RequestAnswered(q)
  BY <1>6 DEF RoutineReturns, RpcArrives, RpcReturns, RpcStep, RequestArrives, RequestProxied,
     RequestRefused, RequestAnswered, RequestStep, srvVars
<1>7. CASE Exited \/ UNCHANGED vars
  BY <1>7 DEF Exited, vars, srvVars
<1> QED
  BY <1>1, <1>2, <1>3, <1>4, <1>5, <1>6, <1>7 DEF Next, MainStep

LEMMA RequestMoves ==
    ASSUME TypeOK, NEW q \in Requests, NEW from, NEW to, RequestStep(q, from, to)
    PROVE  /\ Running /\ UNCHANGED <<options, pc, exit, cancelled, rpc, timedOut>>
           /\ request[q] = from /\ request'[q] = to
           /\ \A p \in Requests : p # q => request'[p] = request[p]
<1>1. DOMAIN request = Requests
  BY DEF TypeOK
<1> QED
  BY <1>1 DEF RequestStep, bgVars

\* A step that leaves alone what is in flight, and enters the later stages only when
\* nothing is.
LEMMA WorkKept ==
    ASSUME LifeInv, UNCHANGED <<options, rpc, request, timedOut, cancelled>>,
           pc' \in Stopped => pc \in Stopped \/ ~Handling,
           pc' \in ShutDown => pc \in ShutDown \/ ~InFlight,
           cancelled => pc' = pc,
           exit' = "status 0" => exit = "status 0" /\ pc' = pc /\ wg' = wg
    PROVE  WorkInv'
<1>1. (Handling' <=> Handling) /\ (InFlight' <=> InFlight) /\ (Refused' <=> Refused)
  BY DEF Handling, InFlight, Refused
<1> QED
  BY <1>1 DEF LifeInv, WorkInv

LEMMA WorkStep == ASSUME TypeOK, LifeInv, [Next]_vars PROVE WorkInv'
<1> DEFINE Same == UNCHANGED <<options, rpc, request, timedOut, cancelled>>
           Kept == /\ pc' \in Stopped => pc \in Stopped \/ ~Handling
                   /\ pc' \in ShutDown => pc \in ShutDown \/ ~InFlight
                   /\ cancelled => pc' = pc
                   /\ exit' = "status 0" => exit = "status 0" /\ pc' = pc /\ wg' = wg
<1>0. Same /\ Kept => WorkInv'
  BY WorkKept
<1>a. /\ cancelled => pc = "waitGroup"
      /\ "grpc" \notin options => ~Handling /\ ~InFlight
  BY DEF LifeInv, WorkInv
\* Main moves on: nothing changes in flight.
<1>2. CASE BuildClients \/ StartStep
  <2>1. Same
    BY <1>2 DEF BuildClients, StartStep, Starts, bgVars, workVars
  <2>2. Kept
    BY <1>2, <1>a, StartOrder DEF BuildClients, StartStep, Starts, Running, ShutDown, Stopped
  <2> QED
    BY <1>0, <2>1, <2>2
<1>3. CASE RunBackgroundRoutines \/ ListenGrpc \/ StartGateway
  <2>1. Same
    BY <1>3 DEF RunBackgroundRoutines, ListenGrpc, StartGateway, Starts, bgVars, workVars
  <2>2. Kept
    BY <1>3, <1>a, StartOrder
       DEF RunBackgroundRoutines, ListenGrpc, StartGateway, Starts, Running, ShutDown, Stopped
  <2> QED
    BY <1>0, <2>1, <2>2
<1>4. CASE AwaitSignal \/ StopStep
  <2>1. Same
    BY <1>4 DEF AwaitSignal, StopStep, Stops, bgVars, workVars
  <2>2. Kept
    BY <1>4, <1>a, StopOrder DEF AwaitSignal, StopStep, Stops, Running, ShutDown, Stopped
  <2> QED
    BY <1>0, <2>1, <2>2
<1>5. CASE BeginShutdown \/ BeginGracefulStop \/ EndGracefulStop
  <2>1. Same
    BY <1>5 DEF BeginShutdown, BeginGracefulStop, EndGracefulStop, Stops, bgVars, workVars
  <2>2. Kept
    BY <1>5, <1>a, StopOrder
       DEF BeginShutdown, BeginGracefulStop, EndGracefulStop, Stops, Running, ShutDown, Stopped
  <2> QED
    BY <1>0, <2>1, <2>2
\* What is still in flight when Shutdown returns is noted.
<1>6. CASE EndShutdown
  <2>1. (Handling' <=> Handling) /\ (InFlight' <=> InFlight) /\ (Refused' <=> Refused)
    BY <1>6 DEF EndShutdown, Handling, InFlight, Refused
  <2> QED
    BY <1>6, <2>1, StopOrder DEF EndShutdown, Stops, Running, bgVars, LifeInv, WorkInv, Stopped
<1>7. CASE CancelBackground \/ RunReturns
  <2>1. (Handling' <=> Handling) /\ (InFlight' <=> InFlight) /\ (Refused' <=> Refused)
    BY <1>7 DEF CancelBackground, RunReturns, workVars, Handling, InFlight, Refused
  <2> QED
    BY <1>7, <2>1, StopOrder DEF CancelBackground, RunReturns, Awaited, Stops, Running, bgVars,
       workVars, LifeInv, WorkInv, Stopped, ShutDown
\* The process ends otherwise, or a signal is noted.
<1>8. CASE ClientMissing \/ StartFails \/ Signal \/ ServeRuns \/ ListenRuns \/ ListenerFails
  <2>1. Same
    BY <1>8 DEF ClientMissing, StartFails, Signal, ServeRuns, ListenRuns, ListenerFails, Fatal,
                bgVars, workVars
  <2>2. Kept
    BY <1>8 DEF ClientMissing, StartFails, Signal, ServeRuns, ListenRuns, ListenerFails, Fatal, Running
  <2> QED
    BY <1>0, <2>1, <2>2
<1>9. CASE \E r \in Routines : RoutineReturns(r)
  <2>1. Same /\ Kept
    BY <1>9 DEF RoutineReturns, Running, workVars
  <2> QED
    BY <1>0, <2>1
\* An RPC needs an open server to arrive.
<1>10. ASSUME NEW r \in Rpcs, RpcArrives(r) PROVE WorkInv'
  <2>1. grpcServer = "open" /\ Running
    BY <1>10 DEF RpcArrives, Accepting, RpcStep
  <2>2. UNCHANGED <<options, pc, exit, cancelled, request, timedOut>>
    BY <1>10 DEF RpcArrives, RpcStep, bgVars
  <2>3. (InFlight' <=> InFlight) /\ (Refused' <=> Refused)
    BY <2>2 DEF InFlight, Refused
  <2> QED
    BY <2>1, <2>2, <2>3 DEF Running, LifeInv, ServersInv, WorkInv, ServerUp, GatewayUp, Stopped
<1>11. ASSUME NEW r \in Rpcs, RpcReturns(r) PROVE WorkInv'
  <2>1. Running /\ UNCHANGED <<options, pc, exit, cancelled, request, timedOut>>
    BY <1>11 DEF RpcReturns, RpcStep, bgVars
  <2>2. (InFlight' <=> InFlight) /\ (Refused' <=> Refused)
    BY <2>1 DEF InFlight, Refused
  <2>3. Handling' => Handling
    BY <1>11 DEF RpcReturns, RpcStep, Handling, TypeOK
  <2> QED
    BY <2>1, <2>2, <2>3 DEF Running, LifeInv, WorkInv
\* A request needs an open gateway to arrive, and a stopped server to be refused.
<1>12. ASSUME NEW q \in Requests, RequestArrives(q) PROVE WorkInv'
  <2>1. gateway = "open" /\ RequestStep(q, "idle", "handling")
    BY <1>12 DEF RequestArrives
  <2>2. (Handling' => Handling) /\ (Refused' => Refused)
    BY <2>1, RequestMoves DEF Handling, Refused
  <2> QED
    BY <2>1, <2>2, RequestMoves
       DEF Running, LifeInv, ServersInv, WorkInv, GatewayUp, Stopped, ShutDown
<1>13. ASSUME NEW q \in Requests, RequestProxied(q) PROVE WorkInv'
  <2>1. grpcServer = "open" /\ RequestStep(q, "handling", "proxied")
    BY <1>13 DEF RequestProxied, Accepting
  <2>2. InFlight /\ (Refused' => Refused)
    BY <2>1, RequestMoves DEF InFlight, Refused
  <2> QED
    BY <2>1, <2>2, RequestMoves
       DEF Running, LifeInv, ServersInv, WorkInv, ServerUp, GatewayUp, Stopped
<1>14. ASSUME NEW q \in Requests, RequestRefused(q) PROVE WorkInv'
  <2>1. grpcServer \in {"draining", "stopped"} /\ RequestStep(q, "handling", "refused")
    BY <1>14 DEF RequestRefused
  <2>2. InFlight /\ (Handling' => Handling)
    BY <2>1, RequestMoves DEF InFlight, Handling
  <2> QED
    BY <2>1, <2>2, RequestMoves DEF Running, LifeInv, ServersInv, WorkInv, Stopped, ShutDown
<1>15. ASSUME NEW q \in Requests, RequestAnswered(q) PROVE WorkInv'
  <2>1. RequestStep(q, "proxied", "done")
    BY <1>15 DEF RequestAnswered
  <2>2. (Handling' => Handling) /\ (InFlight' => InFlight) /\ (Refused' => Refused)
    BY <2>1, RequestMoves DEF Handling, InFlight, Refused
  <2> QED
    BY <2>1, <2>2, RequestMoves DEF Running, LifeInv, WorkInv
<1>16. CASE Exited \/ UNCHANGED vars
  <2>1. Same /\ Kept
    BY <1>16 DEF Exited, vars, bgVars, workVars
  <2> QED
    BY <1>0, <2>1
<1> HIDE DEF Same, Kept
<1> QED
  BY <1>2, <1>3, <1>4, <1>5, <1>6, <1>7, <1>8, <1>9, <1>10, <1>11, <1>12, <1>13, <1>14,
     <1>15, <1>16 DEF Next, MainStep

-----------------------------------------------------------------------------
IInv == TypeOK /\ RoutineInv /\ LifeInv

LEMMA Inductive == Spec => []IInv
<1>1. Init => IInv
  <2> SUFFICES ASSUME Init PROVE IInv
    OBVIOUS
  <2>1. RoutineInv
    <3>1. RunningRoutines = {}
      BY DEF Init, RunningRoutines
    <3> QED
      BY <3>1, FS_EmptySet DEF Init, RoutineInv
  <2>2. ServersInv
    BY DEF Init, ServersInv
  <2>3. WorkInv
    <3>1. ~Handling /\ ~InFlight /\ ~Refused
      BY DEF Init, Handling, InFlight, Refused
    <3> QED
      BY <3>1 DEF Init, WorkInv
  <2> QED
    BY <2>1, <2>2, <2>3, InitType DEF IInv, LifeInv
<1>2. IInv /\ [Next]_vars => IInv'
  BY StepType, RoutinesCounted, ServersStep, WorkStep DEF IInv, LifeInv
<1> QED
  BY <1>1, <1>2, PTL DEF Spec

\* The WaitGroup never goes negative, and every part of the process is in a state
\* of its life, whatever the number of routines (runBackgroundRoutines).
THEOREM TypeCorrect == Spec => []TypeOK
<1>1. IInv => TypeOK
  BY DEF IInv
<1> QED
  BY <1>1, Inductive, PTL

\* No RPC, called directly or through the gateway, is ever in flight once the
\* background context is cancelled (Run, app.go:414-416).
THEOREM BackgroundStopsLast == Spec => []BackgroundOutlivesRpcs
<1>1. IInv => BackgroundOutlivesRpcs
  BY DEF IInv, LifeInv, WorkInv, Stopped, BackgroundOutlivesRpcs
<1> QED
  BY <1>1, Inductive, PTL

\* When Run has returned, no RPC and no background routine is left, and a gateway
\* request only if Shutdown gave up waiting for it (Run, stopGrpcServer).
THEOREM ShutdownIsGraceful == Spec => []NothingCutOff
<1>1. IInv => NothingCutOff
  <2> SUFFICES ASSUME IInv, exit = "status 0"
               PROVE  /\ ~Handling
                      /\ \A r \in Routines : routine[r] # "running"
                      /\ InFlight => timedOut
    BY DEF NothingCutOff
  <2>1. pc = "waitGroup" /\ wg = 0
    BY DEF IInv, LifeInv, WorkInv
  <2>2. ~Handling /\ (InFlight => timedOut)
    BY <2>1 DEF IInv, LifeInv, WorkInv, Stopped, ShutDown
  <2>3. RunningRoutines = {}
    <3>1. IsFiniteSet(RunningRoutines)
      <4>1. RunningRoutines \subseteq Routines
        BY DEF RunningRoutines
      <4> QED
        BY <4>1, FS_Subset, LifecycleAssumption DEF LifecycleAssumption
    <3> QED
      BY <2>1, <3>1, FS_EmptySet DEF IInv, RoutineInv
  <2> QED
    BY <2>2, <2>3 DEF RunningRoutines
<1> QED
  BY <1>1, Inductive, PTL

\* The gRPC server is stopped behind a gateway that no longer waits: it refuses a
\* request the gateway took on only after Shutdown timed out (stopGrpcServer).
THEOREM GatewayStopsFirst == Spec => []RefusedOnlyAfterTimeout
<1>1. IInv => RefusedOnlyAfterTimeout
  BY DEF IInv, LifeInv, WorkInv, Refused, RefusedOnlyAfterTimeout
<1> QED
  BY <1>1, Inductive, PTL
=============================================================================
