------------------------------ MODULE Lifecycle ------------------------------
(***************************************************************************)
(* main(), the signal handler and HttpAdapter's start() and stop(), over    *)
(* the HTTP library (external: a listener, its threads, and a stop() that   *)
(* works only while it listens) and spdlog (external: a mutex that is not   *)
(* recursive).                                                              *)
(*                                                                          *)
(* The first signal runs the handler on one of the process's threads, which *)
(* is suspended meanwhile; a later one finds g_shutdown_requested set and   *)
(* does nothing.  InferencePool is reduced to whether it is open and its    *)
(* worker alive; SpeechHandler has the rest.  The worker runs synthesize()  *)
(* of VoxtralBackend, which main() owns and destroys last.                  *)
(***************************************************************************)
EXTENDS VoxtralBackend

CONSTANTS
  HttpPool,   \* the HTTP library's threads
  Main,       \* the main thread
  Worker,     \* the pool's worker thread
  Nobody      \* no thread

ASSUME LifecycleAssumption ==
  /\ Main \notin HttpPool /\ Worker \notin HttpPool /\ Main # Worker
  /\ Nobody \notin HttpPool \cup {Main, Worker}

VARIABLES
  mpc,          \* where main() is
  installed,    \* sigaction has been called
  requested,    \* g_shutdown_requested
  gAdapter,     \* g_adapter is not null
  adapterAlive, \* the HttpAdapter object exists
  running,      \* HttpAdapter::running_
  libRunning,   \* the HTTP library is listening
  libStop,      \* and has been told to stop
  http,         \* what each HTTP thread does
  worker,       \* what the pool's worker thread does
  poolOpen,     \* the pool accepts jobs
  logger,       \* the thread that holds spdlog's mutex
  handlerOn,    \* the thread the signal handler runs on
  handler       \* where the signal handler is

lifeVars == <<mpc, installed, requested, gAdapter, adapterAlive, running, libRunning,
              libStop, http, worker, poolOpen, logger, handlerOn, handler, ready, engine,
              ctx, spc, buffer, got, wav>>

serverVars == <<gAdapter, adapterAlive, running, libRunning, libStop, http, worker,
                poolOpen>>
signalVars == <<installed, requested, handlerOn, handler>>

(* The places of main() at which it calls spdlog before it goes on. *)
LogPoints == {"announce", "starting", "unbound", "stopping", "closing", "closed",
              "stopped"}

Ended == {"exited", "failed", "killed"}

LifeInit ==
  /\ BackendInit
  /\ mpc = "create"
  /\ installed = FALSE
  /\ requested = FALSE
  /\ gAdapter = FALSE
  /\ adapterAlive = FALSE
  /\ running = FALSE
  /\ libRunning = FALSE
  /\ libStop = FALSE
  /\ http = [h \in HttpPool |-> "absent"]
  /\ worker = "absent"
  /\ poolOpen = FALSE
  /\ logger = Nobody
  /\ handlerOn = Nobody
  /\ handler = "none"

-----------------------------------------------------------------------------
(***************************************************************************)
(* main()                                                                  *)
(***************************************************************************)
MainAt(p) == mpc = p /\ handlerOn # Main /\ ~Crashed

(* Backend and server are created and initialized, or main() returns 1. *)
Initialize ==
  /\ MainAt("create")
  /\ mpc' = "install"
  /\ BackendInitialize
  /\ worker' = "idle"
  /\ poolOpen' = TRUE
  /\ UNCHANGED <<gAdapter, adapterAlive, running, libRunning, libStop, http, logger,
                 signalVars>>

InitializeFails ==
  /\ MainAt("create")
  /\ mpc' = "failed"
  /\ UNCHANGED <<serverVars, logger, signalVars, backendVars>>

InstallHandlers ==
  /\ MainAt("install")
  /\ mpc' = "construct"
  /\ installed' = TRUE
  /\ UNCHANGED <<serverVars, logger, requested, handlerOn, handler, backendVars>>

ConstructAdapter ==
  /\ MainAt("construct")
  /\ mpc' = "publish"
  /\ adapterAlive' = TRUE
  /\ UNCHANGED <<gAdapter, running, libRunning, libStop, http, worker, poolOpen, logger,
                 signalVars, backendVars>>

PublishAdapter ==
  /\ MainAt("publish")
  /\ mpc' = "announce"
  /\ gAdapter' = TRUE
  /\ UNCHANGED <<adapterAlive, running, libRunning, libStop, http, worker, poolOpen,
                 logger, signalVars, backendVars>>

MainLock ==
  /\ mpc \in LogPoints /\ handlerOn # Main
  /\ logger = Nobody
  /\ logger' = Main
  /\ UNCHANGED <<mpc, serverVars, signalVars, backendVars>>

(* The message is written: main() releases spdlog's mutex and goes on. *)
Logged(p) == MainAt(p) /\ logger = Main /\ logger' = Nobody

StartAdapter ==
  /\ Logged("announce")
  /\ mpc' = "starting"
  /\ running' = TRUE
  /\ UNCHANGED <<gAdapter, adapterAlive, libRunning, libStop, http, worker, poolOpen,
                 signalVars, backendVars>>

CallListen ==
  /\ Logged("starting")
  /\ mpc' = "listen"
  /\ UNCHANGED <<serverVars, signalVars, backendVars>>

(* The HTTP library binds and starts its threads, or listen() returns false. *)
ListenBinds ==
  /\ MainAt("listen")
  /\ mpc' = "accepting"
  /\ libRunning' = TRUE
  /\ http' = [h \in HttpPool |-> "idle"]
  /\ UNCHANGED <<gAdapter, adapterAlive, running, libStop, worker, poolOpen, logger,
                 signalVars, backendVars>>

ListenFails ==
  /\ MainAt("listen")
  /\ mpc' = "refused"
  /\ UNCHANGED <<serverVars, logger, signalVars, backendVars>>

(* Told to stop, listen() joins the threads, which finish what they serve. *)
ListenReturns ==
  /\ MainAt("accepting")
  /\ libStop
  /\ \A h \in HttpPool : http[h] = "idle" /\ handlerOn # h
  /\ mpc' = "returned"
  /\ libRunning' = FALSE
  /\ http' = [h \in HttpPool |-> "absent"]
  /\ UNCHANGED <<gAdapter, adapterAlive, running, libStop, worker, poolOpen, logger,
                 signalVars, backendVars>>

(* Variant: the flag stays set when listen() has returned. *)
LeaveStartRunning ==
  /\ \/ MainAt("returned") /\ mpc' = "unpublish"
     \/ MainAt("refused") /\ mpc' = "unbound"
  /\ UNCHANGED <<serverVars, logger, signalVars, backendVars>>

LeaveStart ==
  /\ \/ MainAt("returned") /\ mpc' = "unpublish"
     \/ MainAt("refused") /\ mpc' = "unbound"
  /\ running' = FALSE
  /\ UNCHANGED <<gAdapter, adapterAlive, libRunning, libStop, http, worker, poolOpen,
                 logger, signalVars, backendVars>>

(* start() reports that it could not bind. *)
BindFailed ==
  /\ Logged("unbound")
  /\ mpc' = "unpublish"
  /\ UNCHANGED <<serverVars, signalVars, backendVars>>

UnpublishAdapter ==
  /\ MainAt("unpublish")
  /\ mpc' = "stopping"
  /\ gAdapter' = FALSE
  /\ UNCHANGED <<adapterAlive, running, libRunning, libStop, http, worker, poolOpen,
                 logger, signalVars, backendVars>>

EnterShutdown ==
  /\ Logged("stopping")
  /\ mpc' = "closing"
  /\ UNCHANGED <<serverVars, signalVars, backendVars>>

(* Variant: accepting_ is left as it is. *)
ClosePoolNot ==
  /\ Logged("closing")
  /\ mpc' = "join"
  /\ UNCHANGED <<serverVars, signalVars, backendVars>>

ClosePool ==
  /\ Logged("closing")
  /\ mpc' = "join"
  /\ poolOpen' = FALSE
  /\ UNCHANGED <<gAdapter, adapterAlive, running, libRunning, libStop, http, worker,
                 signalVars, backendVars>>

(* Variant: the worker is detached, not joined. *)
DetachWorker ==
  /\ MainAt("join")
  /\ mpc' = "closed"
  /\ UNCHANGED <<serverVars, logger, signalVars, backendVars>>

JoinWorker ==
  /\ MainAt("join")
  /\ worker = "exited"
  /\ mpc' = "closed"
  /\ worker' = "absent"
  /\ UNCHANGED <<gAdapter, adapterAlive, running, libRunning, libStop, http, poolOpen,
                 logger, signalVars, backendVars>>

LeaveShutdown ==
  /\ Logged("closed")
  /\ mpc' = "stopped"
  /\ UNCHANGED <<serverVars, signalVars, backendVars>>

(* main() returns: the adapter is destroyed, then the server, with the pool *)
(* and its reference to the backend, and last the backend.                  *)
DestroyAdapter ==
  /\ Logged("stopped")
  /\ mpc' = "unwind"
  /\ adapterAlive' = FALSE
  /\ UNCHANGED <<gAdapter, running, libRunning, libStop, http, worker, poolOpen,
                 signalVars, backendVars>>

DestroyBackend ==
  /\ MainAt("unwind")
  /\ mpc' = "exited"
  /\ BackendDestroy
  /\ UNCHANGED <<serverVars, logger, signalVars>>

MainStep ==
  \/ Initialize \/ InitializeFails \/ InstallHandlers \/ ConstructAdapter
  \/ PublishAdapter \/ MainLock \/ StartAdapter \/ CallListen \/ ListenBinds
  \/ ListenFails \/ ListenReturns \/ LeaveStart \/ BindFailed \/ UnpublishAdapter
  \/ EnterShutdown \/ ClosePool \/ JoinWorker \/ LeaveShutdown \/ DestroyAdapter
  \/ DestroyBackend

-----------------------------------------------------------------------------
(* An HTTP thread serves a request and logs. *)
Serve(h) ==
  /\ mpc = "accepting" /\ ~libStop /\ ~Crashed
  /\ handlerOn # h
  /\ http[h] = "idle"
  /\ http' = [http EXCEPT ![h] = "busy"]
  /\ UNCHANGED <<mpc, gAdapter, adapterAlive, running, libRunning, libStop, worker,
                 poolOpen, logger, signalVars, backendVars>>

ServeLock(h) ==
  /\ http[h] = "busy" /\ handlerOn # h /\ ~Crashed
  /\ logger = Nobody
  /\ logger' = h
  /\ UNCHANGED <<mpc, serverVars, signalVars, backendVars>>

Served(h) ==
  /\ http[h] = "busy" /\ handlerOn # h /\ ~Crashed
  /\ logger = h
  /\ logger' = Nobody
  /\ http' = [http EXCEPT ![h] = "idle"]
  /\ UNCHANGED <<mpc, gAdapter, adapterAlive, running, libRunning, libStop, worker,
                 poolOpen, signalVars, backendVars>>

(* The worker takes a job and calls the backend, which may log its end, as  *)
(* the worker does if it threw.                                             *)
WorkerBegins ==
  /\ worker = "idle" /\ poolOpen
  /\ handlerOn # Worker
  /\ \E h \in HttpPool : http[h] = "busy"
  /\ worker' = "busy"
  /\ CallSynthesize
  /\ UNCHANGED <<mpc, gAdapter, adapterAlive, running, libRunning, libStop, http,
                 poolOpen, logger, signalVars>>

WorkerSynthesizes ==
  /\ handlerOn # Worker
  /\ Synthesize
  /\ UNCHANGED <<mpc, serverVars, logger, signalVars>>

WorkerLogs ==
  /\ worker = "busy" /\ SynthesizeEnded
  /\ handlerOn # Worker
  /\ logger = Nobody
  /\ logger' = Worker
  /\ worker' = "logging"
  /\ UNCHANGED <<mpc, gAdapter, adapterAlive, running, libRunning, libStop, http,
                 poolOpen, signalVars, backendVars>>

WorkerEnds ==
  /\ handlerOn # Worker
  /\ \/ worker = "busy" /\ spc = "returned" /\ UNCHANGED logger
     \/ worker = "logging" /\ logger' = Nobody
  /\ worker' = "idle"
  /\ SynthesizeOver
  /\ UNCHANGED <<mpc, gAdapter, adapterAlive, running, libRunning, libStop, http,
                 poolOpen, signalVars>>

(* Nothing is queued once the listener has returned: a closed pool's worker *)
(* leaves its loop.                                                         *)
WorkerLeaves ==
  /\ worker = "idle" /\ ~poolOpen
  /\ handlerOn # Worker
  /\ worker' = "exited"
  /\ UNCHANGED <<mpc, gAdapter, adapterAlive, running, libRunning, libStop, http,
                 poolOpen, logger, signalVars, backendVars>>

WorkerOn == WorkerSynthesizes \/ WorkerLogs \/ WorkerEnds \/ WorkerLeaves

-----------------------------------------------------------------------------
(***************************************************************************)
(* SIGTERM or SIGINT                                                       *)
(***************************************************************************)
LiveThreads ==
  {Main} \cup {h \in HttpPool : http[h] # "absent"}
         \cup (IF worker \in {"idle", "busy", "logging"} THEN {Worker} ELSE {})

(* Before sigaction the default action ends the process. *)
SignalKills ==
  /\ ~installed
  /\ mpc \notin Ended
  /\ mpc' = "killed"
  /\ UNCHANGED <<serverVars, logger, signalVars, backendVars>>

SignalArrives ==
  /\ installed /\ ~requested /\ ~Crashed
  /\ mpc \notin Ended
  /\ requested' = TRUE
  /\ handlerOn' \in LiveThreads
  /\ handler' = "adapter"
  /\ UNCHANGED <<mpc, serverVars, logger, installed, backendVars>>

HandlerReturns == handler' = "none" /\ handlerOn' = Nobody

(* if (g_adapter) *)
HandlerReadsAdapter ==
  /\ handler = "adapter" /\ ~Crashed
  /\ IF gAdapter THEN handler' = "running" /\ UNCHANGED handlerOn ELSE HandlerReturns
  /\ UNCHANGED <<mpc, serverVars, logger, installed, requested, backendVars>>

(* HttpAdapter::stop: if (server_ && running_) *)
HandlerReadsRunning ==
  /\ handler = "running" /\ ~Crashed
  /\ IF running THEN handler' = "log" /\ UNCHANGED handlerOn ELSE HandlerReturns
  /\ UNCHANGED <<mpc, serverVars, logger, installed, requested, backendVars>>

HandlerLogs ==
  /\ handler = "log" /\ ~Crashed
  /\ logger = Nobody
  /\ handler' = "stop"
  /\ UNCHANGED <<mpc, serverVars, logger, installed, requested, handlerOn, backendVars>>

(* Variant: server_->stop() is forgotten. *)
HandlerOnlyReturns ==
  /\ handler = "stop" /\ ~Crashed
  /\ HandlerReturns
  /\ UNCHANGED <<mpc, serverVars, logger, installed, requested, backendVars>>

(* Variant: stop() also shuts the pool down, while requests are served. *)
HandlerStopsPool ==
  /\ handler = "stop" /\ ~Crashed
  /\ libStop' = (libStop \/ libRunning)
  /\ poolOpen' = FALSE
  /\ HandlerReturns
  /\ UNCHANGED <<mpc, gAdapter, adapterAlive, running, libRunning, http, worker, logger,
                 installed, requested, backendVars>>

(* The library's stop() does nothing unless it listens. *)
HandlerStops ==
  /\ handler = "stop" /\ ~Crashed
  /\ libStop' = (libStop \/ libRunning)
  /\ HandlerReturns
  /\ UNCHANGED <<mpc, gAdapter, adapterAlive, running, libRunning, http, worker, poolOpen,
                 logger, installed, requested, backendVars>>

HandlerStep ==
  \/ HandlerReadsAdapter \/ HandlerReadsRunning \/ HandlerLogs \/ HandlerStops

LifeNext ==
  \/ MainStep
  \/ \E h \in HttpPool : Serve(h) \/ ServeLock(h) \/ Served(h)
  \/ WorkerBegins \/ WorkerOn
  \/ SignalKills \/ SignalArrives \/ HandlerStep

(* Threads run, the engine returns, and spdlog's mutex starves no thread;   *)
(* requests and signals need not come.                                      *)
LifeFairness ==
  /\ SF_lifeVars(MainStep)
  /\ \A h \in HttpPool : SF_lifeVars(ServeLock(h) \/ Served(h))
  /\ SF_lifeVars(WorkerOn)
  /\ SF_lifeVars(HandlerStep)

LifeSpec == LifeInit /\ [][LifeNext]_lifeVars /\ LifeFairness

-----------------------------------------------------------------------------
Places ==
  LogPoints \cup Ended \cup {"create", "install", "construct", "publish", "listen",
    "accepting", "returned", "refused", "unpublish", "join", "unwind"}

FlagTypesOK ==
  /\ installed \in BOOLEAN /\ requested \in BOOLEAN
  /\ gAdapter \in BOOLEAN /\ adapterAlive \in BOOLEAN
  /\ running \in BOOLEAN /\ libRunning \in BOOLEAN /\ libStop \in BOOLEAN
  /\ poolOpen \in BOOLEAN

ThreadTypesOK ==
  /\ mpc \in Places
  /\ http \in [HttpPool -> {"absent", "idle", "busy"}]
  /\ worker \in {"absent", "idle", "busy", "logging", "exited"}
  /\ logger \in HttpPool \cup {Main, Worker, Nobody}
  /\ handlerOn \in HttpPool \cup {Main, Worker, Nobody}
  /\ handler \in {"none", "adapter", "running", "log", "stop"}

ProcessTypeOK == FlagTypesOK /\ ThreadTypesOK

RunningInStart == running => mpc \in {"starting", "listen", "accepting", "returned", "refused"}

(* The values the variables range over, and running_ is set only while      *)
(* start() runs.                                                            *)
LifeTypeOK == ProcessTypeOK /\ BackendTypeOK /\ RunningInStart

(* The signal handler never uses a destroyed HttpAdapter, on whichever      *)
(* thread it runs: between its test of g_adapter and the end of stop() main *)
(* cannot get as far as the destructor, because it joins every thread the   *)
(* handler may be running on first.                                         *)
HandlerAdapterAlive == handler \in {"running", "log", "stop"} => adapterAlive

(* The pool outlives the HTTP threads: it is open while any request is      *)
(* being served.                                                            *)
PoolOutlivesHttp == (\E h \in HttpPool : http[h] = "busy") => poolOpen

(* A listener that has been told to stop leads to a clean exit: requests    *)
(* finish, threads are joined, the pool is drained, main() returns, unless  *)
(* a WAV file too large for its vector ends the process first.              *)
StopLeadsToExit == libStop ~> mpc = "exited" \/ Crashed

(* A signal that finds the listener up and running_ set, on a thread that   *)
(* is not inside spdlog, is not lost.                                       *)
SignalHeard ==
  (handler = "running" /\ running /\ libRunning /\ logger # handlerOn) ~> libStop \/ Crashed

(* What main.cpp says of the handlers it installs, "graceful shutdown on    *)
(* SIGTERM / SIGINT", and http_adapter.hpp of stop(), "safe to call from    *)
(* signal handlers": a signal taken by the handler ends the process.        *)
SignalStops == requested ~> mpc \in Ended \/ Crashed

=============================================================================
