# Verification of voxtral-server

TLA+ models of voxtral-server, an OpenAI-compatible text-to-speech server: HTTP
threads that submit jobs to a pool with one worker thread, rate limiters in front of
them, and a process that starts from a configuration and stops on a signal. TLC checks
the models on small instances; TLAPS proves every safety property of the models, and
that the pool implements its abstract specification, for every instance.

## 1. The system

| Part | State it keeps | Operations | Talks to |
|---|---|---|---|
| `InferencePool` (`src/tts/inference_pool.cpp`) | `queue_`, `accepting_`, `active_`, `expired_`, `mutex_`, `cv_`, the worker thread | `submit`, `worker_loop`, `shutdown`, destructor, monitors | called by HTTP threads and `main()`; calls the backend and the callbacks of a job |
| `handle_speech` (`src/server/request_handler.cpp`) | a frame per request (`result_mutex`, `result_cv`, `result_ready`, results), gauges and counters | one long handler | pool, metrics; the worker runs its callbacks |
| rate limiters (`include/tts/auth.hpp`) | a map from client address to count and window start, a mutex each | `check_and_record_failure`, `is_blocked`, `evict_to_cap`, `check_request` | called by the middleware from several threads |
| middleware (`src/server/http_adapter.cpp`, `auth.cpp`) | none of its own | `run_middleware`: client address, then three checks in a row | both limiters |
| routes (`src/server/http_adapter.cpp`) | a thread-local request id (`logger.cpp`) | one lambda per route, the 404 handler | middleware, handlers, logger; run by the HTTP library's threads |
| validation (`src/server/validation.cpp`, `voices.cpp`) | a constant voice table | eight checks in a fixed order | called by `handle_speech` |
| `VoxtralBackend` (`src/tts/voxtral_backend.cpp`) | `ctx_`, `use_real_engine_`, a buffer per call | `initialize`, `synthesize`, WAV encoding, destructor | the C engine (external); run by the worker, owned by `main()` |
| process (`src/main.cpp`, `HttpAdapter::start/stop`, `TtsServer`) | `g_adapter`, `g_shutdown_requested`, `running_`, object lifetimes | start up, listen, signal, stop, destroy | everything |
| configuration (`src/config/config.cpp`) | a `ServerConfig` | defaults, TOML, environment, `validate` | its bounds are what pool and limiters rely on |
| metrics, logging | see `PROJECT.json` | | |

What is hard here:

* **Two condition variables.** The worker sleeps on `cv_`, each handler on its own
  `result_cv`. Wakeups can be lost; the answer may come before the wait.
* **Callbacks into a stack frame.** `on_success` and `on_error` capture the handler's
  locals by reference. The worker must be out of the callback before the handler returns.
* **Stop.** `main()` waits for `listen()`, which waits for handlers, which wait for the
  worker, which `shutdown()` then joins. A signal may come at any moment on any thread.
* **Check, then act.** `is_accepting()` before `submit()`, `is_blocked` before the
  recording of a failure, `queue_depth()` before `Set`.
* **Time.** Two deadline checks, fixed windows, whole seconds and exact durations.
* **Exceptions across a route.** A JSON field of the wrong type throws out of
  `handle_speech` and out of the route: everything after it, the reset of the
  thread-local request id included, is skipped.
* **C memory under C++ exceptions.** `tts_generate` hands out a buffer on some of its
  ways to fail; `tts_free` must not meet a running `tts_generate`.
* **What a client claims.** `X-Forwarded-For` mixes the client's own words with those of
  the proxies, and only the hop count tells them apart.

Section 3 says for each part which properties make it correct; `hazards` in
`PROJECT.json` lists each difficulty at its line with the properties that cover it.

## 2. Modules

| Module | Models | Notes |
|---|---|---|
| `SynthesisQueue` | what the pool promises | abstract: no threads, no locks, no time |
| `InferencePool` | the pool | each critical section one step, `cv_.wait` split in three |
| `Validation` | the checks of a request and their order | operators over a request |
| `SpeechHandler` | `handle_speech` composed with the pool and with the stop of the server | extends `InferencePool` and `Validation`; its steps are the pool's plus the handler's |
| `RateLimiters` | the two limiters | operators over their maps |
| `ClientAuth` | `extract_client_ip`, `check_bearer_auth`, `constant_time_equals` | operators over headers |
| `Middleware` | `run_middleware` on several threads, behind a chain of proxies | extends `RateLimiters` and `ClientAuth` |
| `HttpAdapter` | the routes with their request ids | extends `Middleware` and `Validation` |
| `VoxtralBackend` | the engine's life, `synthesize()`, the WAV encoding | actions run by `Lifecycle`'s worker and `main()` |
| `Lifecycle` | `main()`, signal handler, `HttpAdapter::start/stop` | extends `VoxtralBackend`; the HTTP library and spdlog are external |
| `Startup` | configuration and initialization | |
| `MC...` | instances for TLC | symmetry sets, small constants |
| `...Proofs` | theorems about the module they are named after | `PoolPromiseProofs` is the refinement of `SynthesisQueue` by `InferencePool` |

A definition named after a "Variant" comment is a deliberately wrong form of the
definition that follows it. No specification uses it; substituting it shows that a
property notices that mistake (`mutants` in `PROJECT.json`).

### State and actions against the code

*InferencePool.* `queue`, `accepting`, `active`, `expired` and `joinable` are the members;
`wpc`, `wjob` and `verdict` are the worker's position, its local `job` and the callback
it is about to run; `jpc` and `deadline` belong to each call of `submit()`; `opc` and
`stops` to the owner, who calls `shutdown()` and later the destructor, which calls it
again. `mutex` is explicit only where it is held over two steps: the worker evaluates
the predicate (`WorkerCheck`), then blocks (`WorkerSleep`), and everyone else's critical
section is guarded by `~mutex`. `asked`, `called`, `calls`, `outcome`, `enqueued` and
`answered` are history: they record what the properties talk about and guard nothing.
A callback that throws has been invoked all the same; it is logged and dropped.

*SpeechHandler.* A request is the job it submits. `hpc` walks through `handle_speech`
line by line; the wait is split like the worker's. The callbacks are four steps: lock,
store, notify, unlock. Each gauge update is a read of `queue_depth()` and a `Set`.
The outcome of the validation is the verdict of `Validation` on one of the `Bodies` that
may come: pass, 400, 413, or an exception (a field of the wrong type: only
`json::parse_error` is caught). `WaitForListener` selects between
`main()`'s order and a pool that is shut down while handlers run, which the interface of
`TtsServer` allows and the tests of `handle_speech` do. Counters and histograms that
nothing reads are left out.

*RateLimiters and Middleware.* Time is in ticks, `TicksPerSecond` to the second, because
one limiter compares exact durations and the other whole seconds. `EvictToCap` returns a
set of results: among entries of the same age the hash order decides. A request starts at
a client and passes `Proxies` from some entry point on; each proxy appends the address it
was called from. A caller may write anything into `X-Forwarded-For` first, wherever it
enters the chain. `Begin` computes the address and the verdict on the key from the headers
that result; both depend on nothing else, so that computing them early changes nothing.

*ClientAuth.* `X-Forwarded-For` is a sequence of entries, each of them blanks around at
most one address; `Authorization` a sequence of characters with `"Bearer "` as one. The
sizes of token and key are compared modulo `ByteValues`, as the accumulator's `uint8_t`
does; neither is assumed to be shorter than that.

*Validation.* A request is a record of its media type, size, what the parser makes of it,
and five fields, each possibly `Absent` or of the `WrongType`. `ValueThrows` and `ValueOf` are
`parsed.value(field, default)`: it throws on a wrong type and on JSON that is no object.
The input is a sequence of bytes, of which `Continuation` goes on with the character before
it: the code counts the former, the API's documents the latter. Speed counts quarters.

*HttpAdapter.* `serving[t]` is the request a thread serves: its route and place, its id,
the ids its log lines carried, its response. `tid` is `t_request_id`. The stretch of a
route between two uses of shared state is one step. `run_middleware`'s early return for
internal endpoints is never taken from a registered route and is left out. The library
refuses bodies above 1 MB itself (413, no id); the same check in `handle_speech` is left
for direct callers. What the pool answers is a choice here, settled in `SpeechHandler`.

*VoxtralBackend.* `ctx` is none, live or freed; `spc` the place in `synthesize()`;
`buffer` what became of the samples. The samples of one buffer are all alike, so that a
file is its header, its size, the bytes of one sample and where the last one ends. `Word`
is the number of values of `uint32_t`. Any count an `int` can have may come; where a
`uint32_t` cannot count the file's bytes, the samples end beyond the vector and `Encode` may
end the process (`Crashed`): every other thread stops with it.

*Lifecycle.* `mpc` is the place in `main()`; `logger` is the thread inside spdlog's
mutex; `handlerOn` is the thread the signal handler interrupted, which stands still
until the handler returns. The library's `stop()` works only while it listens. Further
signals find `g_shutdown_requested` set and are not modelled. `SignalKills` is the
default action before `sigaction`. The worker runs `synthesize()` step by step; an HTTP
thread may finish before it does, which the real handlers never do, so that the order of
destruction does not lean on them. `main()` destroys the adapter, the server, the backend.

*Startup.* Each setting has a value in the file and in the environment, possibly absent or
unusable. `Int` is as wide as `IntMax` says. Strings are reduced to whether `validate()`
accepts them.

## 3. Runs

| Run | Instance | Checks |
|---|---|---|
| `pool_safety` | 3 jobs, depth 2, default and explicit deadlines, 4 ticks | type; no lost wakeup; at most one answer and none for a refused job; FIFO without loss; drained when joined; no early timeout; monitors agree with what happened |
| `pool_progress` | 2 jobs, depth 1, fair | every `submit()` answered or refused; `shutdown()` returns; refinement of `SynthesisQueue` |
| `speech_safety` | 2 requests, 2 threads, depth 1, pool may close any time | callbacks never enter a dead frame; results not lost; status matches the answer; gauge returns to zero; jobs and handlers on their way to `submit()` fit the busy threads |
| `speech_stop` | 2 requests, fair, `main()`'s order | nobody turned away; every request served; the stop completes |
| `middleware` | 2 clients, 2 threads, 5 requests, half-second ticks | failures overshoot by at most the number of threads; nobody blocked without cause; `Retry-After` honest; fewer than two windows' worth per minute; auth map within its cap |
| `routes` | 2 threads, a client that comes through 2 proxies or round them, 6 kinds of `Authorization`, 3 of `X-Forwarded-For`, 26 bodies, 2 requests with an id | the limiters charge the client behind the proxies, and whom they charge otherwise; logs and response carry the request's own id even after an exception; who gets past the key; only well-formed requests are spoken and only others turned away, the text of too many bytes excepted |
| `lifecycle` | 2 HTTP threads, a six-bit `uint32_t`, 8 samples, 5 counts, fair | handler never uses a destroyed adapter; pool outlives HTTP threads; engine outlives the worker's use; samples freed once; WAV file fits its header and decodes; a stop leads to exit; a signal that finds the listener up outside spdlog is heard |
| `startup` | one bounded and one counted integer, two strings, one flag, every file and environment | which source wins; the key comes from the environment; what `validate()` takes the pool's constructor takes |

Bounds. The clocks (`MaxTime`, `MaxClock`), the jobs and `MaxRequests` are the only bounds.
Three jobs on a queue of two show every relation of a job to the one before and the one
behind it, and a full queue with the worker busy; two jobs are the least that compete.
In `pool_safety`, `pool_progress` and `speech_safety` `MaxTime` reaches the longest
deadline, so that a job can expire at every point. In `speech_stop` the clock stands still
(with one tick more the graph is too large for its temporal properties): jobs end there with
a result or with an exception of the backend. `pool_progress` shows that a job which expires
is answered as well. The
limiters' clock passes both windows; five requests fill a window, overflow the map and
fill a window again. In `routes` a thread can serve a request that throws and then another,
and two requests of one client meet a limit of one; the bodies fail every check alone, at
and beyond each bound, and two at once. There `ByteValues` is 4, so that a token whose size
has the low byte of the key's is short enough to list; the claims in `X-Forwarded-For` are
fewer than, and as many as, the proxies a caller can get round, with a blank entry and without.
In `lifecycle` one count is the largest whose file a `uint32_t` can measure, and one is the
next (in the code 2^31 - 23 and 2^31 - 22). Symmetry is used for jobs, clients and threads in safety runs only.
`CHECK_DEADLOCK FALSE` is set throughout: a stopped server, a served set of requests and a
started process have nothing left to do; that nobody waits for ever is what the liveness
properties say.

Fairness. A thread that can move does (weak fairness), and a mutex that is released again
and again is not denied to one thread for ever (strong fairness, which matters only while
others keep taking it). The worker's fairness includes that `synthesize()` returns: the code
has no way to interrupt it. Clients need not send, nobody need call `shutdown()`, and no
signal need come.

### Where the code and its documentation disagree

Four runs state what a document or a comment says and TLC refutes it (`findings`):

* `depth_gauge`: `opentts_queue_depth` ("Jobs waiting in queue") can stay at 1 on an idle
  server, because a handler's reading is written after a later handler's.
* `sliding_window`: the "sliding window" of the request limiter is a fixed window; more than
  `max_rpm` requests pass in a minute that straddles its end (never twice as many:
  `TwoWindowBound`).
* `key_equality`: `constant_time_equals` ("Returns true if both strings are equal") compares
  sizes by their low byte. The `routes` run shows what holds (`OnlyKeyHolders`): no place
  that both strings have may differ, and sizes less than 256 apart must be the same.
* `signal_stops`: `HttpAdapter::stop()`, called by the signal handler, logs; on a thread
  that is inside spdlog it waits for itself. The `lifecycle` run shows the complement:
  outside that case, and once the listener is up, a signal is heard.

Met while modelling, without a run of their own:

* `validate_input` compares bytes (`validation.cpp:81`) where its error text
  (`validation.cpp:84`), `validation.hpp:49`, `SECURITY.md:40,58` and `README.md:179` speak of
  characters: a text within the limit is answered 400 if enough of its characters take more
  than one byte. `OnlyValidSpoken` counts characters and names this as its one exception.
* A field of the wrong type is answered 500 by the library and missing from
  `requests_total` ("Total requests by HTTP status code", `metrics.cpp:35`), where
  `ARCHITECTURE.md:165-166` promises strict type checks. `OnlyValidSpoken` says that nothing else
  makes the route throw.
* The request limiter removes only expired entries when its map is beyond `max_tracked_ips`,
  so that it is not held to it ("Enforce capacity cap", `auth.hpp:202`; `SECURITY.md:60`).
* `README.md:180,183-185` documents four environment variables that `config.cpp` never reads:
  `TTS_REQUEST_TIMEOUT_SECONDS` (the code reads `TTS_REQUEST_TIMEOUT`, line 65),
  `TTS_RATE_LIMIT_MAX` (`TTS_AUTH_RATE_LIMIT_MAX`, 70), `TTS_RATE_LIMIT_WINDOW`
  (`TTS_AUTH_RATE_LIMIT_WINDOW`, 71) and `TTS_REQUEST_RATE_LIMIT_RPM` (`TTS_RATE_LIMIT_RPM`,
  72). `Startup` knows settings, not names, and cannot tell.
* `trust_proxy` presumes that nobody reaches the server round the proxies: such a caller is
  charged as an address it names, if it names enough of them (`ClientIdentified`).
* A WAV file whose bytes a `uint32_t` cannot count is written beyond its vector.
* Without memory for the WAV file the samples are not freed (`SamplesReleased` names the case).
* `/metrics` counts as "Currently processing jobs" the handlers that wait as well; the auth
  limiter's `Retry-After` is "60" whatever `auth_rate_limit_window` says; `synthesize()`
  ignores speed and format; an exception in a route leaves its id on the thread until the next
  request (harmless: `OneIdPerRequest`); a second header line of the same name replaces the
  first in `adapt_request`; any value of a boolean variable other than `true` and `1` switches
  it off; `workers`, `max_connections` and `default_voice` are read and not used.

## 4. Proofs

Every invariant the passing runs check is also a theorem, for all values of the constants
that the named assumptions admit. Each proof module has one inductive invariant, a
conjunction of named parts; TLC checked each of them on the run's instance before it was
proved. A part has a lemma for the initial state and one for a step, with a case per action.

### The pool: `InferencePoolProofs`, `PoolPromiseProofs`

For every set of jobs (finite or not), depth, timeout and set of explicit deadlines, from
`PoolAssumption` alone (the constructor's checks):

| Theorem | Property | Rests on |
|---|---|---|
| `TypeCorrect` | `TypeOK` | `WorkerInv` |
| `NoWakeupIsLost` | `NoLostWakeup` | `WorkerInv`, `SyncInv` |
| `NoSecondAnswer` | `AtMostOneAnswer` | `WorkerInv`, `JobsInv` |
| `ShutdownDrains` | `DrainedWhenJoined` | `WorkerInv`, `SyncInv`, `JobsInv` |
| `AnswersAreFifo` | `FifoOrder` | `WorkerInv` |
| `TimeoutsAreDue` | `NoEarlyTimeout` | `WorkerInv`, `JobsInv`, `ClockInv` |
| `MonitorsTellTheTruth` | `MonitorsAgree` | `WorkerInv`, `JobsInv`, `MonitorInv` |
| `PoolKeepsPromise` | `PoolSpec => Promise!AbsSafe` | `WorkerInv`, `SyncInv`, `JobsInv` |

None of these properties except `FifoOrder` is inductive alone. The strengthenings:

* `WorkerInv`: types, and what the worker's place says of its hands, its verdict and
  `active`: `active` stays in 0..1 only because the guard's scope is entered with 0.
* `SyncInv`: the worker about to block holds the mutex and has seen nothing to do, so that
  no flag and no job can appear unseen before it blocks; an exited worker left a closed
  and empty pool behind.
* `JobsInv`: every accepted job is in exactly one place: the queue (once), the worker's
  hands, or answered.
* `ClockInv`: a job's deadline is the one its caller is owed, and a verdict of timeout was
  given when it had passed.
* `MonitorInv`: a job without an answer has no outcome, so that the job just counted as
  expired is not among those already told.

The refinement maps a job's place in `submit()` and its count of answers to a status. The
pending jobs are then those in the queue and the one in the worker's hands, all different
(`PendingIsHeld`, `PendingCount`, from `JobsInv`), so that the limit on `queue_` is the
abstract limit; `SubmitAccept`, `SubmitRefuse`, `CallbackReturns`, `ShutdownFlag` and
`ShutdownJoin` are the abstract steps (a second `shutdown()` closes nothing) and all other
steps stutter. The fairness of `Promise!AbsSpec` stays with TLC (`pool_progress`).

### The handler: `SpeechHandlerProofs`

`SpeechImplementsPool` (`SpeechSpec => PoolSpec`) carries everything above over to the
composition, `SpeechKeepsPromise` among it. On top of the pool's invariants `CallInv` says
where the handler's own `submit()` is, `ResultInv` who holds `result_mutex` and what
`result_ready` means, `AnswerInv` what was answered and what is said of it, `GaugeInv` who
is counted.

| Theorem | Property |
|---|---|
| `SpeechTypeCorrect` | `SpeechTypeOK` |
| `FramesOutliveCallbacks` | `FrameAlive` |
| `NoResultIsLost` | `ResultNotLost` |
| `ResponsesTellTheAnswer` | `ResponseMatchesAnswer` |
| `GaugeComesBack` | `GaugeRestored` |
| `ThreadsBoundTheQueue` | `ThreadsBoundQueue` |
| `StopIsGraceful` | `StopTurnsNobodyAway` |

All but the last hold for both orders of shutdown. `StopIsGraceful` assumes
`WaitForListener`, the order of `main()`; without it the property is false.

### Limiters and routes: `MiddlewareProofs`, `HttpAdapterProofs`

| Theorem | Property | Rests on |
|---|---|---|
| `MiddlewareTypeCorrect` | `MiddlewareTypeOK` | `AuthOk`, `ReqOk`, `HistoryOk`, `HandlingOk` |
| `FailuresStayBounded` | `FailuresBounded` | `FailInv`: failures counted and threads past `is_blocked` together stay within limit plus threads |
| `BlockedOnlyForCause` | `BlockedForCause` | `CauseInv`: a counter never exceeds the failures since its window began |
| `RetryAfterIsHonest` | `RetryHonest` | inductive, given `ReqOk`: the seconds left are rounded up, and a window starts anew only with a request that passes |
| `FewerThanTwoWindows` | `TwoWindowBound` | `WindowInv`: what passed since the window began is its count, and what passed in the minute before is below the limit |
| `RoutesImplementMiddleware` | `AdapterSpec => MiddlewareSpec` | the steps alone |
| `AdapterTypeCorrect` | `AdapterTypeOK` | `AdapterInv` |
| `ClientsAreIdentified` | `ClientIdentified` | `AdapterInv` (`Placed`), `HandlingOk` |
| `RequestsKeepTheirId` | `OneIdPerRequest` | `AdapterInv` (`Named`) |
| `KeyHoldersOnly` | `OnlyKeyHolders` | `AdapterInv` (`Entitled`) |
| `ValidRequestsOnly` | `OnlyValidSpoken` | `AdapterInv` (`Judged`) |

The history variables are sequences of times. The lemmas on `Hits` say how one more event
changes how many fall into an interval; `FailuresStayBounded` needs the set of threads to
be finite. Three groups of lemmas are about operators, for every input: the client behind any
chain of proxies is found, and who is charged round it (`SenderIdentified`); a header that the
comparison of keys accepts agrees with the key as far as both go, and is the key if the sizes
are less than `ByteValues` apart (`KeyNeeded`, from `SameLowByte`); the verdict on a body is
`Ok` exactly if it is well-formed and its bytes are within the limit, and an exception only if
it is not well-formed (`PassesIfWellFormed`, `ThrowsIfIllFormed`).

Assumptions and why the code justifies them: limits and windows are at least 1
(`validate()`); the chain of proxies is as long as `trusted_proxy_hops` says (deployment);
with `require_auth` the key is not empty (`validate()`, config.cpp); `Authorization`, key
and input are sequences of characters; a JSON `speed` is a number or of the wrong type; an
absent field is no value of the API. Nothing is assumed of the key's length.

### The process: `LifecycleProofs`

`LifeInv` ties what exists to where `main()`, the signal handler and `synthesize()` are:
`PhaseInv` (installed, published, built, open, joined), `HandlerInv` (the handler runs on a
live thread and has seen the adapter), `EngineInv`, `BufferInv`, `WavInv`.
`HandlerAdapterAlive` needs `PhaseInv`: `main()` stands still while it is interrupted, and
joins the threads the handler may be on before it destroys the adapter.

| Theorem | Property |
|---|---|
| `LifeTypeCorrect` | `LifeTypeOK` |
| `HandlerNeverDangles` | `HandlerAdapterAlive` |
| `PoolOutlivesRequests` | `PoolOutlivesHttp` |
| `EngineNeverFreedInUse` | `EngineAlive` |
| `BuffersFreedOnce` | `SamplesReleased` |
| `WavFilesConsistent` | `WavConsistent` |

`WavFilesConsistent` is arithmetic: for every sample, scale, word of at most 32 bits and
count of half a word (`BackendAssumption`), what the bytes of the samples decode to is what
was encoded, and the sizes agree with the file exactly if a word can count its bytes.

### Startup: `StartupProofs`

| Theorem | Property | Rests on |
|---|---|---|
| `StartupTypeCorrect` | `StartupTypeOK` | `InputsOk`, the type of the configuration |
| `SourcesKeepPrecedence` | `Precedence` | `IntsFrom`: after each phase an integer is the strongest offer so far |
| `KeyNeverFromFile` | `KeyFromEnvironment` | `KeyFrom`, `DemandFrom`, `Validated` |

For every set of settings, width of `int`, file and environment.

### Only model-checked

Liveness under fairness is out of the prover's reach: `AnsweredEventually`,
`ShutdownCompletes`, the fairness part of `ImplementsQueue`, `EveryRequestServed`,
`StopCompletes`, `StopLeadsToExit`, `SignalHeard`. The four refuted statements of section 3
are counterexamples on small instances, which is all that a refutation needs.

## 5. Plan

Done: the pool, its promise and the refinement; the handler with the validation; the
limiters, the client's identity and the middleware; the routes; the backend in the life
cycle; the startup; all safety properties of these proved. Worth doing next:

1. Action properties and their proofs: an answer once given is final; the worker, once
   exited, stays so; a configuration is not changed after `validate()`.
2. That what `validate()` accepts satisfies the assumptions of pool and limiters, as one
   theorem over both modules.
3. Shorter proofs of the limiters' windows, should the lemmas on `Hits` find a second use.

Not modelled: the voice table's contents, the JSON log format and log levels, how a UUID is
made (two are assumed never to be the same), response bodies and error texts, the metrics
that only grow, the command line, the mock backend (a test double), the engine behind
`tts_generate` (not in the repository), the HTTP library, toml++ and spdlog (external).
