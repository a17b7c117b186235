----------------------------- MODULE HttpAdapter -----------------------------
(***************************************************************************)
(* The routes HttpAdapter registers, each run by an HTTP thread: the probes, *)
(* /metrics, the two routes behind the middleware, and the handler of the   *)
(* library's own 404.                                                       *)
(*                                                                          *)
(* A route gives the request an id, which goes into the response and, as a  *)
(* thread-local variable of logger.cpp, into every line the thread logs. An *)
(* exception that leaves a route is caught by the HTTP library: the rest of *)
(* the route, with the header and the reset of the variable, is skipped.    *)
(* What a thread does between two steps of the middleware concerns nobody   *)
(* else, so that each stretch of a route is one step.  The pool's answer to *)
(* a job is a choice; SpeechHandler has the rest.                           *)
(***************************************************************************)
EXTENDS Middleware, Validation

CONSTANT MaxIds   \* bound: request ids ever generated

ASSUME AdapterAssumption == MaxIds \in Nat

VARIABLES
  serving,   \* the request each thread serves, or served last
  tid,       \* t_request_id of each thread, 0 for the empty string
  ids,       \* request ids generated so far: no two are the same
  poolOpen   \* InferencePool::is_accepting()

adapterVars  == <<serving, tid, ids, poolOpen>>
allRouteVars == <<middleVars, adapterVars>>

Probes    == {"health", "ready"}
Protected == {"voices", "speech"}
Statuses  == {200, 400, 401, 404, 413, 429, 500, 503}

None == [at |-> "none"]

(* A request that has come in: where its route is, its id, the ids its log  *)
(* lines carry, the status and X-Request-Id of its response; its            *)
(* Authorization and its body, once the route has looked at them.           *)
Request(route, at, id) ==
  [route |-> route, at |-> at, id |-> id, logged |-> {}, status |-> 0, replyId |-> 0,
   header |-> <<>>, body |-> Absent]

AdapterInit ==
  /\ MiddlewareInit
  /\ serving = [t \in Threads |-> None]
  /\ tid = [t \in Threads |-> 0]
  /\ ids = 0
  /\ poolOpen = TRUE

Free(t) == serving[t].at \in {"none", "done"}

Update(t, request) == serving' = [serving EXCEPT ![t] = request]

GenerateRequestId == ids < MaxIds /\ ids' = ids + 1

SetRequestId(t, id) == tid' = [tid EXCEPT ![t] = id]

(* JsonFormatter puts the thread's id into the line, unless it is empty. *)
LogLine(request, id) ==
  [request EXCEPT !.logged = IF id = 0 THEN @ ELSE @ \cup {id}]

ApplySecurityHeaders(request) == [request EXCEPT !.replyId = request.id]

AdaptResponse(request) == [request EXCEPT !.at = "done"]

-----------------------------------------------------------------------------
(* A request comes in and its route begins. *)
EnterProbe(t, route) ==
  /\ Free(t)
  /\ GenerateRequestId
  /\ SetRequestId(t, ids')
  /\ Update(t, Request(route, "handle", ids'))
  /\ UNCHANGED <<middleVars, poolOpen>>

(* Variant: /v1/audio/speech logs before it has set its id. *)
EnterProtectedLogFirst(t, route, client, entry, prefix, header) ==
  /\ Free(t)
  /\ GenerateRequestId
  /\ SetRequestId(t, ids')
  /\ LET request == [Request(route, "checks", ids') EXCEPT !.header = header]
     IN  Update(t, IF route = "speech" THEN LogLine(request, tid[t]) ELSE request)
  /\ Begin(t, client, entry, prefix, header)
  /\ UNCHANGED poolOpen

(* /v1/audio/speech also logs that it has been called. *)
EnterProtected(t, route, client, entry, prefix, header) ==
  /\ Free(t)
  /\ GenerateRequestId
  /\ SetRequestId(t, ids')
  /\ LET request == [Request(route, "checks", ids') EXCEPT !.header = header]
     IN  Update(t, IF route = "speech" THEN LogLine(request, tid'[t]) ELSE request)
  /\ Begin(t, client, entry, prefix, header)
  /\ UNCHANGED poolOpen

(* /metrics has no id and no security headers. *)
ServeMetrics(t) ==
  /\ Free(t)
  /\ Update(t, [Request("metrics", "done", 0) EXCEPT !.status = 200])
  /\ UNCHANGED <<middleVars, tid, ids, poolOpen>>

(* The error handler gives the id to the response only. *)
NotFound(t) ==
  /\ Free(t)
  /\ GenerateRequestId
  /\ Update(t, ApplySecurityHeaders(
       [Request("unknown", "done", ids') EXCEPT !.status = 404]))
  /\ UNCHANGED <<middleVars, tid, poolOpen>>

(* The library has the limit of validate_body_size too, and refuses a body  *)
(* beyond it before any route; the error handler does not care for 413.     *)
Delivered == {b \in Bodies : b.bytes <= MaxBodyBytes}

PayloadTooLarge(t) ==
  /\ Free(t)
  /\ Bodies # Delivered
  /\ Update(t, [Request("refused", "done", 0) EXCEPT !.status = 413])
  /\ UNCHANGED <<middleVars, tid, ids, poolOpen>>

-----------------------------------------------------------------------------
Passes(t) == serving' = [serving EXCEPT ![t].at = "handle"]

Answers(t, code) == Update(t, [serving[t] EXCEPT !.at = "reply", !.status = code])

(* Variant: the answer of the request limiter is dropped. *)
RunMiddlewareDrops(t) ==
  /\ serving[t].at = "checks"
  /\ \/ CheckBlocked(t) /\ IF handling'[t] = Idle THEN Answers(t, 429) ELSE UNCHANGED serving
     \/ RateLimited(t) /\ UNCHANGED serving
     \/ RateOk(t) /\ IF handling'[t] = Idle THEN Passes(t) ELSE UNCHANGED serving
     \/ BearerOk(t) /\ Passes(t)
     \/ BearerFails(t) /\ Answers(t, 401)
  /\ UNCHANGED <<tid, ids, poolOpen>>

(* run_middleware returns a response or nothing. *)
RunMiddleware(t) ==
  /\ serving[t].at = "checks"
  /\ \/ CheckBlocked(t) /\ IF handling'[t] = Idle THEN Answers(t, 429) ELSE UNCHANGED serving
     \/ RateLimited(t) /\ Answers(t, 429)
     \/ RateOk(t) /\ IF handling'[t] = Idle THEN Passes(t) ELSE UNCHANGED serving
     \/ BearerOk(t) /\ Passes(t)
     \/ BearerFails(t) /\ Answers(t, 401)
  /\ UNCHANGED <<tid, ids, poolOpen>>

(* handle_health and handle_voices always answer 200. The backend of a      *)
(* server that listens is ready, so that handle_ready tells of the pool.    *)
HandleRead(t) ==
  /\ serving[t].at = "handle"
  /\ serving[t].route # "speech"
  /\ Answers(t, IF serving[t].route = "ready" /\ ~poolOpen THEN 503 ELSE 200)
  /\ UNCHANGED <<middleVars, tid, ids, poolOpen>>

(* handle_speech: the verdict on the body, then the pool. *)
HandleSpeech(t, body) ==
  /\ serving[t].at = "handle"
  /\ serving[t].route = "speech"
  /\ Verdict(body) # Throws
  /\ \E code \in IF Verdict(body) # Ok THEN {Verdict(body)}
                 ELSE IF poolOpen THEN {200, 500, 503} ELSE {503} :
       Update(t, [serving[t] EXCEPT !.at = "reply", !.status = code, !.body = body])
  /\ UNCHANGED <<middleVars, tid, ids, poolOpen>>

(* The library answers for the route. *)
HandleThrows(t, body) ==
  /\ serving[t].at = "handle"
  /\ serving[t].route = "speech"
  /\ Verdict(body) = Throws
  /\ Update(t, [serving[t] EXCEPT !.at = "done", !.status = 500, !.body = body])
  /\ UNCHANGED <<middleVars, tid, ids, poolOpen>>

(* The way out of a route: /v1/audio/speech also logs what handle_speech    *)
(* has answered, and the thread-local id is reset.                          *)
Reply(t) ==
  /\ serving[t].at = "reply"
  /\ LET reply == AdaptResponse(ApplySecurityHeaders(serving[t]))
     IN  Update(t, IF reply.route = "speech" /\ reply.status \notin {401, 429}
                   THEN LogLine(reply, tid[t]) ELSE reply)
  /\ SetRequestId(t, 0)
  /\ UNCHANGED <<middleVars, ids, poolOpen>>

-----------------------------------------------------------------------------
(* TtsServer::shutdown may be called while requests are served. *)
ClosePool ==
  /\ poolOpen
  /\ poolOpen' = FALSE
  /\ UNCHANGED <<middleVars, serving, tid, ids>>

TimePasses == ClockTick /\ UNCHANGED adapterVars

AdapterNext ==
  \/ \E t \in Threads :
       \/ \E route \in Probes : EnterProbe(t, route)
       \/ \E route \in Protected, client \in Clients, entry \in EntryPoints,
             prefix \in Prefixes, header \in AuthHeaders :
               EnterProtected(t, route, client, entry, prefix, header)
       \/ ServeMetrics(t) \/ NotFound(t) \/ PayloadTooLarge(t)
       \/ RunMiddleware(t) \/ HandleRead(t)
       \/ \E body \in Delivered : HandleSpeech(t, body) \/ HandleThrows(t, body)
       \/ Reply(t)
  \/ ClosePool
  \/ TimePasses

AdapterSpec == AdapterInit /\ [][AdapterNext]_allRouteVars

-----------------------------------------------------------------------------
(* The values the variables range over; the middleware runs exactly for the *)
(* requests that wait for its answer.                                       *)
AdapterTypeOK ==
  /\ MiddlewareTypeOK
  /\ \A t \in Threads : serving[t] # None =>
       /\ serving[t].route \in Probes \cup Protected \cup {"metrics", "unknown", "refused"}
       /\ serving[t].at \in {"checks", "handle", "reply", "done"}
       /\ {serving[t].id, serving[t].replyId} \cup serving[t].logged \subseteq 0 .. ids
       /\ serving[t].status \in Statuses \cup {0}
  /\ \A t \in Threads : handling[t] # Idle <=> serving[t].at = "checks"
  /\ tid \in [Threads -> 0 .. ids]
  /\ ids \in 0 .. MaxIds
  /\ poolOpen \in BOOLEAN

(* Who is charged by the limiters: behind all trusted proxies the client,   *)
(* whatever addresses it puts into X-Forwarded-For itself.  A caller that   *)
(* gets round some of them is charged as the peer of the server if it       *)
(* claims fewer addresses than it got round proxies; with as many claims or *)
(* more it may be charged as an address it names, but as no third one.      *)
ClientIdentified ==
  \A t \in Threads : serving[t].at = "checks" =>
    LET way == handling[t].way IN Charged(handling[t].ip, way[1], way[2], way[3])

(* Logs and response of a request agree on its id and nobody else's appears *)
(* there, although an exception leaves a stale id on the thread; only the   *)
(* library's own response to an exception has none.                         *)
OneIdPerRequest ==
  \A t \in Threads : serving[t] # None /\ serving[t].id # 0 =>
    /\ serving[t].logged \subseteq {serving[t].id}
    /\ serving[t].at = "done" =>
         \/ serving[t].replyId = serving[t].id
         \/ serving[t].replyId = 0 /\ serving[t].status = 500

Key == <<Bearer>> \o ApiKey

(* A request the checks of a protected route have let through. *)
Admitted(t) ==
  /\ serving[t].at \in {"handle", "reply", "done"}
  /\ serving[t].route \in Protected
  /\ serving[t].status \notin {401, 429}

(* A protected route does nothing for a header that differs from the key in *)
(* any place they both have, nor for a part of the key or more than the key *)
(* unless the sizes are a multiple of a byte's range apart; and it never    *)
(* answers 401 to exactly the key.                                          *)
OnlyKeyHolders ==
  \A t \in Threads : RequireAuth =>
    /\ Admitted(t) =>
         LET header == serving[t].header
         IN  /\ \A i \in DOMAIN header \cap DOMAIN Key : header[i] = Key[i]
             /\ Len(header) - Len(Key) \in 1 - ByteValues .. ByteValues - 1
                  => header = Key
    /\ serving[t] # None /\ serving[t].route \in Protected /\ serving[t].status = 401
         => serving[t].header # Key

(* What auth.hpp says of the comparison: "Returns true if both strings are  *)
(* equal".  Only exactly the key gets past the checks.                      *)
ExactKeyOnly ==
  \A t \in Threads : RequireAuth /\ Admitted(t) => serving[t].header = Key

(* The characters of a text are the bytes that do not continue one. *)
Characters(text) == Cardinality({i \in DOMAIN text : text[i] # Continuation})

(* A request the API accepts: the limit on the input counts characters, as  *)
(* validation.hpp, SECURITY.md and the error message have it.               *)
WellFormed(b) ==
  /\ b.type = "json"
  /\ b.bytes <= MaxBodyBytes
  /\ b.text = "object"
  /\ b.model = "voxtral-4b"
  /\ b.input \notin {Absent, WrongType}
  /\ \E i \in DOMAIN b.input : b.input[i] # Space
  /\ Characters(b.input) <= MaxInputChars \/ MaxInputChars = 0
  /\ b.voice \in Catalog
  /\ b.response_format \in {Absent, "", "wav"}
  /\ b.speed \in {Absent} \cup 1 .. 16

(* The route speaks what the API accepts and nothing else: the order of the *)
(* checks, the defaults of absent fields and the exceptions of value() let  *)
(* nothing slip through.  A request is turned away, with a 400 or by an     *)
(* exception, only if something is wrong with it; a text of more bytes than *)
(* the limit has characters is the one exception.                           *)
OnlyValidSpoken ==
  \A t \in Threads : serving[t] # None /\ serving[t].body # Absent =>
    LET body == serving[t].body
    IN  /\ serving[t].status \in {200, 503} => WellFormed(body)
        /\ serving[t].status = 400 /\ WellFormed(body) => Len(body.input) > MaxInputChars
        /\ serving[t].at = "done" /\ serving[t].replyId = 0 => ~WellFormed(body)

=============================================================================
