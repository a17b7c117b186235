----------------------------- MODULE Middleware -----------------------------
(***************************************************************************)
(* HttpAdapter::run_middleware on the HTTP threads, over the two limiters.  *)
(* A request for an internal endpoint returns before it touches any state   *)
(* and is left out.  Between two checks of one request the other threads    *)
(* run, and time passes.                                                    *)
(*                                                                          *)
(* Requests come through a chain of proxies (external), each of which adds  *)
(* the address it was called from to X-Forwarded-For, after whatever the    *)
(* caller has put there.                                                    *)
(***************************************************************************)
EXTENDS RateLimiters, ClientAuth

CONSTANTS
  Clients,       \* addresses of clients
  Proxies,       \* addresses of the trusted proxies, the outermost first
  EntryPoints,   \* the positions in the chain at which requests enter it
  Prefixes,      \* X-Forwarded-For as clients may send it
  AuthHeaders,   \* Authorization as clients may send it
  Threads,       \* the HTTP library's threads
  RequireAuth,   \* config: require_auth
  MaxRequests,   \* bound: requests that ever come
  MaxClock       \* bound: the clock stops here

ASSUME MiddlewareAssumption ==
  /\ Clients \subseteq Ips /\ Ows \notin Ips
  /\ Proxies \in Seq(Ips)
  /\ Prefixes \subseteq Seq(Seq(Ips \cup {Ows}))
  /\ \A prefix \in Prefixes : \A n \in DOMAIN prefix : \A i, k \in DOMAIN prefix[n] :
       prefix[n][i] # Ows /\ prefix[n][k] # Ows => i = k
  /\ Len(Proxies) = IF TrustProxy THEN Max({1, TrustedHops}) ELSE 0
  /\ EntryPoints \subseteq 1 .. Len(Proxies) + 1
  /\ IsFiniteSet(Threads)
  /\ AuthHeaders \subseteq Seq(STRING)
  /\ RequireAuth \in BOOLEAN
  /\ RequireAuth => ApiKey # <<>>
  /\ MaxRequests \in Nat
  /\ MaxClock \in Nat

VARIABLES
  handling,   \* what each thread does: the next check, client_ip, and whether
              \* the request carries the right key; history: its real way here,
              \* and what it claimed of it
  came,       \* requests so far
  promised,   \* history: clock at which the last Retry-After of a client ends, or 0
  allowedAt,  \* history: when check_request let each client pass
  failedAt    \* history: when a failure was recorded for each client

historyVars == <<promised, allowedAt, failedAt>>
middleVars  == <<authStates, reqStates, clock, handling, came,
                 promised, allowedAt, failedAt>>

Idle == [at |-> "idle"]

MiddlewareInit ==
  /\ LimiterInit
  /\ handling = [t \in Threads |-> Idle]
  /\ came = 0
  /\ promised = [ip \in Ips |-> 0]
  /\ allowedAt = [ip \in Ips |-> <<>>]
  /\ failedAt = [ip \in Ips |-> <<>>]

Return(t) == handling' = [handling EXCEPT ![t] = Idle]

Continue(t, check) == handling' = [handling EXCEPT ![t].at = check]

(* The addresses that call one another from the client on, and what the     *)
(* server gets to see of them.  A caller may get round the outer proxies:   *)
(* it enters the chain later, and sends what it likes all the same.         *)
Peers(client, entry) == <<client>> \o SubSeq(Proxies, entry, Len(Proxies))

Remote(client, entry) == Peers(client, entry)[Len(Peers(client, entry))]

Forwarded(client, entry, prefix) ==
  prefix \o [i \in 1 .. Len(Peers(client, entry)) - 1 |-> <<Ows, Peers(client, entry)[i]>>]

(* The address and the verdict on the key are functions of the headers, so  *)
(* that they can be computed here.                                          *)
Begin(t, client, entry, prefix, header) ==
  /\ handling[t] = Idle
  /\ came < MaxRequests
  /\ came' = came + 1
  /\ handling' = [handling EXCEPT ![t] =
       [at   |-> IF RequireAuth THEN "blocked" ELSE "rate",
        ip   |-> ExtractClientIp(Forwarded(client, entry, prefix), Remote(client, entry)),
        good |-> CheckBearerAuth(header),
        way  |-> <<client, entry, prefix>>]]
  /\ UNCHANGED <<authStates, reqStates, clock, historyVars>>

(* 1. Auth rate limit: 429 auth_rate_limited, or on. *)
CheckBlocked(t) ==
  /\ handling[t].at = "blocked"
  /\ \E blocked \in BOOLEAN :
       /\ IsBlocked(handling[t].ip, blocked)
       /\ IF blocked THEN Return(t) ELSE Continue(t, "rate")
  /\ UNCHANGED <<reqStates, clock, came, historyVars>>

(* 2. Request rate limit: 429 rate_limited with a Retry-After, or on. *)
RateLimited(t) ==
  /\ handling[t].at = "rate"
  /\ \E retry \in 1 .. Minute :
       /\ CheckRequest(handling[t].ip, retry)
       /\ promised' = [promised EXCEPT ![handling[t].ip] = clock + retry * TicksPerSecond]
  /\ Return(t)
  /\ UNCHANGED <<authStates, clock, came, allowedAt, failedAt>>

RateOk(t) ==
  /\ handling[t].at = "rate"
  /\ CheckRequest(handling[t].ip, 0)
  /\ promised' = [promised EXCEPT ![handling[t].ip] = 0]
  /\ allowedAt' = [allowedAt EXCEPT ![handling[t].ip] = Append(@, clock)]
  /\ IF RequireAuth THEN Continue(t, "bearer") ELSE Return(t)
  /\ UNCHANGED <<authStates, clock, came, failedAt>>

(* 3. Bearer token: the request passes, or a failure is recorded and 401. *)
BearerOk(t) ==
  /\ handling[t].at = "bearer"
  /\ handling[t].good
  /\ Return(t)
  /\ UNCHANGED <<authStates, reqStates, clock, came, historyVars>>

BearerFails(t) ==
  /\ handling[t].at = "bearer"
  /\ ~handling[t].good
  /\ RecordFailure(handling[t].ip)
  /\ failedAt' = [failedAt EXCEPT ![handling[t].ip] = Append(@, clock)]
  /\ Return(t)
  /\ UNCHANGED <<reqStates, clock, came, promised, allowedAt>>

ClockTick ==
  /\ clock < MaxClock
  /\ clock' = clock + 1
  /\ UNCHANGED <<authStates, reqStates, handling, came, historyVars>>

Check(t) ==
  CheckBlocked(t) \/ RateLimited(t) \/ RateOk(t) \/ BearerOk(t) \/ BearerFails(t)

MiddlewareNext ==
  \/ \E t \in Threads :
       \/ \E client \in Clients, entry \in EntryPoints, prefix \in Prefixes,
            header \in AuthHeaders : Begin(t, client, entry, prefix, header)
       \/ Check(t)
  \/ ClockTick

MiddlewareSpec == MiddlewareInit /\ [][MiddlewareNext]_middleVars

-----------------------------------------------------------------------------
Entries == [count : Nat, start : Nat]

Handled == [at : {"blocked", "rate", "bearer"}, ip : Ips, good : BOOLEAN,
            way : Clients \X EntryPoints \X Prefixes]

(* The values the variables range over.  The auth limiter keeps its memory  *)
(* cap whatever the clients do.                                             *)
MiddlewareTypeOK ==
  /\ DOMAIN authStates \subseteq Ips /\ Range(authStates) \subseteq Entries
  /\ MaxTracked > 0 => Cardinality(DOMAIN authStates) <= MaxTracked
  /\ DOMAIN reqStates \subseteq Ips /\ Range(reqStates) \subseteq Entries
  /\ clock \in Nat
  /\ handling \in [Threads -> {Idle} \cup Handled]
  /\ came \in Nat
  /\ promised \in [Ips -> Nat]
  /\ allowedAt \in [Ips -> Seq(Nat)]
  /\ failedAt \in [Ips -> Seq(Nat)]

(* How an address may be charged for a request: by what its way through the *)
(* proxies was and what it claimed of it.                                   *)
Charged(ip, client, entry, claims) ==
  /\ entry = 1 => ip = client
  /\ Len(claims) < entry - 1 => ip = Remote(client, entry)
  /\ entry > 1 /\ ip # Remote(client, entry) =>
       \E i \in DOMAIN claims : ip \in Range(claims[i])

(* The check and the recording of a failure are two critical sections.      *)
(* Requests that passed is_blocked together may all fail, but the failures  *)
(* a client gets counted in a window exceed max_failures by no more than    *)
(* the number of HTTP threads.                                              *)
FailuresBounded ==
  \A ip \in DOMAIN authStates :
    authStates[ip].count <= MaxFailures + Cardinality(Threads)

(* Nobody is blocked without cause: a client whose counter is over the      *)
(* limit failed more than max_failures times within one window.             *)
BlockedForCause ==
  \A ip \in DOMAIN authStates :
    authStates[ip].count > MaxFailures =>
      Cardinality({i \in DOMAIN failedAt[ip] :
         /\ failedAt[ip][i] >= authStates[ip].start
         /\ failedAt[ip][i] <= authStates[ip].start + AuthWindow * TicksPerSecond})
        > MaxFailures

(* Retry-After is honest: a client that comes back when it ends finds its   *)
(* window over, however the seconds were rounded and whatever others did.   *)
RetryHonest ==
  \A ip \in DOMAIN reqStates : promised[ip] > 0 =>
    promised[ip] >= reqStates[ip].start + Minute * TicksPerSecond

(* How many requests of a client passed in the minute that starts at c. *)
AllowedFrom(ip, c) ==
  Cardinality({i \in DOMAIN allowedAt[ip] :
     allowedAt[ip][i] >= c /\ allowedAt[ip][i] < c + Minute * TicksPerSecond})

(* Whatever minute one looks at, fewer than two windows' worth of requests  *)
(* of a client pass: a window starts with a request, lasts a minute, and    *)
(* its entry is never dropped while it runs.                                *)
TwoWindowBound == \A ip \in Ips, c \in 0 .. MaxClock : AllowedFrom(ip, c) < 2 * MaxRpm

(* What auth.hpp says: "Per-IP request rate limiter using sliding window":  *)
(* no minute has more than max_rpm requests of a client in it.              *)
SlidingWindow == \A ip \in Ips, c \in 0 .. MaxClock : AllowedFrom(ip, c) <= MaxRpm

=============================================================================
