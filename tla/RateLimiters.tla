---------------------------- MODULE RateLimiters ----------------------------
(***************************************************************************)
(* AuthRateLimiter and RequestRateLimiter: per-client counters in a map     *)
(* from client address to (count, window start), each operation one         *)
(* critical section of the limiter's mutex.  A client that is not in the    *)
(* map is not tracked.  The clock counts fractions of a second: the auth    *)
(* limiter compares exact durations, the request limiter whole seconds.     *)
(***************************************************************************)
EXTENDS Naturals, FiniteSets, Functions

CONSTANTS
  Ips,             \* client addresses
  MaxFailures,     \* AuthRateLimiter::max_failures
  AuthWindow,      \* AuthRateLimiter::window_secs
  MaxRpm,          \* RequestRateLimiter::max_rpm
  Minute,          \* the 60 of check_request()
  MaxTracked,      \* max_tracked_ips of both limiters; 0 is no cap
  TicksPerSecond   \* clock resolution

ASSUME LimiterAssumption ==
  /\ MaxFailures \in Nat \ {0}
  /\ AuthWindow \in Nat \ {0}
  /\ MaxRpm \in Nat \ {0}
  /\ Minute \in Nat \ {0}
  /\ MaxTracked \in Nat
  /\ TicksPerSecond \in Nat \ {0}

VARIABLES
  authStates,  \* AuthRateLimiter::ip_states_
  reqStates,   \* RequestRateLimiter::ip_states_
  clock        \* steady_clock

Empty == [ip \in {} |-> [count |-> 0, start |-> 0]]

LimiterInit ==
  /\ authStates = Empty
  /\ reqStates = Empty
  /\ clock = 0

(* ip_states_[ip]: the entry, created with a window that starts now. *)
Entry(states, ip) ==
  IF ip \in DOMAIN states THEN states[ip] ELSE [count |-> 0, start |-> clock]

Put(states, ip, entry) ==
  [x \in DOMAIN states \cup {ip} |-> IF x = ip THEN entry ELSE states[x]]

OverCap(states) == MaxTracked > 0 /\ Cardinality(DOMAIN states) > MaxTracked

-----------------------------------------------------------------------------
(***************************************************************************)
(* AuthRateLimiter                                                         *)
(***************************************************************************)
AuthExpired(entry) == clock - entry.start > AuthWindow * TicksPerSecond

(* Variant: only what has expired is removed. *)
EvictExpiredOnly(states) ==
  {Restrict(states, {x \in DOMAIN states : ~AuthExpired(states[x])})}

(* evict_to_cap: the expired entries go, then the oldest ones until the cap *)
(* is kept.  Among entries of the same age the hash order decides.          *)
EvictToCap(states) ==
  LET live == {x \in DOMAIN states : ~AuthExpired(states[x])}
  IN  {Restrict(states, kept) : kept \in
        {k \in SUBSET live :
           /\ Cardinality(k) = IF Cardinality(live) > MaxTracked
                               THEN MaxTracked ELSE Cardinality(live)
           /\ \A x \in live \ k, y \in k : states[x].start <= states[y].start}}

(* Variant: the window never starts again. *)
RecordFailureNoReset(ip) ==
  LET old  == Entry(authStates, ip)
      all  == Put(authStates, ip, [old EXCEPT !.count = @ + 1])
  IN  authStates' \in IF OverCap(all) THEN EvictToCap(all) ELSE {all}

(* check_and_record_failure; the middleware ignores what it returns. *)
RecordFailure(ip) ==
  LET old  == Entry(authStates, ip)
      base == IF AuthExpired(old) THEN [count |-> 0, start |-> clock] ELSE old
      all  == Put(authStates, ip, [base EXCEPT !.count = @ + 1])
  IN  authStates' \in IF OverCap(all) THEN EvictToCap(all) ELSE {all}

(* Variant: one failure more before the client is blocked. *)
IsBlockedLater(ip, blocked) ==
  /\ authStates' = IF AuthExpired(Entry(authStates, ip))
                   THEN Restrict(authStates, DOMAIN authStates \ {ip})
                   ELSE authStates
  /\ blocked = (ip \in DOMAIN authStates' /\ authStates[ip].count > MaxFailures + 1)

(* is_blocked forgets an expired entry and returns blocked. *)
IsBlocked(ip, blocked) ==
  /\ authStates' = IF AuthExpired(Entry(authStates, ip))
                   THEN Restrict(authStates, DOMAIN authStates \ {ip})
                   ELSE authStates
  /\ blocked = (ip \in DOMAIN authStates' /\ authStates[ip].count > MaxFailures)

-----------------------------------------------------------------------------
(***************************************************************************)
(* RequestRateLimiter                                                      *)
(***************************************************************************)
Elapsed(entry) == (clock - entry.start) \div TicksPerSecond

(* Variant: rounded down to the last whole second of the window. *)
RetryAfterShort(elapsed) == IF elapsed + 1 >= Minute THEN 1 ELSE Minute - elapsed - 1

(* The seconds until the client may try again, from the elapsed seconds as  *)
(* read before a reset.  The code's lower bound of 1 never applies: with    *)
(* max_rpm at least 1 a window that has just been reset is not exceeded.    *)
RetryAfter(elapsed) == IF elapsed >= Minute THEN 1 ELSE Minute - elapsed

(* Variant: the whole map is dropped when it is over its cap. *)
PruneAll(states) == Empty

(* The capacity cap removes expired entries, and nothing else. *)
Prune(states) ==
  IF OverCap(states)
  THEN Restrict(states, {x \in DOMAIN states : Elapsed(states[x]) < Minute})
  ELSE states

(* check_request returns retry, 0 when the request is allowed.  A refused   *)
(* request is counted too, and returns before the cap is enforced.          *)
CheckRequest(ip, retry) ==
  LET old  == Entry(reqStates, ip)
      base == IF Elapsed(old) >= Minute THEN [count |-> 0, start |-> clock] ELSE old
      all  == Put(reqStates, ip, [base EXCEPT !.count = @ + 1])
      over == base.count + 1 > MaxRpm
  IN  /\ retry = IF over THEN RetryAfter(Elapsed(old)) ELSE 0
      /\ reqStates' = IF over THEN all ELSE Prune(all)

=============================================================================
