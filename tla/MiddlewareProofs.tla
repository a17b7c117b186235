-------------------------- MODULE MiddlewareProofs --------------------------
(***************************************************************************)
(* What holds of the two limiters for every number of HTTP threads, chain   *)
(* of proxies, limit and window.  Three things are counted: the threads     *)
(* past is_blocked on behalf of a client, which bound the failures beyond   *)
(* the limit; the failures recorded since a window began; and the requests  *)
(* let pass since any point in time.  The last two are cardinalities of     *)
(* sets of positions in the history, and the lemmas on Hits say what one    *)
(* more event does to them.                                                 *)
(***************************************************************************)
EXTENDS Middleware, FiniteSetTheorems, SequenceTheorems, TLAPS

-----------------------------------------------------------------------------
(***************************************************************************)
(* Who a request is charged to                                             *)
(***************************************************************************)
(* The greater of two integers. *)
LEMMA GreaterOfTwo ==
  ASSUME NEW a \in Int, NEW b \in Int
  PROVE  Max({a, b}) = IF a >= b THEN a ELSE b
BY DEF Max

(* What is left of an entry with one address in it. *)
LEMMA TrimOne ==
  ASSUME NEW S, NEW e \in Seq(S), NEW s \in 1 .. Len(e),
         {i \in DOMAIN e : e[i] # Ows} = {s}
  PROVE  Trim(e) = <<e[s]>>
<1>1. Min({s}) = s /\ Max({s}) = s
  BY DEF Min, Max
<1>2. SubSeq(e, s, s) = <<e[s]>>
  <2>1. /\ SubSeq(e, s, s) \in Seq(S) /\ Len(SubSeq(e, s, s)) = 1
        /\ SubSeq(e, s, s)[1] = e[s]
    BY SubSeqProperties
  <2>2. <<e[s]>> \in Seq(S) /\ Len(<<e[s]>>) = 1 /\ <<e[s]>>[1] = e[s]
    OBVIOUS
  <2>3. \A i \in 1 .. Len(SubSeq(e, s, s)) : SubSeq(e, s, s)[i] = <<e[s]>>[i]
    BY <2>1, <2>2
  <2>4. QED
    BY <2>1, <2>2, <2>3, SeqEqual, Zenon
<1>3. QED
  BY <1>1, <1>2 DEF Trim

(* A padded address is the address. *)
LEMMA TrimPadded ==
  ASSUME NEW a, a # Ows
  PROVE  Trim(<<Ows, a>>) = <<a>>
<1> DEFINE entry == <<Ows, a>>
<1>1. /\ entry \in Seq({Ows, a}) /\ Len(entry) = 2
      /\ DOMAIN entry = {1, 2} /\ entry[1] = Ows /\ entry[2] = a
  OBVIOUS
<1>2. {i \in DOMAIN entry : entry[i] # Ows} = {2}
  BY <1>1
<1> HIDE DEF entry
<1>3. Trim(entry) = <<entry[2]>>
  BY <1>1, <1>2, TrimOne
<1>4. QED
  BY <1>1, <1>3 DEF entry

(* What is left of an entry that is not blank is an address it holds. *)
LEMMA TrimClaim ==
  ASSUME NEW e \in Seq(Ips \cup {Ows}), Trim(e) # <<>>,
         \A i, k \in DOMAIN e : e[i] # Ows /\ e[k] # Ows => i = k
  PROVE  Head(Trim(e)) \in Range(e) /\ Head(Trim(e)) \in Ips
<1>1. DOMAIN e = 1 .. Len(e) /\ Len(e) \in Nat
  BY LenProperties
<1>2. PICK s \in DOMAIN e : e[s] # Ows
  BY DEF Trim
<1>3. {i \in DOMAIN e : e[i] # Ows} = {s}
  BY <1>2
<1>4. Trim(e) = <<e[s]>>
  BY <1>1, <1>3, TrimOne
<1>5. e[s] \in Ips
  BY <1>1, <1>2
<1>6. QED
  BY <1>2, <1>4, <1>5 DEF Range

(* extract_client_ip charges a request as its way through the proxies and   *)
(* its claims allow.                                                        *)
LEMMA SenderIdentified ==
  ASSUME NEW client \in Clients, NEW entry \in EntryPoints, NEW prefix \in Prefixes,
         NEW ip, ip = ExtractClientIp(Forwarded(client, entry, prefix),
                                      Remote(client, entry))
  PROVE  Charged(ip, client, entry, prefix) /\ ip \in Ips
<1> DEFINE L == Len(Proxies)
           P == Peers(client, entry)
           F == Forwarded(client, entry, prefix)
<1>1. /\ client \in Ips /\ client # Ows /\ Proxies \in Seq(Ips) /\ L \in Nat
      /\ entry \in 1 .. L + 1
      /\ prefix \in Seq(Seq(Ips \cup {Ows})) /\ Len(prefix) \in Nat
  <2>1. /\ client \in Ips /\ client # Ows /\ Proxies \in Seq(Ips)
        /\ prefix \in Seq(Seq(Ips \cup {Ows})) /\ entry \in 1 .. L + 1
    BY MiddlewareAssumption
  <2>2. QED
    BY <2>1, LenProperties
<1>2. L = IF TrustProxy THEN (IF TrustedHops <= 1 THEN 1 ELSE TrustedHops) ELSE 0
  BY MiddlewareAssumption, ClientAuthAssumption, GreaterOfTwo
<1>3. Max({0, TrustedHops - 1}) = IF TrustedHops <= 1 THEN 0 ELSE TrustedHops - 1
  BY ClientAuthAssumption, GreaterOfTwo
<1>4. /\ P \in Seq(Ips) /\ Len(P) = L - entry + 2 /\ P[1] = client
      /\ \A i \in 1 .. Len(P) : P[i] \in Ips
  <2>1. /\ SubSeq(Proxies, entry, L) \in Seq(Ips)
        /\ Len(SubSeq(Proxies, entry, L)) = L - entry + 1
    BY <1>1, SubSeqProperties
  <2>2. <<client>> \in Seq(Ips) /\ Len(<<client>>) = 1 /\ <<client>>[1] = client
    BY <1>1
  <2>3. QED
    BY <1>1, <2>1, <2>2, ConcatProperties DEF Peers
<1>5. Remote(client, entry) = P[Len(P)] /\ Remote(client, entry) \in Ips
  BY <1>1, <1>4 DEF Remote
<1> DEFINE G == [i \in 1 .. Len(P) - 1 |-> <<Ows, P[i]>>]
<1>6. F = prefix \o G
  BY DEF Forwarded
<1>7. /\ G \in Seq(Seq(Ips \cup {Ows})) /\ Len(G) = L - entry + 1
      /\ \A i \in 1 .. Len(G) : G[i] = <<Ows, P[i]>>
  <2>1. Len(P) - 1 \in Nat /\ Len(P) - 1 = L - entry + 1
    BY <1>1, <1>4
  <2>2. \A i \in 1 .. Len(P) - 1 : <<Ows, P[i]>> \in Seq(Ips \cup {Ows})
    BY <1>4
  <2> HIDE DEF P
  <2>3. G \in Seq(Seq(Ips \cup {Ows}))
    BY <2>1, <2>2, IsASeq
  <2>4. Len(G) = Len(P) - 1
    BY <2>1
  <2>5. QED
    BY <2>1, <2>3, <2>4
<1> HIDE DEF P, G, F
<1>8. /\ Len(F) = Len(prefix) + Len(G)
      /\ \A i \in 1 .. Len(prefix) + Len(G) :
           F[i] = IF i <= Len(prefix) THEN prefix[i] ELSE G[i - Len(prefix)]
  BY <1>1, <1>6, <1>7, ConcatProperties
<1>9. CASE ~TrustProxy
  <2>1. entry = 1
    BY <1>1, <1>2, <1>9
  <2>2. P[Len(P)] = client
    BY <1>2, <1>4, <1>9, <2>1
  <2>3. ip = client
    BY <1>5, <1>9, <2>2 DEF ExtractClientIp, F
  <2>4. QED
    BY <1>1, <2>1, <2>3 DEF Charged
<1>10. CASE TrustProxy
  <2> DEFINE left == Len(prefix) + 2 - entry
  <2>1. L >= 1 /\ Len(F) - Max({0, TrustedHops - 1}) = left
    BY <1>1, <1>2, <1>3, <1>7, <1>8, <1>10, ClientAuthAssumption
  <2>2. ip = IF left < 1 \/ Trim(F[left]) = <<>> THEN Remote(client, entry)
             ELSE Head(Trim(F[left]))
    BY <1>10, <2>1 DEF ExtractClientIp, F
  <2>3. CASE entry = 1
    <3>1. left = Len(prefix) + 1 /\ left \in 1 .. Len(prefix) + Len(G) /\ 1 \in 1 .. Len(G)
      BY <1>1, <1>7, <2>1, <2>3
    <3>2. F[left] = G[left - Len(prefix)] /\ left - Len(prefix) = 1
      BY <1>1, <1>8, <3>1
    <3>3. F[left] = <<Ows, client>>
      BY <1>4, <1>7, <3>1, <3>2
    <3>4. Trim(<<Ows, client>>) = <<client>> /\ <<client>> # <<>> /\ Head(<<client>>) = client
      BY <1>1, TrimPadded
    <3>5. ~(left < 1)
      BY <1>1, <2>3
    <3>6. Trim(F[left]) = <<client>>
      BY <3>3, <3>4
    <3>7. ip = Head(<<client>>)
      BY <2>2, <3>4, <3>5, <3>6
    <3>8. QED
      BY <1>1, <2>3, <3>4, <3>7 DEF Charged
  <2>4. CASE entry # 1 /\ (left < 1 \/ Trim(F[left]) = <<>>)
    <3>1. ip = Remote(client, entry)
      BY <2>2, <2>4
    <3>2. QED
      BY <1>5, <2>4, <3>1 DEF Charged
  <2>5. CASE entry # 1 /\ ~(left < 1) /\ Trim(F[left]) # <<>>
    <3>1. left \in 1 .. Len(prefix) /\ left <= Len(prefix) /\ left \in 1 .. Len(prefix) + Len(G)
      BY <1>1, <1>7, <2>5
    <3>2. F[left] = prefix[left]
      BY <1>8, <3>1
    <3>3. PICK e : e = prefix[left]
      OBVIOUS
    <3>4. left \in DOMAIN prefix /\ e \in Seq(Ips \cup {Ows})
      BY <1>1, <3>1, <3>3
    <3>5. \A i, k \in DOMAIN e : e[i] # Ows /\ e[k] # Ows => i = k
      BY <3>3, <3>4, MiddlewareAssumption
    <3>6. ip = Head(Trim(e)) /\ Trim(e) # <<>>
      BY <2>2, <2>5, <3>2, <3>3
    <3>7. ip \in Range(prefix[left]) /\ ip \in Ips
      BY <3>3, <3>4, <3>5, <3>6, TrimClaim
    <3>8. ~(Len(prefix) < entry - 1)
      BY <1>1, <2>5
    <3>9. QED
      BY <2>5, <3>4, <3>7, <3>8 DEF Charged
  <2>6. QED
    BY <2>3, <2>4, <2>5
<1>11. QED
  BY <1>9, <1>10, ClientAuthAssumption

-----------------------------------------------------------------------------
(***************************************************************************)
(* Counting                                                                *)
(***************************************************************************)
(* The positions at which a sequence of times has one of the times T. *)
Hits(times, T) == {i \in DOMAIN times : times[i] \in T}

(* There are finitely many. *)
LEMMA HitsFinite ==
  ASSUME NEW times \in Seq(Nat), NEW T
  PROVE  IsFiniteSet(Hits(times, T)) /\ Cardinality(Hits(times, T)) \in Nat
<1>1. Hits(times, T) \subseteq 1 .. Len(times) /\ Len(times) \in Nat
  BY LenProperties DEF Hits
<1>2. IsFiniteSet(1 .. Len(times))
  BY <1>1, FS_Interval
<1>3. QED
  BY <1>1, <1>2, FS_Subset, FS_CardinalityType

(* Fewer times are hit less often. *)
LEMMA HitsMonotonic ==
  ASSUME NEW times \in Seq(Nat), NEW T, NEW U, T \cap Nat \subseteq U
  PROVE  Cardinality(Hits(times, T)) <= Cardinality(Hits(times, U))
<1>1. Hits(times, T) \subseteq Hits(times, U)
  BY LenProperties, ElementOfSeq DEF Hits
<1>2. QED
  BY <1>1, HitsFinite, FS_Subset

(* If some time of U is hit that is not in T, T is hit less often. *)
LEMMA HitsStrict ==
  ASSUME NEW times \in Seq(Nat), NEW T, NEW U, T \cap Nat \subseteq U,
         NEW k \in DOMAIN times, times[k] \in U, times[k] \notin T
  PROVE  Cardinality(Hits(times, T)) < Cardinality(Hits(times, U))
<1>1. Hits(times, T) \subseteq Hits(times, U) /\ Hits(times, T) # Hits(times, U)
  BY LenProperties, ElementOfSeq DEF Hits
<1>2. QED
  BY <1>1, HitsFinite, FS_Subset

(* Times that two sets cover. *)
LEMMA HitsUnion ==
  ASSUME NEW times \in Seq(Nat), NEW T, NEW U, NEW V, V \cap Nat \subseteq T \cup U
  PROVE  Cardinality(Hits(times, V)) <= Cardinality(Hits(times,
  T)) + Cardinality(Hits(times, U))
<1>1. Hits(times, V) \subseteq Hits(times, T) \cup Hits(times, U)
  BY LenProperties, ElementOfSeq DEF Hits
<1> DEFINE A == Hits(times, T)
           B == Hits(times, U)
<1>2. /\ IsFiniteSet(A) /\ IsFiniteSet(B) /\ Cardinality(A) \in Nat /\ Cardinality(B) \in Nat
      /\ Cardinality(Hits(times, V)) \in Nat
  BY HitsFinite
<1> HIDE DEF A, B
<1>3. /\ IsFiniteSet(A \cup B)
      /\ Cardinality(A \cup B) = Cardinality(A) + Cardinality(B) - Cardinality(A \cap B)
  BY <1>2, FS_Union
<1>4. IsFiniteSet(A \cap B) /\ Cardinality(A \cap B) \in Nat /\ Cardinality(A \cup B) \in Nat
  BY <1>2, <1>3, FS_Intersection, FS_CardinalityType
<1>5. Cardinality(Hits(times, V)) <= Cardinality(A \cup B)
  BY <1>1, <1>3, FS_Subset DEF A, B
<1>6. QED
  BY <1>2, <1>3, <1>4, <1>5 DEF A, B

(* One more time is one more hit, or none. *)
LEMMA HitsAppend ==
  ASSUME NEW times \in Seq(Nat), NEW x \in Nat, NEW T
  PROVE  /\ Append(times, x) \in Seq(Nat)
         /\ Cardinality(Hits(Append(times, x), T))
              = IF x \in T THEN Cardinality(Hits(times, T)) + 1
                           ELSE Cardinality(Hits(times, T))
<1> DEFINE n == Len(times) + 1
           longer == Append(times, x)
<1>1. /\ longer \in Seq(Nat) /\ Len(longer) = n /\ longer[n] = x
      /\ \A i \in 1 .. Len(times) : longer[i] = times[i]
  BY AppendProperties
<1>2. Len(times) \in Nat /\ DOMAIN times = 1 .. Len(times) /\ DOMAIN longer = 1 .. n
  BY <1>1, LenProperties
<1> HIDE DEF longer
<1>3. DOMAIN longer = DOMAIN times \cup {n} /\ n \notin DOMAIN times
  BY <1>2
<1>4. n \notin Hits(times, T)
  BY <1>3 DEF Hits
<1>5. Hits(longer, T) = IF x \in T THEN Hits(times, T) \cup {n} ELSE Hits(times, T)
  BY <1>1, <1>2, <1>3 DEF Hits
<1>6. Cardinality(Hits(times, T) \cup {n}) = Cardinality(Hits(times, T)) + 1
  BY <1>4, HitsFinite, FS_AddElement
<1>7. QED
  BY <1>1, <1>5, <1>6 DEF longer

-----------------------------------------------------------------------------
(***************************************************************************)
(* The invariant                                                           *)
(***************************************************************************)
Window == Minute * TicksPerSecond

(* The limiters' maps: finite, of clients, with windows that have started;  *)
(* the auth limiter keeps its cap.                                          *)
AuthOk ==
  /\ IsFiniteSet(DOMAIN authStates) /\ DOMAIN authStates \subseteq Ips
  /\ \A ip \in DOMAIN authStates : authStates[ip] \in Entries /\ authStates[ip].start <= clock
  /\ MaxTracked > 0 => Cardinality(DOMAIN authStates) <= MaxTracked

ReqOk ==
  /\ DOMAIN reqStates \subseteq Ips
  /\ \A ip \in DOMAIN reqStates : reqStates[ip] \in Entries /\ reqStates[ip].start <= clock

HistoryOk ==
  /\ clock \in Nat /\ came \in Nat
  /\ promised \in [Ips -> Nat]
  /\ allowedAt \in [Ips -> Seq(Nat)]
  /\ failedAt \in [Ips -> Seq(Nat)]

(* Each request is charged as it should be.  Without authentication nobody is *)
(* asked for a key.                                                         *)
HandlingOk ==
  /\ handling \in [Threads -> {Idle} \cup Handled]
  /\ \A t \in Threads : handling[t] # Idle =>
       Charged(handling[t].ip, handling[t].way[1], handling[t].way[2], handling[t].way[3])
  /\ ~RequireAuth => \A t \in Threads : handling[t].at \in {"idle", "rate"}

(* The threads that have passed is_blocked for a client and may still       *)
(* record a failure for it.                                                 *)
Past(ip) == {t \in Threads : handling[t].at \in {"rate", "bearer"} /\ handling[t].ip = ip}

(* Failures counted and failures to come. *)
FailInv ==
  /\ RequireAuth => \A ip \in DOMAIN authStates :
       authStates[ip].count + Cardinality(Past(ip)) <= MaxFailures + Cardinality(Threads)
  /\ ~RequireAuth => DOMAIN authStates = {}

(* A counter counts failures of its window. *)
CauseInv ==
  \A ip \in DOMAIN authStates :
    authStates[ip].count <=
      Cardinality(Hits(failedAt[ip],
        authStates[ip].start .. authStates[ip].start + AuthWindow * TicksPerSecond))

(* The times from c on. *)
Since(c) == {x \in Nat : x >= c}

(* A window may start now: none of the times is now, and the minute that    *)
(* ends now has fewer than max_rpm of them.                                 *)
Quiet(times, now) ==
  /\ \A i \in DOMAIN times : times[i] < now
  /\ \A c \in Int : c > now - Window => Cardinality(Hits(times, Since(c))) < MaxRpm

(* A window is open: it started with one of the times and ends after all of *)
(* them, it has no more of them than were counted, nor than max_rpm, and    *)
(* the minute before it has fewer than max_rpm.                             *)
Running(times, count, start) ==
  /\ \E i \in DOMAIN times : times[i] = start
  /\ \A i \in DOMAIN times : times[i] < start + Window
  /\ Cardinality(Hits(times, Since(start))) <= count
  /\ Cardinality(Hits(times, Since(start))) <= MaxRpm
  /\ \A c \in Int : c > start - Window => Cardinality(Hits(times, c .. start - 1)) < MaxRpm

(* No minute has two windows' worth of the times. *)
Bounded(times) ==
  \A c \in Int : Cardinality(Hits(times, c .. c + Window - 1)) < 2 * MaxRpm

WindowInv ==
  \A ip \in Ips :
    /\ Bounded(allowedAt[ip])
    /\ ip \in DOMAIN reqStates =>
         Running(allowedAt[ip], reqStates[ip].count, reqStates[ip].start)
    /\ ip \notin DOMAIN reqStates => Quiet(allowedAt[ip], clock)

MiddlewareInv ==
  /\ AuthOk
  /\ ReqOk
  /\ HistoryOk
  /\ HandlingOk
  /\ FailInv
  /\ CauseInv
  /\ RetryHonest
  /\ WindowInv

-----------------------------------------------------------------------------
(***************************************************************************)
(* Windows                                                                 *)
(***************************************************************************)
(* The length of a window. *)
LEMMA WindowType == Window \in Nat /\ Window > 0 /\ MaxRpm \in Nat /\ MaxRpm > 0
BY LimiterAssumption DEF Window

(* Before any request a window may start. *)
LEMMA QuietAtFirst == Quiet(<<>>, 0) /\ Bounded(<<>>)
<1>1. \A T : Hits(<<>>, T) = {}
  BY DEF Hits
<1>2. \A T : Cardinality(Hits(<<>>, T)) = 0
  BY <1>1, FS_EmptySet
<1>3. \A i \in DOMAIN <<>> : <<>>[i] < 0
  OBVIOUS
<1>4. QED
  BY <1>2, <1>3, WindowType DEF Quiet, Bounded

(* What may start now may start later. *)
LEMMA QuietLater ==
  ASSUME NEW times, NEW now \in Nat, Quiet(times, now), times \in Seq(Nat)
  PROVE  Quiet(times, now + 1)
<1>1. \A i \in DOMAIN times : times[i] \in Nat
  BY LenProperties
<1>2. QED
  BY <1>1, WindowType DEF Quiet

(* A window that is over has left a minute with fewer than max_rpm: its     *)
(* first request is no longer in it.                                        *)
LEMMA ExpiredIsQuiet ==
  ASSUME NEW times \in Seq(Nat), NEW count \in Nat, NEW start \in Nat, NEW now \in Nat,
         Running(times, count, start), now >= start + Window
  PROVE  Quiet(times, now)
<1>1. \A i \in DOMAIN times : times[i] \in Nat
  BY LenProperties
<1>2. \A i \in DOMAIN times : times[i] < now
  BY <1>1, WindowType DEF Running
<1>3. ASSUME NEW c \in Int, c > now - Window
      PROVE  Cardinality(Hits(times, Since(c))) < MaxRpm
  <2>1. PICK k \in DOMAIN times : times[k] = start
    BY DEF Running
  <2>2. start \in Since(start) /\ start \notin Since(c) /\ Since(c) \cap Nat \subseteq Since(start)
    BY <1>3, WindowType DEF Since
  <2>3. Cardinality(Hits(times, Since(c))) < Cardinality(Hits(times, Since(start)))
    BY <2>1, <2>2, HitsStrict
  <2>4. QED
    BY <2>3, HitsFinite, WindowType DEF Running
<1>4. QED
  BY <1>2, <1>3 DEF Quiet

(* A request starts a window. *)
LEMMA QuietStarts ==
  ASSUME NEW times \in Seq(Nat), NEW now \in Nat, Quiet(times, now), Bounded(times)
  PROVE  Running(Append(times, now), 1, now) /\ Bounded(Append(times, now))
<1> DEFINE longer == Append(times, now)
<1>1. /\ longer \in Seq(Nat) /\ DOMAIN longer = DOMAIN times \cup {Len(times) + 1}
      /\ longer[Len(times) + 1] = now
      /\ \A i \in DOMAIN times : longer[i] = times[i] /\ times[i] \in Nat
  BY LenProperties, AppendProperties
<1>2. \A T : /\ Cardinality(Hits(times, T)) \in Nat
             /\ Cardinality(Hits(longer, T))
                  = IF now \in T THEN Cardinality(Hits(times, T)) + 1
                                 ELSE Cardinality(Hits(times, T))
  BY HitsFinite, HitsAppend
<1> HIDE DEF longer
<1>3. Cardinality(Hits(longer, Since(now))) = 1
  <2>1. Hits(times, Since(now)) = {}
    BY <1>1 DEF Hits, Since, Quiet
  <2>2. Cardinality(Hits(times, Since(now))) = 0
    BY <2>1, FS_EmptySet
  <2>3. now \in Since(now)
    BY DEF Since
  <2>4. QED
    BY <1>2, <2>2, <2>3
<1>4. ASSUME NEW c \in Int, c > now - Window
      PROVE  Cardinality(Hits(longer, c .. now - 1)) < MaxRpm
  <2>1. now \notin c .. now - 1 /\ (c .. now - 1) \cap Nat \subseteq Since(c)
    BY DEF Since
  <2>2. Cardinality(Hits(times, c .. now - 1)) <= Cardinality(Hits(times, Since(c)))
    BY <2>1, HitsMonotonic
  <2>3. Cardinality(Hits(times, Since(c))) < MaxRpm
    BY <1>4 DEF Quiet
  <2>4. QED
    BY <1>2, <2>1, <2>2, <2>3, WindowType
<1>5. Running(longer, 1, now)
  <2>1. \A i \in DOMAIN longer : longer[i] < now + Window
    BY <1>1, WindowType DEF Quiet
  <2>2. \E i \in DOMAIN longer : longer[i] = now
    BY <1>1
  <2>3. QED
    BY <1>3, <1>4, <2>1, <2>2, WindowType DEF Running
<1>6. ASSUME NEW c \in Int
      PROVE  Cardinality(Hits(longer, c .. c + Window - 1)) < 2 * MaxRpm
  <2> DEFINE T == c .. c + Window - 1
  <2>1. CASE now \in T
    <3>1. c > now - Window /\ T \cap Nat \subseteq Since(c)
      BY <2>1, WindowType DEF Since
    <3>2. Cardinality(Hits(times, T)) <= Cardinality(Hits(times, Since(c)))
      BY <3>1, HitsMonotonic
    <3>3. Cardinality(Hits(times, Since(c))) < MaxRpm
      BY <3>1 DEF Quiet
    <3>4. /\ Cardinality(Hits(times, T)) \in Nat
          /\ Cardinality(Hits(times, Since(c))) \in Nat
          /\ Cardinality(Hits(longer, T)) = Cardinality(Hits(times, T)) + 1
      BY <1>2, <2>1
    <3>5. QED
      BY <3>2, <3>3, <3>4, WindowType
  <2>2. CASE now \notin T
    BY <1>2, <2>2 DEF Bounded
  <2>3. QED
    BY <2>1, <2>2
<1>7. QED
  BY <1>5, <1>6 DEF Bounded, longer

(* A request passes in a window. *)
LEMMA RunningGoesOn ==
  ASSUME NEW times \in Seq(Nat), NEW count \in Nat, NEW start \in Nat, NEW now \in Nat,
         Running(times, count, start), Bounded(times),
         start <= now, now < start + Window, count + 1 <= MaxRpm
  PROVE  Running(Append(times, now), count + 1, start) /\ Bounded(Append(times, now))
<1> DEFINE longer == Append(times, now)
<1>1. /\ longer \in Seq(Nat) /\ DOMAIN longer = DOMAIN times \cup {Len(times) + 1}
      /\ longer[Len(times) + 1] = now
      /\ \A i \in DOMAIN times : longer[i] = times[i] /\ times[i] \in Nat
  BY LenProperties, AppendProperties
<1>2. \A T : /\ Cardinality(Hits(times, T)) \in Nat
             /\ Cardinality(Hits(longer, T)) \in Nat
             /\ Cardinality(Hits(longer, T))
                  = IF now \in T THEN Cardinality(Hits(times, T)) + 1
                                 ELSE Cardinality(Hits(times, T))
  BY <1>1, HitsFinite, HitsAppend
<1> HIDE DEF longer
<1>3. /\ Cardinality(Hits(longer, Since(start))) <= count + 1
      /\ Cardinality(Hits(longer, Since(start))) <= MaxRpm
  <2>1. now \in Since(start) /\ Cardinality(Hits(times, Since(start))) <= count
    BY DEF Since, Running
  <2>2. QED
    BY <1>2, <2>1, WindowType
<1>4. ASSUME NEW c \in Int, c > start - Window
      PROVE  Cardinality(Hits(longer, c .. start - 1)) < MaxRpm
  <2>1. now \notin c .. start - 1
    OBVIOUS
  <2>2. Cardinality(Hits(times, c .. start - 1)) < MaxRpm
    BY <1>4 DEF Running
  <2>3. QED
    BY <1>2, <2>1, <2>2
<1>5. Running(longer, count + 1, start)
  <2>1. \A i \in DOMAIN longer : longer[i] < start + Window
    BY <1>1 DEF Running
  <2>2. \E i \in DOMAIN longer : longer[i] = start
    BY <1>1 DEF Running
  <2>3. QED
    BY <1>3, <1>4, <2>1, <2>2 DEF Running
<1>6. ASSUME NEW c \in Int
      PROVE  Cardinality(Hits(longer, c .. c + Window - 1)) < 2 * MaxRpm
  <2> DEFINE T == c .. c + Window - 1
  <2>1. CASE now \in T
    <3>1. c > start - Window /\ T \cap Nat \subseteq (c .. start - 1) \cup Since(start)
      BY <2>1, WindowType DEF Since
    <3>2. Cardinality(Hits(longer, T))
            <= Cardinality(Hits(longer, c .. start - 1)) + Cardinality(Hits(longer,
                Since(start)))
      BY <1>1, <3>1, HitsUnion
    <3>3. Cardinality(Hits(longer, c .. start - 1)) < MaxRpm
      BY <1>4, <3>1
    <3> HIDE DEF T
    <3>4. QED
      BY <1>2, <1>3, <3>2, <3>3, WindowType DEF T
  <2>2. CASE now \notin T
    BY <1>2, <2>2 DEF Bounded
  <2>3. QED
    BY <2>1, <2>2
<1>7. QED
  BY <1>5, <1>6 DEF Bounded, longer

(* A refused request is counted. *)
LEMMA RunningRefuses ==
  ASSUME NEW times \in Seq(Nat), NEW count \in Nat, NEW start, Running(times, count, start)
  PROVE  Running(times, count + 1, start)
BY HitsFinite DEF Running

-----------------------------------------------------------------------------
(***************************************************************************)
(* What the limiters do to their maps                                      *)
(***************************************************************************)
(* evict_to_cap keeps some of the entries, and no more than the cap. *)
LEMMA EvictedKept ==
  ASSUME NEW all, IsFiniteSet(DOMAIN all), NEW s \in EvictToCap(all), MaxTracked > 0
  PROVE  /\ DOMAIN s \subseteq DOMAIN all
         /\ \A x \in DOMAIN s : s[x] = all[x]
         /\ Cardinality(DOMAIN s) <= MaxTracked
<1> DEFINE live == {x \in DOMAIN all : ~AuthExpired(all[x])}
<1>1. PICK kept \in SUBSET live :
        /\ Cardinality(kept) = IF Cardinality(live) > MaxTracked
                               THEN MaxTracked ELSE Cardinality(live)
        /\ s = Restrict(all, kept)
  BY DEF EvictToCap
<1>2. DOMAIN s = kept /\ \A x \in kept : s[x] = all[x]
  BY <1>1 DEF Restrict
<1>3. Cardinality(live) \in Nat
  BY FS_Subset, FS_CardinalityType
<1> HIDE DEF live
<1>4. Cardinality(kept) <= MaxTracked
  BY <1>1, <1>3, LimiterAssumption
<1>5. QED
  BY <1>1, <1>2, <1>4 DEF live

(* is_blocked only forgets, and lets a client pass that has not failed more *)
(* than max_failures times.                                                 *)
LEMMA IsBlockedStep ==
  ASSUME AuthOk, clock \in Nat, NEW ip \in Ips, NEW blocked \in BOOLEAN, IsBlocked(ip,
  blocked)
  PROVE  /\ DOMAIN authStates' \subseteq DOMAIN authStates
         /\ \A x \in DOMAIN authStates' : authStates'[x] = authStates[x]
         /\ ~blocked /\ ip \in DOMAIN authStates' => authStates'[ip].count <= MaxFailures
<1>1. /\ DOMAIN authStates' \subseteq DOMAIN authStates
      /\ \A x \in DOMAIN authStates' : authStates'[x] = authStates[x]
  BY DEF IsBlocked, Restrict
<1>2. ASSUME ~blocked, ip \in DOMAIN authStates' PROVE authStates'[ip].count <= MaxFailures
  <2>1. ~(authStates[ip].count > MaxFailures)
    BY <1>2 DEF IsBlocked
  <2>2. authStates'[ip] = authStates[ip] /\ authStates[ip].count \in Nat
    BY <1>1, <1>2 DEF AuthOk, Entries
  <2>3. QED
    BY <2>1, <2>2, LimiterAssumption
<1>3. QED
  BY <1>1, <1>2

(* check_and_record_failure starts a window with one failure, or adds one   *)
(* to a window that has not expired; other entries it only evicts.          *)
LEMMA RecordFailureStep ==
  ASSUME AuthOk, clock \in Nat, NEW ip \in Ips, RecordFailure(ip)
  PROVE  /\ DOMAIN authStates' \subseteq DOMAIN authStates \cup {ip}
         /\ \A x \in DOMAIN authStates' \ {ip} : authStates'[x] = authStates[x]
         /\ IsFiniteSet(DOMAIN authStates')
         /\ MaxTracked > 0 => Cardinality(DOMAIN authStates') <= MaxTracked
         /\ ip \in DOMAIN authStates' =>
              /\ authStates'[ip] \in Entries
              /\ \/ authStates'[ip].count = 1 /\ authStates'[ip].start = clock
                 \/ /\ ip \in DOMAIN authStates
                    /\ authStates'[ip].count = authStates[ip].count + 1
                    /\ authStates'[ip].start = authStates[ip].start
                    /\ clock - authStates[ip].start <= AuthWindow * TicksPerSecond
<1> DEFINE old  == Entry(authStates, ip)
           base == IF AuthExpired(old) THEN [count |-> 0, start |-> clock] ELSE old
           new  == [base EXCEPT !.count = @ + 1]
           all  == Put(authStates, ip, new)
<1>1. old \in Entries /\ base \in Entries
  BY DEF Entry, AuthOk, Entries
<1>2. /\ \/ base.count = 0 /\ base.start = clock
         \/ /\ ip \in DOMAIN authStates
            /\ base = authStates[ip]
            /\ clock - authStates[ip].start <= AuthWindow * TicksPerSecond
  <2>1. CASE AuthExpired(old)
    BY <2>1
  <2>2. CASE ~AuthExpired(old) /\ ip \notin DOMAIN authStates
    BY <2>2 DEF Entry
  <2>3. CASE ~AuthExpired(old) /\ ip \in DOMAIN authStates
    <3>1. old = authStates[ip] /\ base = old
      BY <2>3 DEF Entry
    <3>2. authStates[ip].start \in Nat /\ AuthWindow * TicksPerSecond \in Nat
      BY <2>3, LimiterAssumption DEF AuthOk, Entries
    <3>3. QED
      BY <2>3, <3>1, <3>2 DEF AuthExpired
  <2>4. QED
    BY <2>1, <2>2, <2>3
<1> HIDE DEF base
<1>3. new \in Entries /\ new.count = base.count + 1 /\ new.start = base.start
  BY <1>1 DEF Entries
<1> HIDE DEF new
<1>4. /\ DOMAIN all = DOMAIN authStates \cup {ip}
      /\ all[ip] = new
      /\ \A x \in DOMAIN authStates \ {ip} : all[x] = authStates[x]
  BY DEF Put
<1>5. authStates' \in IF OverCap(all) THEN EvictToCap(all) ELSE {all}
  BY DEF RecordFailure, new, base
<1> HIDE DEF all
<1>6. IsFiniteSet(DOMAIN all)
  BY <1>4, FS_AddElement DEF AuthOk
<1>7. /\ DOMAIN authStates' \subseteq DOMAIN all
      /\ \A x \in DOMAIN authStates' : authStates'[x] = all[x]
      /\ MaxTracked > 0 => Cardinality(DOMAIN authStates') <= MaxTracked
  <2>1. CASE OverCap(all)
    BY <1>5, <1>6, <2>1, EvictedKept DEF OverCap
  <2>2. CASE ~OverCap(all)
    <3>1. authStates' = all
      BY <1>5, <2>2
    <3>2. Cardinality(DOMAIN all) \in Nat
      BY <1>6, FS_CardinalityType
    <3>3. QED
      BY <2>2, <3>1, <3>2, LimiterAssumption DEF OverCap
  <2>3. QED
    BY <2>1, <2>2
<1>8. IsFiniteSet(DOMAIN authStates')
  BY <1>6, <1>7, FS_Subset
<1>9. ASSUME ip \in DOMAIN authStates'
      PROVE  /\ authStates'[ip] \in Entries
             /\ \/ authStates'[ip].count = 1 /\ authStates'[ip].start = clock
                \/ /\ ip \in DOMAIN authStates
                   /\ authStates'[ip].count = authStates[ip].count + 1
                   /\ authStates'[ip].start = authStates[ip].start
                   /\ clock - authStates[ip].start <= AuthWindow * TicksPerSecond
  <2>1. authStates'[ip] = new
    BY <1>4, <1>7, <1>9
  <2>2. QED
    BY <1>2, <1>3, <2>1
<1>10. QED
  BY <1>4, <1>7, <1>8, <1>9

(* What integer division is. *)
LEMMA Division ==
  ASSUME NEW a \in Nat, NEW b \in Nat \ {0}
  PROVE  /\ a \div b \in Nat
         /\ (a \div b) * b <= a
         /\ a < (a \div b) * b + b
OBVIOUS

(* Whole seconds tell exactly whether a window is over, and the rest of it  *)
(* in whole seconds is not too short.                                       *)
LEMMA ElapsedSeconds ==
  ASSUME NEW start \in Nat, clock \in Nat, start <= clock, NEW entry, entry.start = start
  PROVE  /\ Elapsed(entry) \in Nat
         /\ Elapsed(entry) >= Minute <=> clock >= start + Window
         /\ Elapsed(entry) < Minute =>
              clock + (Minute - Elapsed(entry)) * TicksPerSecond >= start + Window
<1> DEFINE T == TicksPerSecond
           M == Minute
<1>1. T \in Nat \ {0} /\ M \in Nat \ {0} /\ clock - start \in Nat
  BY LimiterAssumption
<1>2. PICK e : e = Elapsed(entry)
  OBVIOUS
<1>3. e \in Nat /\ e * T <= clock - start /\ clock - start < e * T + T
  BY <1>1, <1>2, Division DEF Elapsed
<1> HIDE DEF T, M
<1>4. ASSUME e >= M PROVE e * T >= M * T
  BY <1>1, <1>3, <1>4
<1>5. ASSUME e < M PROVE e * T + T <= M * T
  <2>1. e + 1 <= M
    BY <1>1, <1>3, <1>5
  <2>2. (e + 1) * T <= M * T
    BY <1>1, <1>3, <2>1
  <2>3. (e + 1) * T = e * T + T
    BY <1>1, <1>3
  <2>4. QED
    BY <2>2, <2>3
<1>6. (M - e) * T = M * T - e * T
  BY <1>1, <1>3
<1>7. M * T \in Nat /\ e * T \in Nat /\ Window = M * T
  BY <1>1, <1>3 DEF Window, M, T
<1>8. e >= M <=> clock >= start + M * T
  BY <1>1, <1>3, <1>4, <1>5, <1>7
<1>9. clock + (M - e) * T >= start + M * T
  BY <1>1, <1>3, <1>6, <1>7
<1>10. QED
  BY <1>2, <1>3, <1>7, <1>8, <1>9 DEF M, T

(* What is left of the map after the cap has been enforced: all of it that  *)
(* is not over.                                                             *)
Pruned(all, s) ==
  /\ DOMAIN s \subseteq DOMAIN all
  /\ \A x \in DOMAIN s : s[x] = all[x]
  /\ \A x \in DOMAIN all \ DOMAIN s : clock >= all[x].start + Window

(* Pruning the map leaves nothing out that still runs. *)
LEMMA PruneProperties ==
  ASSUME NEW all, clock \in Nat,
         \A x \in DOMAIN all : all[x] \in Entries /\ all[x].start <= clock
  PROVE  Pruned(all, Prune(all))
<1>1. \A x \in DOMAIN all : ~(Elapsed(all[x]) < Minute) => clock >= all[x].start + Window
  <2> SUFFICES ASSUME NEW x \in DOMAIN all, ~(Elapsed(all[x]) < Minute)
               PROVE  clock >= all[x].start + Window
    OBVIOUS
  <2>1. all[x].start \in Nat /\ all[x].start <= clock
    BY DEF Entries
  <2>2. Elapsed(all[x]) \in Nat /\ (Elapsed(all[x]) >= Minute <=> clock >= all[x].start + Window)
    BY <2>1, ElapsedSeconds
  <2>3. QED
    BY <2>2, LimiterAssumption
<1>2. QED
  BY <1>1 DEF Prune, Restrict, Pruned

(* check_request starts a window, which may be after one that is over;      *)
(* or lets the request pass in a window; or refuses it, with a Retry-After  *)
(* that is not before the end of the window.                                *)
LEMMA CheckRequestStep ==
  ASSUME ReqOk, clock \in Nat, NEW ip \in Ips, NEW retry, CheckRequest(ip, retry)
  PROVE  \E all :
           /\ DOMAIN all = DOMAIN reqStates \cup {ip}
           /\ \A x \in DOMAIN reqStates \ {ip} : all[x] = reqStates[x]
           /\ all[ip] \in Entries /\ all[ip].start <= clock
           /\ \/ /\ retry = 0 /\ Pruned(all, reqStates')
                 /\ ip \in DOMAIN reqStates => clock >= reqStates[ip].start + Window
                 /\ all[ip].count = 1 /\ all[ip].start = clock
              \/ /\ retry = 0 /\ Pruned(all, reqStates')
                 /\ ip \in DOMAIN reqStates /\ clock < reqStates[ip].start + Window
                 /\ reqStates[ip].count + 1 <= MaxRpm
                 /\ all[ip].count = reqStates[ip].count + 1
                 /\ all[ip].start = reqStates[ip].start
              \/ /\ retry > 0 /\ reqStates' = all
                 /\ ip \in DOMAIN reqStates
                 /\ all[ip].count = reqStates[ip].count + 1
                 /\ all[ip].start = reqStates[ip].start
                 /\ clock + retry * TicksPerSecond >= all[ip].start + Window
<1> DEFINE old  == Entry(reqStates, ip)
           base == IF Elapsed(old) >= Minute THEN [count |-> 0, start |-> clock] ELSE old
           new  == [base EXCEPT !.count = @ + 1]
           all  == Put(reqStates, ip, new)
           over == base.count + 1 > MaxRpm
<1>1. old \in Entries /\ base \in Entries /\ old.start <= clock /\ base.start <= clock
  BY DEF Entry, ReqOk, Entries
<1>2. /\ Elapsed(old) \in Nat
      /\ Elapsed(old) >= Minute <=> clock >= old.start + Window
      /\ Elapsed(old) < Minute =>
           clock + (Minute - Elapsed(old)) * TicksPerSecond >= old.start + Window
  BY <1>1, ElapsedSeconds DEF Entries
<1>3. CASE ip \notin DOMAIN reqStates \/ Elapsed(old) >= Minute
  <2>1. base.count = 0 /\ base.start = clock
    BY <1>3 DEF Entry
  <2>2. ip \in DOMAIN reqStates => clock >= reqStates[ip].start + Window
    <3> SUFFICES ASSUME ip \in DOMAIN reqStates PROVE clock >= reqStates[ip].start + Window
      OBVIOUS
    <3>1. old = reqStates[ip] /\ Elapsed(old) >= Minute
      BY <1>3 DEF Entry
    <3>2. QED
      BY <1>2, <3>1
  <2> HIDE DEF base
  <2>3. new \in Entries /\ new.count = 1 /\ new.start = clock
    BY <1>1, <2>1 DEF Entries
  <2>4. ~over
    BY <2>1, LimiterAssumption
  <2>5. retry = 0 /\ reqStates' = Prune(all)
    BY <2>4 DEF CheckRequest, base
  <2> HIDE DEF new, over
  <2>6. /\ DOMAIN all = DOMAIN reqStates \cup {ip}
        /\ all[ip] = new
        /\ \A x \in DOMAIN reqStates \ {ip} : all[x] = reqStates[x]
    BY DEF Put
  <2> HIDE DEF all
  <2>7. Pruned(all, Prune(all))
    BY <2>3, <2>6, PruneProperties DEF ReqOk
  <2>8. QED
    BY <2>2, <2>3, <2>5, <2>6, <2>7
<1>4. CASE ip \in DOMAIN reqStates /\ ~(Elapsed(old) >= Minute)
  <2>1. old = reqStates[ip] /\ base = old
    BY <1>4 DEF Entry
  <2>2. Elapsed(old) < Minute /\ ~(clock >= old.start + Window)
    BY <1>2, <1>4, LimiterAssumption
  <2>3. /\ retry = IF over THEN RetryAfter(Elapsed(old)) ELSE 0
        /\ reqStates' = IF over THEN all ELSE Prune(all)
    BY DEF CheckRequest
  <2> HIDE DEF base, over
  <2>4. new \in Entries /\ new.count = reqStates[ip].count + 1 /\ new.start = reqStates[ip].start
    BY <1>1, <2>1 DEF Entries
  <2> HIDE DEF new
  <2>5. /\ DOMAIN all = DOMAIN reqStates \cup {ip}
        /\ all[ip] = new
        /\ \A x \in DOMAIN reqStates \ {ip} : all[x] = reqStates[x]
    BY DEF Put
  <2> HIDE DEF all, old
  <2>6. reqStates[ip].start \in Nat /\ reqStates[ip].count \in Nat /\ reqStates[ip].start <= clock
    BY <1>4 DEF ReqOk, Entries
  <2>7. CASE over
    <3>1. retry = Minute - Elapsed(old) /\ reqStates' = all /\ retry > 0
      BY <1>2, <2>2, <2>3, <2>7, LimiterAssumption DEF RetryAfter
    <3>2. clock + retry * TicksPerSecond >= reqStates[ip].start + Window
      BY <1>2, <2>1, <2>2, <3>1
    <3>3. QED
      BY <1>4, <2>4, <2>5, <2>6, <3>1, <3>2
  <2>8. CASE ~over
    <3>1. retry = 0 /\ reqStates' = Prune(all)
      BY <2>3, <2>8
    <3>2. reqStates[ip].count + 1 <= MaxRpm
      BY <2>1, <2>6, <2>8, LimiterAssumption DEF over
    <3>3. clock < reqStates[ip].start + Window
      BY <2>1, <2>2, <2>6, WindowType
    <3>4. Pruned(all, Prune(all))
      BY <2>4, <2>5, <2>6, PruneProperties DEF ReqOk
    <3>5. QED
      BY <1>4, <2>4, <2>5, <2>6, <3>1, <3>2, <3>3, <3>4
  <2>9. QED
    BY <2>7, <2>8
<1>5. QED
  BY <1>2, <1>3, <1>4, LimiterAssumption

-----------------------------------------------------------------------------
(***************************************************************************)
(* The steps                                                               *)
(***************************************************************************)
(* A thread that is at one of the checks handles a request. *)
LEMMA AtACheck ==
  ASSUME HandlingOk, NEW t \in Threads, handling[t].at \in {"blocked", "rate", "bearer"}
  PROVE  handling[t] \in Handled /\ handling[t].ip \in Ips /\ handling[t].good \in BOOLEAN
<1>1. handling[t] # Idle
  BY DEF Idle
<1>2. QED
  BY <1>1 DEF HandlingOk, Handled

(* A thread returns; the others do not notice. *)
LEMMA ReturnOk ==
  ASSUME HandlingOk, NEW t \in Threads, Return(t)
  PROVE  HandlingOk' /\ \A u \in Threads \ {t} : handling'[u] = handling[u]
BY DEF HandlingOk, Return, Idle

(* A thread goes on to the next check of the same request. *)
LEMMA ContinueOk ==
  ASSUME HandlingOk, NEW t \in Threads, handling[t] \in Handled, NEW check, Continue(t,
  check),
         check \in {"rate", "bearer"}, RequireAuth
  PROVE  /\ HandlingOk'
         /\ handling'[t].at = check /\ handling'[t].ip = handling[t].ip
         /\ \A u \in Threads \ {t} : handling'[u] = handling[u]
<1> DEFINE r == [handling[t] EXCEPT !.at = check]
<1>1. r \in Handled /\ r.at = check /\ r.ip = handling[t].ip /\ r.way = handling[t].way
  BY DEF Handled
<1>2. handling' = [handling EXCEPT ![t] = r]
  BY DEF Continue
<1>3. handling[t] # Idle
  BY DEF Handled, Idle
<1> HIDE DEF r
<1>4. handling'[t] = r /\ \A u \in Threads \ {t} : handling'[u] = handling[u]
  BY <1>2 DEF HandlingOk
<1>5. handling' \in [Threads -> {Idle} \cup Handled]
  BY <1>1, <1>2 DEF HandlingOk
<1>6. \A u \in Threads : handling'[u] # Idle =>
        Charged(handling'[u].ip, handling'[u].way[1], handling'[u].way[2],
                handling'[u].way[3])
  BY <1>1, <1>3, <1>4 DEF HandlingOk
<1>7. HandlingOk'
  BY <1>5, <1>6 DEF HandlingOk, Charged, Remote, Peers
<1>8. QED
  BY <1>1, <1>4, <1>7

(* A request begins, charged as its way and its claims allow. *)
LEMMA BeginOk ==
  ASSUME HandlingOk, NEW t \in Threads, NEW client \in Clients, NEW entry \in EntryPoints,
         NEW prefix \in Prefixes, NEW header, Begin(t, client, entry, prefix, header)
  PROVE  /\ HandlingOk'
         /\ handling'[t].at = IF RequireAuth THEN "blocked" ELSE "rate"
         /\ \A u \in Threads \ {t} : handling'[u] = handling[u]
<1>1. PICK r : r = [at   |-> IF RequireAuth THEN "blocked" ELSE "rate",
                    ip   |-> ExtractClientIp(Forwarded(client, entry, prefix),
                    Remote(client, entry)),
                    good |-> CheckBearerAuth(header),
                    way  |-> <<client, entry, prefix>>]
  OBVIOUS
<1>2. handling' = [handling EXCEPT ![t] = r]
  BY <1>1 DEF Begin
<1>3. CheckBearerAuth(header) \in BOOLEAN
  BY DEF CheckBearerAuth
<1>4. /\ r \in Handled /\ Charged(r.ip, r.way[1], r.way[2], r.way[3])
      /\ r.at = IF RequireAuth THEN "blocked" ELSE "rate"
  <2>1. /\ r.at = IF RequireAuth THEN "blocked" ELSE "rate"
        /\ Charged(r.ip, client, entry, prefix) /\ r.ip \in Ips
        /\ r.way = <<client, entry, prefix>>
    BY <1>1, SenderIdentified
  <2>2. r \in Handled
    BY <1>1, <1>3, <2>1 DEF Handled
  <2>3. QED
    BY <2>1, <2>2
<1>5. handling'[t] = r /\ \A u \in Threads \ {t} : handling'[u] = handling[u]
  BY <1>2 DEF HandlingOk
<1>6. handling' \in [Threads -> {Idle} \cup Handled]
  BY <1>2, <1>4 DEF HandlingOk
<1>7. \A u \in Threads : handling'[u] # Idle =>
        Charged(handling'[u].ip, handling'[u].way[1], handling'[u].way[2],
                handling'[u].way[3])
  BY <1>4, <1>5 DEF HandlingOk
<1>8. ~RequireAuth => \A u \in Threads : handling'[u].at \in {"idle", "rate"}
  BY <1>4, <1>5 DEF HandlingOk
<1>9. HandlingOk'
  BY <1>6, <1>7, <1>8 DEF HandlingOk, Charged, Remote, Peers
<1>10. QED
  BY <1>4, <1>5, <1>9

(* The threads past the check: finitely many, fewer than all. *)
LEMMA PastFinite ==
  ASSUME NEW ip
  PROVE  /\ IsFiniteSet(Past(ip)) /\ Cardinality(Past(ip)) \in Nat
         /\ IsFiniteSet(Past(ip)') /\ Cardinality(Past(ip)') \in Nat
         /\ Cardinality(Past(ip)) <= Cardinality(Threads)
         /\ Cardinality(Past(ip)') <= Cardinality(Threads)
         /\ Cardinality(Threads) \in Nat
<1>1. Past(ip) \subseteq Threads /\ Past(ip)' \subseteq Threads /\ IsFiniteSet(Threads)
  BY MiddlewareAssumption DEF Past
<1>2. QED
  BY <1>1, FS_Subset, FS_CardinalityType

(* A step of one thread that neither changes its client nor takes it past   *)
(* the check.                                                               *)
LEMMA PastShrinks ==
  ASSUME NEW ip, Past(ip)' \subseteq Past(ip)
  PROVE  Cardinality(Past(ip)') <= Cardinality(Past(ip))
BY PastFinite, FS_Subset

(* A failure is recorded: one thread less may record one, one more is      *)
(* counted.                                                                 *)
LEMMA BearerFailsFail ==
  ASSUME MiddlewareInv, NEW t \in Threads, BearerFails(t)
  PROVE  FailInv'
<1>0. PICK ip : ip = handling[t].ip
  OBVIOUS
<1>1. handling[t] \in Handled /\ ip \in Ips /\ RequireAuth
  BY <1>0, AtACheck DEF MiddlewareInv, BearerFails, HandlingOk
<1>2. HandlingOk' /\ handling'[t] = Idle /\ \A u \in Threads \ {t} : handling'[u] = handling[u]
  BY ReturnOk DEF MiddlewareInv, BearerFails, Return, HandlingOk
<1>3. \A x : Past(x)' \subseteq Past(x)
  BY <1>2 DEF Past, Idle
<1>4. t \in Past(ip) /\ t \notin Past(ip)'
  BY <1>0, <1>2 DEF Past, Idle, BearerFails
<1>5. Cardinality(Past(ip)') + 1 <= Cardinality(Past(ip))
  <2>1. Past(ip)' \subseteq Past(ip) \ {t}
    BY <1>3, <1>4
  <2>2. IsFiniteSet(Past(ip) \ {t}) /\ Cardinality(Past(ip) \ {t}) = Cardinality(Past(ip)) - 1
    BY <1>4, PastFinite, FS_RemoveElement
  <2>3. Cardinality(Past(ip)') <= Cardinality(Past(ip) \ {t})
    BY <2>1, <2>2, FS_Subset
  <2>4. QED
    BY <2>2, <2>3, PastFinite
<1>6. /\ DOMAIN authStates' \subseteq DOMAIN authStates \cup {ip}
      /\ \A x \in DOMAIN authStates' \ {ip} : authStates'[x] = authStates[x]
      /\ ip \in DOMAIN authStates' =>
           \/ authStates'[ip].count = 1
           \/ /\ ip \in DOMAIN authStates
              /\ authStates'[ip].count = authStates[ip].count + 1
  BY <1>0, <1>1, RecordFailureStep DEF MiddlewareInv, BearerFails, HistoryOk
<1>7. \A x \in DOMAIN authStates : authStates[x].count \in Nat
  BY DEF MiddlewareInv, AuthOk, Entries
<1>8. ASSUME NEW x \in DOMAIN authStates'
      PROVE  authStates'[x].count + Cardinality(Past(x)') <= MaxFailures + Cardinality(Threads)
  <2>1. CASE x # ip
    <3>1. x \in DOMAIN authStates /\ authStates'[x] = authStates[x]
      BY <1>6, <1>8, <2>1
    <3>2. authStates[x].count + Cardinality(Past(x)) <= MaxFailures + Cardinality(Threads)
      BY <1>1, <3>1 DEF MiddlewareInv, FailInv
    <3>3. Cardinality(Past(x)') <= Cardinality(Past(x))
      BY <1>3, PastShrinks
    <3>4. QED
      BY <1>7, <3>1, <3>2, <3>3, PastFinite, LimiterAssumption
  <2>2. CASE x = ip /\ authStates'[ip].count = 1
    BY <1>5, <2>2, PastFinite, LimiterAssumption
  <2>3. CASE x = ip /\ ip \in DOMAIN authStates /\ authStates'[ip].count = authStates[ip].count + 1
    <3>1. authStates[ip].count + Cardinality(Past(ip)) <= MaxFailures + Cardinality(Threads)
      BY <1>1, <2>3 DEF MiddlewareInv, FailInv
    <3>2. QED
      BY <1>5, <1>7, <2>3, <3>1, PastFinite, LimiterAssumption
  <2>4. QED
    BY <1>6, <1>8, <2>1, <2>2, <2>3
<1>9. QED
  BY <1>1, <1>8 DEF FailInv

(* A client that passes is_blocked has at most max_failures, and no more    *)
(* threads than there are may follow.                                       *)
LEMMA CheckBlockedFail ==
  ASSUME MiddlewareInv, NEW t \in Threads, CheckBlocked(t)
  PROVE  FailInv'
<1>0. PICK ip : ip = handling[t].ip
  OBVIOUS
<1>1. handling[t] \in Handled /\ ip \in Ips /\ RequireAuth
  BY <1>0, AtACheck DEF MiddlewareInv, CheckBlocked, HandlingOk
<1>2. PICK blocked \in BOOLEAN :
        IsBlocked(ip, blocked) /\ IF blocked THEN Return(t) ELSE Continue(t, "rate")
  BY <1>0 DEF CheckBlocked
<1>3. /\ DOMAIN authStates' \subseteq DOMAIN authStates
      /\ \A x \in DOMAIN authStates' : authStates'[x] = authStates[x]
      /\ ~blocked /\ ip \in DOMAIN authStates' => authStates'[ip].count <= MaxFailures
  BY <1>1, <1>2, IsBlockedStep DEF MiddlewareInv, HistoryOk
<1>4. \A u \in Threads \ {t} : handling'[u] = handling[u]
  BY <1>1, <1>2, ReturnOk, ContinueOk DEF MiddlewareInv
<1>5. \A x : x # ip \/ blocked => Past(x)' \subseteq Past(x)
  <2>1. CASE blocked
    <3>1. handling'[t] = Idle
      BY <1>2, <2>1 DEF Return, MiddlewareInv, HandlingOk
    <3>2. QED
      BY <1>4, <3>1 DEF Past, Idle
  <2>2. CASE ~blocked
    <3>1. handling'[t].ip = ip
      BY <1>0, <1>1, <1>2, <2>2, ContinueOk DEF MiddlewareInv
    <3>2. QED
      BY <1>4, <2>2, <3>1 DEF Past
  <2>3. QED
    BY <2>1, <2>2
<1>6. \A x \in DOMAIN authStates : authStates[x].count \in Nat
  BY DEF MiddlewareInv, AuthOk, Entries
<1>7. ASSUME NEW x \in DOMAIN authStates'
      PROVE  authStates'[x].count + Cardinality(Past(x)') <= MaxFailures + Cardinality(Threads)
  <2>1. x \in DOMAIN authStates /\ authStates'[x] = authStates[x]
    BY <1>3, <1>7
  <2>2. CASE x # ip \/ blocked
    <3>1. Cardinality(Past(x)') <= Cardinality(Past(x))
      BY <1>5, <2>2, PastShrinks
    <3>2. authStates[x].count + Cardinality(Past(x)) <= MaxFailures + Cardinality(Threads)
      BY <1>1, <2>1 DEF MiddlewareInv, FailInv
    <3>3. QED
      BY <1>6, <2>1, <3>1, <3>2, PastFinite, LimiterAssumption
  <2>3. CASE x = ip /\ ~blocked
    BY <1>3, <1>6, <1>7, <2>1, <2>3, PastFinite, LimiterAssumption
  <2>4. QED
    BY <2>2, <2>3
<1>8. QED
  BY <1>1, <1>7 DEF FailInv

(* The other steps take nobody past is_blocked. *)
LEMMA OtherFail ==
  ASSUME MiddlewareInv, UNCHANGED authStates,
  \A x : Past(x)' \subseteq Past(x) \/ ~RequireAuth
  PROVE  FailInv'
<1>1. CASE ~RequireAuth
  BY <1>1 DEF MiddlewareInv, FailInv
<1>2. CASE RequireAuth
  <2>1. ASSUME NEW x \in DOMAIN authStates
        PROVE  authStates[x].count + Cardinality(Past(x)') <= MaxFailures + Cardinality(Threads)
    <3>1. Cardinality(Past(x)') <= Cardinality(Past(x))
      BY <1>2, PastShrinks
    <3>2. authStates[x].count + Cardinality(Past(x)) <= MaxFailures + Cardinality(Threads)
      BY <1>2, <2>1 DEF MiddlewareInv, FailInv
    <3>3. authStates[x].count \in Nat
      BY <2>1 DEF MiddlewareInv, AuthOk, Entries
    <3>4. QED
      BY <3>1, <3>2, <3>3, PastFinite, LimiterAssumption
  <2>2. QED
    BY <1>2, <2>1 DEF FailInv
<1>3. QED
  BY <1>1, <1>2

(* Every step keeps the books of the failures and of the threads. *)
LEMMA FailNext ==
  MiddlewareInv /\ [MiddlewareNext]_middleVars => FailInv' /\ HandlingOk'
<1> SUFFICES ASSUME MiddlewareInv, [MiddlewareNext]_middleVars PROVE FailInv' /\ HandlingOk'
  OBVIOUS
<1>0. HandlingOk
  BY DEF MiddlewareInv
<1>1. ASSUME NEW t \in Threads, NEW client \in Clients, NEW entry \in EntryPoints,
             NEW prefix \in Prefixes, NEW header \in AuthHeaders,
             Begin(t, client, entry, prefix, header)
      PROVE  FailInv' /\ HandlingOk'
  <2>1. /\ HandlingOk'
        /\ handling'[t].at = IF RequireAuth THEN "blocked" ELSE "rate"
        /\ \A u \in Threads \ {t} : handling'[u] = handling[u]
    BY <1>0, <1>1, BeginOk
  <2>2. \A x : Past(x)' \subseteq Past(x) \/ ~RequireAuth
    BY <2>1 DEF Past
  <2>3. UNCHANGED authStates
    BY <1>1 DEF Begin
  <2>4. QED
    BY <2>1, <2>2, <2>3, OtherFail
<1>2. ASSUME NEW t \in Threads, CheckBlocked(t) PROVE FailInv' /\ HandlingOk'
  <2>1. handling[t] \in Handled /\ RequireAuth
    BY <1>0, <1>2, AtACheck DEF CheckBlocked, HandlingOk
  <2>2. HandlingOk'
    BY <1>0, <1>2, <2>1, ReturnOk, ContinueOk DEF CheckBlocked
  <2>3. QED
    BY <1>2, <2>2, CheckBlockedFail
<1>3. ASSUME NEW t \in Threads, RateLimited(t) \/ BearerOk(t) PROVE FailInv' /\ HandlingOk'
  <2>1. Return(t) /\ UNCHANGED authStates
    BY <1>3 DEF RateLimited, BearerOk
  <2>2. HandlingOk' /\ handling'[t] = Idle /\ \A u \in Threads \ {t} : handling'[u] = handling[u]
    BY <1>0, <2>1, ReturnOk DEF Return, HandlingOk
  <2>3. \A x : Past(x)' \subseteq Past(x)
    BY <2>2 DEF Past, Idle
  <2>4. QED
    BY <2>1, <2>2, <2>3, OtherFail
<1>4. ASSUME NEW t \in Threads, RateOk(t) PROVE FailInv' /\ HandlingOk'
  <2>1. UNCHANGED authStates /\ handling[t].at = "rate" /\ handling[t] \in Handled
    BY <1>0, <1>4, AtACheck DEF RateOk
  <2>2. CASE RequireAuth
    <3>1. /\ HandlingOk' /\ handling'[t].ip = handling[t].ip
          /\ \A u \in Threads \ {t} : handling'[u] = handling[u]
      BY <1>0, <1>4, <2>1, <2>2, ContinueOk DEF RateOk
    <3>2. \A x : Past(x)' \subseteq Past(x)
      BY <2>1, <3>1 DEF Past
    <3>3. QED
      BY <2>1, <3>1, <3>2, OtherFail
  <2>3. CASE ~RequireAuth
    <3>1. Return(t)
      BY <1>4, <2>3 DEF RateOk
    <3>2. HandlingOk'
      BY <1>0, <3>1, ReturnOk
    <3>3. QED
      BY <2>1, <2>3, <3>2, OtherFail
  <2>4. QED
    BY <2>2, <2>3
<1>5. ASSUME NEW t \in Threads, BearerFails(t) PROVE FailInv' /\ HandlingOk'
  <2>1. HandlingOk'
    BY <1>0, <1>5, ReturnOk DEF BearerFails
  <2>2. QED
    BY <1>5, <2>1, BearerFailsFail
<1>6. CASE ClockTick \/ UNCHANGED middleVars
  <2>1. UNCHANGED <<authStates, handling>>
    BY <1>6 DEF ClockTick, middleVars
  <2>2. HandlingOk' /\ \A x : Past(x)' \subseteq Past(x)
    BY <1>0, <2>1 DEF HandlingOk, Past
  <2>3. QED
    BY <2>1, <2>2, OtherFail
<1>7. QED
  BY <1>1, <1>2, <1>3, <1>4, <1>5, <1>6 DEF MiddlewareNext, Check

(* Entries of the auth limiter that are left over: still of a client, still *)
(* started, still counting failures of their window.                        *)
LEMMA AuthKept ==
  ASSUME MiddlewareInv, UNCHANGED failedAt, clock' \in Nat, clock <= clock',
         DOMAIN authStates' \subseteq DOMAIN authStates,
         \A x \in DOMAIN authStates' : authStates'[x] = authStates[x]
  PROVE  AuthOk' /\ CauseInv'
<1>1. /\ IsFiniteSet(DOMAIN authStates) /\ DOMAIN authStates \subseteq Ips /\ clock \in Nat
      /\ \A x \in DOMAIN authStates : authStates[x] \in Entries /\ authStates[x].start <= clock
      /\ MaxTracked > 0 => Cardinality(DOMAIN authStates) <= MaxTracked
  BY DEF MiddlewareInv, AuthOk, HistoryOk
<1>2. /\ IsFiniteSet(DOMAIN authStates')
      /\ Cardinality(DOMAIN authStates') <= Cardinality(DOMAIN authStates)
  BY <1>1, FS_Subset
<1>3. Cardinality(DOMAIN authStates) \in Nat /\ Cardinality(DOMAIN authStates') \in Nat
  BY <1>1, <1>2, FS_CardinalityType
<1>4. MaxTracked > 0 => Cardinality(DOMAIN authStates') <= MaxTracked
  BY <1>1, <1>2, <1>3, LimiterAssumption
<1>5. \A x \in DOMAIN authStates' : authStates'[x] \in Entries /\ authStates'[x].start <= clock'
  BY <1>1 DEF Entries
<1>6. AuthOk'
  BY <1>1, <1>2, <1>4, <1>5 DEF AuthOk, Entries
<1>7. CauseInv'
  BY DEF MiddlewareInv, CauseInv, Hits
<1>8. QED
  BY <1>6, <1>7

(* A failure that is recorded is a failure of the window it is counted in. *)
LEMMA BearerFailsAuth ==
  ASSUME MiddlewareInv, NEW t \in Threads, BearerFails(t)
  PROVE  AuthOk' /\ CauseInv'
<1>1. PICK ip : ip = handling[t].ip
  OBVIOUS
<1>2. ip \in Ips /\ clock \in Nat /\ UNCHANGED clock /\ AuthOk
  BY <1>1, AtACheck DEF MiddlewareInv, BearerFails, HistoryOk
<1>3. /\ DOMAIN authStates' \subseteq DOMAIN authStates \cup {ip}
      /\ \A x \in DOMAIN authStates' \ {ip} : authStates'[x] = authStates[x]
      /\ IsFiniteSet(DOMAIN authStates')
      /\ MaxTracked > 0 => Cardinality(DOMAIN authStates') <= MaxTracked
      /\ ip \in DOMAIN authStates' =>
           /\ authStates'[ip] \in Entries
           /\ \/ authStates'[ip].count = 1 /\ authStates'[ip].start = clock
              \/ /\ ip \in DOMAIN authStates
                 /\ authStates'[ip].count = authStates[ip].count + 1
                 /\ authStates'[ip].start = authStates[ip].start
                 /\ clock - authStates[ip].start <= AuthWindow * TicksPerSecond
  BY <1>1, <1>2, RecordFailureStep DEF BearerFails
<1>4. \A x \in DOMAIN authStates : authStates[x] \in Entries /\ authStates[x].start <= clock
  BY <1>2 DEF AuthOk
<1>5. \A x \in DOMAIN authStates' : authStates'[x] \in Entries /\ authStates'[x].start <= clock'
  BY <1>2, <1>3, <1>4
<1>6. AuthOk'
  BY <1>2, <1>3, <1>5 DEF AuthOk, Entries
<1>7. /\ failedAt \in [Ips -> Seq(Nat)]
      /\ failedAt' = [failedAt EXCEPT ![ip] = Append(failedAt[ip], clock)]
  BY <1>1 DEF MiddlewareInv, HistoryOk, BearerFails
<1>8. ASSUME NEW x \in DOMAIN authStates'
      PROVE  authStates'[x].count <= Cardinality(Hits(failedAt'[x],
               authStates'[x].start .. authStates'[x].start + AuthWindow * TicksPerSecond))
  <2>1. x \in Ips /\ AuthWindow * TicksPerSecond \in Nat
    BY <1>2, <1>3, <1>8, LimiterAssumption DEF AuthOk
  <2>2. CASE x # ip
    <3>1. failedAt'[x] = failedAt[x] /\ x \in DOMAIN authStates /\ authStates'[x] = authStates[x]
      BY <1>3, <1>7, <1>8, <2>1, <2>2
    <3>2. QED
      BY <3>1 DEF MiddlewareInv, CauseInv
  <2>3. CASE x = ip
    <3>1. failedAt'[x] = Append(failedAt[ip], clock) /\ failedAt[ip] \in Seq(Nat)
      BY <1>2, <1>7, <2>3
    <3>2. PICK T : T = authStates'[x].start .. authStates'[x].start + AuthWindow * TicksPerSecond
      OBVIOUS
    <3>3. authStates'[x].count \in Nat /\ authStates'[x].start \in Nat
      BY <1>5, <1>8 DEF Entries
    <3>4. clock \in T
      <4>1. CASE authStates'[ip].start = clock
        BY <1>2, <2>1, <2>3, <3>2, <3>3, <4>1
      <4>2. CASE /\ ip \in DOMAIN authStates /\ authStates'[ip].start = authStates[ip].start
                 /\ clock - authStates[ip].start <= AuthWindow * TicksPerSecond
        <5>1. authStates[ip].start \in Nat /\ authStates[ip].start <= clock
          BY <1>4, <4>2 DEF Entries
        <5>2. QED
          BY <1>2, <2>1, <2>3, <3>2, <4>2, <5>1
      <4>3. QED
        BY <1>3, <1>8, <2>3, <4>1, <4>2
    <3>5. /\ Cardinality(Hits(failedAt[ip], T)) \in Nat
          /\ Cardinality(Hits(failedAt'[x], T)) = Cardinality(Hits(failedAt[ip], T)) + 1
      BY <1>2, <3>1, <3>4, HitsFinite, HitsAppend
    <3>6. CASE authStates'[ip].count = 1
      BY <2>3, <3>2, <3>5, <3>6
    <3>7. CASE /\ ip \in DOMAIN authStates /\ authStates'[ip].start = authStates[ip].start
               /\ authStates'[ip].count = authStates[ip].count + 1
      <4>1. authStates[ip].count <= Cardinality(Hits(failedAt[ip], T))
        BY <2>3, <3>2, <3>7 DEF MiddlewareInv, CauseInv
      <4>2. authStates[ip].count \in Nat
        BY <1>4, <3>7 DEF Entries
      <4>3. QED
        BY <2>3, <3>2, <3>5, <3>7, <4>1, <4>2
    <3>8. QED
      BY <1>3, <1>8, <2>3, <3>6, <3>7
  <2>4. QED
    BY <2>2, <2>3
<1>9. CauseInv'
  BY <1>8 DEF CauseInv, Hits
<1>10. QED
  BY <1>6, <1>9

(* Every step keeps the auth limiter's map, and the causes it counts. *)
LEMMA AuthNext ==
  MiddlewareInv /\ [MiddlewareNext]_middleVars => AuthOk' /\ CauseInv'
<1> SUFFICES ASSUME MiddlewareInv, [MiddlewareNext]_middleVars PROVE AuthOk' /\ CauseInv'
  OBVIOUS
<1>1. clock \in Nat
  BY DEF MiddlewareInv, HistoryOk
<1>2. ASSUME NEW t \in Threads, CheckBlocked(t) PROVE AuthOk' /\ CauseInv'
  <2>1. PICK blocked \in BOOLEAN : IsBlocked(handling[t].ip, blocked)
    BY <1>2 DEF CheckBlocked
  <2>2. handling[t].ip \in Ips /\ AuthOk
    BY <1>2, AtACheck DEF MiddlewareInv, CheckBlocked
  <2>3. /\ DOMAIN authStates' \subseteq DOMAIN authStates
        /\ \A x \in DOMAIN authStates' : authStates'[x] = authStates[x]
    BY <1>1, <2>1, <2>2, IsBlockedStep
  <2>4. UNCHANGED <<failedAt, clock>>
    BY <1>2 DEF CheckBlocked, historyVars
  <2>5. QED
    BY <1>1, <2>3, <2>4, AuthKept
<1>3. ASSUME NEW t \in Threads, BearerFails(t) PROVE AuthOk' /\ CauseInv'
  BY <1>3, BearerFailsAuth
<1>4. ASSUME UNCHANGED <<authStates, failedAt>>, clock' \in Nat, clock <= clock'
      PROVE AuthOk' /\ CauseInv'
  BY <1>4, AuthKept
<1>5. ASSUME NEW t \in Threads, NEW client \in Clients, NEW entry \in EntryPoints,
             NEW prefix \in Prefixes, NEW header \in AuthHeaders,
             Begin(t, client, entry, prefix, header)
      PROVE  AuthOk' /\ CauseInv'
  BY <1>1, <1>4, <1>5 DEF Begin, historyVars
<1>6. ASSUME NEW t \in Threads, RateLimited(t) \/ RateOk(t) \/ BearerOk(t)
      PROVE  AuthOk' /\ CauseInv'
  <2>1. UNCHANGED <<authStates, failedAt, clock>>
    BY <1>6 DEF RateLimited, RateOk, BearerOk, historyVars
  <2>2. QED
    BY <1>1, <1>4, <2>1
<1>7. CASE ClockTick
  BY <1>1, <1>4, <1>7 DEF ClockTick, historyVars
<1>8. CASE UNCHANGED middleVars
  BY <1>1, <1>4, <1>8 DEF middleVars
<1>9. QED
  BY <1>2, <1>3, <1>5, <1>6, <1>7, <1>8 DEF MiddlewareNext, Check

(* What check_request leaves of the other clients: their windows, unless    *)
(* they are over.                                                           *)
LEMMA OthersWindows ==
  ASSUME MiddlewareInv, NEW ip \in Ips, NEW all,
         DOMAIN all = DOMAIN reqStates \cup {ip},
         \A x \in DOMAIN reqStates \ {ip} : all[x] = reqStates[x],
         Pruned(all, reqStates'), UNCHANGED clock,
         NEW x \in Ips, x # ip, allowedAt'[x] = allowedAt[x]
  PROVE  /\ Bounded(allowedAt'[x])
         /\ x \in DOMAIN reqStates' =>
              /\ x \in DOMAIN reqStates /\ reqStates'[x] = reqStates[x]
              /\ Running(allowedAt'[x], reqStates'[x].count, reqStates'[x].start)
         /\ x \notin DOMAIN reqStates' => Quiet(allowedAt'[x], clock')
<1>1. clock \in Nat /\ allowedAt[x] \in Seq(Nat) /\ Bounded(allowedAt[x])
  BY DEF MiddlewareInv, HistoryOk, WindowInv
<1>2. ASSUME x \in DOMAIN reqStates'
      PROVE  /\ x \in DOMAIN reqStates /\ reqStates'[x] = reqStates[x]
             /\ Running(allowedAt'[x], reqStates'[x].count, reqStates'[x].start)
  <2>1. x \in DOMAIN reqStates /\ reqStates'[x] = reqStates[x]
    BY <1>2 DEF Pruned
  <2>2. QED
    BY <2>1 DEF MiddlewareInv, WindowInv
<1>3. ASSUME x \notin DOMAIN reqStates' PROVE Quiet(allowedAt'[x], clock')
  <2>1. CASE x \notin DOMAIN reqStates
    BY <2>1 DEF MiddlewareInv, WindowInv
  <2>2. CASE x \in DOMAIN reqStates
    <3>1. clock >= reqStates[x].start + Window
      BY <1>3, <2>2 DEF Pruned
    <3>2. reqStates[x].start \in Nat /\ reqStates[x].count \in Nat
      BY <2>2 DEF MiddlewareInv, ReqOk, Entries
    <3>3. Running(allowedAt[x], reqStates[x].count, reqStates[x].start)
      BY <2>2 DEF MiddlewareInv, WindowInv
    <3>4. QED
      BY <1>1, <3>1, <3>2, <3>3, ExpiredIsQuiet
  <2>3. QED
    BY <2>1, <2>2
<1>4. QED
  BY <1>1, <1>2, <1>3

(* The request limiter's map after a request: windows of clients, started. *)
LEMMA ReqKept ==
  ASSUME ReqOk, clock \in Nat, UNCHANGED clock, NEW ip \in Ips, NEW all,
         DOMAIN all = DOMAIN reqStates \cup {ip},
         \A x \in DOMAIN reqStates \ {ip} : all[x] = reqStates[x],
         all[ip] \in Entries /\ all[ip].start <= clock,
         Pruned(all, reqStates')
  PROVE  ReqOk'
<1>1. \A x \in DOMAIN all : x \in Ips /\ all[x] \in Entries /\ all[x].start <= clock
  BY DEF ReqOk
<1>2. QED
  BY <1>1 DEF Pruned, ReqOk, Entries

(* A request passes. *)
LEMMA RateOkStep ==
  ASSUME MiddlewareInv, NEW t \in Threads, RateOk(t)
  PROVE  ReqOk' /\ HistoryOk' /\ RetryHonest' /\ WindowInv'
<1>1. PICK ip : ip = handling[t].ip
  OBVIOUS
<1>2. /\ ip \in Ips /\ clock \in Nat /\ ReqOk /\ came \in Nat
      /\ promised \in [Ips -> Nat] /\ allowedAt \in [Ips -> Seq(Nat)]
      /\ failedAt \in [Ips -> Seq(Nat)]
  BY <1>1, AtACheck DEF MiddlewareInv, RateOk, HistoryOk
<1>3. /\ CheckRequest(ip, 0) /\ UNCHANGED <<clock, came, failedAt>>
      /\ promised' = [promised EXCEPT ![ip] = 0]
      /\ allowedAt' = [allowedAt EXCEPT ![ip] = Append(allowedAt[ip], clock)]
  BY <1>1 DEF RateOk
<1>4. PICK all :
        /\ DOMAIN all = DOMAIN reqStates \cup {ip}
        /\ \A x \in DOMAIN reqStates \ {ip} : all[x] = reqStates[x]
        /\ all[ip] \in Entries /\ all[ip].start <= clock
        /\ Pruned(all, reqStates')
        /\ \/ /\ ip \in DOMAIN reqStates => clock >= reqStates[ip].start + Window
              /\ all[ip].count = 1 /\ all[ip].start = clock
           \/ /\ ip \in DOMAIN reqStates /\ clock < reqStates[ip].start + Window
              /\ reqStates[ip].count + 1 <= MaxRpm
              /\ all[ip].count = reqStates[ip].count + 1
              /\ all[ip].start = reqStates[ip].start
  <2>1. PICK retry : retry = 0 /\ ~(retry > 0)
    OBVIOUS
  <2>2. CheckRequest(ip, retry)
    BY <1>3, <2>1
  <2>3. \E all :
          /\ DOMAIN all = DOMAIN reqStates \cup {ip}
          /\ \A x \in DOMAIN reqStates \ {ip} : all[x] = reqStates[x]
          /\ all[ip] \in Entries /\ all[ip].start <= clock
          /\ \/ /\ retry = 0 /\ Pruned(all, reqStates')
                /\ ip \in DOMAIN reqStates => clock >= reqStates[ip].start + Window
                /\ all[ip].count = 1 /\ all[ip].start = clock
             \/ /\ retry = 0 /\ Pruned(all, reqStates')
                /\ ip \in DOMAIN reqStates /\ clock < reqStates[ip].start + Window
                /\ reqStates[ip].count + 1 <= MaxRpm
                /\ all[ip].count = reqStates[ip].count + 1
                /\ all[ip].start = reqStates[ip].start
             \/ /\ retry > 0 /\ reqStates' = all
                /\ ip \in DOMAIN reqStates
                /\ all[ip].count = reqStates[ip].count + 1
                /\ all[ip].start = reqStates[ip].start
                /\ clock + retry * TicksPerSecond >= all[ip].start + Window
    BY <1>2, <2>2, CheckRequestStep
  <2>4. QED
    BY <2>1, <2>3
<1>5. ReqOk'
  BY <1>2, <1>3, <1>4, ReqKept
<1>6. /\ Append(allowedAt[ip], clock) \in Seq(Nat)
      /\ allowedAt'[ip] = Append(allowedAt[ip], clock) /\ promised'[ip] = 0
      /\ \A x \in Ips \ {ip} : allowedAt'[x] = allowedAt[x] /\ promised'[x] = promised[x]
  BY <1>2, <1>3, HitsAppend
<1>7. HistoryOk'
  BY <1>2, <1>3, <1>6 DEF HistoryOk
<1>8. RetryHonest'
  <2> SUFFICES ASSUME NEW x \in DOMAIN reqStates', promised'[x] > 0
               PROVE  promised'[x] >= reqStates'[x].start + Minute * TicksPerSecond
    BY DEF RetryHonest
  <2>1. x \in Ips /\ x # ip
    BY <1>5, <1>6 DEF ReqOk
  <2>2. x \in DOMAIN reqStates /\ reqStates'[x] = reqStates[x] /\ promised'[x] = promised[x]
    BY <1>4, <1>6, <2>1 DEF Pruned
  <2>3. QED
    BY <2>2 DEF MiddlewareInv, RetryHonest
<1>9. /\ Bounded(allowedAt'[ip])
      /\ ip \in DOMAIN reqStates'
      /\ Running(allowedAt'[ip], reqStates'[ip].count, reqStates'[ip].start)
  <2>1. allowedAt[ip] \in Seq(Nat) /\ Bounded(allowedAt[ip])
    BY <1>2 DEF MiddlewareInv, WindowInv
  <2>2. ip \in DOMAIN reqStates =>
          /\ reqStates[ip].start \in Nat /\ reqStates[ip].count \in Nat
          /\ reqStates[ip].start <= clock
          /\ Running(allowedAt[ip], reqStates[ip].count, reqStates[ip].start)
    BY <1>2 DEF MiddlewareInv, WindowInv, ReqOk, Entries
  <2>3. /\ Running(allowedAt'[ip], all[ip].count, all[ip].start) /\ Bounded(allowedAt'[ip])
        /\ ~(clock >= all[ip].start + Window)
    <3>1. CASE /\ ip \in DOMAIN reqStates => clock >= reqStates[ip].start + Window
               /\ all[ip].count = 1 /\ all[ip].start = clock
      <4>1. Quiet(allowedAt[ip], clock)
        BY <1>2, <2>1, <2>2, <3>1, ExpiredIsQuiet DEF MiddlewareInv, WindowInv
      <4>2. QED
        BY <1>2, <1>6, <2>1, <3>1, <4>1, QuietStarts, WindowType
    <3>2. CASE /\ ip \in DOMAIN reqStates /\ clock < reqStates[ip].start + Window
               /\ reqStates[ip].count + 1 <= MaxRpm
               /\ all[ip].count = reqStates[ip].count + 1
               /\ all[ip].start = reqStates[ip].start
      <4>1. Running(allowedAt'[ip], all[ip].count, all[ip].start) /\ Bounded(allowedAt'[ip])
        BY <1>2, <1>6, <2>1, <2>2, <3>2, RunningGoesOn
      <4>2. QED
        BY <1>2, <2>2, <3>2, <4>1, WindowType
    <3>3. QED
      BY <1>4, <3>1, <3>2
  <2>4. ip \in DOMAIN reqStates' /\ reqStates'[ip] = all[ip]
    BY <1>4, <2>3 DEF Pruned
  <2>5. QED
    BY <2>3, <2>4
<1>10. WindowInv'
  <2> SUFFICES ASSUME NEW x \in Ips
               PROVE  /\ Bounded(allowedAt'[x])
                      /\ x \in DOMAIN reqStates' =>
                           Running(allowedAt'[x], reqStates'[x].count, reqStates'[x].start)
                      /\ x \notin DOMAIN reqStates' => Quiet(allowedAt'[x], clock')
    BY DEF WindowInv, Bounded, Running, Quiet, Hits, Since, Window
  <2>1. CASE x = ip
    BY <1>9, <2>1
  <2>2. CASE x # ip
    BY <1>2, <1>3, <1>4, <1>6, <2>2, OthersWindows
  <2>3. QED
    BY <2>1, <2>2
<1>11. QED
  BY <1>5, <1>7, <1>8, <1>10

(* A request is refused. *)
LEMMA RateLimitedStep ==
  ASSUME MiddlewareInv, NEW t \in Threads, RateLimited(t)
  PROVE  ReqOk' /\ HistoryOk' /\ RetryHonest' /\ WindowInv'
<1>1. PICK ip : ip = handling[t].ip
  OBVIOUS
<1>2. /\ ip \in Ips /\ clock \in Nat /\ ReqOk /\ came \in Nat
      /\ promised \in [Ips -> Nat] /\ allowedAt \in [Ips -> Seq(Nat)]
      /\ failedAt \in [Ips -> Seq(Nat)]
  BY <1>1, AtACheck DEF MiddlewareInv, RateLimited, HistoryOk
<1>3. PICK retry \in 1 .. Minute :
        /\ CheckRequest(ip, retry)
        /\ promised' = [promised EXCEPT ![ip] = clock + retry * TicksPerSecond]
  BY <1>1 DEF RateLimited
<1>4. UNCHANGED <<clock, came, failedAt, allowedAt>>
  BY DEF RateLimited
<1>5. retry \in Nat /\ ~(retry = 0) /\ clock + retry * TicksPerSecond \in Nat
  <2>1. TicksPerSecond \in Nat /\ Minute \in Nat
    BY LimiterAssumption
  <2>2. retry \in Nat /\ ~(retry = 0)
    BY <2>1
  <2>3. retry * TicksPerSecond \in Nat
    BY <2>1, <2>2
  <2>4. QED
    BY <1>2, <2>2, <2>3
<1>6. PICK all :
        /\ DOMAIN all = DOMAIN reqStates \cup {ip}
        /\ \A x \in DOMAIN reqStates \ {ip} : all[x] = reqStates[x]
        /\ all[ip] \in Entries /\ all[ip].start <= clock
        /\ reqStates' = all /\ ip \in DOMAIN reqStates
        /\ all[ip].count = reqStates[ip].count + 1
        /\ all[ip].start = reqStates[ip].start
        /\ clock + retry * TicksPerSecond >= all[ip].start + Window
  BY <1>2, <1>3, <1>5, CheckRequestStep
<1>7. Pruned(all, reqStates')
  BY <1>6 DEF Pruned
<1>8. ReqOk'
  BY <1>2, <1>4, <1>6, <1>7, ReqKept
<1>9. /\ promised'[ip] = clock + retry * TicksPerSecond
      /\ \A x \in Ips \ {ip} : promised'[x] = promised[x]
      /\ promised' \in [Ips -> Nat]
  BY <1>2, <1>3, <1>5
<1>10. HistoryOk'
  BY <1>2, <1>4, <1>9 DEF HistoryOk
<1>11. RetryHonest'
  <2> SUFFICES ASSUME NEW x \in DOMAIN reqStates', promised'[x] > 0
               PROVE  promised'[x] >= reqStates'[x].start + Minute * TicksPerSecond
    BY DEF RetryHonest
  <2>1. CASE x = ip
    BY <1>6, <1>9, <2>1 DEF Window
  <2>2. CASE x # ip
    <3>1. x \in DOMAIN reqStates /\ reqStates'[x] = reqStates[x] /\ promised'[x] = promised[x]
      BY <1>2, <1>6, <1>9, <2>2 DEF ReqOk
    <3>2. QED
      BY <3>1 DEF MiddlewareInv, RetryHonest
  <2>3. QED
    BY <2>1, <2>2
<1>12. WindowInv'
  <2> SUFFICES ASSUME NEW x \in Ips
               PROVE  /\ Bounded(allowedAt'[x])
                      /\ x \in DOMAIN reqStates' =>
                           Running(allowedAt'[x], reqStates'[x].count, reqStates'[x].start)
                      /\ x \notin DOMAIN reqStates' => Quiet(allowedAt'[x], clock')
    BY DEF WindowInv, Bounded, Running, Quiet, Hits, Since, Window
  <2>1. CASE x = ip
    <3>1. /\ Bounded(allowedAt[ip]) /\ allowedAt[ip] \in Seq(Nat)
          /\ Running(allowedAt[ip], reqStates[ip].count, reqStates[ip].start)
          /\ reqStates[ip].count \in Nat
      BY <1>2, <1>6 DEF MiddlewareInv, WindowInv, ReqOk, Entries
    <3>2. Running(allowedAt[ip], reqStates[ip].count + 1, reqStates[ip].start)
      BY <3>1, RunningRefuses
    <3>3. QED
      BY <1>4, <1>6, <2>1, <3>1, <3>2
  <2>2. CASE x # ip
    BY <1>2, <1>4, <1>6, <1>7, <2>2, OthersWindows
  <2>3. QED
    BY <2>1, <2>2
<1>13. QED
  BY <1>8, <1>10, <1>11, <1>12

(* Every step keeps the windows, and what clients were promised. *)
LEMMA ReqNext ==
  MiddlewareInv /\ [MiddlewareNext]_middleVars => ReqOk' /\ HistoryOk' /\ RetryHonest' /\ WindowInv'
<1> SUFFICES ASSUME MiddlewareInv, [MiddlewareNext]_middleVars
             PROVE  ReqOk' /\ HistoryOk' /\ RetryHonest' /\ WindowInv'
  OBVIOUS
<1>1. ReqOk /\ HistoryOk /\ RetryHonest /\ WindowInv
  BY DEF MiddlewareInv
<1>2. ASSUME UNCHANGED <<reqStates, promised, allowedAt>>, failedAt' \in [Ips -> Seq(Nat)],
             came' \in Nat, clock' = clock \/ clock' = clock + 1
      PROVE  ReqOk' /\ HistoryOk' /\ RetryHonest' /\ WindowInv'
  <2>1. clock \in Nat /\ clock' \in Nat /\ clock <= clock'
    BY <1>1, <1>2 DEF HistoryOk
  <2>2. ReqOk' /\ HistoryOk' /\ RetryHonest'
    <3>1. ReqOk'
      BY <1>1, <1>2, <2>1 DEF ReqOk, Entries
    <3>2. HistoryOk'
      BY <1>1, <1>2, <2>1 DEF HistoryOk
    <3>3. RetryHonest'
      BY <1>1, <1>2 DEF RetryHonest
    <3>4. QED
      BY <3>1, <3>2, <3>3
  <2>3. WindowInv'
    <3> SUFFICES ASSUME NEW x \in Ips
                 PROVE  /\ Bounded(allowedAt[x])
                        /\ x \in DOMAIN reqStates =>
                             Running(allowedAt[x], reqStates[x].count, reqStates[x].start)
                        /\ x \notin DOMAIN reqStates => Quiet(allowedAt[x], clock')
      BY <1>2 DEF WindowInv, Bounded, Running, Quiet, Hits, Since, Window
    <3>1. allowedAt[x] \in Seq(Nat)
      BY <1>1 DEF HistoryOk
    <3>2. x \notin DOMAIN reqStates => Quiet(allowedAt[x], clock')
      BY <1>1, <1>2, <2>1, <3>1, QuietLater DEF WindowInv
    <3>3. QED
      BY <1>1, <3>2 DEF WindowInv
  <2>4. QED
    BY <2>2, <2>3
<1>3. failedAt \in [Ips -> Seq(Nat)] /\ came \in Nat /\ clock \in Nat
  BY <1>1 DEF HistoryOk
<1>4. ASSUME NEW t \in Threads, NEW client \in Clients, NEW entry \in EntryPoints,
             NEW prefix \in Prefixes, NEW header \in AuthHeaders,
             Begin(t, client, entry, prefix, header)
      PROVE  ReqOk' /\ HistoryOk' /\ RetryHonest' /\ WindowInv'
  <2>1. UNCHANGED <<reqStates, promised, allowedAt, failedAt, clock>> /\ came' = came + 1
    BY <1>4 DEF Begin, historyVars
  <2>2. QED
    BY <1>2, <1>3, <2>1
<1>5. ASSUME NEW t \in Threads, CheckBlocked(t) \/ BearerOk(t)
      PROVE  ReqOk' /\ HistoryOk' /\ RetryHonest' /\ WindowInv'
  <2>1. UNCHANGED <<reqStates, promised, allowedAt, failedAt, clock, came>>
    BY <1>5 DEF CheckBlocked, BearerOk, historyVars
  <2>2. QED
    BY <1>2, <1>3, <2>1
<1>6. ASSUME NEW t \in Threads, BearerFails(t)
      PROVE  ReqOk' /\ HistoryOk' /\ RetryHonest' /\ WindowInv'
  <2>1. UNCHANGED <<reqStates, promised, allowedAt, clock, came>>
    BY <1>6 DEF BearerFails
  <2>2. PICK ip : ip = handling[t].ip
    OBVIOUS
  <2>3. ip \in Ips /\ failedAt' = [failedAt EXCEPT ![ip] = Append(failedAt[ip], clock)]
    BY <1>6, <2>2, AtACheck DEF BearerFails, MiddlewareInv
  <2>4. Append(failedAt[ip], clock) \in Seq(Nat)
    BY <1>3, <2>3, HitsAppend
  <2>5. failedAt' \in [Ips -> Seq(Nat)]
    BY <1>3, <2>3, <2>4
  <2>6. QED
    BY <1>2, <1>3, <2>1, <2>5
<1>7. CASE ClockTick
  BY <1>2, <1>3, <1>7 DEF ClockTick, historyVars
<1>8. CASE UNCHANGED middleVars
  BY <1>2, <1>3, <1>8 DEF middleVars
<1>9. QED
  BY <1>4, <1>5, <1>6, <1>7, <1>8, RateOkStep, RateLimitedStep DEF MiddlewareNext, Check

-----------------------------------------------------------------------------
(***************************************************************************)
(* The theorems                                                            *)
(***************************************************************************)
(* At first nobody is tracked and every thread is idle. *)
LEMMA MiddlewareInitInv == MiddlewareInit => MiddlewareInv
<1> SUFFICES ASSUME MiddlewareInit PROVE MiddlewareInv
  OBVIOUS
<1> USE DEF MiddlewareInit, LimiterInit
<1>1. DOMAIN authStates = {} /\ DOMAIN reqStates = {}
  BY DEF Empty
<1>2. AuthOk
  BY <1>1, FS_EmptySet, LimiterAssumption DEF AuthOk
<1>3. HistoryOk
  BY DEF HistoryOk
<1>4. HandlingOk
  BY DEF HandlingOk, Idle
<1>5. ReqOk /\ FailInv /\ CauseInv /\ RetryHonest
  BY <1>1 DEF ReqOk, FailInv, CauseInv, RetryHonest
<1>6. WindowInv
  BY <1>1, QuietAtFirst DEF WindowInv
<1>7. QED
  BY <1>2, <1>3, <1>4, <1>5, <1>6 DEF MiddlewareInv

(* The invariant of the middleware. *)
LEMMA MiddlewareInvHolds == MiddlewareSpec => []MiddlewareInv
<1>1. MiddlewareInv /\ [MiddlewareNext]_middleVars => MiddlewareInv'
  BY FailNext, AuthNext, ReqNext DEF MiddlewareInv
<1>2. QED
  BY <1>1, MiddlewareInitInv, PTL DEF MiddlewareSpec

(* The inductive invariant has the types among its conjuncts. *)
LEMMA InvTypes == MiddlewareInv => MiddlewareTypeOK
BY DEF MiddlewareInv, MiddlewareTypeOK, AuthOk, ReqOk, HistoryOk, HandlingOk, Range

(* Every variable of the middleware keeps its type, and the auth limiter    *)
(* its memory cap.                                                          *)
THEOREM MiddlewareTypeCorrect == MiddlewareSpec => []MiddlewareTypeOK
BY InvTypes, MiddlewareInvHolds, PTL

(* The failures counted for a client exceed max_failures by no more than    *)
(* the number of HTTP threads, however their checks interleave.             *)
THEOREM FailuresStayBounded == MiddlewareSpec => []FailuresBounded
<1>1. MiddlewareInv => FailuresBounded
  <2> SUFFICES ASSUME MiddlewareInv, NEW ip \in DOMAIN authStates
               PROVE  authStates[ip].count <= MaxFailures + Cardinality(Threads)
    BY DEF FailuresBounded
  <2>1. authStates[ip].count + Cardinality(Past(ip)) <= MaxFailures + Cardinality(Threads)
    BY DEF MiddlewareInv, FailInv
  <2>2. authStates[ip].count \in Nat
    BY DEF MiddlewareInv, AuthOk, Entries
  <2>3. QED
    BY <2>1, <2>2, PastFinite, LimiterAssumption
<1>2. QED
  BY <1>1, MiddlewareInvHolds, PTL

(* Nobody is blocked who did not fail more than max_failures times within   *)
(* one window.                                                              *)
THEOREM BlockedOnlyForCause == MiddlewareSpec => []BlockedForCause
<1>1. MiddlewareInv => BlockedForCause
  <2> SUFFICES ASSUME MiddlewareInv, NEW ip \in DOMAIN authStates,
                      authStates[ip].count > MaxFailures
               PROVE  Cardinality({i \in DOMAIN failedAt[ip] :
                         /\ failedAt[ip][i] >= authStates[ip].start
                         /\ failedAt[ip][i] <= authStates[ip].start + AuthWindow * TicksPerSecond})
                        > MaxFailures
    BY DEF BlockedForCause
  <2> DEFINE T == authStates[ip].start .. authStates[ip].start + AuthWindow * TicksPerSecond
  <2>1. authStates[ip] \in Entries /\ failedAt[ip] \in Seq(Nat)
    BY DEF MiddlewareInv, AuthOk, HistoryOk
  <2>2. authStates[ip].count \in Nat /\ authStates[ip].start \in Nat
    BY <2>1 DEF Entries
  <2>3. AuthWindow * TicksPerSecond \in Nat
    BY LimiterAssumption
  <2>4. \A i \in DOMAIN failedAt[ip] : failedAt[ip][i] \in Nat
    BY <2>1, LenProperties
  <2>5. {i \in DOMAIN failedAt[ip] :
           /\ failedAt[ip][i] >= authStates[ip].start
           /\ failedAt[ip][i] <= authStates[ip].start + AuthWindow * TicksPerSecond}
          = Hits(failedAt[ip], T)
    BY <2>2, <2>3, <2>4 DEF Hits
  <2>6. authStates[ip].count <= Cardinality(Hits(failedAt[ip], T))
    BY DEF MiddlewareInv, CauseInv
  <2> HIDE DEF T
  <2>7. Cardinality(Hits(failedAt[ip], T)) \in Nat
    BY <2>1, HitsFinite
  <2>8. QED
    BY <2>2, <2>5, <2>6, <2>7, LimiterAssumption
<1>2. QED
  BY <1>1, MiddlewareInvHolds, PTL

(* A client that waits as long as Retry-After told it finds its window over. *)
THEOREM RetryAfterIsHonest == MiddlewareSpec => []RetryHonest
<1>1. MiddlewareInv => RetryHonest
  BY DEF MiddlewareInv
<1>2. QED
  BY <1>1, MiddlewareInvHolds, PTL

(* No minute lets two windows' worth of requests of a client pass. *)
THEOREM FewerThanTwoWindows == MiddlewareSpec => []TwoWindowBound
<1>1. MiddlewareInv => TwoWindowBound
  <2> SUFFICES ASSUME MiddlewareInv, NEW ip \in Ips, NEW c \in 0 .. MaxClock
               PROVE  AllowedFrom(ip, c) < 2 * MaxRpm
    BY DEF TwoWindowBound
  <2>1. c \in Nat /\ Minute * TicksPerSecond \in Nat
    BY MiddlewareAssumption, LimiterAssumption
  <2>2. allowedAt[ip] \in Seq(Nat)
    BY DEF MiddlewareInv, HistoryOk
  <2>3. \A i \in DOMAIN allowedAt[ip] : allowedAt[ip][i] \in Nat
    BY <2>2, LenProperties
  <2>4. {i \in DOMAIN allowedAt[ip] :
           allowedAt[ip][i] >= c /\ allowedAt[ip][i] < c + Minute * TicksPerSecond}
          = Hits(allowedAt[ip], c .. c + Minute * TicksPerSecond - 1)
    BY <2>1, <2>3 DEF Hits
  <2>5. Cardinality(Hits(allowedAt[ip], c .. c + Minute * TicksPerSecond - 1)) < 2 * MaxRpm
    BY <2>1 DEF MiddlewareInv, WindowInv, Bounded, Window
  <2>6. QED
    BY <2>4, <2>5 DEF AllowedFrom
<1>2. QED
  BY <1>1, MiddlewareInvHolds, PTL

=============================================================================
