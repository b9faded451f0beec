----------------------------- MODULE RateLimiter -----------------------------
(***************************************************************************)
(* The per-address rate limiter every service registers                    *)
(* (pkg/middleware/ratelimit.go).  A request fetches the limiter of its    *)
(* address under the mutex and asks it outside; a goroutine empties the    *)
(* whole map when it has grown too large, while requests hold limiters     *)
(* they fetched before.  One time step refills every bucket; the library   *)
(* does it lazily, in Allow.                                               *)
(***************************************************************************)
EXTENDS Tenancy, Naturals, FiniteSets

CONSTANTS
  Addresses,
  Requests,    \* goroutines that may be in the middleware at the same time
  Limiters,    \* limiter objects, reused once nothing refers to them
  Refill,      \* r: tokens per time step
  Burst,       \* b
  MaxIps,      \* the size above which the map is emptied, 10000 in the code
  MaxTime,     \* bound: time steps
  MaxResets    \* bound: times the map is emptied

VARIABLES
  ips,         \* the map: address -> limiter or None
  bucket,      \* limiter -> its tokens, None when nothing refers to it
  request,     \* per goroutine: its step, address and limiter
  time,
  admitted,    \* history: requests of an address that went on to the handler
  resets       \* history: how often the map was emptied

\* Rates, bursts and bounds are numbers; nil is neither a limiter, an address
\* nor a number of tokens.
ASSUME LimiterAssumption ==
  /\ Refill \in Nat /\ Burst \in Nat /\ MaxTime \in Nat /\ MaxResets \in Nat
  /\ None \notin Limiters /\ None \notin Addresses /\ None \notin 0..Burst

limiterVars == <<ips, bucket, request, time, admitted, resets>>

RequestIdle == [pc |-> "idle", ip |-> None, limiter |-> None]

MaxAdmitted == (MaxResets + 1) * (Burst + Refill * MaxTime)

LimiterTypeOK ==
  /\ ips \in [Addresses -> Limiters \cup {None}]
  /\ bucket \in [Limiters -> (0..Burst) \cup {None}]
  /\ request \in [Requests -> [pc : {"idle", "get", "allow"}, ip : Addresses \cup {None},
                               limiter : Limiters \cup {None}]]
  /\ time \in 0..MaxTime
  /\ admitted \in [Addresses -> 0..MaxAdmitted]
  /\ resets \in 0..MaxResets

LimiterInit ==
  /\ ips = [a \in Addresses |-> None]
  /\ bucket = [l \in Limiters |-> None]
  /\ request = [q \in Requests |-> RequestIdle]
  /\ time = 0
  /\ admitted = [a \in Addresses |-> 0]
  /\ resets = 0

-----------------------------------------------------------------------------

\* The runtime: a limiter that neither the map nor a request refers to is gone.
Collect(b, map, reqs) ==
  [l \in Limiters |-> IF \/ \E a \in Addresses : map[a] = l
                        \/ \E q \in Requests : reqs[q].limiter = l
                     THEN b[l] ELSE None]

Enter(q, a) ==
  /\ request[q] = RequestIdle
  /\ request' = [request EXCEPT ![q] = [pc |-> "get", ip |-> a, limiter |-> None]]
  /\ UNCHANGED <<ips, bucket, time, admitted, resets>>

NewLimiter == Draw({l \in Limiters : bucket[l] = None})

\* Mutant: a limiter is made whether the map has one or not, as two readers
\* that both found none would.
GetFresh(a) == NewLimiter

\* GetLimiter, under the lock: the address's limiter, or a new one
GetLimiter(a) == IF ips[a] # None THEN {ips[a]} ELSE NewLimiter

\* A new limiter has a full bucket and is stored in the map.
Lookup(q) ==
  /\ request[q].pc = "get"
  /\ \E l \in GetLimiter(request[q].ip) :
       /\ ips' = [ips EXCEPT ![request[q].ip] = l]
       /\ bucket' = IF bucket[l] = None THEN [bucket EXCEPT ![l] = Burst] ELSE bucket
       /\ request' = [request EXCEPT ![q].pc = "allow", ![q].limiter = l]
  /\ UNCHANGED <<time, admitted, resets>>

\* Allow and the handler's branch: a token is taken and the request goes on,
\* or it is answered 429.
Allow(q) ==
  LET l == request[q].limiter
      a == request[q].ip IN
  /\ request[q].pc = "allow"
  /\ request' = [request EXCEPT ![q] = RequestIdle]
  /\ IF bucket[l] > 0
     THEN /\ bucket' = Collect([bucket EXCEPT ![l] = @ - 1], ips, request')
          /\ admitted' = [admitted EXCEPT ![a] = @ + 1]
     ELSE bucket' = Collect(bucket, ips, request') /\ UNCHANGED admitted
  /\ UNCHANGED <<ips, time, resets>>

\* The clock: every bucket gains Refill tokens and holds at most Burst.
Tick ==
  /\ time < MaxTime
  /\ time' = time + 1
  /\ bucket' = [l \in Limiters |->
       IF bucket[l] = None THEN None
       ELSE IF bucket[l] + Refill > Burst THEN Burst ELSE bucket[l] + Refill]
  /\ UNCHANGED <<ips, request, admitted, resets>>

\* The cleanup goroutine
Cleanup ==
  /\ resets < MaxResets
  /\ Cardinality({a \in Addresses : ips[a] # None}) > MaxIps
  /\ ips' = [a \in Addresses |-> None]
  /\ bucket' = Collect(bucket, ips', request)
  /\ resets' = resets + 1
  /\ UNCHANGED <<request, time, admitted>>

LimiterNext ==
  \/ \E q \in Requests : (\E a \in Addresses : Enter(q, a)) \/ Lookup(q) \/ Allow(q)
  \/ Tick
  \/ Cleanup

LimiterSpec == LimiterInit /\ [][LimiterNext]_limiterVars

-----------------------------------------------------------------------------
(* Properties *)

\* However requests, refills and cleanups interleave, the requests of an
\* address that were let through never exceed a full burst and the refill of
\* the elapsed time, once more for every time the map was emptied
\* (GetLimiter, RateLimitMiddleware).
RateBounded ==
  \A a \in Addresses : admitted[a] <= (resets + 1) * (Burst + Refill * time)
====
