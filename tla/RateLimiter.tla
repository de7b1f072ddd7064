---------------------------- MODULE RateLimiter ----------------------------
(***************************************************************************)
(* InMemoryRateLimiter.hit, as RateLimitMiddleware calls it for every      *)
(* request: fixed windows per identity. hit runs on the event loop under a *)
(* lock and is one step. The clock counts ticks, PerSecond of them to a    *)
(* second, because the code mixes a fractional clock with whole seconds.   *)
(***************************************************************************)
EXTENDS Integers, FiniteSets

CONSTANTS
    Identities,     \* what _identity returns: API key, bearer token or address
    Limit,          \* settings.rate_limit_requests
    WindowSeconds,  \* settings.rate_limit_window_seconds
    PerSecond,      \* the clock's ticks in a second
    MaxTime,        \* bound: the clock stops here
    MaxHits         \* bound: the hits of one identity in one tick

ASSUME LimitAssumption == Limit \in Nat
ASSUME WindowAssumption == WindowSeconds \in Nat \ {0}
ASSUME TickAssumption == PerSecond \in Nat \ {0}
ASSUME BoundAssumption == MaxTime \in Nat /\ MaxHits \in Nat \ {0}

VARIABLES
    now,        \* time.monotonic
    started,    \* the identities in _buckets
    start,      \* window_start of each bucket
    count,      \* count of each bucket
    served,     \* the requests of an identity let through: <<tick, hit of the tick>>
    hits,       \* hits of an identity in this tick
    retryAt     \* Retry-After of its last hit as a time, -1 if let through

vars == <<now, started, start, count, served, hits, retryAt>>

Window == WindowSeconds * PerSecond
Times == 0 .. MaxTime

Init ==
    /\ now = 0
    /\ started = {}
    /\ start = [i \in Identities |-> 0]
    /\ count = [i \in Identities |-> 0]
    /\ served = [i \in Identities |-> {}]
    /\ hits = [i \in Identities |-> 0]
    /\ retryAt = [i \in Identities |-> -1]

(* The bucket is missing, or its window is over. *)
Expired(i) == i \notin started \/ now - start[i] >= Window

(* Mutant of NewStart: every hit starts a window. *)
NewStartAlways(i) == now

(* Mutants of NewCount: counting down, and the first hit not counted. *)
CountDown(i) == IF Expired(i) THEN 1 ELSE count[i] - 1
CountFromZero(i) == IF Expired(i) THEN 0 ELSE count[i] + 1

(* Mutant of RetryAfter: the fraction of a second is dropped. *)
RetryAfterTruncated(i) == ((Window - (now - start[i])) \div PerSecond) * PerSecond

NewStart(i) == IF Expired(i) THEN now ELSE start[i]
NewCount(i) == IF Expired(i) THEN 1 ELSE count[i] + 1

(* int(window - elapsed) + 1 seconds, in ticks. *)
RetryAfter(i) == ((Window - (now - NewStart(i))) \div PerSecond + 1) * PerSecond

(* The request is let through: 429 is not returned. *)
Allowed(i) ==
    /\ NewCount(i) =< Limit
    /\ served' = [served EXCEPT ![i] = @ \cup {<<now, hits[i] + 1>>}]
    /\ retryAt' = [retryAt EXCEPT ![i] = -1]

Refused(i) ==
    /\ NewCount(i) > Limit
    /\ retryAt' = [retryAt EXCEPT ![i] = now + RetryAfter(i)]
    /\ UNCHANGED served

Hit(i) ==
    /\ hits[i] < MaxHits
    /\ hits' = [hits EXCEPT ![i] = @ + 1]
    /\ started' = started \cup {i}
    /\ start' = [start EXCEPT ![i] = NewStart(i)]
    /\ count' = [count EXCEPT ![i] = NewCount(i)]
    /\ Allowed(i) \/ Refused(i)
    /\ UNCHANGED now

Tick ==
    /\ now < MaxTime
    /\ now' = now + 1
    /\ hits' = [i \in Identities |-> 0]
    /\ UNCHANGED <<started, start, count, served, retryAt>>

Next == Tick \/ \E i \in Identities : Hit(i)

Spec == Init /\ [][Next]_vars

-----------------------------------------------------------------------------
(* Properties *)

(* Every variable of the limiter has its type. *)
TypeOK ==
    /\ now \in Times
    /\ started \subseteq Identities
    /\ start \in [Identities -> Times]
    /\ count \in [Identities -> Nat]
    /\ served \in [Identities -> SUBSET (Times \X (1 .. MaxHits))]
    /\ hits \in [Identities -> 0 .. MaxHits]
    /\ retryAt \in [Identities -> Int]

(* Requests of i let through in the Window ticks that end with t. *)
ServedUpTo(i, t) == Cardinality({x \in served[i] : x[1] =< t /\ x[1] > t - Window})

(* Whatever interval of one window's length one looks at, no identity gets  *)
(* more than twice the limit: the burst that two fixed windows allow where  *)
(* they meet, and never more.                                               *)
BurstBound ==
    \A i \in Identities : \A t \in Times : ServedUpTo(i, t) =< 2 * Limit

(* No request is refused unless the limit was used up within the window's   *)
(* length before it: refused requests are counted, but they do not push the *)
(* end of the window back, so a client that keeps trying is served again.   *)
RefusalsEarned ==
    [][\A i \in Identities :
          hits'[i] > hits[i] /\ served'[i] = served[i] => ServedUpTo(i, now) >= Limit]_vars

(* A client that comes back when Retry-After told it to finds the window    *)
(* over, and is never told to wait more than a second past its end, for any *)
(* fraction of a second at which it was refused.                            *)
RetryAfterHonest ==
    \A i \in Identities : retryAt[i] # -1 =>
        /\ now >= retryAt[i] => Expired(i)
        /\ retryAt[i] =< start[i] + Window + PerSecond
=============================================================================
