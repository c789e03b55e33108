----------------------------- MODULE RateLimiter -----------------------------
(***************************************************************************)
(* The gateway's rate limiter: RedisThrottlerStorage.increment, one Redis  *)
(* command per step, and the guard that refuses what it calls blocked.     *)
(* The clients are those that share one counter (one address, one route).  *)
(* Time is a step that shortens what the key has left to live.  The        *)
(* counter stops at Limit + 1: the code tells apart 1, up to the limit,    *)
(* and above it.  The block key (43-51) only decides the Retry-After       *)
(* header, which nothing here looks at.                                    *)
(***************************************************************************)
EXTENDS Naturals, FiniteSets

CONSTANTS
    Clients,    \* who asks, each with one request at a time
    Limit,      \* RATE_LIMIT_LIMIT
    Ttl,        \* RATE_LIMIT_TTL
    MaxBreaks   \* bound: requests that end half way

ASSUME LimiterAssumption ==
    /\ IsFiniteSet(Clients)
    /\ Limit \in Nat \ {0} /\ Ttl \in Nat \ {0} /\ MaxBreaks \in Nat

VARIABLES
    hits,       \* the counter, 0 while there is no key
    life,       \* ticks until the counter expires, 0 while it has no expiry
    step,       \* per client: step of its request
    current,    \* per client: what INCR returned, 0 when idle
    breaks      \* requests that ended half way

limiterVars == <<hits, life, step, current, breaks>>

LimiterSteps == {"idle", "first", "counted", "admitted", "limited"}

LimiterTypeOK ==
    /\ hits \in 0 .. Limit + 1
    /\ life \in 0 .. Ttl
    /\ step \in [Clients -> LimiterSteps]
    /\ current \in [Clients -> 0 .. Limit + 1]
    /\ breaks \in Nat

LimiterInit ==
    /\ hits = 0
    /\ life = 0
    /\ step = [c \in Clients |-> "idle"]
    /\ current = [c \in Clients |-> 0]
    /\ breaks = 0

-----------------------------------------------------------------------------
(* Mutant: the limit itself is refused one request too late. *)
OverByOne(n) == n > Limit + 1

(* isBlocked *)
Exceeds(n) == n > Limit

(* Mutant: every request sets the expiry again. *)
SlidingWindow(n) == "first"

(* Only the request that created the key sets its expiry. *)
AfterIncr(n) == IF n = 1 THEN "first" ELSE "counted"

(* INCR *)
Count(c) ==
    LET n == IF hits > Limit THEN hits ELSE hits + 1 IN
    /\ step[c] = "idle"
    /\ hits' = n
    /\ current' = [current EXCEPT ![c] = n]
    /\ step' = [step EXCEPT ![c] = AfterIncr(n)]
    /\ UNCHANGED <<life, breaks>>

(* Mutant: the expiry is not set. *)
NotExpiring(c) == life' = life

Expiring(c) == life' = Ttl

(* EXPIRE *)
SetExpiry(c) ==
    /\ step[c] = "first"
    /\ Expiring(c)
    /\ step' = [step EXCEPT ![c] = "counted"]
    /\ UNCHANGED <<hits, current, breaks>>

(* The record goes back to the guard, which throws a 429 or lets it pass.  *)
Decide(c) ==
    /\ step[c] = "counted"
    /\ step' = [step EXCEPT ![c] = IF Exceeds(current[c]) THEN "limited" ELSE "admitted"]
    /\ UNCHANGED <<hits, life, current, breaks>>

Return(c) ==
    /\ step' = [step EXCEPT ![c] = "idle"]
    /\ current' = [current EXCEPT ![c] = 0]

(* The client has its answer. *)
End(c) ==
    /\ step[c] \in {"admitted", "limited"}
    /\ Return(c)
    /\ UNCHANGED <<hits, life, breaks>>

(* The replica dies, or a Redis command fails, under the request. *)
Break(c) ==
    /\ step[c] # "idle"
    /\ breaks < MaxBreaks
    /\ breaks' = breaks + 1
    /\ Return(c)
    /\ UNCHANGED <<hits, life>>

(* Redis counts down; the key disappears when its time is over.            *)
Tick ==
    /\ life' = IF life > 0 THEN life - 1 ELSE 0
    /\ hits' = IF life = 1 THEN 0 ELSE hits
    /\ UNCHANGED <<step, current, breaks>>

Throttle(c) == SetExpiry(c) \/ Decide(c)

LimiterNext ==
    \/ \E c \in Clients : Count(c) \/ Throttle(c) \/ End(c) \/ Break(c)
    \/ Tick

LimiterSpec == LimiterInit /\ [][LimiterNext]_limiterVars

-----------------------------------------------------------------------------
(* Properties *)

(* A counter without an expiry has the request in progress that is about   *)
(* to set it, so it cannot stay for ever, unless a request ended half way  *)
(* (INCR and EXPIRE are two commands).                                     *)
CounterExpires ==
    breaks = 0 /\ hits > 0 /\ life = 0 => \E c \in Clients : step[c] = "first"
=============================================================================
