---------------------------- MODULE RateLimiter ----------------------------
(***************************************************************************)
(* SlidingWindowRateLimiter of core/security.py, as RateLimitMiddleware    *)
(* and ContactService call it.  allow() reads the clock before it takes    *)
(* the lock: other calls may go first, so hits enter a bucket out of order *)
(* and are compared with a floor that is out of date.                      *)
(***************************************************************************)
EXTENDS Naturals, FiniteSets

CONSTANTS Calls,     \* the calls of allow(); a hit is named by its call
          Keys,      \* client addresses
          MaxHits,   \* max_requests
          Window,    \* window_seconds
          MaxDelay,  \* how long a call may wait for the lock: 0 on the event
                     \* loop, more between worker threads
          MaxTime    \* where the model's clock stops

ASSUME RateLimiterAssumption ==
    /\ IsFiniteSet(Calls)
    /\ MaxHits \in Nat \ {0} /\ Window \in Nat \ {0}
    /\ MaxDelay \in Nat /\ MaxTime \in Nat

VARIABLES clock,
          state,      \* state[c]: where call c is
          key,        \* key[c]: the address it is for
          stamp,      \* stamp[c]: its variable now
          hits,       \* self._hits; a key without hits is not in the dict
          lastSweep,
          latest      \* the newest stamp a finished call had

limiterVars == <<clock, state, key, stamp, hits, lastSweep, latest>>

LimiterTypeOK ==
    /\ clock \in Nat
    /\ state \in [Calls -> {"new", "waiting", "accepted", "refused"}]
    /\ key \in [Calls -> Keys]
    /\ stamp \in [Calls -> Nat]
    /\ hits \in [Keys -> SUBSET Calls]
    /\ lastSweep \in Nat
    /\ latest \in Nat

LimiterInit ==
    /\ clock = 0
    /\ state = [c \in Calls |-> "new"]
    /\ key \in [Calls -> Keys]
    /\ stamp = [c \in Calls |-> 0]
    /\ hits = [k \in Keys |-> {}]
    /\ lastSweep = 0
    /\ latest = 0

-----------------------------------------------------------------------------
\* Fault variants, each substituted for the definition named beside it.
OneTooMany(bucket) == Cardinality(bucket) > MaxHits              \* Full
NeverSwept(now) == hits                                          \* Swept

-----------------------------------------------------------------------------
Tick ==
    /\ clock < MaxTime
    /\ \A c \in Calls : state[c] = "waiting" => clock < stamp[c] + MaxDelay
    /\ clock' = clock + 1
    /\ UNCHANGED <<state, key, stamp, hits, lastSweep, latest>>

\* now = time.time()
ReadClock(c) ==
    /\ state[c] = "new"
    /\ state' = [state EXCEPT ![c] = "waiting"]
    /\ stamp' = [stamp EXCEPT ![c] = clock]
    /\ UNCHANGED <<clock, key, hits, lastSweep, latest>>

\* t > now - window
Alive(now, c) == stamp[c] + Window > now

SweepDue(now) == now >= lastSweep + Window

Swept(now) ==
    IF SweepDue(now) THEN [k \in Keys |-> {c \in hits[k] : Alive(now, c)}] ELSE hits

Full(bucket) == Cardinality(bucket) >= MaxHits

\* The rest of allow(), under the lock.
Decide(c) ==
    LET now == stamp[c]
        swept == Swept(now)
        bucket == {d \in swept[key[c]] : Alive(now, d)}
        kept == IF Full(bucket) THEN bucket ELSE bucket \cup {c}
    IN
    /\ state[c] = "waiting"
    /\ state' = [state EXCEPT ![c] = IF Full(bucket) THEN "refused" ELSE "accepted"]
    /\ hits' = [swept EXCEPT ![key[c]] = kept]
    /\ lastSweep' = IF SweepDue(now) THEN now ELSE lastSweep
    /\ latest' = IF now > latest THEN now ELSE latest
    /\ UNCHANGED <<clock, key, stamp>>

LimiterNext == Tick \/ \E c \in Calls : ReadClock(c) \/ Decide(c)

LimiterSpec == LimiterInit /\ [][LimiterNext]_limiterVars

-----------------------------------------------------------------------------
Accepted(k) == {c \in Calls : state[c] = "accepted" /\ key[c] = k}

\* The accepted calls of k with a stamp in an interval that is shorter than the
\* window by the delay.
Burst(k, x) == {c \in Accepted(k) : x < stamp[c] /\ stamp[c] + MaxDelay <= x + Window}

\* "Per-client-IP sliding window" (middleware.py:39): over every interval of
\* that length, not only the one that ends now, a client gets at most MaxHits
\* calls through, whatever the order in which the lock is taken.  What the late
\* lock costs is the delay: bursts this much longer can exceed the limit.
WindowBounded == \A k \in Keys, x \in 0..MaxTime : Cardinality(Burst(k, x)) <= MaxHits

\* "Drops idle keys once per window so churning client IPs can't grow the dict
\* unboundedly" (security.py:181): a key stays in the dict for two windows and
\* the delay at most after its last hit, as long as anybody calls.
IdleKeysDropped ==
    \A k \in Keys : hits[k] # {} =>
        \E c \in hits[k] : stamp[c] + Window + Window + MaxDelay > latest
=============================================================================
