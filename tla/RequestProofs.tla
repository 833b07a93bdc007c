--------------------------- MODULE RequestProofs ----------------------------
(***************************************************************************)
(* Proofs about what answers requests: the limiter in front, the routes    *)
(* and guards of the pages and the API, the cached reads behind them, the  *)
(* pages of a listing and the contact form.                                *)
(***************************************************************************)
EXTENDS RateLimiter, TimedReads, Contact, Listing, HttpRouting, Integers,
        FiniteSetTheorems, SequenceTheorems, WellFoundedInduction, TLAPS

-----------------------------------------------------------------------------
(* The limiter, for every number of calls and keys, window, limit and      *)
(* delay.                                                                  *)

\* A call gets the lock within the delay.
Timely ==
    \A c \in Calls : state[c] = "waiting" => stamp[c] <= clock /\ clock <= stamp[c] + MaxDelay

\* A hit may be dropped only when a window has passed since.
Remembered ==
    \A c \in Calls : state[c] = "accepted" /\ stamp[c] + Window > clock => c \in hits[key[c]]

BucketsBounded == \A k \in Keys : Cardinality(hits[k]) <= MaxHits

BoundInv == LimiterTypeOK /\ Timely /\ Remembered /\ BucketsBounded /\ WindowBounded

\* The sweep was not long before the newest call, and no hit long before it.
SweepInv ==
    /\ lastSweep <= clock /\ latest < lastSweep + Window
    /\ \A k \in Keys : \A c \in hits[k] : stamp[c] + Window + MaxDelay > lastSweep

LEMMA BucketSize ==
    ASSUME NEW S \in SUBSET Calls
    PROVE  /\ IsFiniteSet(S) /\ Cardinality(S) \in Nat
           /\ \A T \in SUBSET S : Cardinality(T) <= Cardinality(S)
           /\ \A c \in Calls : Cardinality(S \cup {c}) <= Cardinality(S) + 1
<1>1. IsFiniteSet(S)
  BY RateLimiterAssumption, FS_Subset
<1>2. \A T \in SUBSET S : Cardinality(T) <= Cardinality(S)
  BY <1>1, FS_Subset
<1>3. \A c \in Calls : Cardinality(S \cup {c}) <= Cardinality(S) + 1
  BY <1>1, FS_AddElement, FS_CardinalityType
<1> QED  BY <1>1, <1>2, <1>3, FS_CardinalityType

\* What a call under the lock keeps of its bucket is never too much, and no hit
\* that is younger than the window at the stamp of the call is dropped.
LEMMA Decided ==
    ASSUME LimiterTypeOK, BucketsBounded, NEW c \in Calls, Decide(c)
    PROVE  /\ hits' \in [Keys -> SUBSET Calls]
           /\ BucketsBounded'
           /\ \A k \in Keys, d \in Calls :
                 d \in hits[k] /\ Alive(stamp[c], d) => d \in hits'[k]
           /\ state'[c] = "accepted" => c \in hits'[key[c]]
           /\ state'[c] \in {"accepted", "refused"}
           /\ \A d \in Calls \ {c} : state'[d] = state[d]
<1> DEFINE now == stamp[c]
           swept == Swept(now)
           bucket == {d \in swept[key[c]] : Alive(now, d)}
           retained == IF Full(bucket) THEN bucket ELSE bucket \cup {c}
<1>1. key[c] \in Keys /\ state'[c] = IF Full(bucket) THEN "refused" ELSE "accepted"
  BY DEF LimiterTypeOK, Decide
<1>2. \A d \in Calls \ {c} : state'[d] = state[d]
  BY DEF LimiterTypeOK, Decide
<1>3. /\ swept \in [Keys -> SUBSET Calls]
      /\ \A k \in Keys : swept[k] \in SUBSET hits[k]
      /\ \A k \in Keys : \A d \in hits[k] : Alive(now, d) => d \in swept[k]
  BY DEF Swept, LimiterTypeOK
<1>4. bucket \in SUBSET hits[key[c]] /\ bucket \in SUBSET Calls
  BY <1>1, <1>3
<1>5. retained \in SUBSET Calls /\ Cardinality(retained) <= MaxHits
  <2>1. CASE Full(bucket)
    <3>1. Cardinality(bucket) <= Cardinality(hits[key[c]])
      BY <1>1, <1>4, BucketSize DEF LimiterTypeOK
    <3>2. /\ Cardinality(hits[key[c]]) <= MaxHits
          /\ Cardinality(bucket) \in Nat /\ Cardinality(hits[key[c]]) \in Nat
      BY <1>1, <1>4, BucketSize DEF LimiterTypeOK, BucketsBounded
    <3> QED  BY <1>4, <2>1, <3>1, <3>2, RateLimiterAssumption
  <2>2. CASE ~Full(bucket)
    <3>1. /\ Cardinality(bucket) \in Nat /\ Cardinality(bucket) < MaxHits
      BY <1>4, <2>2, BucketSize, RateLimiterAssumption DEF Full
    <3>2. Cardinality(bucket \cup {c}) <= Cardinality(bucket) + 1
      BY <1>4, BucketSize
    <3>3. bucket \cup {c} \in SUBSET Calls /\ Cardinality(bucket \cup {c}) \in Nat
      BY <1>4, BucketSize
    <3>4. retained = bucket \cup {c}
      BY <2>2
    <3> HIDE DEF bucket, retained
    <3> QED  BY <3>1, <3>2, <3>3, <3>4, RateLimiterAssumption
  <2> QED  BY <2>1, <2>2
<1>6. hits' = [swept EXCEPT ![key[c]] = retained]
  BY DEF Decide
<1>7. \A d \in hits[key[c]] : Alive(now, d) => d \in retained
  BY <1>1, <1>3
<1>8. ~Full(bucket) => c \in retained
  OBVIOUS
<1> HIDE DEF swept, retained, bucket
<1>9. /\ hits'[key[c]] = retained
      /\ \A k \in Keys \ {key[c]} : hits'[k] = swept[k]
  BY <1>1, <1>3, <1>6
<1>10. BucketsBounded'
  <2> SUFFICES ASSUME NEW k \in Keys PROVE Cardinality(hits'[k]) <= MaxHits
    BY DEF BucketsBounded
  <2>1. CASE k = key[c]
    BY <1>5, <1>9, <2>1
  <2>2. CASE k # key[c]
    <3>1. hits'[k] \in SUBSET hits[k] /\ hits[k] \in SUBSET Calls
      BY <1>3, <1>9, <2>2 DEF LimiterTypeOK
    <3>2. /\ Cardinality(hits'[k]) <= Cardinality(hits[k]) /\ Cardinality(hits[k]) <= MaxHits
          /\ Cardinality(hits'[k]) \in Nat /\ Cardinality(hits[k]) \in Nat
      BY <3>1, BucketSize DEF BucketsBounded
    <3> QED  BY <3>2, RateLimiterAssumption
  <2> QED  BY <2>1, <2>2
<1> QED  BY <1>1, <1>2, <1>3, <1>5, <1>6, <1>7, <1>8, <1>9, <1>10

LEMMA BoundInit == LimiterInit => BoundInv
<1> SUFFICES ASSUME LimiterInit PROVE BoundInv
  OBVIOUS
<1>1. LimiterTypeOK /\ Timely /\ Remembered
  BY DEF LimiterInit, LimiterTypeOK, Timely, Remembered
<1>2. Cardinality({}) <= MaxHits
  BY FS_EmptySet, RateLimiterAssumption
<1>3. BucketsBounded
  BY <1>2 DEF LimiterInit, BucketsBounded
<1>4. ASSUME NEW k \in Keys, NEW x \in 0..MaxTime
      PROVE  Cardinality(Burst(k, x)) <= MaxHits
  <2>1. Burst(k, x) = {}
    BY DEF LimiterInit, Burst, Accepted
  <2> QED  BY <1>2, <2>1
<1> QED  BY <1>1, <1>3, <1>4 DEF BoundInv, WindowBounded

LEMMA BoundNext == BoundInv /\ [LimiterNext]_limiterVars => BoundInv'
<1> SUFFICES ASSUME BoundInv, [LimiterNext]_limiterVars PROVE BoundInv'
  OBVIOUS
<1> USE RateLimiterAssumption DEF BoundInv
<1>1. ASSUME Tick PROVE BoundInv'
  <2>1. LimiterTypeOK'
    BY <1>1 DEF Tick, LimiterTypeOK
  <2>2. Timely'
    BY <1>1 DEF Tick, Timely, LimiterTypeOK
  <2>3. Remembered'
    BY <1>1 DEF Tick, Remembered, LimiterTypeOK
  <2>4. BucketsBounded' /\ WindowBounded'
    BY <1>1 DEF Tick, BucketsBounded, WindowBounded, Burst, Accepted
  <2> QED  BY <2>1, <2>2, <2>3, <2>4
<1>2. ASSUME NEW c \in Calls, ReadClock(c) PROVE BoundInv'
  <2>1. LimiterTypeOK'
    BY <1>2 DEF ReadClock, LimiterTypeOK
  <2>2. Timely'
    BY <1>2 DEF ReadClock, Timely, LimiterTypeOK
  <2>3. Remembered'
    BY <1>2 DEF ReadClock, Remembered, LimiterTypeOK
  <2>4. BucketsBounded'
    BY <1>2 DEF ReadClock, BucketsBounded
  <2>5. \A k \in Keys, x \in 0..MaxTime : Burst(k, x)' = Burst(k, x)
    BY <1>2 DEF ReadClock, Burst, Accepted, LimiterTypeOK
  <2>6. WindowBounded'
    BY <2>5 DEF WindowBounded
  <2> QED  BY <2>1, <2>2, <2>3, <2>4, <2>6
<1>3. ASSUME NEW c \in Calls, Decide(c) PROVE BoundInv'
  <2>1. /\ state[c] = "waiting" /\ UNCHANGED <<clock, key, stamp>>
        /\ stamp[c] \in Nat /\ clock \in Nat /\ key[c] \in Keys
        /\ stamp[c] <= clock /\ clock <= stamp[c] + MaxDelay
    BY <1>3 DEF Decide, LimiterTypeOK, Timely
  <2>2. LimiterTypeOK'
    BY <1>3, Decided DEF Decide, LimiterTypeOK
  <2>3. Timely'
    BY <1>3, <2>1, Decided DEF Timely
  <2>4. Remembered'
    <3> SUFFICES ASSUME NEW d \in Calls, state'[d] = "accepted", stamp[d] + Window > clock
                 PROVE  d \in hits'[key[d]]
      BY <2>1 DEF Remembered
    <3>1. CASE d = c
      BY <1>3, <3>1, Decided
    <3>2. CASE d # c
      <4>1. d \in hits[key[d]] /\ key[d] \in Keys
        BY <1>3, <3>2, Decided DEF Remembered, LimiterTypeOK
      <4>2. Alive(stamp[c], d)
        BY <2>1 DEF Alive, LimiterTypeOK
      <4> QED  BY <1>3, <4>1, <4>2, Decided
    <3> QED  BY <3>1, <3>2
  <2>5. BucketsBounded'
    BY <1>3, Decided
  <2>6. WindowBounded'
    <3> SUFFICES ASSUME NEW k \in Keys, NEW x \in 0..MaxTime
                 PROVE  Cardinality(Burst(k, x)') <= MaxHits
      BY <2>1 DEF WindowBounded
    <3>1. CASE c \in Burst(k, x)'
      <4>1. k = key[c] /\ x < stamp[c] /\ stamp[c] + MaxDelay <= x + Window
        BY <2>1, <3>1 DEF Burst, Accepted
      <4>2. ASSUME NEW d \in Burst(k, x)' PROVE d \in hits'[k]
        <5>1. d \in Calls /\ state'[d] = "accepted" /\ key[d] = k /\ x < stamp[d]
          BY <2>1, <4>2 DEF Burst, Accepted
        <5>2. stamp[d] + Window > clock
          BY <2>1, <4>1, <5>1 DEF LimiterTypeOK
        <5> QED  BY <2>1, <2>4, <5>1, <5>2 DEF Remembered
      <4>3. hits'[k] \in SUBSET Calls /\ Cardinality(hits'[k]) <= MaxHits
        BY <2>5, <1>3, Decided DEF BucketsBounded
      <4>4. /\ Cardinality(Burst(k, x)') <= Cardinality(hits'[k])
            /\ Cardinality(Burst(k, x)') \in Nat /\ Cardinality(hits'[k]) \in Nat
        <5>1. Burst(k, x)' \in SUBSET hits'[k]
          BY <4>2
        <5>2. Burst(k, x)' \in SUBSET Calls
          BY <4>3, <5>1
        <5> QED  BY <4>3, <5>1, <5>2, BucketSize
      <4> QED  BY <4>3, <4>4
    <3>2. CASE c \notin Burst(k, x)'
      <4>1. Burst(k, x)' = Burst(k, x)
        BY <1>3, <2>1, <3>2, Decided DEF Burst, Accepted
      <4> QED  BY <4>1 DEF WindowBounded
    <3> QED  BY <3>1, <3>2
  <2> QED  BY <2>2, <2>3, <2>4, <2>5, <2>6
<1>4. CASE UNCHANGED limiterVars
  BY <1>4 DEF limiterVars, LimiterTypeOK, Timely, Remembered, BucketsBounded, WindowBounded,
              Burst, Accepted
<1> QED  BY <1>1, <1>2, <1>3, <1>4 DEF LimiterNext

\* The variables keep their types.
THEOREM LimiterTypeCorrect == LimiterSpec => []LimiterTypeOK
<1>1. BoundInv => LimiterTypeOK
  BY DEF BoundInv
<1> QED  BY <1>1, BoundInit, BoundNext, PTL DEF LimiterSpec

\* In whatever order calls take the lock, no interval that is shorter than the
\* window by the delay sees more than max_requests of one client get through:
\* all that do are still in the bucket when the last of them is let in.
THEOREM LimitHolds == LimiterSpec => []WindowBounded
<1>1. BoundInv => WindowBounded
  BY DEF BoundInv
<1> QED  BY <1>1, BoundInit, BoundNext, PTL DEF LimiterSpec

LEMMA SweepInit == LimiterInit => SweepInv
BY RateLimiterAssumption DEF LimiterInit, SweepInv

LEMMA SweepNext == BoundInv /\ SweepInv /\ [LimiterNext]_limiterVars => SweepInv'
<1> SUFFICES ASSUME BoundInv, SweepInv, [LimiterNext]_limiterVars PROVE SweepInv'
  OBVIOUS
<1> USE RateLimiterAssumption
<1>0. LimiterTypeOK /\ Timely /\ BucketsBounded
  BY DEF BoundInv
<1>1. ASSUME Tick PROVE SweepInv'
  BY <1>0, <1>1 DEF Tick, SweepInv, LimiterTypeOK
<1>2. ASSUME NEW c \in Calls, ReadClock(c) PROVE SweepInv'
  BY <1>0, <1>2 DEF ReadClock, SweepInv, LimiterTypeOK
<1>3. ASSUME NEW c \in Calls, Decide(c) PROVE SweepInv'
  <2>1. /\ UNCHANGED <<clock, key, stamp>> /\ key[c] \in Keys
        /\ stamp[c] <= clock /\ clock <= stamp[c] + MaxDelay
        /\ lastSweep' = IF SweepDue(stamp[c]) THEN stamp[c] ELSE lastSweep
        /\ latest' = IF stamp[c] > latest THEN stamp[c] ELSE latest
        /\ stamp \in [Calls -> Nat] /\ clock \in Nat /\ lastSweep \in Nat /\ latest \in Nat
    BY <1>0, <1>3 DEF Decide, LimiterTypeOK, Timely
  <2>2. ASSUME NEW k \in Keys, NEW d \in hits'[k]
        PROVE  \/ d = c
               \/ d \in hits[k] /\ (SweepDue(stamp[c]) => Alive(stamp[c], d))
    <3> DEFINE swept == Swept(stamp[c])
    <3>1. /\ swept \in [Keys -> SUBSET Calls]
          /\ \A d2 \in swept[k] : d2 \in hits[k] /\ (SweepDue(stamp[c]) => Alive(stamp[c], d2))
      BY <1>0 DEF Swept, LimiterTypeOK
    <3>2. d \in swept[k] \/ d = c
      BY <1>3, <2>1, <2>2, <3>1 DEF Decide
    <3> QED  BY <3>1, <3>2
  <2>3. lastSweep' <= clock /\ latest' < lastSweep' + Window
    BY <2>1 DEF SweepInv, SweepDue
  <2>4. ASSUME NEW k \in Keys, NEW d \in hits'[k]
        PROVE  stamp[d] + Window + MaxDelay > lastSweep'
    <3>1. d \in Calls
      BY <1>0, <2>2, <2>4 DEF LimiterTypeOK
    <3>2. CASE d = c
      BY <2>1, <2>3, <3>2
    <3>3. CASE d \in hits[k] /\ (SweepDue(stamp[c]) => Alive(stamp[c], d))
      BY <2>1, <3>1, <3>3 DEF SweepInv, Alive
    <3> QED  BY <2>2, <2>4, <3>2, <3>3
  <2> QED  BY <2>1, <2>3, <2>4 DEF SweepInv
<1>4. CASE UNCHANGED limiterVars
  BY <1>4 DEF limiterVars, SweepInv
<1> QED  BY <1>1, <1>2, <1>3, <1>4 DEF LimiterNext

\* No key outlives its last hit by more than two windows and the delay, seen
\* from the newest call: whoever calls sweeps the keys of those who do not.
THEOREM KeysDropped == LimiterSpec => []IdleKeysDropped
<1>1. BoundInv /\ SweepInv => IdleKeysDropped
  <2> SUFFICES ASSUME BoundInv, SweepInv, NEW k \in Keys, NEW c \in hits[k]
               PROVE  stamp[c] + Window + Window + MaxDelay > latest
    BY DEF IdleKeysDropped
  <2>1. stamp[c] \in Nat /\ latest \in Nat /\ lastSweep \in Nat
    BY DEF BoundInv, LimiterTypeOK
  <2>2. stamp[c] + Window + MaxDelay > lastSweep /\ latest < lastSweep + Window
    BY DEF SweepInv
  <2> QED  BY <2>1, <2>2, RateLimiterAssumption
<1> QED  BY <1>1, BoundInit, SweepInit, BoundNext, SweepNext, PTL DEF LimiterSpec

-----------------------------------------------------------------------------
(* What is shown was read at most a time to live and a load ago, for any   *)
(* times to live, any load and any number of viewers.                      *)

\* An entry expires a time to live after it was stored.
KeptInv ==
    \A k \in Entries :
        /\ kept[k].at <= time
        /\ kept[k].expires <= kept[k].at + MaxLoad + TimeToLive[k]

\* Rows are stored at most MaxLoad after they were read.
LoadInv ==
    \A v \in Viewers : loading[v] # NoLoad =>
        /\ loading[v].at <= time
        /\ time <= loading[v].at + MaxLoad

TInv == TimedTypeOK /\ KeptInv /\ LoadInv /\ StaleForAtMostTtl

\* A load that is under way.
Loads == [key : Entries, at : Nat, for : Purposes]

LEMMA TimedInit_TInv == TimedInit => TInv
BY TimedReadsAssumption
   DEF TimedInit, TInv, TimedTypeOK, KeptInv, LoadInv, StaleForAtMostTtl, NoRows, Entries

\* Reading rows starts a load, and nothing else.
LEMMA ReadKeeps ==
    ASSUME TInv, NEW v \in Viewers, NEW k \in Entries, NEW for \in Purposes, ReadRows(v, k, for),
           UNCHANGED <<time, viewed>>, kept' \in [Entries -> [at : Nat, expires : Nat]],
           \A e \in Entries : kept'[e] \in {kept[e], NoRows}
    PROVE  TInv'
<1>1. TimedTypeOK'
  BY TimedReadsAssumption DEF TInv, TimedTypeOK, ReadRows
<1>2. KeptInv'
  <2> SUFFICES ASSUME NEW e \in Entries
               PROVE  kept'[e].at <= time /\ kept'[e].expires <= kept'[e].at + MaxLoad + TimeToLive[e]
    BY DEF KeptInv
  <2>1. CASE kept'[e] = kept[e]
    BY <2>1 DEF TInv, KeptInv
  <2>2. CASE kept'[e] = NoRows
    BY <2>2, TimedReadsAssumption DEF TInv, TimedTypeOK, NoRows
  <2>3. QED BY <2>1, <2>2
<1>3. LoadInv'
  BY TimedReadsAssumption DEF TInv, TimedTypeOK, LoadInv, ReadRows
<1>4. QED BY <1>1, <1>2, <1>3 DEF TInv, StaleForAtMostTtl

LEMMA TimedStep == TInv /\ [TimedNext]_timedVars => TInv'
<1> SUFFICES ASSUME TInv, [TimedNext]_timedVars PROVE TInv'
  OBVIOUS
<1> USE TimedReadsAssumption
<1>1. CASE UNCHANGED timedVars
  BY <1>1 DEF timedVars, TInv, TimedTypeOK, KeptInv, LoadInv, StaleForAtMostTtl
<1>2. ASSUME NEW v \in Viewers, NEW k \in Entries, Hit(v, k) PROVE TInv'
  <2>1. /\ viewed' = [key |-> k, age |-> time - kept[k].at]
        /\ time < kept[k].expires /\ UNCHANGED <<time, kept, loading>>
    BY <1>2 DEF Hit, Live, ShowRows
  <2>2. /\ time - kept[k].at \in Nat
        /\ time - kept[k].at <= TimeToLive[k] + MaxLoad
    BY <2>1 DEF TInv, TimedTypeOK, KeptInv
  <2>3. QED BY <2>1, <2>2 DEF TInv, TimedTypeOK, KeptInv, LoadInv, StaleForAtMostTtl
<1>3. ASSUME NEW v \in Viewers, LoadMenu(v) PROVE TInv'
  BY <1>3, ReadKeeps DEF LoadMenu, TInv, TimedTypeOK, Entries, Purposes
<1>4. ASSUME NEW v \in Viewers, ComputeMetrics(v) PROVE TInv'
  BY <1>4, ReadKeeps DEF ComputeMetrics, TInv, TimedTypeOK, Entries, Purposes
<1>5. ASSUME NEW v \in Viewers, WarmUp(v) PROVE TInv'
  <2>1. kept' \in [Entries -> [at : Nat, expires : Nat]]
    BY <1>5 DEF WarmUp, TInv, TimedTypeOK, NoRows
  <2>2. \A e \in Entries : kept'[e] \in {kept[e], NoRows}
    BY <1>5 DEF WarmUp
  <2>3. QED BY <1>5, <2>1, <2>2, ReadKeeps DEF WarmUp, Entries, Purposes
<1>6. ASSUME NEW v \in Viewers, StoreRows(v) PROVE TInv'
  <2> DEFINE l == loading[v]
  <2>1. /\ l \in Loads /\ l # NoLoad
        /\ l.at <= time /\ time <= l.at + MaxLoad
    BY <1>6 DEF StoreRows, TInv, TimedTypeOK, LoadInv, Loads
  <2>2. kept' = [kept EXCEPT ![l.key] = [at |-> l.at, expires |-> time + TimeToLive[l.key]]]
    BY <1>6 DEF StoreRows
  <2>3. loading' = [loading EXCEPT ![v] = NoLoad] /\ time' = time
    BY <1>6 DEF StoreRows
  <2>4. viewed' = viewed \/ viewed' = [key |-> l.key, age |-> time - l.at]
    BY <1>6 DEF StoreRows, ShowRows
  <2>5. time + TimeToLive[l.key] \in Nat /\ time - l.at \in Nat /\ l.key \in Entries
    BY <2>1 DEF Loads, TInv, TimedTypeOK
  <2>6. KeptInv'
    BY <2>1, <2>2, <2>3, <2>5 DEF TInv, TimedTypeOK, KeptInv, Loads
  <2>7. LoadInv'
    BY <2>3 DEF TInv, LoadInv, TimedTypeOK
  <2>8. StaleForAtMostTtl'
    <3>1. CASE viewed' = viewed
      BY <3>1 DEF TInv, StaleForAtMostTtl
    <3>2. CASE viewed' = [key |-> l.key, age |-> time - l.at]
      <4>1. TimeToLive[l.key] \in Nat
        BY <2>5
      <4>2. time - l.at <= TimeToLive[l.key] + MaxLoad
        BY <2>1, <4>1 DEF Loads, TInv, TimedTypeOK
      <4>3. QED BY <3>2, <4>2 DEF StaleForAtMostTtl
    <3>3. QED BY <2>4, <3>1, <3>2
  <2>9. TimedTypeOK'
    BY <2>1, <2>2, <2>3, <2>4, <2>5 DEF TInv, TimedTypeOK, Loads
  <2>10. QED BY <2>6, <2>7, <2>8, <2>9 DEF TInv
<1>7. ASSUME NEW v \in Viewers, LoadFails(v) PROVE TInv'
  BY <1>7 DEF LoadFails, TInv, TimedTypeOK, KeptInv, LoadInv, StaleForAtMostTtl
<1>8. CASE DropMenus
  <2>1. kept' \in [Entries -> [at : Nat, expires : Nat]]
    BY <1>8 DEF DropMenus, TInv, TimedTypeOK, NoRows
  <2>2. KeptInv'
    BY <1>8 DEF DropMenus, TInv, TimedTypeOK, KeptInv, NoRows
  <2>3. QED BY <1>8, <2>1, <2>2 DEF DropMenus, TInv, TimedTypeOK, LoadInv, StaleForAtMostTtl
<1>9. CASE Second
  BY <1>9 DEF Second, TInv, TimedTypeOK, KeptInv, LoadInv, StaleForAtMostTtl
<1>10. QED BY <1>1, <1>2, <1>3, <1>4, <1>5, <1>6, <1>7, <1>8, <1>9 DEF TimedNext

\* Entries, loads and what is shown always have their types.
THEOREM TimedTypeCorrect == TimedSpec => []TimedTypeOK
<1>1. TInv => TimedTypeOK
  BY DEF TInv
<1>2. QED BY TimedInit_TInv, TimedStep, <1>1, PTL DEF TimedSpec

\* However loads, warm-ups, edits and failures interleave, nobody is shown rows
\* that were read more than a time to live and a load ago.
THEOREM StaleBounded == TimedSpec => []StaleForAtMostTtl
<1>1. TInv => StaleForAtMostTtl
  BY DEF TInv
<1>2. QED BY TimedInit_TInv, TimedStep, <1>1, PTL DEF TimedSpec

-----------------------------------------------------------------------------
(* What a visitor is told is true, for any number of submissions. *)

\* What a call has behind it, by where it is.
CallInv ==
    \A s \in Submissions :
        /\ sub[s].at # "answered" => s \notin failed /\ sub[s].answer = "none"
        /\ sub[s].at \notin {"new", "answered"} => ~sub[s].trap
        /\ sub[s].at \in {"new", "store", "audit", "notify"} => ran[s] = {}
        /\ sub[s].at = "plugin" => ran[s] = {"notify"}
        /\ sub[s].at \in {"new", "store", "audit"} => s \notin mailed
        /\ sub[s].at \in {"audit", "notify", "plugin"} => inbox[s] # "none"

ContactInv == ContactTypeOK /\ CallInv /\ HandlersIsolated /\ ReceivedIsStored

LEMMA ContactInit_Inv == ContactInit => ContactInv
<1> SUFFICES ASSUME ContactInit PROVE ContactInv
  OBVIOUS
<1>1. (CHOOSE s \in Submissions : TRUE) \in Submissions
  BY ContactAssumption
<1>2. ContactTypeOK
  <2>1. clerk \in [Clerks -> [at : {"idle", "read", "delete"}, about : Submissions]]
    BY <1>1 DEF ContactInit
  <2> QED  BY <2>1, ContactAssumption DEF ContactInit, ContactTypeOK, Subscribers
<1> QED  BY <1>2 DEF ContactInit, ContactInv, CallInv, HandlersIsolated, ReceivedIsStored

\* The gates, the row and the audit entry.
LEMMA SubmitKeeps ==
    ASSUME ContactInv, NEW s \in Submissions,
           \/ TripHoneypot(s) \/ AskLimiter(s) \/ StoreMessage(s) \/ AuditMessage(s)
           \/ InsertFails(s)
    PROVE  ContactInv'
<1> USE DEF ContactInv, ContactTypeOK, CallInv, HandlersIsolated, ReceivedIsStored, Answers,
            Moves, Subscribers
<1>1. CASE TripHoneypot(s)
  BY <1>1 DEF TripHoneypot
<1>2. CASE AskLimiter(s)
  <2>1. CASE passed < MaxPerWindow
    <3>1. passed \in Nat /\ passed' = passed + 1
      BY <1>2, <2>1, ContactAssumption DEF AskLimiter
    <3>2. passed' \in 0..MaxPerWindow
      BY <2>1, <3>1, ContactAssumption
    <3>3. /\ sub[s].at = "new" /\ ~sub[s].trap
          /\ sub' = [sub EXCEPT ![s].at = "store"]
          /\ UNCHANGED <<inbox, ran, mailed, failed, clerk>>
      BY <1>2, <2>1 DEF AskLimiter, AfterGates
    <3> QED  BY <3>2, <3>3
  <2>2. CASE ~(passed < MaxPerWindow)
    BY <1>2, <2>2 DEF AskLimiter
  <2> QED  BY <2>1, <2>2
<1>3. CASE StoreMessage(s)
  BY <1>3 DEF StoreMessage
<1>4. CASE AuditMessage(s)
  BY <1>4 DEF AuditMessage, FirstSubscriber
<1>5. CASE InsertFails(s)
  BY <1>5 DEF InsertFails
<1> QED  BY <1>1, <1>2, <1>3, <1>4, <1>5

\* The event goes to the next subscriber whether the last one returned or raised.
LEMMA PublishKeeps ==
    ASSUME ContactInv, NEW s \in Submissions, SubscriberReturns(s) \/ SubscriberRaises(s)
    PROVE  ContactInv'
<1>1. /\ sub[s].at \in {"notify", "plugin"}
      /\ ran' = [ran EXCEPT ![s] = ran[s] \cup {sub[s].at}]
      /\ UNCHANGED <<inbox, passed, failed, clerk>>
      /\ mailed' \in {mailed, mailed \cup {s}}
  BY DEF SubscriberReturns, SubscriberRaises, Publishing, Called, Subscribers
<1>2. sub' = IF sub[s].at = "notify" THEN [sub EXCEPT ![s].at = "plugin"]
             ELSE [sub EXCEPT ![s].at = "answered", ![s].answer = "received"]
  BY <1>1 DEF SubscriberReturns, SubscriberRaises, AfterException, NextSubscriber, LoopNext,
              Answers, Moves
<1> QED  BY <1>1, <1>2 DEF ContactInv, ContactTypeOK, CallInv, HandlersIsolated,
              ReceivedIsStored, Subscribers

LEMMA ContactStep == ContactInv /\ [ContactNext]_contactVars => ContactInv'
<1> SUFFICES ASSUME ContactInv, [ContactNext]_contactVars PROVE ContactInv'
  OBVIOUS
<1>1. CASE UNCHANGED contactVars
  BY <1>1 DEF contactVars, ContactInv, ContactTypeOK, CallInv, HandlersIsolated,
              ReceivedIsStored
<1>2. CASE WindowPasses
  BY <1>2, ContactAssumption
     DEF WindowPasses, ContactInv, ContactTypeOK, CallInv, HandlersIsolated, ReceivedIsStored
<1>3. ASSUME NEW a \in Clerks, NEW s \in Submissions, NEW op \in {"read", "delete"},
             OpenMessage(a, s, op)
      PROVE  ContactInv'
  BY <1>3 DEF OpenMessage, ContactInv, ContactTypeOK, CallInv, HandlersIsolated,
              ReceivedIsStored
<1>4. ASSUME NEW a \in Clerks, ActOnMessage(a) PROVE ContactInv'
  <2>1. UNCHANGED <<sub, passed, ran, mailed, failed>> /\ ContactTypeOK'
    BY <1>4 DEF ActOnMessage, ContactInv, ContactTypeOK
  <2>2. \A s \in Submissions : inbox[s] # "none" => inbox'[s] # "none"
    BY <1>4 DEF ActOnMessage, ContactInv, ContactTypeOK
  <2> QED  BY <2>1, <2>2 DEF ContactInv, CallInv, HandlersIsolated, ReceivedIsStored
<1> QED  BY <1>1, <1>2, <1>3, <1>4, SubmitKeeps, PublishKeeps DEF ContactNext

\* Calls, rows and clerks of the contact form always have their types.
THEOREM ContactTypeCorrect == ContactSpec => []ContactTypeOK
<1>1. ContactInv => ContactTypeOK
  BY DEF ContactInv
<1> QED  BY ContactInit_Inv, ContactStep, <1>1, PTL DEF ContactSpec

\* However submissions, failing inserts, raising subscribers and administrators
\* interleave, a visitor is told what became of the message.
THEOREM AnswersTrue == ContactSpec => []AnswersAreTrue
<1>1. ContactInv => AnswersAreTrue
  BY DEF ContactInv, AnswersAreTrue
<1> QED  BY ContactInit_Inv, ContactStep, <1>1, PTL DEF ContactSpec

-----------------------------------------------------------------------------
(* Whoever reads all pages of a listing sees all of it, for every size of  *)
(* page and of table.                                                      *)

\* Where pages begin.
LEMMA OffsetFacts ==
    \A p \in Nat \ {0} : Offset(p) \in Nat /\ Offset(p + 1) = Offset(p) + PageSize /\ Offset(1) = 0
<1> SUFFICES ASSUME NEW p \in Nat \ {0}
             PROVE  Offset(p) \in Nat /\ Offset(p + 1) = Offset(p) + PageSize /\ Offset(1) = 0
  OBVIOUS
<1>1. PageSize \in Nat
  BY ListingAssumption
<1>2. (p - 1) * PageSize \in Nat
  BY <1>1, SMTT(30)
<1>3. (p + 1 - 1) * PageSize = (p - 1) * PageSize + PageSize
  BY <1>1, SMTT(30)
<1>4. (1 - 1) * PageSize = 0
  BY <1>1
<1> QED  BY <1>2, <1>3, <1>4 DEF Offset

\* The rows of n full pages and a rest.
LEMMA Quotients == \A m \in Nat : m \div PageSize \in Int /\ m < (m \div PageSize) * PageSize + PageSize
BY ListingAssumption, SMTT(30)

\* The last page ends at the last row or after it.
LEMMA LastPageIsEnough ==
    \A n \in Nat : \A p \in Nat \ {0} : p >= PageCount(n) => Offset(p) + PageSize >= n
<1> SUFFICES ASSUME NEW n \in Nat, NEW p \in Nat \ {0}, p >= PageCount(n)
             PROVE  Offset(p) + PageSize >= n
  OBVIOUS
<1>1. PageSize \in Nat \ {0} /\ Offset(p) \in Nat
  BY ListingAssumption, OffsetFacts
<1>2. CASE n = 0
  BY <1>1, <1>2
<1>3. CASE n # 0
  <2> DEFINE m == n + PageSize - 1
             q == m \div PageSize
  <2>1. m \in Nat /\ q \in Int /\ m < q * PageSize + PageSize
    BY <1>1, Quotients
  <2>2. p >= q
    BY <1>3 DEF PageCount
  <2>3. n = m - PageSize + 1
    BY <1>1
  <2> HIDE DEF m, q
  <2>4. (p - q) * PageSize >= 0
    BY <1>1, <2>1, <2>2, SMTT(30)
  <2>5. (p - q) * PageSize = p * PageSize - q * PageSize
    BY <1>1, <2>1, SMTT(30)
  <2>6. p * PageSize \in Int /\ q * PageSize \in Int
    BY <1>1, <2>1
  <2>7. Offset(p) + PageSize = p * PageSize
    BY <1>1, SMTT(30) DEF Offset
  <2> QED  BY <1>1, <2>1, <2>3, <2>4, <2>5, <2>6, <2>7
<1> QED  BY <1>2, <1>3

\* How many rows come before one in a table without gaps.
LEMMA RowsBefore ==
    ASSUME NEW n \in Nat, NEW r \in 1..n
    PROVE  Cardinality({s \in 1..n : s > r}) = n - r
<1> DEFINE a == r + 1
<1>1. {s \in 1..n : s > r} = a..n
  BY SMTT(30)
<1>2. a \in Int /\ n \in Int /\ a <= n + 1 /\ n - a + 1 = n - r
  OBVIOUS
<1> HIDE DEF a
<1>3. Cardinality(a..n) = IF a > n THEN 0 ELSE n - a + 1
  BY <1>2, FS_Interval
<1>4. Cardinality(a..n) = n - a + 1
  BY <1>2, <1>3
<1> QED  BY <1>1, <1>2, <1>4

\* Until something disturbs the reading, the table has no gaps, the COUNT is
\* that of the SELECT, and what comes before the page was shown.
ReadInv ==
    /\ rows = 1..(nextId - 1)
    /\ stage = "select" => total = nextId - 1
    /\ FirstRows < nextId
    /\ stage # "over" => \A r \in 1..FirstRows : nextId - 1 - r < Offset(page) => r \in shown
    /\ stage = "over" => 1..FirstRows \subseteq shown

ListingInv == ListingTypeOK /\ (~disturbed => ReadInv)

LEMMA ListingStarts == ListingInit => ListingInv
<1> SUFFICES ASSUME ListingInit PROVE ListingInv
  OBVIOUS
<1>1. ListingTypeOK
  <2>1. disturbed \in BOOLEAN
    BY DEF ListingInit
  <2>2. rows \subseteq 1..LastId /\ nextId \in 1..(LastId + 1)
    BY ListingAssumption DEF ListingInit
  <2> QED  BY <2>1, <2>2 DEF ListingInit, ListingTypeOK
<1>2. Offset(page) = 0
  BY OffsetFacts DEF ListingInit
<1>3. ReadInv
  BY <1>2, ListingAssumption DEF ListingInit, ReadInv
<1> QED  BY <1>1, <1>3 DEF ListingInv

\* The first statement of a page counts the rows.
LEMMA CountKeeps == ListingInv /\ CountRows => ListingInv'
<1> SUFFICES ASSUME ListingInv, CountRows PROVE ListingInv'
  OBVIOUS
<1>1. /\ stage = "count" /\ total' = Cardinality(rows) /\ stage' = "select"
      /\ UNCHANGED <<rows, nextId, page, shown, disturbed>>
  BY DEF CountRows
<1>2. Cardinality(rows) \in Nat
  <2>1. rows \subseteq 1..LastId /\ IsFiniteSet(1..LastId)
    BY ListingAssumption, FS_Interval DEF ListingInv, ListingTypeOK
  <2> QED  BY <2>1, FS_Subset, FS_CardinalityType
<1>3. ListingTypeOK'
  BY <1>1, <1>2 DEF ListingInv, ListingTypeOK
<1>4. ASSUME ~disturbed PROVE ReadInv'
  <2>1. ReadInv /\ nextId \in Nat \ {0}
    BY <1>4 DEF ListingInv, ListingTypeOK
  <2>2. Cardinality(rows) = nextId - 1
    <3> DEFINE b == nextId - 1
    <3>1. b \in Nat /\ rows = 1..b
      BY <2>1 DEF ReadInv
    <3> HIDE DEF b
    <3>2. Cardinality(1..b) = IF 1 > b THEN 0 ELSE b - 1 + 1
      BY <3>1, FS_Interval
    <3>3. Cardinality(rows) = b
      BY <3>1, <3>2
    <3> QED  BY <3>3 DEF b
  <2> QED  BY <1>1, <2>1, <2>2 DEF ReadInv
<1> QED  BY <1>1, <1>3, <1>4 DEF ListingInv

\* The second statement reads the rows of the page.
LEMMA SelectKeeps == ListingInv /\ SelectRows => ListingInv'
<1> SUFFICES ASSUME ListingInv, SelectRows PROVE ListingInv'
  OBVIOUS
<1>1. /\ stage = "select" /\ shown' = shown \cup Slice(page)
      /\ UNCHANGED <<rows, nextId, total, disturbed>>
      /\ IF HasNext THEN page' = page + 1 /\ stage' = "count" ELSE stage' = "over" /\ page' = page
  BY DEF SelectRows
<1>2. Slice(page) \subseteq rows
  BY DEF Slice
<1>3. ListingTypeOK'
  <2>1. shown' \subseteq 1..LastId
    BY <1>1, <1>2 DEF ListingInv, ListingTypeOK
  <2>2. page' \in Nat \ {0} /\ stage' \in {"count", "select", "over"}
    BY <1>1 DEF ListingInv, ListingTypeOK
  <2>3. disturbed' \in BOOLEAN
    BY <1>1 DEF ListingInv, ListingTypeOK
  <2> QED  BY <1>1, <2>1, <2>2, <2>3 DEF ListingInv, ListingTypeOK
<1>4. ASSUME ~disturbed PROVE ReadInv'
  <2> DEFINE n == nextId - 1
  <2>1. ReadInv /\ n \in Nat /\ nextId = n + 1 /\ page \in Nat \ {0} /\ FirstRows \in Nat
    BY <1>4, ListingAssumption DEF ListingInv, ListingTypeOK
  <2>2. rows = 1..n /\ total = n /\ FirstRows <= n
    BY <1>1, <2>1 DEF ReadInv
  <2>3. Offset(page) \in Nat /\ Offset(page + 1) = Offset(page) + PageSize /\ PageSize \in Nat
    BY <2>1, OffsetFacts, ListingAssumption
  <2>4. ASSUME NEW r \in 1..FirstRows, n - r < Offset(page) + PageSize PROVE r \in shown'
    <3>1. CASE n - r < Offset(page)
      BY <1>1, <2>1, <3>1 DEF ReadInv
    <3>2. CASE ~(n - r < Offset(page))
      <4>1. r \in 1..n
        BY <2>1, <2>2
      <4>2. Cardinality({s \in rows : s > r}) = n - r
        BY <2>1, <2>2, <4>1, RowsBefore
      <4>3. n - r \in Int /\ Offset(page) <= n - r
        BY <2>1, <2>3, <3>2, <4>1
      <4> HIDE DEF n
      <4>4. r \in Slice(page)
        BY <2>2, <2>4, <4>1, <4>2, <4>3 DEF Slice
      <4> QED  BY <1>1, <4>4
    <3> QED  BY <3>1, <3>2
  <2>5. CASE HasNext
    BY <1>1, <2>1, <2>3, <2>4, <2>5 DEF ReadInv
  <2>6. CASE ~HasNext
    <3>1. page >= PageCount(n)
      <4>1. PageCount(n) \in Int
        BY <2>1, Quotients, ListingAssumption DEF PageCount
      <4> QED  BY <2>1, <2>2, <2>6, <4>1 DEF HasNext
    <3>2. Offset(page) + PageSize >= n
      BY <2>1, <3>1, LastPageIsEnough
    <3>3. \A r \in 1..FirstRows : n - r < Offset(page) + PageSize
      BY <2>1, <2>3, <3>2
    <3> HIDE DEF n
    <3>4. 1..FirstRows \subseteq shown'
      BY <2>4, <3>3
    <3> QED  BY <1>1, <2>1, <2>6, <3>4 DEF ReadInv
  <2> QED  BY <2>5, <2>6
<1> QED  BY <1>1, <1>3, <1>4 DEF ListingInv

\* Rows that come and go between pages.
LEMMA RowsComeAndGo == ListingInv /\ (AddRow \/ DeleteRow) => ListingInv'
<1> SUFFICES ASSUME ListingInv, AddRow \/ DeleteRow PROVE ListingInv'
  OBVIOUS
<1>1. ASSUME AddRow PROVE ListingInv'
  <2>1. /\ stage # "over" /\ nextId <= LastId /\ rows' = rows \cup {nextId} /\ nextId' = nextId + 1
        /\ disturbed' = (disturbed \/ stage = "select") /\ UNCHANGED <<page, total, stage, shown>>
    BY <1>1 DEF AddRow
  <2>2. disturbed' \in BOOLEAN
    BY <2>1
  <2>3. ListingTypeOK'
    BY <2>1, <2>2, ListingAssumption DEF ListingInv, ListingTypeOK
  <2>4. ASSUME ~disturbed' PROVE ReadInv'
    <3>1. ReadInv /\ stage = "count" /\ nextId \in Nat \ {0}
      <4>1. ~disturbed /\ stage # "select"
        BY <2>1, <2>4, Zenon
      <4> QED  BY <2>1, <4>1 DEF ListingInv, ListingTypeOK
    <3>2. rows' = 1..nextId
      BY <2>1, <3>1 DEF ReadInv
    <3>3. Offset(page) \in Nat
      BY OffsetFacts DEF ListingInv, ListingTypeOK
    <3> QED  BY <2>1, <3>1, <3>2, <3>3, ListingAssumption DEF ReadInv
  <2> QED  BY <2>3, <2>4 DEF ListingInv
<1>2. ASSUME DeleteRow PROVE ListingInv'
  <2>1. disturbed' = TRUE
    BY <1>2 DEF DeleteRow
  <2>2. disturbed' \in BOOLEAN /\ disturbed'
    BY <2>1
  <2>3. ListingTypeOK'
    BY <1>2, <2>2 DEF DeleteRow, ListingInv, ListingTypeOK
  <2> QED  BY <2>2, <2>3 DEF ListingInv
<1> QED  BY <1>1, <1>2

\* The inductive invariant of a listing, for every size of page and table.
THEOREM ListingInvariant == ListingSpec => []ListingInv
<1>1. ListingInv /\ UNCHANGED listingVars => ListingInv'
  BY DEF listingVars, ListingInv, ListingTypeOK, ReadInv, Offset
<1>2. ListingInv /\ [ListingNext]_listingVars => ListingInv'
  BY <1>1, CountKeeps, SelectKeeps, RowsComeAndGo DEF ListingNext
<1> QED  BY ListingStarts, <1>2, PTL DEF ListingSpec

\* The variables of a listing keep their types.
THEOREM ListingTypeCorrect == ListingSpec => []ListingTypeOK
<1>1. ListingInv => ListingTypeOK
  BY DEF ListingInv
<1> QED  BY ListingInvariant, <1>1, PTL

\* For every page size and every number of rows, a client that reads to the last
\* page has seen what was there when it began, unless a row was deleted, or was
\* added between the two statements of a page.
THEOREM NoRowMissed == ListingSpec => []NothingMissed
<1>1. ListingInv => NothingMissed
  BY DEF ListingInv, ReadInv, NothingMissed
<1> QED  BY ListingInvariant, <1>1, PTL

-----------------------------------------------------------------------------
(* Requests are answered as promised, and pages and API let the same       *)
(* accounts in, for every deployment and plugin.                           *)

Params == {"{n}", "{s}"}
Guarded == {"open", "page", "pending page", "auth", "admin"}

IsSeq(s) == \E S : s \in Seq(S)

\* A row is <<method, path>>, and r comes before s.
IsRow(r) == r[1] \in Methods /\ IsSeq(r[2])
Before(r, s) == r[1] = s[1] => ~Fits(s[2], r[2])

IsRows(rs) == IsSeq(rs) /\ \A k \in DOMAIN rs : IsRow(rs[k])
CleanRows(rs) == \A j, k \in DOMAIN rs : j < k => Before(rs[j], rs[k])

IsTable(T) ==
    /\ IsSeq(T)
    /\ \A k \in DOMAIN T : T[k].method \in Methods /\ IsSeq(T[k].path) /\ T[k].access \in Guarded

\* No route takes what a later one of its method is for.
Clean(T) ==
    \A j, k \in DOMAIN T : j < k /\ T[j].method = T[k].method => ~Fits(T[k].path, T[j].path)

\* No route of S takes what one of T is for.
Apart(S, T) == \A j \in DOMAIN S, k \in DOMAIN T : ~Fits(T[k].path, S[j].path)

\* What the paths of a table have at position i, and that they reach it.
HasAt(T, i, names) == \A k \in DOMAIN T : Len(T[k].path) >= i => T[k].path[i] \in names
Reaches(T, i) == \A k \in DOMAIN T : Len(T[k].path) >= i

IsPage(access) == access \in {"page", "pending page"}
NoPages(T) == \A k \in DOMAIN T : ~IsPage(T[k].access)

\* Short sequences are sequences.
LEMMA ShortSeqs ==
    /\ IsSeq(<<>>) /\ \A a : IsSeq(<<a>>)
    /\ \A a, b : IsSeq(<<a, b>>)
    /\ \A a, b, c : IsSeq(<<a, b, c>>)
<1>1. <<>> \in Seq({})
  OBVIOUS
<1>2. ASSUME NEW a PROVE <<a>> \in Seq({a})
  OBVIOUS
<1>3. ASSUME NEW a, NEW b PROVE <<a, b>> \in Seq({a, b})
  OBVIOUS
<1>4. ASSUME NEW a, NEW b, NEW c PROVE <<a, b, c>> \in Seq({a, b, c})
  OBVIOUS
<1> QED  BY <1>1, <1>2, <1>3, <1>4 DEF IsSeq

\* The length and the domain of a sequence.
LEMMA SeqFacts == \A s : IsSeq(s) => Len(s) \in Nat /\ DOMAIN s = 1..Len(s)
<1> SUFFICES ASSUME NEW s, NEW S, s \in Seq(S) PROVE Len(s) \in Nat /\ DOMAIN s = 1..Len(s)
  BY DEF IsSeq
<1> QED  OBVIOUS

\* Two sequences, one after the other.
LEMMA Joined ==
    ASSUME NEW s, NEW t, IsSeq(s), IsSeq(t)
    PROVE  /\ IsSeq(s \o t) /\ Len(s \o t) = Len(s) + Len(t)
           /\ DOMAIN (s \o t) = 1..(Len(s) + Len(t))
           /\ \A k \in 1..Len(s) : (s \o t)[k] = s[k]
           /\ \A k \in 1..Len(t) : (s \o t)[Len(s) + k] = t[k]
<1>1. PICK S, T : s \in Seq(S) /\ t \in Seq(T)
  BY DEF IsSeq
<1> DEFINE U == S \cup T
<1>2. s \in Seq(U) /\ t \in Seq(U)
  BY <1>1
<1> HIDE DEF U
<1>3. s \o t \in Seq(U)
  BY <1>2
<1>4. /\ Len(s \o t) = Len(s) + Len(t) /\ DOMAIN (s \o t) = 1..(Len(s) + Len(t))
      /\ \A k \in 1..Len(s) : (s \o t)[k] = s[k]
      /\ \A k \in 1..Len(t) : (s \o t)[Len(s) + k] = t[k]
  BY <1>2
<1> QED  BY <1>3, <1>4 DEF IsSeq

\* What is in two sequences, one after the other, is in one of them.
LEMMA FromBoth ==
    ASSUME NEW s, NEW t, IsSeq(s), IsSeq(t)
    PROVE  /\ \A k \in DOMAIN (s \o t) :
                 \/ k \in DOMAIN s /\ (s \o t)[k] = s[k]
                 \/ k > Len(s) /\ k - Len(s) \in DOMAIN t /\ (s \o t)[k] = t[k - Len(s)]
           /\ ToSet(s \o t) = ToSet(s) \cup ToSet(t)
<1> DEFINE u == s \o t
           m == Len(s)
           n == Len(t)
<1>1. /\ m \in Nat /\ n \in Nat /\ DOMAIN s = 1..m /\ DOMAIN t = 1..n
      /\ DOMAIN u = 1..(m + n)
      /\ \A k \in 1..m : u[k] = s[k]
      /\ \A k \in 1..n : u[m + k] = t[k]
  BY SeqFacts, Joined
<1> HIDE DEF u, m, n
<1>2. ASSUME NEW k \in DOMAIN u, k \notin 1..m PROVE k > m /\ k - m \in DOMAIN t /\ u[k] = t[k - m]
  <2>1. k - m \in 1..n /\ m + (k - m) = k
    BY <1>1, <1>2
  <2> QED  BY <1>1, <2>1
<1>3. ToSet(u) = ToSet(s) \cup ToSet(t)
  <2>1. ToSet(u) \subseteq ToSet(s) \cup ToSet(t)
    BY <1>1, <1>2 DEF ToSet
  <2>2. \A k \in DOMAIN s : k \in DOMAIN u /\ u[k] = s[k]
    BY <1>1
  <2>3. \A k \in DOMAIN t : m + k \in DOMAIN u /\ u[m + k] = t[k]
    BY <1>1
  <2> QED  BY <2>1, <2>2, <2>3 DEF ToSet
<1> QED  BY <1>1, <1>2, <1>3 DEF u, m

\* What fits a short pattern.
LEMMA ShortFits ==
    /\ \A p, q : Fits(p, q) => Len(p) = Len(q)
    /\ \A a, b : Fits(<<a>>, <<b>>) => b \in {a} \cup Params
    /\ \A a, b, c, d : Fits(<<a, b>>, <<c, d>>) => c \in {a} \cup Params /\ d \in {b} \cup Params
<1>1. ASSUME NEW a, NEW b, Fits(<<a>>, <<b>>) PROVE b \in {a} \cup Params
  <2>1. 1 \in DOMAIN <<a>>
    OBVIOUS
  <2> QED  BY <1>1, <2>1 DEF Fits, Params
<1>2. ASSUME NEW a, NEW b, NEW c, NEW d, Fits(<<a, b>>, <<c, d>>)
      PROVE  c \in {a} \cup Params /\ d \in {b} \cup Params
  <2>1. 1 \in DOMAIN <<a, b>> /\ 2 \in DOMAIN <<a, b>>
    OBVIOUS
  <2> QED  BY <1>2, <2>1 DEF Fits, Params
<1> QED  BY <1>1, <1>2 DEF Fits

\* What fits behind a prefix fits without it.
LEMMA FitsBelow ==
    ASSUME NEW prefix, NEW x, NEW y, IsSeq(prefix), IsSeq(x), IsSeq(y),
           Fits(prefix \o x, prefix \o y)
    PROVE  Fits(x, y)
<1> DEFINE px == prefix \o x
           py == prefix \o y
           m == Len(prefix)
           a == Len(x)
           b == Len(y)
<1>1. /\ Len(px) = m + a /\ Len(py) = m + b /\ DOMAIN px = 1..(m + a)
      /\ \A k \in 1..a : px[m + k] = x[k]
      /\ \A k \in 1..b : py[m + k] = y[k]
  BY Joined
<1>2. m \in Nat /\ a \in Nat /\ b \in Nat /\ DOMAIN x = 1..a
  BY SeqFacts
<1>3. Len(px) = Len(py) /\ \A k \in DOMAIN px : py[k] \in {px[k], "{n}", "{s}"}
  BY DEF Fits
<1> HIDE DEF px, py, m, a, b
<1>4. a = b
  <2>1. m + a = m + b
    BY <1>1, <1>3
  <2>2. m \in Nat /\ a \in Nat /\ b \in Nat
    BY <1>2
  <2> QED  BY <2>1, <2>2
<1>5. ASSUME NEW k \in DOMAIN x PROVE y[k] \in {x[k], "{n}", "{s}"}
  <2>1. k \in 1..a /\ k \in 1..b /\ m + k \in DOMAIN px
    BY <1>1, <1>2, <1>4
  <2> QED  BY <1>1, <1>3, <2>1
<1> QED  BY <1>4, <1>5 DEF Fits, a, b

\* Mounting rows keeps their order and puts the prefix before each.
LEMMA MountFacts ==
    ASSUME NEW rs, IsRows(rs), NEW prefix, IsSeq(prefix), NEW access \in Guarded
    PROVE  LET T == Mount(prefix, access, rs) IN
           /\ IsTable(T) /\ DOMAIN T = DOMAIN rs
           /\ \A k \in DOMAIN T :
                 /\ T[k] = [method |-> rs[k][1], path |-> prefix \o rs[k][2], access |-> access]
                 /\ IsSeq(rs[k][2])
           /\ CleanRows(rs) => Clean(T)
           /\ \A i \in 1..Len(prefix) : HasAt(T, i, {prefix[i]}) /\ Reaches(T, i)
           /\ ~IsPage(access) => NoPages(T)
<1> DEFINE T == Mount(prefix, access, rs)
           n == Len(rs)
<1>1. DOMAIN rs = 1..n /\ n \in Nat /\ \A k \in 1..n : IsRow(rs[k])
  BY SeqFacts DEF IsRows
<1>2. T = [k \in 1..n |->
              [method |-> rs[k][1], path |-> prefix \o rs[k][2], access |-> access]]
  BY <1>1 DEF Mount
<1> HIDE DEF T, n
<1>3. \A k \in 1..n : rs[k][1] \in Methods /\ IsSeq(rs[k][2]) /\ IsSeq(prefix \o rs[k][2])
  BY <1>1, Joined DEF IsRow
<1>4. \A k \in 1..n : T[k].method = rs[k][1] /\ T[k].path = prefix \o rs[k][2] /\ T[k].access = access
  BY <1>2
<1>5. IsSeq(T)
  <2>1. T \in [1..n -> {T[k] : k \in 1..n}]
    BY <1>2
  <2> QED  BY <1>1, <2>1, SeqDef DEF IsSeq
<1>6. IsTable(T) /\ DOMAIN T = 1..n
  BY <1>2, <1>3, <1>4, <1>5 DEF IsTable
<1>7. ASSUME CleanRows(rs) PROVE Clean(T)
  <2>1. ASSUME NEW j \in 1..n, NEW k \in 1..n, Fits(T[k].path, T[j].path)
        PROVE  Fits(rs[k][2], rs[j][2])
    <3>1. Fits(prefix \o rs[k][2], prefix \o rs[j][2])
      BY <1>4, <2>1
    <3> QED  BY <1>3, <3>1, FitsBelow
  <2> QED  BY <1>1, <1>4, <1>6, <1>7, <2>1 DEF Clean, CleanRows, Before
<1>8. ASSUME NEW i \in 1..Len(prefix), NEW k \in 1..n
      PROVE  T[k].path[i] = prefix[i] /\ Len(T[k].path) >= i
  <2> DEFINE p == rs[k][2]
  <2>1. IsSeq(p) /\ T[k].path = prefix \o p
    BY <1>3, <1>4
  <2> HIDE DEF p
  <2>2. Len(prefix \o p) = Len(prefix) + Len(p) /\ (prefix \o p)[i] = prefix[i]
    BY <2>1, Joined
  <2>3. Len(prefix) \in Nat /\ Len(p) \in Nat
    BY <2>1, SeqFacts
  <2> QED  BY <2>1, <2>2, <2>3
<1>9. \A i \in 1..Len(prefix) : HasAt(T, i, {prefix[i]}) /\ Reaches(T, i)
  BY <1>6, <1>8 DEF HasAt, Reaches
<1>10. ~IsPage(access) => NoPages(T)
  BY <1>4, <1>6 DEF NoPages
<1> QED  BY <1>1, <1>2, <1>3, <1>6, <1>7, <1>9, <1>10 DEF T

\* What two tables promise, one after the other promises.
LEMMA OneAfterTheOther ==
    ASSUME NEW S, NEW T, IsTable(S), IsTable(T)
    PROVE  /\ IsTable(S \o T)
           /\ Clean(S) /\ Clean(T) /\ Apart(S, T) => Clean(S \o T)
           /\ \A U : Apart(S, U) /\ Apart(T, U) => Apart(S \o T, U)
           /\ \A U : Apart(U, S) /\ Apart(U, T) => Apart(U, S \o T)
           /\ \A i, names : HasAt(S, i, names) /\ HasAt(T, i, names) => HasAt(S \o T, i, names)
           /\ \A i : Reaches(S, i) /\ Reaches(T, i) => Reaches(S \o T, i)
           /\ NoPages(S) /\ NoPages(T) => NoPages(S \o T)
           /\ ToSet(S \o T) = ToSet(S) \cup ToSet(T)
<1> DEFINE ST == S \o T
           m == Len(S)
<1>1. /\ IsSeq(ST) /\ m \in Nat /\ DOMAIN S = 1..m /\ ToSet(ST) = ToSet(S) \cup ToSet(T)
      /\ \A k \in DOMAIN ST :
            \/ k \in DOMAIN S /\ ST[k] = S[k]
            \/ k > m /\ k - m \in DOMAIN T /\ ST[k] = T[k - m]
  BY Joined, FromBoth, SeqFacts DEF IsTable
<1>2. DOMAIN ST \subseteq Int
  BY <1>1, SeqFacts
<1> HIDE DEF ST, m
<1>3. ASSUME Clean(S), Clean(T), Apart(S, T) PROVE Clean(ST)
  <2> SUFFICES ASSUME NEW j \in DOMAIN ST, NEW k \in DOMAIN ST, j < k, ST[j].method = ST[k].method
               PROVE  ~Fits(ST[k].path, ST[j].path)
    BY DEF Clean
  <2>1. CASE k \in DOMAIN S /\ ST[k] = S[k]
    <3>1. j \in DOMAIN S /\ ST[j] = S[j]
      BY <1>1, <1>2, <2>1
    <3> QED  BY <1>3, <2>1, <3>1 DEF Clean
  <2>2. CASE k - m \in DOMAIN T /\ ST[k] = T[k - m] /\ j \in DOMAIN S /\ ST[j] = S[j]
    BY <1>3, <2>2 DEF Apart
  <2>3. CASE /\ k - m \in DOMAIN T /\ ST[k] = T[k - m]
             /\ j - m \in DOMAIN T /\ ST[j] = T[j - m]
    <3>1. j - m < k - m
      BY <1>1, <1>2
    <3> QED  BY <1>3, <2>3, <3>1 DEF Clean
  <2> QED  BY <1>1, <2>1, <2>2, <2>3
<1>4. \A U : Apart(S, U) /\ Apart(T, U) => Apart(ST, U)
  BY <1>1 DEF Apart
<1>5. \A U : Apart(U, S) /\ Apart(U, T) => Apart(U, ST)
  BY <1>1 DEF Apart
<1>6. \A i, names : HasAt(S, i, names) /\ HasAt(T, i, names) => HasAt(ST, i, names)
  BY <1>1 DEF HasAt
<1>7. \A i : Reaches(S, i) /\ Reaches(T, i) => Reaches(ST, i)
  BY <1>1 DEF Reaches
<1>8. NoPages(S) /\ NoPages(T) => NoPages(ST)
  BY <1>1 DEF NoPages
<1>9. IsTable(ST)
  BY <1>1 DEF IsTable
<1> QED  BY <1>1, <1>3, <1>4, <1>5, <1>6, <1>7, <1>8, <1>9 DEF ST

\* Tables that differ at a position no parameter takes are apart.
LEMMA ApartAt ==
    ASSUME NEW S, NEW T, IsTable(S), IsTable(T), NEW i \in Nat \ {0}, NEW names, NEW others,
           HasAt(S, i, names), HasAt(T, i, others), Reaches(S, i) \/ Reaches(T, i),
           names \cap others = {}, names \cap Params = {}
    PROVE  Apart(S, T)
<1> SUFFICES ASSUME NEW j \in DOMAIN S, NEW k \in DOMAIN T, Fits(T[k].path, S[j].path)
             PROVE  FALSE
  BY DEF Apart
<1>1. /\ Len(T[k].path) = Len(S[j].path) /\ Len(T[k].path) \in Nat
      /\ DOMAIN T[k].path = 1..Len(T[k].path)
  BY SeqFacts DEF IsTable, Fits
<1>2. Len(T[k].path) >= i
  BY <1>1 DEF Reaches
<1>3. i \in DOMAIN T[k].path
  BY <1>1, <1>2
<1>4. S[j].path[i] \in {T[k].path[i], "{n}", "{s}"}
  BY <1>3 DEF Fits
<1> QED  BY <1>1, <1>2, <1>4 DEF HasAt, Params

(* Rows. *)

GoodRows(rs) == IsRows(rs) /\ CleanRows(rs)
AllBefore(rs, later) == \A r \in ToSet(rs), s \in ToSet(later) : Before(r, s)

\* Rows, and which short ones take nothing of a later one.
LEMMA RowFacts ==
    /\ \A m \in Methods : /\ IsRow(<<m, <<>>>>)
                         /\ \A a, b, c : /\ IsRow(<<m, <<a>>>>) /\ IsRow(<<m, <<a, b>>>>)
                                         /\ IsRow(<<m, <<a, b, c>>>>)
    /\ \A m, n, p, q : m # n => Before(<<m, p>>, <<n, q>>)
    /\ \A m, n, a : Before(<<m, <<>>>>, <<n, <<a>>>>) /\ Before(<<m, <<a>>>>, <<n, <<>>>>)
    /\ \A m, n, a, b, c :
          Before(<<m, <<a, b>>>>, <<n, <<c>>>>) /\ Before(<<m, <<c>>>>, <<n, <<a, b>>>>)
    /\ \A m, n, a, b, c, d :
          Before(<<m, <<a>>>>, <<n, <<b, c, d>>>>) /\ Before(<<m, <<b, c, d>>>>, <<n, <<a>>>>)
    /\ \A m, n, a, b : a \notin {b, "{n}", "{s}"} => Before(<<m, <<a>>>>, <<n, <<b>>>>)
    /\ \A m, n, a, b, c, d :
          b \notin {d, "{n}", "{s}"} => Before(<<m, <<a, b>>>>, <<n, <<c, d>>>>)
<1>1. ASSUME NEW m \in Methods, NEW a, NEW b, NEW c
      PROVE  /\ IsRow(<<m, <<>>>>) /\ IsRow(<<m, <<a>>>>)
             /\ IsRow(<<m, <<a, b>>>>) /\ IsRow(<<m, <<a, b, c>>>>)
  <2>1. IsSeq(<<>>) /\ IsSeq(<<a>>) /\ IsSeq(<<a, b>>) /\ IsSeq(<<a, b, c>>)
    BY ShortSeqs
  <2> QED  BY <2>1 DEF IsRow
<1>2. ASSUME NEW m, NEW n, NEW p, NEW q, m # n \/ Len(p) # Len(q) PROVE Before(<<m, p>>, <<n, q>>)
  <2>1. Fits(q, p) => Len(q) = Len(p)
    BY ShortFits
  <2> QED  BY <1>2, <2>1 DEF Before
<1>3. ASSUME NEW m, NEW n, NEW a, NEW b, a \notin {b, "{n}", "{s}"}
      PROVE  Before(<<m, <<a>>>>, <<n, <<b>>>>)
  BY <1>3, ShortFits DEF Before, Params
<1>4. ASSUME NEW m, NEW n, NEW a, NEW b, NEW c, NEW d, b \notin {d, "{n}", "{s}"}
      PROVE  Before(<<m, <<a, b>>>>, <<n, <<c, d>>>>)
  BY <1>4, ShortFits DEF Before, Params
<1>5. ASSUME NEW m, NEW n, NEW a
      PROVE  Before(<<m, <<>>>>, <<n, <<a>>>>) /\ Before(<<m, <<a>>>>, <<n, <<>>>>)
  <2> DEFINE p == <<>>
             q == <<a>>
  <2>1. Len(p) # Len(q)
    OBVIOUS
  <2> HIDE DEF p, q
  <2>2. Before(<<m, p>>, <<n, q>>) /\ Before(<<m, q>>, <<n, p>>)
    BY <1>2, <2>1
  <2> QED  BY <2>2 DEF p, q
<1>6. ASSUME NEW m, NEW n, NEW a, NEW b, NEW c, NEW d
      PROVE  Before(<<m, <<a>>>>, <<n, <<b, c, d>>>>) /\ Before(<<m, <<b, c, d>>>>, <<n, <<a>>>>)
  <2> DEFINE p == <<a>>
             q == <<b, c, d>>
  <2>1. Len(p) # Len(q)
    OBVIOUS
  <2> HIDE DEF p, q
  <2>2. Before(<<m, p>>, <<n, q>>) /\ Before(<<m, q>>, <<n, p>>)
    BY <1>2, <2>1
  <2> QED  BY <2>2 DEF p, q
<1>7. ASSUME NEW m, NEW n, NEW a, NEW b, NEW c
      PROVE  Before(<<m, <<a, b>>>>, <<n, <<c>>>>) /\ Before(<<m, <<c>>>>, <<n, <<a, b>>>>)
  <2> DEFINE p == <<a, b>>
             q == <<c>>
  <2>1. Len(p) # Len(q)
    OBVIOUS
  <2> HIDE DEF p, q
  <2>2. Before(<<m, p>>, <<n, q>>) /\ Before(<<m, q>>, <<n, p>>)
    BY <1>2, <2>1
  <2> QED  BY <2>2 DEF p, q
<1> QED  BY <1>1, <1>2, <1>3, <1>4, <1>5, <1>6, <1>7

\* Lists of up to three rows.
LEMMA ShortRows ==
    /\ GoodRows(<<>>) /\ ToSet(<<>>) = {}
    /\ \A a : IsRow(a) => GoodRows(<<a>>) /\ ToSet(<<a>>) = {a}
    /\ \A a, b : IsRow(a) /\ IsRow(b) /\ Before(a, b) =>
          GoodRows(<<a, b>>) /\ ToSet(<<a, b>>) = {a, b}
    /\ \A a, b, c :
          IsRow(a) /\ IsRow(b) /\ IsRow(c) /\ Before(a, b) /\ Before(a, c) /\ Before(b, c) =>
          GoodRows(<<a, b, c>>) /\ ToSet(<<a, b, c>>) = {a, b, c}
<1>1. GoodRows(<<>>) /\ ToSet(<<>>) = {}
  <2>1. DOMAIN <<>> = {}
    OBVIOUS
  <2>2. IsSeq(<<>>)
    BY ShortSeqs
  <2> QED  BY <2>1, <2>2 DEF GoodRows, IsRows, CleanRows, ToSet
<1>2. ASSUME NEW a, IsRow(a) PROVE GoodRows(<<a>>) /\ ToSet(<<a>>) = {a}
  <2> DEFINE T == <<a>>
  <2>1. T \in Seq({a}) /\ DOMAIN T = 1..1 /\ T[1] = a
    OBVIOUS
  <2> HIDE DEF T
  <2>2. GoodRows(T) /\ ToSet(T) = {a}
    BY <1>2, <2>1 DEF GoodRows, IsRows, IsSeq, CleanRows, ToSet
  <2> QED  BY <2>2 DEF T
<1>3. ASSUME NEW a, NEW b, IsRow(a), IsRow(b), Before(a, b)
      PROVE  GoodRows(<<a, b>>) /\ ToSet(<<a, b>>) = {a, b}
  <2> DEFINE T == <<a, b>>
  <2>1. T \in Seq({a, b}) /\ DOMAIN T = 1..2 /\ T[1] = a /\ T[2] = b
    OBVIOUS
  <2> HIDE DEF T
  <2>2. GoodRows(T) /\ ToSet(T) = {a, b}
    BY <1>3, <2>1 DEF GoodRows, IsRows, IsSeq, CleanRows, ToSet
  <2> QED  BY <2>2 DEF T
<1>4. ASSUME NEW a, NEW b, NEW c, IsRow(a), IsRow(b), IsRow(c),
             Before(a, b), Before(a, c), Before(b, c)
      PROVE  GoodRows(<<a, b, c>>) /\ ToSet(<<a, b, c>>) = {a, b, c}
  <2> DEFINE T == <<a, b, c>>
  <2>1. T \in Seq({a, b, c}) /\ DOMAIN T = 1..3 /\ T[1] = a /\ T[2] = b /\ T[3] = c
    OBVIOUS
  <2> HIDE DEF T
  <2>2. GoodRows(T) /\ ToSet(T) = {a, b, c}
    BY <1>4, <2>1 DEF GoodRows, IsRows, IsSeq, CleanRows, ToSet
  <2> QED  BY <2>2 DEF T
<1> QED  BY <1>1, <1>2, <1>3, <1>4

\* Two lists of rows, one after the other.
LEMMA RowsJoined ==
    ASSUME NEW x, NEW y, GoodRows(x), GoodRows(y), AllBefore(x, y)
    PROVE  GoodRows(x \o y) /\ ToSet(x \o y) = ToSet(x) \cup ToSet(y)
<1> DEFINE u == x \o y
           m == Len(x)
<1>1. /\ IsSeq(u) /\ m \in Nat /\ DOMAIN x = 1..m /\ ToSet(u) = ToSet(x) \cup ToSet(y)
      /\ \A k \in DOMAIN u :
            \/ k \in DOMAIN x /\ u[k] = x[k]
            \/ k > m /\ k - m \in DOMAIN y /\ u[k] = y[k - m]
  BY Joined, FromBoth, SeqFacts DEF GoodRows, IsRows
<1>2. DOMAIN u \subseteq Int
  BY <1>1, SeqFacts
<1> HIDE DEF u, m
<1>3. IsRows(u)
  BY <1>1 DEF GoodRows, IsRows
<1>4. ASSUME NEW j \in DOMAIN u, NEW k \in DOMAIN u, j < k PROVE Before(u[j], u[k])
  <2>1. CASE k \in DOMAIN x /\ u[k] = x[k]
    <3>1. j \in DOMAIN x /\ u[j] = x[j]
      BY <1>1, <1>2, <1>4, <2>1
    <3> QED  BY <1>4, <2>1, <3>1 DEF GoodRows, CleanRows
  <2>2. CASE k - m \in DOMAIN y /\ u[k] = y[k - m] /\ j \in DOMAIN x /\ u[j] = x[j]
    BY <2>2 DEF AllBefore, ToSet
  <2>3. CASE /\ k - m \in DOMAIN y /\ u[k] = y[k - m]
             /\ j - m \in DOMAIN y /\ u[j] = y[j - m]
    <3>1. j - m < k - m
      BY <1>1, <1>2, <1>4
    <3> QED  BY <2>3, <3>1 DEF GoodRows, CleanRows
  <2> QED  BY <1>1, <2>1, <2>2, <2>3
<1> QED  BY <1>1, <1>3, <1>4 DEF GoodRows, CleanRows, u

\* The longer lists, cut in two.
LEMMA LongRows ==
    /\ \A a, b, c, d : <<a, b, c, d>> = <<a, b>> \o <<c, d>>
    /\ \A a, b, c, d, e : <<a, b, c, d, e>> = <<a, b, c>> \o <<d, e>>
    /\ \A a, b, c, d, e, f : <<a, b, c, d, e, f>> = <<a, b, c>> \o <<d, e, f>>
  OBVIOUS

\* What an edition has of a list of rows.
LEMMA MainOnlyRows ==
    ASSUME NEW y, GoodRows(y)
    PROVE  /\ \A e : GoodRows(MainOnly(e, y)) /\ ToSet(MainOnly(e, y)) \subseteq ToSet(y)
           /\ MainOnly("main", y) = y
BY ShortRows DEF MainOnly

\* More rows, more routes.
LEMMA MountMore ==
    ASSUME NEW x, NEW y, IsRows(x), IsRows(y), ToSet(x) \subseteq ToSet(y),
           NEW prefix, IsSeq(prefix), NEW access \in Guarded
    PROVE  ToSet(Mount(prefix, access, x)) \subseteq ToSet(Mount(prefix, access, y))
<1> DEFINE S == Mount(prefix, access, x)
           T == Mount(prefix, access, y)
           M(r) == [method |-> r[1], path |-> prefix \o r[2], access |-> access]
<1>1. DOMAIN S = DOMAIN x /\ \A k \in DOMAIN S : S[k] = M(x[k])
  BY MountFacts
<1>2. DOMAIN T = DOMAIN y /\ \A k \in DOMAIN T : T[k] = M(y[k])
  BY MountFacts
<1> HIDE DEF S, T, M
<1>3. ToSet(S) \subseteq ToSet(T)
  BY <1>1, <1>2 DEF ToSet
<1> QED  BY <1>3 DEF S, T

\* A controller of the admin API, and several.
ApiTable(T, names) ==
    /\ IsTable(T) /\ Clean(T) /\ NoPages(T)
    /\ HasAt(T, 1, {"api"}) /\ HasAt(T, 2, {"admin"}) /\ HasAt(T, 3, names) /\ Reaches(T, 3)

\* A controller of the admin API has its name third.
LEMMA ApiMount ==
    ASSUME NEW rs, GoodRows(rs), NEW name, NEW access \in {"open", "auth", "admin"}
    PROVE  ApiTable(Mount(<<"api", "admin", name>>, access, rs), {name})
<1> DEFINE prefix == <<"api", "admin", name>>
<1>1. IsSeq(prefix) /\ Len(prefix) = 3 /\ prefix[1] = "api" /\ prefix[2] = "admin" /\ prefix[3] = name
  BY ShortSeqs
<1>2. 1 \in 1..Len(prefix) /\ 2 \in 1..Len(prefix) /\ 3 \in 1..Len(prefix)
  BY <1>1
<1>3. access \in Guarded /\ ~IsPage(access)
  BY DEF Guarded, IsPage
<1> HIDE DEF prefix
<1> DEFINE T == Mount(prefix, access, rs)
<1>4. /\ IsTable(T) /\ Clean(T) /\ NoPages(T)
      /\ \A i \in 1..Len(prefix) : HasAt(T, i, {prefix[i]}) /\ Reaches(T, i)
  BY <1>1, <1>3, MountFacts DEF GoodRows
<1> HIDE DEF T
<1>5. ApiTable(T, {name})
  BY <1>1, <1>2, <1>4 DEF ApiTable
<1> QED  BY <1>5 DEF prefix, T

\* Two controllers of different names, one after the other.
LEMMA ApiJoined ==
    ASSUME NEW S, NEW T, NEW names, NEW others, ApiTable(S, names), ApiTable(T, others),
           names \cap others = {}, names \cap Params = {}
    PROVE  ApiTable(S \o T, names \cup others)
<1>1. Apart(S, T)
  <2>1. /\ IsTable(S) /\ IsTable(T) /\ HasAt(S, 3, names) /\ HasAt(T, 3, others)
        /\ Reaches(S, 3) /\ 3 \in Nat \ {0}
    BY DEF ApiTable
  <2> QED  BY <2>1, ApartAt
<1>2. HasAt(S, 3, names \cup others) /\ HasAt(T, 3, names \cup others)
  BY DEF ApiTable, HasAt
<1> QED  BY <1>1, <1>2, OneAfterTheOther DEF ApiTable

(* Pages. *)

\* Names that are told apart, and of which only the last may be a parameter.
Names(names) ==
    /\ IsSeq(names)
    /\ \A j, k \in DOMAIN names : j < k => names[j] \notin {names[k]} \cup Params

\* What rows begin with below the prefix, if with anything.
Begin(rs, names) == \A r \in ToSet(rs) : r[2] = <<>> \/ r[2][1] \in names

\* Pages of different names take nothing of each other.
LEMMA PagesGood ==
    ASSUME NEW names, Names(names)
    PROVE  /\ GoodRows(Pages(names))
           /\ \A r \in ToSet(Pages(names)) : \E x \in ToSet(names) : r = <<"GET", <<x>>>>
<1> DEFINE T == Pages(names)
<1>1. DOMAIN names = 1..Len(names) /\ Len(names) \in Nat
  BY SeqFacts DEF Names
<1>2. DOMAIN T = DOMAIN names /\ \A k \in DOMAIN names : T[k] = <<"GET", <<names[k]>>>>
  BY DEF Pages
<1>3. T \in [1..Len(names) -> {T[k] : k \in DOMAIN names}]
  BY <1>1 DEF Pages
<1>4. IsSeq(T)
  BY <1>1, <1>3, SeqDef DEF IsSeq
<1> HIDE DEF T
<1>5. "GET" \in Methods
  BY DEF Methods
<1>6. \A k \in DOMAIN T : IsRow(T[k])
  BY <1>2, <1>5, RowFacts
<1>7. ASSUME NEW j \in DOMAIN T, NEW k \in DOMAIN T, j < k PROVE Before(T[j], T[k])
  <2>1. names[j] \notin {names[k], "{n}", "{s}"}
    BY <1>2, <1>7 DEF Names, Params
  <2>2. Before(<<"GET", <<names[j]>>>>, <<"GET", <<names[k]>>>>)
    BY <2>1, RowFacts
  <2>3. T[j] = <<"GET", <<names[j]>>>> /\ T[k] = <<"GET", <<names[k]>>>>
    BY <1>2
  <2> QED  BY <2>2, <2>3
<1>8. GoodRows(T)
  BY <1>4, <1>6, <1>7 DEF GoodRows, IsRows, CleanRows
<1>9. \A r \in ToSet(T) : \E x \in ToSet(names) : r = <<"GET", <<x>>>>
  BY <1>2 DEF ToSet
<1> QED  BY <1>8, <1>9 DEF T

\* The first segment below a prefix.
LEMMA FirstBelow ==
    ASSUME NEW s, NEW p, IsSeq(s), IsSeq(p), p # <<>>
    PROVE  Len(s \o p) >= Len(s) + 1 /\ (s \o p)[Len(s) + 1] = p[1]
<1>1. PICK S, T : s \in Seq(S) /\ p \in Seq(T)
  BY DEF IsSeq
<1> DEFINE U == S \cup T
<1>2. s \in Seq(U) /\ p \in Seq(U)
  BY <1>1
<1> HIDE DEF U
<1>3. Len(p) \in Nat \ {0}
  BY <1>2
<1> QED  BY <1>2, <1>3

\* Where such rows end up.
LEMMA ShortMount ==
    ASSUME NEW rs, IsRows(rs), NEW prefix, IsSeq(prefix), NEW access \in Guarded,
           NEW names, Begin(rs, names)
    PROVE  LET T == Mount(prefix, access, rs) IN
           /\ HasAt(T, Len(prefix) + 1, names)
           /\ (\A r \in ToSet(rs) : r[2] # <<>>) => Reaches(T, Len(prefix) + 1)
<1> DEFINE T == Mount(prefix, access, rs)
           n == Len(prefix)
<1>1. n \in Nat
  BY SeqFacts
<1>2. /\ DOMAIN T = DOMAIN rs
      /\ \A k \in DOMAIN T : T[k].path = prefix \o rs[k][2] /\ IsSeq(rs[k][2])
  BY MountFacts
<1> HIDE DEF T
<1>3. ASSUME NEW k \in DOMAIN T PROVE rs[k] \in ToSet(rs)
  BY <1>2 DEF ToSet
<1>4. ASSUME NEW k \in DOMAIN T, rs[k][2] # <<>>
      PROVE  Len(T[k].path) >= n + 1 /\ T[k].path[n + 1] \in names
  <2>1. rs[k][2][1] \in names
    BY <1>3, <1>4 DEF Begin
  <2> QED  BY <1>2, <1>4, <2>1, FirstBelow
<1>5. ASSUME NEW k \in DOMAIN T, rs[k][2] = <<>> PROVE Len(T[k].path) = n
  <2> DEFINE p == <<>>
  <2>1. IsSeq(p) /\ Len(p) = 0 /\ T[k].path = prefix \o p
    BY <1>2, <1>5, ShortSeqs
  <2> HIDE DEF p
  <2> QED  BY <1>1, <2>1, Joined
<1> HIDE DEF n
<1>6. HasAt(T, n + 1, names)
  BY <1>1, <1>4, <1>5 DEF HasAt
<1>7. ASSUME \A r \in ToSet(rs) : r[2] # <<>> PROVE Reaches(T, n + 1)
  BY <1>3, <1>4, <1>7 DEF Reaches
<1> QED  BY <1>6, <1>7 DEF T, n

(* The controllers of the admin API. *)

\* S is what an edition has of the table M.
PartOf(S, M, names) == ApiTable(S, names) /\ ApiTable(M, names) /\ ToSet(S) \subseteq ToSet(M)

\* A controller, from what an edition has of its rows.
LEMMA ApiEdition ==
    ASSUME NEW x, NEW y, GoodRows(x), GoodRows(y), ToSet(x) \subseteq ToSet(y),
           NEW name, NEW access \in {"open", "auth", "admin"}
    PROVE  PartOf(Mount(<<"api", "admin", name>>, access, x),
                  Mount(<<"api", "admin", name>>, access, y), {name})
<1> DEFINE prefix == <<"api", "admin", name>>
<1>1. IsSeq(prefix) /\ access \in Guarded
  BY ShortSeqs DEF Guarded
<1>2. /\ ApiTable(Mount(prefix, access, x), {name})
      /\ ApiTable(Mount(prefix, access, y), {name})
  BY ApiMount
<1> HIDE DEF prefix
<1>3. ToSet(Mount(prefix, access, x)) \subseteq ToSet(Mount(prefix, access, y))
  BY <1>1, MountMore DEF GoodRows
<1> QED  BY <1>2, <1>3 DEF prefix, PartOf

\* The exported list comes before the user of a number.
LEMMA UserTable == \A e : PartOf(AdminUserRoutes(e), AdminUserRoutes("main"), {"users"})
<1> DEFINE r1 == <<"GET", <<>>>>
           r2 == <<"GET", <<"export">>>>
           r3 == <<"GET", <<"{n}">>>>
           r4 == <<"POST", <<>>>>
           r5 == <<"PUT", <<"{n}">>>>
           r6 == <<"DELETE", <<"{n}">>>>
           x == <<r1>>
           y == <<r2>>
           z == <<r3, r4>> \o <<r5, r6>>
           L(e) == x \o MainOnly(e, y) \o z
<1>1. IsRow(r1) /\ IsRow(r2) /\ IsRow(r3) /\ IsRow(r4) /\ IsRow(r5) /\ IsRow(r6)
  BY RowFacts DEF Methods
<1>2. /\ \A r \in {r2, r3, r4, r5, r6} : Before(r1, r)
      /\ \A r \in {r3, r4, r5, r6} : Before(r2, r)
      /\ \A r \in {r4, r5, r6} : Before(r3, r)
      /\ Before(r4, r5) /\ Before(r4, r6) /\ Before(r5, r6)
  BY RowFacts
<1> HIDE DEF r1, r2, r3, r4, r5, r6
<1>3. \A e : AdminUserRoutes(e) = Mount(<<"api", "admin", "users">>, "admin", L(e))
  <2>1. <<r3, r4, r5, r6>> = z
    BY LongRows
  <2> HIDE DEF z
  <2> QED  BY <2>1 DEF AdminUserRoutes, r1, r2, r3, r4, r5, r6
<1>4. /\ GoodRows(x) /\ ToSet(x) = {r1} /\ GoodRows(y) /\ ToSet(y) = {r2}
      /\ GoodRows(<<r3, r4>>) /\ ToSet(<<r3, r4>>) = {r3, r4}
      /\ GoodRows(<<r5, r6>>) /\ ToSet(<<r5, r6>>) = {r5, r6}
  BY <1>1, <1>2, ShortRows
<1>5. GoodRows(z) /\ ToSet(z) = {r3, r4, r5, r6}
  BY <1>2, <1>4, RowsJoined DEF AllBefore
<1> HIDE DEF x, y, z
<1>6. \A e : /\ GoodRows(MainOnly(e, y)) /\ ToSet(MainOnly(e, y)) \subseteq {r2}
            /\ ToSet(MainOnly(e, y)) \subseteq ToSet(MainOnly("main", y))
  BY <1>4, MainOnlyRows
<1>7. \A e : /\ GoodRows(x \o MainOnly(e, y))
            /\ ToSet(x \o MainOnly(e, y)) = {r1} \cup ToSet(MainOnly(e, y))
  BY <1>2, <1>4, <1>6, RowsJoined DEF AllBefore
<1>8. \A e : /\ GoodRows(L(e))
            /\ ToSet(L(e)) = {r1} \cup ToSet(MainOnly(e, y)) \cup {r3, r4, r5, r6}
  BY <1>2, <1>5, <1>6, <1>7, RowsJoined DEF AllBefore
<1>9. \A e : ToSet(L(e)) \subseteq ToSet(L("main"))
  BY <1>6, <1>8
<1> HIDE DEF L
<1> QED  BY <1>3, <1>8, <1>9, ApiEdition

LEMMA MenuTable == PartOf(AdminMenuRoutes, AdminMenuRoutes, {"menus"})
<1> DEFINE r1 == <<"GET", <<>>>>
           r2 == <<"POST", <<>>>>
           r3 == <<"PUT", <<"{n}">>>>
           r4 == <<"DELETE", <<"{n}">>>>
           L == <<r1, r2>> \o <<r3, r4>>
<1>1. IsRow(r1) /\ IsRow(r2) /\ IsRow(r3) /\ IsRow(r4)
  BY RowFacts DEF Methods
<1>2. /\ \A r \in {r2, r3, r4} : Before(r1, r)
      /\ Before(r2, r3) /\ Before(r2, r4) /\ Before(r3, r4)
  BY RowFacts
<1> HIDE DEF r1, r2, r3, r4
<1>3. AdminMenuRoutes = Mount(<<"api", "admin", "menus">>, "admin", L)
  <2>1. <<r1, r2, r3, r4>> = L
    BY LongRows
  <2> HIDE DEF L
  <2> QED  BY <2>1 DEF AdminMenuRoutes, r1, r2, r3, r4
<1>4. /\ GoodRows(<<r1, r2>>) /\ ToSet(<<r1, r2>>) = {r1, r2}
      /\ GoodRows(<<r3, r4>>) /\ ToSet(<<r3, r4>>) = {r3, r4}
  BY <1>1, <1>2, ShortRows
<1>5. GoodRows(L)
  BY <1>2, <1>4, RowsJoined DEF AllBefore
<1> HIDE DEF L
<1> QED  BY <1>3, <1>5, ApiEdition

LEMMA ContentTable == PartOf(AdminContentRoutes, AdminContentRoutes, {"contents"})
<1> DEFINE r1 == <<"GET", <<>>>>
           r2 == <<"GET", <<"{n}">>>>
           r3 == <<"POST", <<>>>>
           r4 == <<"PUT", <<"{n}">>>>
           r5 == <<"DELETE", <<"{n}">>>>
           L == <<r1, r2, r3>> \o <<r4, r5>>
<1>1. IsRow(r1) /\ IsRow(r2) /\ IsRow(r3) /\ IsRow(r4) /\ IsRow(r5)
  BY RowFacts DEF Methods
<1>2. /\ \A r \in {r2, r3, r4, r5} : Before(r1, r)
      /\ \A r \in {r3, r4, r5} : Before(r2, r)
      /\ Before(r3, r4) /\ Before(r3, r5) /\ Before(r4, r5)
  BY RowFacts
<1> HIDE DEF r1, r2, r3, r4, r5
<1>3. AdminContentRoutes = Mount(<<"api", "admin", "contents">>, "admin", L)
  <2>1. <<r1, r2, r3, r4, r5>> = L
    BY LongRows
  <2> HIDE DEF L
  <2> QED  BY <2>1 DEF AdminContentRoutes, r1, r2, r3, r4, r5
<1>4. /\ GoodRows(<<r1, r2, r3>>) /\ ToSet(<<r1, r2, r3>>) = {r1, r2, r3}
      /\ GoodRows(<<r4, r5>>) /\ ToSet(<<r4, r5>>) = {r4, r5}
  BY <1>1, <1>2, ShortRows
<1>5. GoodRows(L)
  BY <1>2, <1>4, RowsJoined DEF AllBefore
<1> HIDE DEF L
<1> QED  BY <1>3, <1>5, ApiEdition

\* The exported list is of another length than what acts on a message, or of
\* another method.
LEMMA ContactTable == \A e : PartOf(AdminContactRoutes(e), AdminContactRoutes("main"), {"messages"})
<1> DEFINE r1 == <<"GET", <<>>>>
           r2 == <<"POST", <<"{n}", "read">>>>
           r3 == <<"DELETE", <<"{n}">>>>
           r4 == <<"GET", <<"export">>>>
           x == <<r1, r2, r3>>
           y == <<r4>>
           L(e) == x \o MainOnly(e, y)
<1>1. IsRow(r1) /\ IsRow(r2) /\ IsRow(r3) /\ IsRow(r4)
  BY RowFacts DEF Methods
<1>2. /\ Before(r1, r2) /\ Before(r1, r3) /\ Before(r2, r3)
      /\ Before(r1, r4) /\ Before(r2, r4) /\ Before(r3, r4)
  BY RowFacts
<1>3. \A e : AdminContactRoutes(e) = Mount(<<"api", "admin", "messages">>, "admin", L(e))
  BY DEF AdminContactRoutes
<1> HIDE DEF r1, r2, r3, r4
<1>4. GoodRows(x) /\ ToSet(x) = {r1, r2, r3} /\ GoodRows(y) /\ ToSet(y) = {r4}
  BY <1>1, <1>2, ShortRows
<1> HIDE DEF x, y
<1>5. \A e : /\ GoodRows(MainOnly(e, y)) /\ ToSet(MainOnly(e, y)) \subseteq {r4}
            /\ ToSet(MainOnly(e, y)) \subseteq ToSet(MainOnly("main", y))
  BY <1>4, MainOnlyRows
<1>6. \A e : GoodRows(L(e)) /\ ToSet(L(e)) = {r1, r2, r3} \cup ToSet(MainOnly(e, y))
  BY <1>2, <1>4, <1>5, RowsJoined DEF AllBefore
<1>7. \A e : ToSet(L(e)) \subseteq ToSet(L("main"))
  BY <1>5, <1>6
<1> HIDE DEF L
<1> QED  BY <1>3, <1>6, <1>7, ApiEdition

LEMMA LogTable == \A e : PartOf(AdminLogRoutes(e), AdminLogRoutes("main"), {"logs"})
<1> DEFINE r1 == <<"GET", <<>>>>
           r2 == <<"GET", <<"export">>>>
           x == <<r1>>
           y == <<r2>>
           L(e) == x \o MainOnly(e, y)
<1>1. IsRow(r1) /\ IsRow(r2) /\ Before(r1, r2)
  BY RowFacts DEF Methods
<1>2. \A e : AdminLogRoutes(e) = Mount(<<"api", "admin", "logs">>, "admin", L(e))
  BY DEF AdminLogRoutes
<1> HIDE DEF r1, r2
<1>3. GoodRows(x) /\ ToSet(x) = {r1} /\ GoodRows(y) /\ ToSet(y) = {r2}
  BY <1>1, ShortRows
<1> HIDE DEF x, y
<1>4. \A e : /\ GoodRows(MainOnly(e, y)) /\ ToSet(MainOnly(e, y)) \subseteq {r2}
            /\ ToSet(MainOnly(e, y)) \subseteq ToSet(MainOnly("main", y))
  BY <1>3, MainOnlyRows
<1>5. \A e : GoodRows(L(e)) /\ ToSet(L(e)) = {r1} \cup ToSet(MainOnly(e, y))
  BY <1>1, <1>3, <1>4, RowsJoined DEF AllBefore
<1>6. \A e : ToSet(L(e)) \subseteq ToSet(L("main"))
  BY <1>4, <1>5
<1> HIDE DEF L
<1> QED  BY <1>2, <1>5, <1>6, ApiEdition

LEMMA SettingsTable == PartOf(AdminSettingsRoutes, AdminSettingsRoutes, {"settings"})
<1> DEFINE r1 == <<"GET", <<>>>>
           r2 == <<"PUT", <<>>>>
           L == <<r1, r2>>
<1>1. IsRow(r1) /\ IsRow(r2) /\ Before(r1, r2)
  BY RowFacts DEF Methods
<1>2. AdminSettingsRoutes = Mount(<<"api", "admin", "settings">>, "admin", L)
  BY DEF AdminSettingsRoutes
<1> HIDE DEF r1, r2
<1>3. GoodRows(L)
  BY <1>1, ShortRows
<1> HIDE DEF L
<1> QED  BY <1>2, <1>3, ApiEdition

\* A job is named by a parameter, but nothing else is two segments below a job.
LEMMA SystemTable == PartOf(AdminSystemRoutes, AdminSystemRoutes, {"system"})
<1> DEFINE r1 == <<"GET", <<"health">>>>
           r2 == <<"GET", <<"jobs">>>>
           r3 == <<"POST", <<"jobs", "{s}", "run">>>>
           r4 == <<"GET", <<"db-connections">>>>
           r5 == <<"POST", <<"db-connections">>>>
           r6 == <<"DELETE", <<"db-connections", "{n}">>>>
           L == <<r1, r2, r3>> \o <<r4, r5, r6>>
<1>1. IsRow(r1) /\ IsRow(r2) /\ IsRow(r3) /\ IsRow(r4) /\ IsRow(r5) /\ IsRow(r6)
  BY RowFacts DEF Methods
<1>2. /\ \A r \in {r2, r3, r4, r5, r6} : Before(r1, r)
      /\ \A r \in {r3, r4, r5, r6} : Before(r2, r)
      /\ \A r \in {r4, r5, r6} : Before(r3, r)
      /\ Before(r4, r5) /\ Before(r4, r6) /\ Before(r5, r6)
  BY RowFacts
<1> HIDE DEF r1, r2, r3, r4, r5, r6
<1>3. AdminSystemRoutes = Mount(<<"api", "admin", "system">>, "admin", L)
  <2>1. <<r1, r2, r3, r4, r5, r6>> = L
    BY LongRows
  <2> HIDE DEF L
  <2> QED  BY <2>1 DEF AdminSystemRoutes, r1, r2, r3, r4, r5, r6
<1>4. /\ GoodRows(<<r1, r2, r3>>) /\ ToSet(<<r1, r2, r3>>) = {r1, r2, r3}
      /\ GoodRows(<<r4, r5, r6>>) /\ ToSet(<<r4, r5, r6>>) = {r4, r5, r6}
  BY <1>1, <1>2, ShortRows
<1>5. GoodRows(L)
  BY <1>2, <1>4, RowsJoined DEF AllBefore
<1> HIDE DEF L
<1> QED  BY <1>3, <1>5, ApiEdition

\* Only in the main edition.
LEMMA RedirectTable == \A e : PartOf(AdminRedirectRoutes(e), AdminRedirectRoutes("main"), {"redirects"})
<1> DEFINE r1 == <<"GET", <<>>>>
           r2 == <<"POST", <<>>>>
           r3 == <<"DELETE", <<"{n}">>>>
           L == <<r1, r2, r3>>
<1>1. IsRow(r1) /\ IsRow(r2) /\ IsRow(r3) /\ Before(r1, r2) /\ Before(r1, r3) /\ Before(r2, r3)
  BY RowFacts DEF Methods
<1>2. \A e : AdminRedirectRoutes(e) = Mount(<<"api", "admin", "redirects">>, "admin", MainOnly(e, L))
  BY DEF AdminRedirectRoutes
<1> HIDE DEF r1, r2, r3
<1>3. GoodRows(L)
  BY <1>1, ShortRows
<1> HIDE DEF L
<1>4. \A e : /\ GoodRows(MainOnly(e, L))
            /\ ToSet(MainOnly(e, L)) \subseteq ToSet(MainOnly("main", L))
  BY <1>3, MainOnlyRows
<1> QED  BY <1>2, <1>4, ApiEdition

\* Logging in and out is open, what else there is asks who calls.
LEMMA AuthTable == \A e : PartOf(AdminAuthRoutes(e), AdminAuthRoutes("main"), {"auth"})
<1> DEFINE r1 == <<"POST", <<"login">>>>
           r2 == <<"POST", <<"logout">>>>
           r3 == <<"POST", <<"2fa", "setup">>>>
           r4 == <<"POST", <<"2fa", "enable">>>>
           r5 == <<"POST", <<"2fa", "disable">>>>
           r6 == <<"POST", <<"change-password">>>>
           r7 == <<"GET", <<"me">>>>
           prefix == <<"api", "admin", "auth">>
<1>1. IsRow(r1) /\ IsRow(r2) /\ IsRow(r3) /\ IsRow(r4) /\ IsRow(r5) /\ IsRow(r6) /\ IsRow(r7)
  BY RowFacts DEF Methods
<1>2. Before(r1, r2) /\ Before(r3, r4) /\ Before(r3, r5) /\ Before(r4, r5) /\ Before(r6, r7)
  BY RowFacts
<1>3. /\ Before(r3, r6) /\ Before(r4, r6) /\ Before(r5, r6)
      /\ Before(r3, r7) /\ Before(r4, r7) /\ Before(r5, r7)
  BY RowFacts
<1>4. /\ \A r \in {r1, r2} : r[2] # <<>> /\ r[2][1] \in {"login", "logout"}
      /\ \A r \in {r3, r4, r5, r6, r7} : r[2][1] \in {"2fa", "change-password", "me"}
  OBVIOUS
<1>5. IsSeq(prefix) /\ Len(prefix) + 1 = 4
  BY ShortSeqs
<1> DEFINE x == <<r1, r2>>
           y == <<r3, r4, r5>>
           z == <<r6, r7>>
           L(e) == MainOnly(e, y) \o z
<1>6. \A e : AdminAuthRoutes(e) = Mount(prefix, "open", x) \o Mount(prefix, "auth", L(e))
  BY DEF AdminAuthRoutes
<1> HIDE DEF r1, r2, r3, r4, r5, r6, r7
<1>7. /\ GoodRows(x) /\ ToSet(x) = {r1, r2}
      /\ GoodRows(y) /\ ToSet(y) = {r3, r4, r5}
      /\ GoodRows(z) /\ ToSet(z) = {r6, r7}
  BY <1>1, <1>2, ShortRows
<1> HIDE DEF x, y, z
<1>8. \A e : /\ GoodRows(MainOnly(e, y)) /\ ToSet(MainOnly(e, y)) \subseteq {r3, r4, r5}
            /\ ToSet(MainOnly(e, y)) \subseteq ToSet(MainOnly("main", y))
  BY <1>7, MainOnlyRows
<1>9. \A e : GoodRows(L(e)) /\ ToSet(L(e)) = ToSet(MainOnly(e, y)) \cup ToSet(z)
  BY <1>3, <1>7, <1>8, RowsJoined DEF AllBefore
<1>10. \A e : ToSet(L(e)) \subseteq {r3, r4, r5, r6, r7} /\ ToSet(L(e)) \subseteq ToSet(L("main"))
  BY <1>7, <1>8, <1>9
<1> HIDE DEF L
<1> DEFINE S == Mount(prefix, "open", x)
           T(e) == Mount(prefix, "auth", L(e))
<1>11. ApiTable(S, {"auth"}) /\ \A e : ApiTable(T(e), {"auth"})
  BY <1>7, <1>9, ApiMount
<1> HIDE DEF prefix
<1>12. "open" \in Guarded /\ "auth" \in Guarded
  BY DEF Guarded
<1>13. HasAt(S, 4, {"login", "logout"}) /\ Reaches(S, 4)
  <2>1. IsRows(x) /\ Begin(x, {"login", "logout"}) /\ \A r \in ToSet(x) : r[2] # <<>>
    BY <1>4, <1>7 DEF Begin, GoodRows
  <2> QED  BY <1>5, <1>12, <2>1, ShortMount
<1>14. \A e : HasAt(T(e), 4, {"2fa", "change-password", "me"})
  <2>1. \A e : IsRows(L(e)) /\ Begin(L(e), {"2fa", "change-password", "me"})
    BY <1>4, <1>9, <1>10 DEF Begin, GoodRows
  <2> QED  BY <1>5, <1>12, <2>1, ShortMount
<1>15. \A e : ToSet(T(e)) \subseteq ToSet(T("main"))
  BY <1>5, <1>9, <1>10, <1>12, MountMore DEF GoodRows
<1> HIDE DEF S, T
<1>16. ASSUME NEW e PROVE ApiTable(S \o T(e), {"auth"}) /\ ToSet(S \o T(e)) = ToSet(S) \cup ToSet(T(e))
  <2>1. IsTable(S) /\ IsTable(T(e)) /\ 4 \in Nat \ {0}
    BY <1>11 DEF ApiTable
  <2>2. /\ {"login", "logout"} \cap {"2fa", "change-password", "me"} = {}
        /\ {"login", "logout"} \cap Params = {}
    BY DEF Params
  <2>3. Apart(S, T(e))
    BY <1>13, <1>14, <2>1, <2>2, ApartAt
  <2> QED  BY <1>11, <2>1, <2>3, OneAfterTheOther DEF ApiTable
<1>17. \A e : AdminAuthRoutes(e) = S \o T(e)
  BY <1>6 DEF S, T
<1> QED  BY <1>15, <1>16, <1>17 DEF PartOf

(* Lists of pages. *)

\* Lists of one and of two names.
LEMMA ShortNames ==
    /\ \A a : Names(<<a>>) /\ ToSet(<<a>>) = {a}
    /\ \A a, b : a \notin {b} \cup Params => Names(<<a, b>>) /\ ToSet(<<a, b>>) = {a, b}
<1>1. ASSUME NEW a PROVE Names(<<a>>) /\ ToSet(<<a>>) = {a}
  <2> DEFINE T == <<a>>
  <2>1. T \in Seq({a}) /\ DOMAIN T = 1..1 /\ T[1] = a
    OBVIOUS
  <2> HIDE DEF T
  <2>2. Names(T) /\ ToSet(T) = {a}
    BY <2>1 DEF Names, IsSeq, ToSet
  <2> QED  BY <2>2 DEF T
<1>2. ASSUME NEW a, NEW b, a \notin {b} \cup Params PROVE Names(<<a, b>>) /\ ToSet(<<a, b>>) = {a, b}
  <2> DEFINE T == <<a, b>>
  <2>1. T \in Seq({a, b}) /\ DOMAIN T = 1..2 /\ T[1] = a /\ T[2] = b
    OBVIOUS
  <2> HIDE DEF T
  <2>2. Names(T) /\ ToSet(T) = {a, b}
    BY <1>2, <2>1 DEF Names, IsSeq, ToSet
  <2> QED  BY <2>2 DEF T
<1> QED  BY <1>1, <1>2

\* What pages promise as rows, and mounted.
LEMMA PageRows ==
    ASSUME NEW names, Names(names)
    PROVE  /\ GoodRows(Pages(names)) /\ Begin(Pages(names), ToSet(names))
           /\ \A r \in ToSet(Pages(names)) : r[2] # <<>>
BY PagesGood DEF Begin

LEMMA DashboardTable == PartOf(AdminDashboardRoutes, AdminDashboardRoutes, {"dashboard"})
<1>1. GoodRows(Pages(<<"metrics">>))
  BY ShortNames, PageRows
<1> QED  BY <1>1, ApiEdition DEF AdminDashboardRoutes

PublicPages == <<"about", "introduction", "contact", "privacy-policy", "terms",
                 "editorial-policy", "sitemap", "search", "rss", "sitemap.xml", "robots.txt">>
AdminPages == <<"dashboard", "users", "menus", "contents", "messages", "jobs",
                "settings", "logs", "db-connections">>

\* The public pages have names of their own, none of which begins another area.
LEMMA PublicNames ==
    /\ Names(PublicPages)
    /\ ToSet(PublicPages) \cap ({"admin", "healthz", "api", "openapi.json", "redoc"} \cup Params) = {}
<1> DEFINE N == PublicPages
<1>1. /\ DOMAIN N = 1..11
      /\ N[1] = "about" /\ N[2] = "introduction" /\ N[3] = "contact" /\ N[4] = "privacy-policy"
      /\ N[5] = "terms" /\ N[6] = "editorial-policy" /\ N[7] = "sitemap" /\ N[8] = "search"
      /\ N[9] = "rss" /\ N[10] = "sitemap.xml" /\ N[11] = "robots.txt"
  BY DEF PublicPages
<1> DEFINE S == {"about", "introduction", "contact", "privacy-policy", "terms",
                "editorial-policy", "sitemap", "search", "rss", "sitemap.xml", "robots.txt"}
<1>2. N \in Seq(S)
  BY DEF PublicPages
<1> HIDE DEF N
<1>3. ASSUME NEW j \in 1..11, NEW k \in 1..11, j < k PROVE N[j] # N[k]
  <2>1. j \in {1, 2, 3, 4, 5, 6, 7, 8, 9, 10, 11} /\ k \in {1, 2, 3, 4, 5, 6, 7, 8, 9, 10, 11}
    BY <1>3
  <2> QED  BY <1>1, <1>3, <2>1
<1>4. ASSUME NEW j \in 1..11
      PROVE  N[j] \notin {"admin", "healthz", "api", "openapi.json", "redoc", "{n}", "{s}"}
  <2>1. j \in {1, 2, 3, 4, 5, 6, 7, 8, 9, 10, 11}
    OBVIOUS
  <2> QED  BY <1>1, <2>1
<1>5. ToSet(N) \cap ({"admin", "healthz", "api", "openapi.json", "redoc"} \cup Params) = {}
  BY <1>1, <1>4 DEF Params, ToSet
<1>6. \A j, k \in DOMAIN N : j < k => N[j] \notin {N[k]} \cup Params
  BY <1>1, <1>3, <1>4 DEF Params
<1>7. Names(N)
  BY <1>2, <1>6 DEF Names, IsSeq
<1> QED  BY <1>5, <1>7 DEF N

\* The pages of the admin area have names of their own.
LEMMA AdminNames ==
    /\ Names(AdminPages)
    /\ ToSet(AdminPages) \cap ({"login", "change-password", "redirects"} \cup Params) = {}
<1> DEFINE N == AdminPages
<1>1. /\ DOMAIN N = 1..9
      /\ N[1] = "dashboard" /\ N[2] = "users" /\ N[3] = "menus" /\ N[4] = "contents"
      /\ N[5] = "messages" /\ N[6] = "jobs" /\ N[7] = "settings" /\ N[8] = "logs"
      /\ N[9] = "db-connections"
  BY DEF AdminPages
<1> DEFINE S == {"dashboard", "users", "menus", "contents", "messages", "jobs", "settings", "logs",
                "db-connections"}
<1>2. N \in Seq(S)
  BY DEF AdminPages
<1> HIDE DEF N
<1>3. ASSUME NEW j \in 1..9, NEW k \in 1..9, j < k PROVE N[j] # N[k]
  <2>1. j \in {1, 2, 3, 4, 5, 6, 7, 8, 9} /\ k \in {1, 2, 3, 4, 5, 6, 7, 8, 9}
    BY <1>3
  <2> QED  BY <1>1, <1>3, <2>1
<1>4. ASSUME NEW j \in 1..9
      PROVE  N[j] \notin {"login", "change-password", "redirects", "{n}", "{s}"}
  <2>1. j \in {1, 2, 3, 4, 5, 6, 7, 8, 9}
    OBVIOUS
  <2> QED  BY <1>1, <2>1
<1>5. ToSet(N) \cap ({"login", "change-password", "redirects"} \cup Params) = {}
  BY <1>1, <1>4 DEF Params, ToSet
<1>6. \A j, k \in DOMAIN N : j < k => N[j] \notin {N[k]} \cup Params
  BY <1>1, <1>3, <1>4 DEF Params
<1>7. Names(N)
  BY <1>2, <1>6 DEF Names, IsSeq
<1> QED  BY <1>5, <1>7 DEF N

\* What editions have of two tables with different names, one after the other.
LEMMA PartsJoined ==
    ASSUME NEW S, NEW M, NEW names, PartOf(S, M, names),
           NEW T, NEW N, NEW others, PartOf(T, N, others),
           \A x \in names : x \notin others \cup Params
    PROVE  PartOf(S \o T, M \o N, names \cup others)
<1>1. names \cap others = {} /\ names \cap Params = {}
  OBVIOUS
<1>2. ApiTable(S \o T, names \cup others) /\ ApiTable(M \o N, names \cup others)
  BY <1>1, ApiJoined DEF PartOf
<1>3. ToSet(S \o T) = ToSet(S) \cup ToSet(T) /\ ToSet(M \o N) = ToSet(M) \cup ToSet(N)
  BY OneAfterTheOther DEF PartOf, ApiTable
<1> QED  BY <1>2, <1>3 DEF PartOf

\* The controllers of the admin API, one after the other.
LEMMA ApiRoutes == \A e : \E names :
    PartOf(AdminApiRoutes(e), AdminApiRoutes("main"), names) /\ names \cap Params = {}
<1> TAKE e
<1> DEFINE s1 == AdminAuthRoutes(e)
           s2 == AdminUserRoutes(e)
           s3 == AdminMenuRoutes
           s4 == AdminContentRoutes
           s5 == AdminContactRoutes(e)
           s6 == AdminLogRoutes(e)
           s7 == AdminDashboardRoutes
           s8 == AdminSettingsRoutes
           s9 == AdminSystemRoutes
           s10 == AdminRedirectRoutes(e)
           m1 == AdminAuthRoutes("main")
           m2 == AdminUserRoutes("main")
           m3 == AdminMenuRoutes
           m4 == AdminContentRoutes
           m5 == AdminContactRoutes("main")
           m6 == AdminLogRoutes("main")
           m7 == AdminDashboardRoutes
           m8 == AdminSettingsRoutes
           m9 == AdminSystemRoutes
           m10 == AdminRedirectRoutes("main")
           n1 == {"auth"}
           n2 == {"users"}
           n3 == {"menus"}
           n4 == {"contents"}
           n5 == {"messages"}
           n6 == {"logs"}
           n7 == {"dashboard"}
           n8 == {"settings"}
           n9 == {"system"}
           n10 == {"redirects"}
<1>1. /\ AdminApiRoutes(e) = s1 \o s2 \o s3 \o s4 \o s5 \o s6 \o s7 \o s8 \o s9 \o s10
      /\ AdminApiRoutes("main") = m1 \o m2 \o m3 \o m4 \o m5 \o m6 \o m7 \o m8 \o m9 \o m10
  BY DEF AdminApiRoutes
<1>2. /\ PartOf(s1, m1, n1) /\ PartOf(s2, m2, n2)
      /\ PartOf(s3, m3, n3) /\ PartOf(s4, m4, n4)
      /\ PartOf(s5, m5, n5) /\ PartOf(s6, m6, n6)
      /\ PartOf(s7, m7, n7) /\ PartOf(s8, m8, n8)
      /\ PartOf(s9, m9, n9) /\ PartOf(s10, m10, n10)
  BY AuthTable, UserTable, MenuTable, ContentTable, ContactTable,
     LogTable, DashboardTable, SettingsTable, SystemTable, RedirectTable
<1>3. /\ \A x \in n1 : x \notin n2 \cup n3 \cup n4 \cup n5 \cup n6 \cup n7 \cup n8 \cup n9 \cup n10 \cup Params
      /\ \A x \in n2 : x \notin n3 \cup n4 \cup n5 \cup n6 \cup n7 \cup n8 \cup n9 \cup n10 \cup Params
      /\ \A x \in n3 : x \notin n4 \cup n5 \cup n6 \cup n7 \cup n8 \cup n9 \cup n10 \cup Params
      /\ \A x \in n4 : x \notin n5 \cup n6 \cup n7 \cup n8 \cup n9 \cup n10 \cup Params
      /\ \A x \in n5 : x \notin n6 \cup n7 \cup n8 \cup n9 \cup n10 \cup Params
      /\ \A x \in n6 : x \notin n7 \cup n8 \cup n9 \cup n10 \cup Params
      /\ \A x \in n7 : x \notin n8 \cup n9 \cup n10 \cup Params
      /\ \A x \in n8 : x \notin n9 \cup n10 \cup Params
      /\ \A x \in n9 : x \notin n10 \cup Params
      /\ \A x \in n10 : x \notin Params
  BY DEF Params
<1> HIDE DEF s1, s2, s3, s4, s5, s6, s7, s8, s9, s10,
           m1, m2, m3, m4, m5, m6, m7, m8, m9, m10,
           n1, n2, n3, n4, n5, n6, n7, n8, n9, n10
<1>4. PartOf(s1 \o s2,
             m1 \o m2,
             n1 \cup n2)
  BY <1>2, <1>3, PartsJoined
<1>5. PartOf(s1 \o s2 \o s3,
             m1 \o m2 \o m3,
             n1 \cup n2 \cup n3)
  BY <1>2, <1>3, <1>4, PartsJoined
<1>6. PartOf(s1 \o s2 \o s3 \o s4,
             m1 \o m2 \o m3 \o m4,
             n1 \cup n2 \cup n3 \cup n4)
  BY <1>2, <1>3, <1>5, PartsJoined
<1>7. PartOf(s1 \o s2 \o s3 \o s4 \o s5,
             m1 \o m2 \o m3 \o m4 \o m5,
             n1 \cup n2 \cup n3 \cup n4 \cup n5)
  BY <1>2, <1>3, <1>6, PartsJoined
<1>8. PartOf(s1 \o s2 \o s3 \o s4 \o s5 \o s6,
             m1 \o m2 \o m3 \o m4 \o m5 \o m6,
             n1 \cup n2 \cup n3 \cup n4 \cup n5 \cup n6)
  BY <1>2, <1>3, <1>7, PartsJoined
<1>9. PartOf(s1 \o s2 \o s3 \o s4 \o s5 \o s6 \o s7,
             m1 \o m2 \o m3 \o m4 \o m5 \o m6 \o m7,
             n1 \cup n2 \cup n3 \cup n4 \cup n5 \cup n6 \cup n7)
  BY <1>2, <1>3, <1>8, PartsJoined
<1>10. PartOf(s1 \o s2 \o s3 \o s4 \o s5 \o s6 \o s7 \o s8,
             m1 \o m2 \o m3 \o m4 \o m5 \o m6 \o m7 \o m8,
             n1 \cup n2 \cup n3 \cup n4 \cup n5 \cup n6 \cup n7 \cup n8)
  BY <1>2, <1>3, <1>9, PartsJoined
<1>11. PartOf(s1 \o s2 \o s3 \o s4 \o s5 \o s6 \o s7 \o s8 \o s9,
             m1 \o m2 \o m3 \o m4 \o m5 \o m6 \o m7 \o m8 \o m9,
             n1 \cup n2 \cup n3 \cup n4 \cup n5 \cup n6 \cup n7 \cup n8 \cup n9)
  BY <1>2, <1>3, <1>10, PartsJoined
<1>12. PartOf(s1 \o s2 \o s3 \o s4 \o s5 \o s6 \o s7 \o s8 \o s9 \o s10,
             m1 \o m2 \o m3 \o m4 \o m5 \o m6 \o m7 \o m8 \o m9 \o m10,
             n1 \cup n2 \cup n3 \cup n4 \cup n5 \cup n6 \cup n7 \cup n8 \cup n9 \cup n10)
  BY <1>2, <1>3, <1>11, PartsJoined
<1>13. (n1 \cup n2 \cup n3 \cup n4 \cup n5 \cup n6 \cup n7 \cup n8 \cup n9 \cup n10) \cap Params = {}
  BY <1>3
<1> QED  BY <1>1, <1>12, <1>13

(* The other tables. *)

LEMMA FrameworkTable ==
    /\ IsTable(FrameworkRoutes) /\ Clean(FrameworkRoutes) /\ NoPages(FrameworkRoutes)
    /\ HasAt(FrameworkRoutes, 1, {"openapi.json", "redoc"}) /\ Reaches(FrameworkRoutes, 1)
<1> DEFINE names == <<"openapi.json", "redoc">>
<1>1. Names(names) /\ ToSet(names) = {"openapi.json", "redoc"}
  BY ShortNames DEF Params
<1> HIDE DEF names
<1>2. /\ GoodRows(Pages(names)) /\ Begin(Pages(names), {"openapi.json", "redoc"})
      /\ \A r \in ToSet(Pages(names)) : r[2] # <<>>
  BY <1>1, PageRows
<1> DEFINE prefix == <<>>
           T == Mount(prefix, "open", Pages(names))
<1>3. IsSeq(prefix) /\ Len(prefix) + 1 = 1 /\ "open" \in Guarded /\ ~IsPage("open")
  BY ShortSeqs DEF Guarded, IsPage
<1>4. FrameworkRoutes = T
  BY DEF FrameworkRoutes, names
<1> HIDE DEF prefix
<1>5. IsTable(T) /\ Clean(T) /\ NoPages(T)
  BY <1>2, <1>3, MountFacts DEF GoodRows
<1>6. HasAt(T, 1, {"openapi.json", "redoc"}) /\ Reaches(T, 1)
  BY <1>2, <1>3, ShortMount DEF GoodRows
<1> QED  BY <1>4, <1>5, <1>6

\* The probe is at its own path.
LEMMA HealthTable ==
    /\ IsTable(HealthRoutes) /\ Clean(HealthRoutes) /\ NoPages(HealthRoutes)
    /\ HasAt(HealthRoutes, 1, {"healthz"}) /\ Reaches(HealthRoutes, 1)
    /\ \E r \in ToSet(HealthRoutes) : r.path = <<"healthz">>
<1> DEFINE names == <<"healthz">>
<1>1. Names(names) /\ ToSet(names) = {"healthz"}
  BY ShortNames
<1> HIDE DEF names
<1>2. /\ GoodRows(Pages(names)) /\ Begin(Pages(names), {"healthz"})
      /\ \A r \in ToSet(Pages(names)) : r[2] # <<>>
  BY <1>1, PageRows
<1> DEFINE prefix == <<>>
           T == Mount(prefix, "open", Pages(names))
<1>3. IsSeq(prefix) /\ Len(prefix) + 1 = 1 /\ "open" \in Guarded /\ ~IsPage("open")
  BY ShortSeqs DEF Guarded, IsPage
<1>4. HealthRoutes = T
  BY DEF HealthRoutes, names
<1> HIDE DEF prefix
<1>5. IsTable(T) /\ Clean(T) /\ NoPages(T)
  BY <1>2, <1>3, MountFacts DEF GoodRows
<1>6. HasAt(T, 1, {"healthz"}) /\ Reaches(T, 1)
  BY <1>2, <1>3, ShortMount DEF GoodRows
<1>7. \E r \in ToSet(T) : r.path = <<"healthz">>
  <2>1. <<>> \o <<"healthz">> = <<"healthz">>
    OBVIOUS
  <2>2. 1 \in DOMAIN names /\ names[1] = "healthz"
    BY DEF names
  <2>3. DOMAIN Pages(names) = DOMAIN names /\ Pages(names)[1] = <<"GET", <<"healthz">>>>
    BY <2>2 DEF Pages
  <2> DEFINE rs == Pages(names)
  <2>4. rs[1][2] = <<"healthz">> /\ 1 \in DOMAIN rs
    BY <2>2, <2>3
  <2> HIDE DEF rs
  <2>5. 1 \in DOMAIN T /\ T[1].path = prefix \o rs[1][2]
    <3>1. T = Mount(prefix, "open", rs)
      BY DEF rs
    <3> QED  BY <2>4, <3>1 DEF Mount
  <2> QED  BY <2>1, <2>4, <2>5 DEF ToSet, prefix
<1> QED  BY <1>4, <1>5, <1>6, <1>7

LEMMA PublicWebTable ==
    /\ IsTable(PublicWebRoutes) /\ Clean(PublicWebRoutes) /\ NoPages(PublicWebRoutes)
    /\ HasAt(PublicWebRoutes, 1, ToSet(PublicPages))
<1> DEFINE r == <<"GET", <<>>>>
           x == <<r>>
           y == Pages(PublicPages)
           prefix == <<>>
           T == Mount(prefix, "open", x \o y)
<1>1. PublicWebRoutes = T
  BY DEF PublicWebRoutes, PublicPages
<1>2. IsSeq(prefix) /\ Len(prefix) + 1 = 1 /\ "open" \in Guarded /\ ~IsPage("open")
  BY ShortSeqs DEF Guarded, IsPage
<1>3. IsRow(r) /\ r[2] = <<>> /\ \A a : Before(r, <<"GET", <<a>>>>)
  BY RowFacts DEF Methods
<1> HIDE DEF r, prefix
<1>4. GoodRows(x) /\ ToSet(x) = {r}
  BY <1>3, ShortRows
<1>5. /\ GoodRows(y) /\ Begin(y, ToSet(PublicPages))
      /\ \A s \in ToSet(y) : \E a \in ToSet(PublicPages) : s = <<"GET", <<a>>>>
  BY PublicNames, PageRows, PagesGood
<1> HIDE DEF x, y
<1>6. AllBefore(x, y)
  BY <1>3, <1>4, <1>5 DEF AllBefore
<1>7. GoodRows(x \o y) /\ ToSet(x \o y) = ToSet(x) \cup ToSet(y)
  BY <1>4, <1>5, <1>6, RowsJoined
<1>8. Begin(x \o y, ToSet(PublicPages))
  BY <1>3, <1>4, <1>5, <1>7 DEF Begin
<1>9. IsTable(T) /\ Clean(T) /\ NoPages(T)
  BY <1>2, <1>7, MountFacts DEF GoodRows
<1>10. HasAt(T, 1, ToSet(PublicPages))
  BY <1>2, <1>7, <1>8, ShortMount DEF GoodRows
<1> QED  BY <1>1, <1>9, <1>10

LEMMA PublicApiTable ==
    /\ IsTable(PublicApiRoutes) /\ Clean(PublicApiRoutes) /\ NoPages(PublicApiRoutes)
    /\ HasAt(PublicApiRoutes, 1, {"api"}) /\ Reaches(PublicApiRoutes, 1)
    /\ HasAt(PublicApiRoutes, 2, {"public"}) /\ Reaches(PublicApiRoutes, 2)
<1> DEFINE r1 == <<"GET", <<"menus">>>>
           r2 == <<"GET", <<"content", "{s}">>>>
           r3 == <<"GET", <<"search">>>>
           r4 == <<"GET", <<"sitemap">>>>
           r5 == <<"POST", <<"contact">>>>
           prefix == <<"api", "public">>
<1>1. IsRow(r1) /\ IsRow(r2) /\ IsRow(r3) /\ IsRow(r4) /\ IsRow(r5)
  BY RowFacts DEF Methods
<1>2. /\ Before(r1, r2) /\ Before(r1, r3) /\ Before(r1, r4) /\ Before(r1, r5)
      /\ Before(r2, r3) /\ Before(r2, r4) /\ Before(r2, r5)
      /\ Before(r3, r4) /\ Before(r3, r5) /\ Before(r4, r5)
  BY RowFacts
<1>3. /\ IsSeq(prefix) /\ Len(prefix) = 2 /\ prefix[1] = "api" /\ prefix[2] = "public"
      /\ "open" \in Guarded /\ ~IsPage("open")
  BY ShortSeqs DEF Guarded, IsPage
<1>4. PublicApiRoutes = Mount(prefix, "open", <<r1, r2, r3, r4, r5>>)
  BY DEF PublicApiRoutes
<1> HIDE DEF r1, r2, r3, r4, r5, prefix
<1>5. /\ GoodRows(<<r1, r2, r3>>) /\ ToSet(<<r1, r2, r3>>) = {r1, r2, r3}
      /\ GoodRows(<<r4, r5>>) /\ ToSet(<<r4, r5>>) = {r4, r5}
  BY <1>1, <1>2, ShortRows
<1>6. GoodRows(<<r1, r2, r3>> \o <<r4, r5>>)
  BY <1>2, <1>5, RowsJoined DEF AllBefore
<1>7. <<r1, r2, r3, r4, r5>> = <<r1, r2, r3>> \o <<r4, r5>>
  BY LongRows
<1> DEFINE L == <<r1, r2, r3, r4, r5>>
           T == Mount(prefix, "open", L)
<1>8. GoodRows(L)
  BY <1>6, <1>7
<1> HIDE DEF L
<1>9. /\ IsTable(T) /\ Clean(T) /\ NoPages(T)
      /\ \A i \in 1..Len(prefix) : HasAt(T, i, {prefix[i]}) /\ Reaches(T, i)
  BY <1>3, <1>8, MountFacts DEF GoodRows
<1>10. 1 \in 1..Len(prefix) /\ 2 \in 1..Len(prefix)
  BY <1>3
<1> HIDE DEF T
<1>11. PublicApiRoutes = T
  BY <1>4 DEF T, L
<1> QED  BY <1>3, <1>9, <1>10, <1>11

\* The pages of the site are all behind one parameter.
LEMMA DynamicTable ==
    /\ IsTable(DynamicRoutes) /\ NoPages(DynamicRoutes)
    /\ \A r \in ToSet(DynamicRoutes) : r.path = <<"{s}">>
<1> DEFINE names == <<"{s}">>
           rs == Pages(names)
           prefix == <<>>
           T == Mount(prefix, "open", rs)
<1>1. Names(names) /\ DOMAIN names = {1} /\ names[1] = "{s}"
  <2>1. DOMAIN names = {1} /\ names[1] = "{s}"
    OBVIOUS
  <2> QED  BY <2>1, ShortNames
<1>2. IsSeq(prefix) /\ "open" \in Guarded /\ ~IsPage("open") /\ <<>> \o <<"{s}">> = <<"{s}">>
  BY ShortSeqs DEF Guarded, IsPage
<1>3. DynamicRoutes = T
  BY DEF DynamicRoutes
<1> HIDE DEF names
<1>4. GoodRows(rs) /\ DOMAIN rs = {1}
  BY <1>1, PageRows DEF Pages
<1>5. rs[1][2] = <<"{s}">>
  BY <1>1 DEF Pages
<1> HIDE DEF rs
<1>6. \A k \in DOMAIN T : T[k].path = <<"{s}">>
  BY <1>2, <1>4, <1>5 DEF Mount
<1> HIDE DEF prefix
<1>7. IsTable(T) /\ NoPages(T)
  BY <1>2, <1>4, MountFacts DEF GoodRows
<1> QED  BY <1>3, <1>6, <1>7 DEF ToSet

WebTable(T) == IsTable(T) /\ Clean(T) /\ HasAt(T, 1, {"admin"}) /\ Reaches(T, 1)

\* Whatever is mounted in the admin area begins with it.
LEMMA WebMount ==
    ASSUME NEW rs, GoodRows(rs), NEW access \in Guarded
    PROVE  WebTable(Mount(<<"admin">>, access, rs))
<1> DEFINE prefix == <<"admin">>
           T == Mount(prefix, access, rs)
<1>1. IsSeq(prefix)
  BY ShortSeqs
<1>2. 1 \in 1..Len(prefix)
  OBVIOUS
<1>3. prefix[1] = "admin"
  OBVIOUS
<1> HIDE DEF prefix
<1>4. /\ IsTable(T) /\ Clean(T)
      /\ \A i \in 1..Len(prefix) : HasAt(T, i, {prefix[i]}) /\ Reaches(T, i)
  BY <1>1, MountFacts DEF GoodRows
<1> HIDE DEF T
<1>5. WebTable(T)
  BY <1>2, <1>3, <1>4 DEF WebTable
<1> QED  BY <1>5 DEF T, prefix

\* The admin area in one edition is part of what it is in the other, and its
\* first page is at the prefix.
LEMMA AdminWebTable == \A e :
    /\ WebTable(AdminWebRoutes(e))
    /\ ToSet(AdminWebRoutes(e)) \subseteq ToSet(AdminWebRoutes("main"))
    /\ \E r \in ToSet(AdminWebRoutes(e)) : r.path = <<"admin">>
<1> DEFINE r0 == <<"GET", <<>>>>
           prefix == <<"admin">>
           more == Pages(<<"redirects">>)
           x == <<r0>>
           y == Pages(AdminPages)
           z(e) == MainOnly(e, more)
           S1 == Mount(prefix, "open", Pages(<<"login">>))
           S2 == Mount(prefix, "pending page", Pages(<<"change-password">>))
           L(e) == x \o y \o z(e)
           S3(e) == Mount(prefix, "page", L(e))
<1>1. \A e : AdminWebRoutes(e) = S1 \o S2 \o S3(e)
  BY DEF AdminWebRoutes, AdminPages
<1>2. /\ IsSeq(prefix) /\ Len(prefix) = 1 /\ prefix[1] = "admin" /\ Len(prefix) + 1 = 2
      /\ "open" \in Guarded /\ "page" \in Guarded /\ "pending page" \in Guarded
  BY ShortSeqs DEF Guarded
<1>3. IsRow(r0) /\ r0[2] = <<>> /\ \A a : Before(r0, <<"GET", <<a>>>>)
  BY RowFacts DEF Methods
<1> HIDE DEF r0, prefix
<1>4. /\ GoodRows(Pages(<<"login">>)) /\ Begin(Pages(<<"login">>), {"login"})
      /\ \A r \in ToSet(Pages(<<"login">>)) : r[2] # <<>>
  BY ShortNames, PageRows
<1>5. /\ GoodRows(Pages(<<"change-password">>))
      /\ Begin(Pages(<<"change-password">>), {"change-password"})
      /\ \A r \in ToSet(Pages(<<"change-password">>)) : r[2] # <<>>
  BY ShortNames, PageRows
<1>6. /\ GoodRows(more) /\ Begin(more, {"redirects"})
      /\ \A r \in ToSet(more) : r = <<"GET", <<"redirects">>>>
  <2> DEFINE names == <<"redirects">>
  <2>1. Names(names) /\ ToSet(names) = {"redirects"}
    BY ShortNames
  <2> HIDE DEF names
  <2>2. /\ GoodRows(Pages(names)) /\ Begin(Pages(names), {"redirects"})
        /\ \A r \in ToSet(Pages(names)) : \E a \in {"redirects"} : r = <<"GET", <<a>>>>
    BY <2>1, PageRows, PagesGood
  <2> QED  BY <2>2 DEF names
<1>7. /\ GoodRows(y) /\ Begin(y, ToSet(AdminPages))
      /\ \A r \in ToSet(y) : \E a \in ToSet(AdminPages) : r = <<"GET", <<a>>>>
  BY AdminNames, PageRows, PagesGood
<1>8. GoodRows(x) /\ ToSet(x) = {r0}
  BY <1>3, ShortRows
<1> HIDE DEF more
<1>9. \A e : /\ GoodRows(z(e)) /\ ToSet(z(e)) \subseteq ToSet(more)
            /\ ToSet(z(e)) \subseteq ToSet(z("main"))
  BY <1>6, MainOnlyRows
<1> HIDE DEF x, y, z
<1>10. GoodRows(x \o y) /\ ToSet(x \o y) = ToSet(x) \cup ToSet(y)
  <2>1. AllBefore(x, y)
    BY <1>3, <1>7, <1>8 DEF AllBefore
  <2> QED  BY <1>7, <1>8, <2>1, RowsJoined
<1>11. ASSUME NEW e PROVE GoodRows(L(e)) /\ ToSet(L(e)) = ToSet(x) \cup ToSet(y) \cup ToSet(z(e))
  <2>1. \A a \in ToSet(AdminPages) : a \notin {"redirects", "{n}", "{s}"}
    BY AdminNames DEF Params
  <2>2. \A a \in ToSet(AdminPages) : Before(<<"GET", <<a>>>>, <<"GET", <<"redirects">>>>)
    BY <2>1, RowFacts
  <2>3. Before(r0, <<"GET", <<"redirects">>>>)
    BY <1>3
  <2>4. AllBefore(x \o y, z(e))
    BY <1>6, <1>7, <1>8, <1>9, <1>10, <2>2, <2>3 DEF AllBefore
  <2> QED  BY <1>9, <1>10, <2>4, RowsJoined
<1>12. \A e : Begin(L(e), ToSet(AdminPages) \cup {"redirects"})
  BY <1>3, <1>6, <1>7, <1>8, <1>9, <1>11 DEF Begin
<1>13. \A e : ToSet(L(e)) \subseteq ToSet(L("main")) /\ r0 \in ToSet(L(e))
  BY <1>8, <1>9, <1>11
<1> HIDE DEF L
<1>14. \A e : WebTable(S1) /\ WebTable(S2) /\ WebTable(S3(e))
  BY <1>2, <1>4, <1>5, <1>11, WebMount DEF prefix
<1>15. HasAt(S1, 2, {"login"}) /\ Reaches(S1, 2)
  BY <1>2, <1>4, ShortMount DEF GoodRows
<1>16. HasAt(S2, 2, {"change-password"}) /\ Reaches(S2, 2)
  BY <1>2, <1>5, ShortMount DEF GoodRows
<1>17. \A e : HasAt(S3(e), 2, ToSet(AdminPages) \cup {"redirects"})
  BY <1>2, <1>11, <1>12, ShortMount DEF GoodRows
<1>18. \A e : ToSet(S3(e)) \subseteq ToSet(S3("main"))
  BY <1>2, <1>11, <1>13, MountMore DEF GoodRows
<1>19. ASSUME NEW e PROVE \E r \in ToSet(S3(e)) : r.path = <<"admin">>
  <2>1. PICK k \in DOMAIN L(e) : L(e)[k] = r0
    BY <1>13 DEF ToSet
  <2>2. k \in DOMAIN S3(e) /\ S3(e)[k].path = prefix \o r0[2]
    BY <2>1 DEF Mount
  <2>3. prefix \o <<>> = <<"admin">>
    BY DEF prefix
  <2>4. S3(e)[k].path = <<"admin">>
    BY <1>3, <2>2, <2>3
  <2> QED  BY <2>2, <2>4 DEF ToSet
<1> HIDE DEF S1, S2, S3
<1>20. ASSUME NEW e
       PROVE  /\ WebTable(S1 \o S2 \o S3(e))
              /\ ToSet(S1 \o S2 \o S3(e)) = ToSet(S1) \cup ToSet(S2) \cup ToSet(S3(e))
  <2> DEFINE S == S1 \o S2
             T == S3(e)
  <2>1. IsTable(S1) /\ IsTable(S2) /\ IsTable(T) /\ 2 \in Nat \ {0}
    BY <1>14 DEF WebTable
  <2>2. {"login"} \cap {"change-password"} = {} /\ {"login"} \cap Params = {}
    BY DEF Params
  <2>3. Apart(S1, S2)
    BY <1>15, <1>16, <2>1, <2>2, ApartAt
  <2>4. WebTable(S) /\ ToSet(S) = ToSet(S1) \cup ToSet(S2)
    BY <1>14, <2>1, <2>3, OneAfterTheOther DEF WebTable
  <2>5. HasAt(S1, 2, {"login", "change-password"}) /\ HasAt(S2, 2, {"login", "change-password"})
    BY <1>15, <1>16 DEF HasAt
  <2>6. HasAt(S, 2, {"login", "change-password"}) /\ Reaches(S, 2)
    BY <1>15, <1>16, <2>1, <2>5, OneAfterTheOther
  <2>7. /\ {"login", "change-password"} \cap (ToSet(AdminPages) \cup {"redirects"}) = {}
        /\ {"login", "change-password"} \cap Params = {}
    BY AdminNames DEF Params
  <2> HIDE DEF S, T
  <2>8. HasAt(T, 2, ToSet(AdminPages) \cup {"redirects"}) /\ IsTable(S) /\ WebTable(T)
    BY <1>14, <1>17, <2>4 DEF T, WebTable
  <2>9. Apart(S, T)
    BY <2>1, <2>6, <2>7, <2>8, ApartAt
  <2>10. WebTable(S \o T) /\ ToSet(S \o T) = ToSet(S) \cup ToSet(T)
    BY <2>4, <2>8, <2>9, OneAfterTheOther DEF WebTable
  <2> QED  BY <2>4, <2>10 DEF S, T
<1> QED  BY <1>1, <1>18, <1>19, <1>20

(* All built-in routes. *)

\* A module that is left out has no routes.
LEMMA WhenFacts ==
    ASSUME NEW T, IsTable(T), NEW name, NEW mods
    PROVE  LET W == When(name, mods, T) IN
           /\ IsTable(W) /\ (Clean(T) => Clean(W))
           /\ \A S : (Apart(S, T) => Apart(S, W)) /\ (Apart(T, S) => Apart(W, S))
           /\ ToSet(W) \subseteq ToSet(T) /\ (name \in mods => W = T)
<1> DEFINE E == <<>>
<1>1. IsSeq(E) /\ DOMAIN E = {}
  BY ShortSeqs
<1> HIDE DEF E
<1>2. /\ IsTable(E) /\ Clean(E) /\ ToSet(E) = {}
      /\ \A S : Apart(S, E) /\ Apart(E, S)
  BY <1>1 DEF IsTable, Clean, Apart, ToSet
<1>3. When(name, mods, T) = T \/ (name \notin mods /\ When(name, mods, T) = E)
  BY DEF When, E
<1> QED  BY <1>2, <1>3

\* What begins with "api" is apart from what does not.
LEMMA TablesApart ==
    /\ Apart(FrameworkRoutes, HealthRoutes)
    /\ Apart(FrameworkRoutes, PublicWebRoutes) /\ Apart(FrameworkRoutes, PublicApiRoutes)
    /\ Apart(HealthRoutes, PublicWebRoutes) /\ Apart(HealthRoutes, PublicApiRoutes)
    /\ Apart(PublicWebRoutes, PublicApiRoutes)
    /\ \A e : /\ Apart(FrameworkRoutes, AdminWebRoutes(e)) /\ Apart(FrameworkRoutes, AdminApiRoutes(e))
             /\ Apart(HealthRoutes, AdminWebRoutes(e)) /\ Apart(HealthRoutes, AdminApiRoutes(e))
             /\ Apart(PublicWebRoutes, AdminWebRoutes(e)) /\ Apart(PublicWebRoutes, AdminApiRoutes(e))
             /\ Apart(PublicApiRoutes, AdminWebRoutes(e)) /\ Apart(PublicApiRoutes, AdminApiRoutes(e))
             /\ Apart(AdminWebRoutes(e), AdminApiRoutes(e))
<1> DEFINE F == FrameworkRoutes
           H == HealthRoutes
           P == PublicWebRoutes
           A == PublicApiRoutes
<1>1. IsTable(F) /\ HasAt(F, 1, {"openapi.json", "redoc"}) /\ Reaches(F, 1)
  BY FrameworkTable
<1>2. IsTable(H) /\ HasAt(H, 1, {"healthz"}) /\ Reaches(H, 1)
  BY HealthTable
<1>3. IsTable(P) /\ HasAt(P, 1, ToSet(PublicPages))
  BY PublicWebTable
<1>4. IsTable(A) /\ HasAt(A, 1, {"api"}) /\ Reaches(A, 1) /\ HasAt(A, 2, {"public"}) /\ Reaches(A, 2)
  BY PublicApiTable
<1>5. \A e : /\ IsTable(AdminWebRoutes(e)) /\ HasAt(AdminWebRoutes(e), 1, {"admin"})
            /\ Reaches(AdminWebRoutes(e), 1)
  BY AdminWebTable DEF WebTable
<1>6. ASSUME NEW e
      PROVE  LET W == AdminApiRoutes(e) IN
             /\ IsTable(W) /\ HasAt(W, 1, {"api"}) /\ Reaches(W, 1)
             /\ HasAt(W, 2, {"admin"})
  <2> DEFINE W == AdminApiRoutes(e)
  <2>1. IsTable(W) /\ HasAt(W, 1, {"api"}) /\ HasAt(W, 2, {"admin"}) /\ Reaches(W, 3)
    BY ApiRoutes DEF ApiTable, PartOf
  <2> HIDE DEF W
  <2>2. Reaches(W, 1)
    BY <2>1, SeqFacts DEF Reaches, IsTable
  <2> QED  BY <2>1, <2>2 DEF W
<1> HIDE DEF F, H, P, A
<1>7. 1 \in Nat \ {0} /\ 2 \in Nat \ {0}
  OBVIOUS
<1>8. /\ {"openapi.json", "redoc"} \cap {"healthz"} = {}
      /\ {"openapi.json", "redoc"} \cap {"api"} = {} /\ {"healthz"} \cap {"api"} = {}
      /\ {"openapi.json", "redoc"} \cap {"admin"} = {} /\ {"healthz"} \cap {"admin"} = {}
      /\ {"api"} \cap {"admin"} = {} /\ {"public"} \cap {"admin"} = {} /\ {"admin"} \cap {"api"} = {}
      /\ {"openapi.json", "redoc"} \cap Params = {} /\ {"healthz"} \cap Params = {}
      /\ {"api"} \cap Params = {} /\ {"public"} \cap Params = {} /\ {"admin"} \cap Params = {}
  BY DEF Params
<1>9. /\ {"openapi.json", "redoc"} \cap ToSet(PublicPages) = {}
      /\ {"healthz"} \cap ToSet(PublicPages) = {} /\ ToSet(PublicPages) \cap {"api"} = {}
      /\ ToSet(PublicPages) \cap {"admin"} = {} /\ ToSet(PublicPages) \cap Params = {}
  BY PublicNames
<1>10. Apart(F, H)
  BY <1>1, <1>2, <1>7, <1>8, ApartAt
<1>11. Apart(F, P)
  BY <1>1, <1>3, <1>7, <1>8, <1>9, ApartAt
<1>12. Apart(F, A)
  BY <1>1, <1>4, <1>7, <1>8, ApartAt
<1>13. Apart(H, P)
  BY <1>2, <1>3, <1>7, <1>8, <1>9, ApartAt
<1>14. Apart(H, A)
  BY <1>2, <1>4, <1>7, <1>8, ApartAt
<1>15. Apart(P, A)
  BY <1>3, <1>4, <1>7, <1>9, ApartAt
<1>16. ASSUME NEW e
       PROVE  LET W == AdminWebRoutes(e) IN Apart(F, W) /\ Apart(H, W) /\ Apart(P, W) /\ Apart(A, W)
  <2> DEFINE W == AdminWebRoutes(e)
  <2>1. IsTable(W) /\ HasAt(W, 1, {"admin"}) /\ Reaches(W, 1)
    BY <1>5
  <2> HIDE DEF W
  <2>2. Apart(F, W)
    BY <2>1, <1>1, <1>7, <1>8, ApartAt
  <2>3. Apart(H, W)
    BY <2>1, <1>2, <1>7, <1>8, ApartAt
  <2>4. Apart(P, W)
    BY <2>1, <1>3, <1>7, <1>9, ApartAt
  <2>5. Apart(A, W)
    BY <2>1, <1>4, <1>7, <1>8, ApartAt
  <2> QED  BY <2>2, <2>3, <2>4, <2>5 DEF W
<1>17. ASSUME NEW e
       PROVE  LET W == AdminApiRoutes(e) IN
              /\ Apart(F, W) /\ Apart(H, W) /\ Apart(P, W) /\ Apart(A, W)
              /\ Apart(AdminWebRoutes(e), W)
  <2> DEFINE W == AdminApiRoutes(e)
             V == AdminWebRoutes(e)
  <2>1. IsTable(W) /\ HasAt(W, 1, {"api"}) /\ Reaches(W, 1) /\ HasAt(W, 2, {"admin"})
    BY <1>6
  <2>2. IsTable(V) /\ HasAt(V, 1, {"admin"}) /\ Reaches(V, 1)
    BY <1>5
  <2> HIDE DEF W, V
  <2>3. Apart(F, W)
    BY <2>1, <1>1, <1>7, <1>8, ApartAt
  <2>4. Apart(H, W)
    BY <2>1, <1>2, <1>7, <1>8, ApartAt
  <2>5. Apart(P, W)
    BY <2>1, <1>3, <1>7, <1>9, ApartAt
  <2>6. Apart(A, W)
    BY <2>1, <1>4, <1>7, <1>8, ApartAt
  <2>7. Apart(V, W)
    BY <2>1, <2>2, <1>7, <1>8, ApartAt
  <2> QED  BY <2>3, <2>4, <2>5, <2>6, <2>7 DEF W, V
<1> QED  BY <1>10, <1>11, <1>12, <1>13, <1>14, <1>15, <1>16, <1>17 DEF F, H, P, A

\* Where a built-in route comes from.
Origins(e) ==
    ToSet(FrameworkRoutes) \cup ToSet(HealthRoutes) \cup ToSet(PublicWebRoutes)
    \cup ToSet(PublicApiRoutes) \cup ToSet(AdminWebRoutes(e)) \cup ToSet(AdminApiRoutes(e))

\* The built-in routes take nothing of each other.
LEMMA BuiltInFacts == \A e, mods :
    /\ IsTable(BuiltInRoutes(e, mods)) /\ Clean(BuiltInRoutes(e, mods))
    /\ ToSet(BuiltInRoutes(e, mods)) \subseteq Origins(e)
    /\ {"public", "admin"} \subseteq mods => ToSet(BuiltInRoutes(e, mods)) = Origins(e)
<1> SUFFICES ASSUME NEW e, NEW mods
             PROVE  LET B == BuiltInRoutes(e, mods) IN
                    /\ IsTable(B) /\ Clean(B) /\ ToSet(B) \subseteq Origins(e)
                    /\ {"public", "admin"} \subseteq mods => ToSet(B) = Origins(e)
  OBVIOUS
<1> DEFINE F == FrameworkRoutes
           H == HealthRoutes
           P == PublicWebRoutes
           A == PublicApiRoutes
           V == AdminWebRoutes(e)
           W == AdminApiRoutes(e)
           X == When("public", mods, P \o A)
           Y == When("admin", mods, V \o W)
<1>1. /\ IsTable(F) /\ IsTable(H) /\ IsTable(P) /\ IsTable(A) /\ IsTable(V) /\ IsTable(W)
      /\ Clean(F) /\ Clean(H) /\ Clean(P) /\ Clean(A) /\ Clean(V) /\ Clean(W)
  BY FrameworkTable, HealthTable, PublicWebTable, PublicApiTable, AdminWebTable, ApiRoutes
  DEF WebTable, ApiTable, PartOf
<1>2. /\ Apart(F, H) /\ Apart(P, A) /\ Apart(V, W)
      /\ Apart(F, P) /\ Apart(F, A) /\ Apart(F, V) /\ Apart(F, W)
      /\ Apart(H, P) /\ Apart(H, A) /\ Apart(H, V) /\ Apart(H, W)
      /\ Apart(P, V) /\ Apart(P, W) /\ Apart(A, V) /\ Apart(A, W)
  BY TablesApart
<1>3. BuiltInRoutes(e, mods) = F \o H \o X \o Y
  BY DEF BuiltInRoutes
<1>4. Origins(e) = ToSet(F) \cup ToSet(H) \cup (ToSet(P) \cup ToSet(A)) \cup (ToSet(V) \cup ToSet(W))
  BY DEF Origins
<1> HIDE DEF F, H, P, A, V, W
<1>5. IsTable(F \o H) /\ Clean(F \o H) /\ ToSet(F \o H) = ToSet(F) \cup ToSet(H)
  BY <1>1, <1>2, OneAfterTheOther
<1>6. IsTable(P \o A) /\ Clean(P \o A) /\ ToSet(P \o A) = ToSet(P) \cup ToSet(A)
  BY <1>1, <1>2, OneAfterTheOther
<1>7. IsTable(V \o W) /\ Clean(V \o W) /\ ToSet(V \o W) = ToSet(V) \cup ToSet(W)
  BY <1>1, <1>2, OneAfterTheOther
<1>8. Apart(F \o H, P) /\ Apart(F \o H, A) /\ Apart(F \o H, V) /\ Apart(F \o H, W)
  BY <1>1, <1>2, OneAfterTheOther
<1>9. Apart(F \o H, P \o A) /\ Apart(F \o H, V \o W)
  BY <1>1, <1>8, OneAfterTheOther
<1>10. Apart(P, V \o W) /\ Apart(A, V \o W)
  BY <1>1, <1>2, OneAfterTheOther
<1>11. Apart(P \o A, V \o W)
  BY <1>1, <1>10, OneAfterTheOther
<1> DEFINE FH == F \o H
           PA == P \o A
           VW == V \o W
<1>12. /\ IsTable(X) /\ Clean(X) /\ Apart(FH, X) /\ Apart(X, VW)
       /\ ToSet(X) \subseteq ToSet(PA) /\ ("public" \in mods => ToSet(X) = ToSet(PA))
  BY <1>6, <1>9, <1>11, WhenFacts
<1>13. /\ IsTable(Y) /\ Clean(Y) /\ Apart(FH, Y) /\ Apart(X, Y)
       /\ ToSet(Y) \subseteq ToSet(VW) /\ ("admin" \in mods => ToSet(Y) = ToSet(VW))
  <2> HIDE DEF X
  <2> QED  BY <1>7, <1>9, <1>12, WhenFacts
<1> HIDE DEF X, Y, FH, PA, VW
<1>14. IsTable(FH) /\ Clean(FH)
  BY <1>5 DEF FH
<1>15. IsTable(FH \o X) /\ Clean(FH \o X) /\ ToSet(FH \o X) = ToSet(FH) \cup ToSet(X)
  BY <1>12, <1>14, OneAfterTheOther
<1>16. Apart(FH \o X, Y)
  BY <1>12, <1>13, <1>14, OneAfterTheOther
<1> DEFINE R == FH \o X
<1>17. IsTable(R \o Y) /\ Clean(R \o Y) /\ ToSet(R \o Y) = ToSet(R) \cup ToSet(Y)
  <2> HIDE DEF R
  <2>1. IsTable(R) /\ Clean(R) /\ Apart(R, Y)
    BY <1>15, <1>16 DEF R
  <2> QED  BY <1>13, <2>1, OneAfterTheOther
<1>18. BuiltInRoutes(e, mods) = R \o Y
  BY <1>3 DEF FH
<1>19. Origins(e) = ToSet(FH) \cup ToSet(PA) \cup ToSet(VW)
  BY <1>4, <1>5, <1>6, <1>7 DEF FH, PA, VW
<1>20. ToSet(BuiltInRoutes(e, mods)) = ToSet(FH) \cup ToSet(X) \cup ToSet(Y)
  BY <1>15, <1>17, <1>18
<1>21. ToSet(BuiltInRoutes(e, mods)) \subseteq Origins(e)
  BY <1>12, <1>13, <1>19, <1>20
<1>22. {"public", "admin"} \subseteq mods => ToSet(BuiltInRoutes(e, mods)) = Origins(e)
  BY <1>12, <1>13, <1>19, <1>20
<1>23. IsTable(BuiltInRoutes(e, mods)) /\ Clean(BuiltInRoutes(e, mods))
  BY <1>17, <1>18
<1> QED  BY <1>21, <1>22, <1>23

(* Routing. *)

\* Plugins mount no pages of the admin area.
LEMMA PluginTable == IsTable(PluginRoutes) /\ NoPages(PluginRoutes)
<1> DEFINE prefix == <<>>
<1>1. IsSeq(prefix) /\ "open" \in Guarded /\ ~IsPage("open")
  BY ShortSeqs DEF Guarded, IsPage
<1>2. IsRows(PluginRows)
  <2>1. \A k \in DOMAIN PluginRows : PluginRows[k] \in Methods \X Seq(STRING)
    BY RoutingAssumption
  <2> QED  BY <2>1, RoutingAssumption DEF IsRows, IsRow, IsSeq
<1> HIDE DEF prefix
<1>3. IsTable(Mount(prefix, "open", PluginRows)) /\ NoPages(Mount(prefix, "open", PluginRows))
  BY <1>1, <1>2, MountFacts
<1> QED  BY <1>3 DEF PluginRoutes, prefix

\* The built-in routes, the plugins', and the pages of the site.
LEMMA RouteFacts == \A e, mods :
    LET B == BuiltInRoutes(e, mods)
        W == When("public", mods, DynamicRoutes)
    IN  /\ Routes(e, mods) = B \o PluginRoutes \o W
        /\ IsTable(B) /\ IsTable(B \o PluginRoutes) /\ IsTable(W) /\ IsTable(Routes(e, mods))
        /\ ToSet(B \o PluginRoutes) = ToSet(B) \cup ToSet(PluginRoutes)
        /\ ToSet(Routes(e, mods)) = ToSet(B) \cup ToSet(PluginRoutes) \cup ToSet(W)
<1> SUFFICES ASSUME NEW e, NEW mods
             PROVE  LET B == BuiltInRoutes(e, mods)
                        W == When("public", mods, DynamicRoutes)
                    IN  /\ Routes(e, mods) = B \o PluginRoutes \o W
                        /\ IsTable(B) /\ IsTable(B \o PluginRoutes) /\ IsTable(W)
                        /\ IsTable(Routes(e, mods))
                        /\ ToSet(B \o PluginRoutes) = ToSet(B) \cup ToSet(PluginRoutes)
                        /\ ToSet(Routes(e, mods))
                              = ToSet(B) \cup ToSet(PluginRoutes) \cup ToSet(W)
  OBVIOUS
<1> DEFINE B == BuiltInRoutes(e, mods)
           W == When("public", mods, DynamicRoutes)
<1>1. Routes(e, mods) = B \o PluginRoutes \o W
  BY DEF Routes
<1>2. IsTable(B) /\ IsTable(PluginRoutes)
  BY BuiltInFacts, PluginTable
<1>3. IsTable(W)
  BY DynamicTable, WhenFacts
<1> HIDE DEF B, W
<1>4. IsTable(B \o PluginRoutes) /\ ToSet(B \o PluginRoutes) = ToSet(B) \cup ToSet(PluginRoutes)
  BY <1>2, OneAfterTheOther
<1> DEFINE R == B \o PluginRoutes
<1>5. IsTable(R \o W) /\ ToSet(R \o W) = ToSet(R) \cup ToSet(W)
  <2>1. IsTable(R)
    BY <1>4
  <2> HIDE DEF R
  <2> QED  BY <1>3, <2>1, OneAfterTheOther
<1> QED  BY <1>1, <1>2, <1>3, <1>4, <1>5 DEF B, W

\* Every edition's and every choice of modules' routes are among all routes.
LEMMA AmongAll == \A e, mods : ToSet(Routes(e, mods)) \subseteq ToSet(AllRoutes)
<1> TAKE e, mods
<1> DEFINE every == {"public", "admin", "scheduler"}
<1>1. ToSet(BuiltInRoutes(e, mods)) \subseteq Origins(e)
  BY BuiltInFacts
<1>2. Origins(e) \subseteq Origins("main")
  BY AdminWebTable, ApiRoutes DEF Origins, PartOf
<1>3. Origins("main") = ToSet(BuiltInRoutes("main", every))
  <2>1. {"public", "admin"} \subseteq every
    OBVIOUS
  <2> QED  BY <2>1, BuiltInFacts
<1>4. /\ ToSet(When("public", mods, DynamicRoutes)) \subseteq ToSet(DynamicRoutes)
      /\ When("public", every, DynamicRoutes) = DynamicRoutes
  <2>1. "public" \in every
    OBVIOUS
  <2> QED  BY <2>1, DynamicTable, WhenFacts, ZenonT(40)
<1>5. AllRoutes = Routes("main", every)
  BY DEF AllRoutes
<1> HIDE DEF every
<1>6. /\ ToSet(Routes(e, mods)) = ToSet(BuiltInRoutes(e, mods)) \cup ToSet(PluginRoutes)
                                    \cup ToSet(When("public", mods, DynamicRoutes))
      /\ ToSet(AllRoutes) = ToSet(BuiltInRoutes("main", every)) \cup ToSet(PluginRoutes)
                                \cup ToSet(When("public", every, DynamicRoutes))
  BY <1>5, RouteFacts
<1> QED  BY <1>1, <1>2, <1>3, <1>4, <1>6

\* A set of numbers has a least one.
LEMMA LeastOf == \A S : S \subseteq Nat /\ S # {} => \E k \in S : \A j \in S : k <= j
<1> SUFFICES ASSUME NEW S, S \subseteq Nat, S # {} PROVE \E k \in S : \A j \in S : k <= j
  OBVIOUS
<1>1. PICK k \in S : \A j \in S : ~(<<j, k>> \in OpToRel(<, Nat))
  BY NatLessThanWellFounded, WFMin
<1>2. ASSUME NEW j \in S PROVE k <= j
  <2> SUFFICES ASSUME j < k PROVE FALSE
    OBVIOUS
  <2>1. <<j, k>> \in Nat \X Nat /\ <<j, k>>[1] < <<j, k>>[2]
    OBVIOUS
  <2> QED  BY <1>1, <2>1 DEF OpToRel
<1> QED  BY <1>2

\* The first route that fits gives the answer: one that is spelled out before a
\* parameter, and a plugin's before the pages of the site.
LEMMA Dispatched ==
    ASSUME NEW e, NEW mods, NEW m, NEW path
    PROVE  LET D == Dispatch(e, mods, m, path)
               B == BuiltInRoutes(e, mods)
           IN  /\ \/ D = NoRoute \/ D = WrongMethod
                  \/ D \in ToSet(Routes(e, mods)) /\ Fits(path, D.path) /\ D.method = m
               /\ \A k \in DOMAIN B : B[k].method = m /\ B[k].path = path => D = B[k]
               /\ (\E k \in DOMAIN PluginRoutes :
                     PluginRoutes[k].method = m /\ PluginRoutes[k].path = path)
                  => D \in ToSet(B \o PluginRoutes)
<1> DEFINE D == Dispatch(e, mods, m, path)
           B == BuiltInRoutes(e, mods)
           P == PluginRoutes
           W == When("public", mods, DynamicRoutes)
           R == Routes(e, mods)
           fitting == {k \in DOMAIN R : Fits(path, R[k].path)}
           full == {k \in fitting : R[k].method = m}
           BP == B \o P
           b == Len(B)
           n == Len(BP)
<1>1. D = CASE full # {} -> R[CHOOSE k \in full : \A j \in full : k <= j]
            [] full = {} /\ fitting # {} -> WrongMethod
            [] OTHER -> NoRoute
  BY DEF Dispatch
<1>2. /\ R = BP \o W /\ IsTable(B) /\ IsTable(P) /\ IsTable(BP) /\ IsTable(W) /\ IsTable(R)
      /\ Clean(B)
  BY RouteFacts, PluginTable, BuiltInFacts
<1> HIDE DEF D, B, P, W, R
<1>3. /\ b \in Nat /\ DOMAIN B = 1..b
      /\ \A k \in DOMAIN B : k \in DOMAIN BP /\ BP[k] = B[k]
      /\ \A k \in DOMAIN P : b + k \in DOMAIN BP /\ BP[b + k] = P[k]
  <2>1. IsSeq(B) /\ IsSeq(P)
    BY <1>2 DEF IsTable
  <2> QED  BY <2>1, Joined, SeqFacts
<1>4. /\ n \in Nat /\ DOMAIN BP = 1..n /\ DOMAIN R \subseteq Nat
      /\ \A k \in DOMAIN BP : k \in DOMAIN R /\ R[k] = BP[k]
  <2>1. IsSeq(BP) /\ IsSeq(W) /\ IsSeq(R)
    BY <1>2 DEF IsTable
  <2>2. R = BP \o W
    BY <1>2
  <2> HIDE DEF BP
  <2>3. DOMAIN R = 1..(n + Len(W)) /\ \A k \in 1..n : R[k] = BP[k]
    BY <2>1, <2>2, Joined
  <2>4. n \in Nat /\ Len(W) \in Nat /\ DOMAIN BP = 1..n
    BY <2>1, SeqFacts
  <2> QED  BY <2>3, <2>4
<1> HIDE DEF BP, b, n
<1>5. CASE full = {}
  <2>1. D \in {NoRoute, WrongMethod}
    BY <1>1, <1>5
  <2>2. ASSUME NEW k \in DOMAIN R, R[k].method = m, R[k].path = path PROVE FALSE
    BY <1>5, <2>2 DEF Fits
  <2>3. \A k \in DOMAIN BP : ~(BP[k].method = m /\ BP[k].path = path)
    BY <1>4, <2>2
  <2>4. \A k \in DOMAIN B : ~(B[k].method = m /\ B[k].path = path)
    BY <1>3, <2>3
  <2>5. \A k \in DOMAIN P : ~(P[k].method = m /\ P[k].path = path)
    BY <1>3, <2>3
  <2> QED  BY <2>1, <2>4, <2>5 DEF D, B, P
<1>6. CASE full # {}
  <2> DEFINE l == CHOOSE k \in full : \A j \in full : k <= j
  <2>1. l \in full /\ \A j \in full : l <= j
    <3>1. full \subseteq Nat
      BY <1>4
    <3> HIDE DEF full
    <3>2. \E k \in full : \A j \in full : k <= j
      BY <1>6, <3>1, LeastOf
    <3> QED  BY <3>2
  <2>2. D = R[l]
    BY <1>1, <1>6
  <2> HIDE DEF l
  <2>3. D \in ToSet(R) /\ Fits(path, D.path) /\ D.method = m
    BY <2>1, <2>2 DEF ToSet
  <2>4. ASSUME NEW k \in DOMAIN BP, BP[k].method = m, BP[k].path = path
        PROVE  l \in Nat /\ k \in Nat /\ l <= k /\ l \in DOMAIN BP /\ D = BP[l]
    <3>1. k \in full
      BY <1>4, <2>4 DEF Fits
    <3>2. l \in Nat /\ k \in Nat /\ l <= k /\ l >= 1
      <4>1. IsSeq(R)
        BY <1>2 DEF IsTable
      <4>2. l >= 1
        BY <2>1, <4>1, SeqFacts
      <4> QED  BY <1>4, <2>1, <3>1, <4>2
    <3>3. l \in DOMAIN BP
      BY <1>4, <3>2
    <3> QED  BY <1>4, <2>2, <3>2, <3>3
  <2>5. ASSUME NEW k \in DOMAIN B, B[k].method = m, B[k].path = path PROVE D = B[k]
    <3>1. k \in DOMAIN BP /\ BP[k].method = m /\ BP[k].path = path
      BY <1>3, <2>5
    <3>2. l \in Nat /\ k \in Nat /\ l <= k /\ l \in DOMAIN BP /\ D = BP[l]
      BY <2>4, <3>1
    <3>3. l \in DOMAIN B /\ D = B[l]
      <4>1. l \in 1..b
        BY <1>3, <1>4, <3>2
      <4> QED  BY <1>3, <3>2, <4>1
    <3>4. Fits(B[k].path, B[l].path) /\ B[l].method = B[k].method
      BY <2>3, <2>5, <3>3
    <3>5. ~(l < k)
      BY <1>2, <3>3, <3>4 DEF Clean
    <3> QED  BY <3>2, <3>3, <3>5
  <2>6. ASSUME NEW k \in DOMAIN P, P[k].method = m, P[k].path = path PROVE D \in ToSet(BP)
    <3>1. b + k \in DOMAIN BP /\ BP[b + k].method = m /\ BP[b + k].path = path
      BY <1>3, <2>6
    <3> QED  BY <2>4, <3>1 DEF ToSet
  <2> QED  BY <2>3, <2>5, <2>6 DEF D, B, P, R, BP
<1> QED  BY <1>5, <1>6

(* What a path that fits a route begins with. *)

\* A path that fits a route has its names at the same place.
LEMMA FitsAt ==
    ASSUME NEW T, IsTable(T), NEW r \in ToSet(T), NEW path, IsSeq(path), Fits(path, r.path),
           NEW i \in Nat \ {0}, NEW names, HasAt(T, i, names), names \cap Params = {}
    PROVE  /\ Len(path) >= i => path[i] \in names
           /\ Reaches(T, i) => Len(path) >= i
<1>1. PICK k \in DOMAIN T : r = T[k]
  BY DEF ToSet
<1>2. Len(path) = Len(r.path) /\ Len(path) \in Nat /\ DOMAIN path = 1..Len(path)
  BY SeqFacts DEF Fits
<1>3. ASSUME Len(path) >= i PROVE path[i] \in names
  <2>1. i \in DOMAIN path
    BY <1>2, <1>3
  <2>2. r.path[i] \in {path[i], "{n}", "{s}"}
    BY <2>1 DEF Fits
  <2>3. r.path[i] \in names
    BY <1>1, <1>2, <1>3 DEF HasAt
  <2> QED  BY <2>2, <2>3 DEF Params
<1>4. Reaches(T, i) => Len(path) >= i
  BY <1>1, <1>2 DEF Reaches
<1> QED  BY <1>3, <1>4

LEMMA NotEmpty == \A path : IsSeq(path) /\ Len(path) >= 1 => path # <<>>
<1> SUFFICES ASSUME NEW path, IsSeq(path), Len(path) >= 1, path = <<>> PROVE FALSE
  OBVIOUS
<1>1. Len(path) = 0
  OBVIOUS
<1>2. Len(path) \in Nat
  BY SeqFacts
<1> QED  BY <1>1, <1>2

\* What maintenance mode should spare, by where it comes from.
LEMMA SparedFrom == \A path :
    Spared(path) <=> \E r \in ToSet(HealthRoutes) \cup ToSet(AdminWebRoutes("main"))
                                \cup ToSet(AdminApiRoutes("main")) : Fits(path, r.path)
<1> DEFINE H == HealthRoutes
           V == AdminWebRoutes("main")
           W == AdminApiRoutes("main")
           HV == H \o V
<1>1. IsTable(H) /\ IsTable(V) /\ IsTable(W)
  BY HealthTable, AdminWebTable, ApiRoutes DEF WebTable, ApiTable, PartOf
<1>2. SparedRoutes = HV \o W
  BY DEF SparedRoutes
<1> HIDE DEF H, V, W
<1>3. IsTable(HV) /\ ToSet(HV) = ToSet(H) \cup ToSet(V)
  BY <1>1, OneAfterTheOther
<1> HIDE DEF HV
<1>4. ToSet(SparedRoutes) = ToSet(H) \cup ToSet(V) \cup ToSet(W)
  BY <1>1, <1>2, <1>3, OneAfterTheOther
<1>5. \A path : Spared(path) <=> \E r \in ToSet(SparedRoutes) : Fits(path, r.path)
  BY DEF Spared, ToSet
<1> QED  BY <1>4, <1>5 DEF H, V, W

\* Maintenance mode spares what it should.
LEMMA SparedIsExempt == \A path : IsSeq(path) /\ Spared(path) => Exempt(path)
<1> SUFFICES ASSUME NEW path, IsSeq(path), Spared(path) PROVE Exempt(path)
  OBVIOUS
<1>1. PICK r \in ToSet(HealthRoutes) \cup ToSet(AdminWebRoutes("main"))
                    \cup ToSet(AdminApiRoutes("main")) : Fits(path, r.path)
  BY SparedFrom
<1>2. 1 \in Nat \ {0} /\ 2 \in Nat \ {0} /\ 3 \in Nat \ {0}
  OBVIOUS
<1>3. Len(path) \in Nat
  BY SeqFacts
<1>4. {"healthz"} \cap Params = {} /\ {"admin"} \cap Params = {} /\ {"api"} \cap Params = {}
  BY DEF Params
<1>5. CASE r \in ToSet(HealthRoutes)
  <2>1. Len(path) >= 1 /\ path[1] \in {"healthz"}
    BY <1>1, <1>2, <1>4, <1>5, HealthTable, FitsAt
  <2> QED  BY <2>1, NotEmpty DEF Exempt
<1>6. CASE r \in ToSet(AdminWebRoutes("main"))
  <2>1. Len(path) >= 1 /\ path[1] \in {"admin"}
    BY <1>1, <1>2, <1>4, <1>6, AdminWebTable, FitsAt DEF WebTable
  <2> QED  BY <2>1, NotEmpty DEF Exempt
<1>7. CASE r \in ToSet(AdminApiRoutes("main"))
  <2> DEFINE W == AdminApiRoutes("main")
  <2>1. PICK names : ApiTable(W, names) /\ names \cap Params = {}
    BY ApiRoutes DEF PartOf
  <2>2. /\ IsTable(W) /\ r \in ToSet(W) /\ HasAt(W, 1, {"api"}) /\ HasAt(W, 2, {"admin"})
        /\ HasAt(W, 3, names) /\ Reaches(W, 3)
    BY <1>7, <2>1 DEF ApiTable
  <2> HIDE DEF W
  <2>3. Len(path) >= 3
    BY <1>1, <1>2, <2>1, <2>2, FitsAt
  <2>4. Len(path) >= 1 /\ Len(path) >= 2 /\ Len(path) > 1
    BY <1>3, <2>3
  <2>5. path[1] \in {"api"}
    BY <1>1, <1>2, <1>4, <2>2, <2>4, FitsAt
  <2>6. path[2] \in {"admin"}
    BY <1>1, <1>2, <1>4, <2>2, <2>4, FitsAt
  <2> QED  BY <2>4, <2>5, <2>6, NotEmpty DEF Exempt
<1> QED  BY <1>1, <1>5, <1>6, <1>7

\* ... and nothing of the public site but a page whose slug looks like it.
LEMMA ExemptIsSpared ==
    ASSUME NEW path, IsSeq(path), Exempt(path), NEW e, NEW mods, NEW r \in ToSet(Routes(e, mods)),
           Fits(path, r.path)
    PROVE  Spared(path) \/ path[1] \in PrefixedSlugs \/ r \in ToSet(PluginRoutes)
<1> SUFFICES ASSUME path[1] \notin PrefixedSlugs, r \notin ToSet(PluginRoutes), ~Spared(path)
             PROVE  FALSE
  OBVIOUS
<1>1. /\ 1 \in Nat \ {0} /\ 2 \in Nat \ {0} /\ Len(path) \in Nat
      /\ DOMAIN path = 1..Len(path)
  BY SeqFacts
<1>2. path # <<>>
  BY DEF Exempt
<1>3. path[1] \in {"admin", "healthz"} \/ (Len(path) > 1 /\ path[1] = "api" /\ path[2] = "admin")
  BY DEF Exempt
<1>4. Len(path) >= 1
  <2> SUFFICES ASSUME Len(path) = 0 PROVE FALSE
    BY <1>1
  <2>1. path = <<>>
    BY DEF IsSeq
  <2> QED  BY <1>2, <2>1
<1>5. /\ r \notin ToSet(HealthRoutes)
      /\ r \notin ToSet(AdminWebRoutes("main")) /\ r \notin ToSet(AdminApiRoutes("main"))
  BY SparedFrom
<1>6. /\ ToSet(AdminWebRoutes(e)) \subseteq ToSet(AdminWebRoutes("main"))
      /\ ToSet(AdminApiRoutes(e)) \subseteq ToSet(AdminApiRoutes("main"))
  BY AdminWebTable, ApiRoutes DEF PartOf
<1>7. \/ r \in ToSet(FrameworkRoutes) \/ r \in ToSet(PublicWebRoutes)
      \/ r \in ToSet(PublicApiRoutes) \/ r \in ToSet(DynamicRoutes)
  <2>1. \/ r \in ToSet(BuiltInRoutes(e, mods))
        \/ r \in ToSet(When("public", mods, DynamicRoutes))
    BY RouteFacts
  <2>2. ToSet(BuiltInRoutes(e, mods)) \subseteq Origins(e)
    BY BuiltInFacts
  <2>3. ToSet(When("public", mods, DynamicRoutes)) \subseteq ToSet(DynamicRoutes)
    BY DynamicTable, WhenFacts
  <2> QED  BY <1>5, <1>6, <2>1, <2>2, <2>3 DEF Origins
<1>8. CASE r \in ToSet(FrameworkRoutes)
  <2>1. {"openapi.json", "redoc"} \cap Params = {}
    BY DEF Params
  <2>2. path[1] \in {"openapi.json", "redoc"}
    BY <1>1, <1>4, <1>8, <2>1, FrameworkTable, FitsAt
  <2> QED  BY <1>3, <2>2
<1>9. CASE r \in ToSet(PublicWebRoutes)
  <2>1. ToSet(PublicPages) \cap Params = {}
    BY PublicNames
  <2>2. path[1] \in ToSet(PublicPages)
    BY <1>1, <1>4, <1>9, <2>1, PublicWebTable, FitsAt
  <2> QED  BY <1>3, <2>2, PublicNames
<1>10. CASE r \in ToSet(PublicApiRoutes)
  <2>1. {"public"} \cap Params = {} /\ {"api"} \cap Params = {}
    BY DEF Params
  <2>2. path[1] \in {"api"}
    BY <1>1, <1>4, <1>10, <2>1, PublicApiTable, FitsAt
  <2>3. Len(path) >= 2
    BY <1>1, <1>10, <2>1, PublicApiTable, FitsAt
  <2>4. path[2] \in {"public"}
    BY <1>1, <1>10, <2>1, <2>3, PublicApiTable, FitsAt
  <2> QED  BY <1>3, <2>2, <2>4
<1>11. CASE r \in ToSet(DynamicRoutes)
  <2> DEFINE one == <<"{s}">>
  <2>1. r.path = one /\ Len(one) = 1
    BY <1>11, DynamicTable
  <2> HIDE DEF one
  <2>2. Len(path) = 1
    BY <2>1 DEF Fits
  <2>3. ASSUME NEW a, path[1] = a PROVE Fits(path, <<a>>)
    <3> DEFINE p == <<a>>
    <3>1. Len(p) = 1 /\ p[1] = a
      OBVIOUS
    <3> HIDE DEF p
    <3>2. Len(path) = Len(p)
      BY <2>2, <3>1
    <3>3. \A k \in DOMAIN path : k = 1
      BY <1>1, <2>2
    <3>4. \A k \in DOMAIN path : p[k] = path[k]
      BY <2>3, <3>1, <3>3
    <3>5. Fits(path, p)
      BY <3>2, <3>4 DEF Fits
    <3> QED  BY <3>5 DEF p
  <2>4. path[1] \in {"admin", "healthz"}
    BY <1>1, <1>3, <2>2
  <2>5. CASE path[1] = "admin"
    BY <2>3, <2>5, AdminWebTable, SparedFrom
  <2>6. CASE path[1] = "healthz"
    BY <2>3, <2>6, HealthTable, SparedFrom
  <2> QED  BY <2>4, <2>5, <2>6
<1> QED  BY <1>7, <1>8, <1>9, <1>10, <1>11

\* No page of the admin area is at a path of the API.
LEMMA PagesAreNoApi ==
    ASSUME NEW path, IsSeq(path), NEW e, NEW mods, NEW r \in ToSet(Routes(e, mods)),
           Fits(path, r.path), IsPage(r.access)
    PROVE  ~IsApi(path)
<1>1. /\ \A T : NoPages(T) => r \notin ToSet(T)
      /\ 1 \in Nat \ {0} /\ {"admin"} \cap Params = {}
  BY DEF NoPages, ToSet, Params
<1>2. r \in ToSet(AdminWebRoutes(e))
  <2>1. /\ r \notin ToSet(FrameworkRoutes) /\ r \notin ToSet(HealthRoutes)
        /\ r \notin ToSet(PublicWebRoutes) /\ r \notin ToSet(PublicApiRoutes)
        /\ r \notin ToSet(AdminApiRoutes(e)) /\ r \notin ToSet(PluginRoutes)
        /\ r \notin ToSet(DynamicRoutes)
    BY <1>1, FrameworkTable, HealthTable, PublicWebTable, PublicApiTable, ApiRoutes, PluginTable,
       DynamicTable
    DEF PartOf, ApiTable
  <2>2. ToSet(When("public", mods, DynamicRoutes)) \subseteq ToSet(DynamicRoutes)
    BY DynamicTable, WhenFacts
  <2>3. ToSet(BuiltInRoutes(e, mods)) \subseteq Origins(e)
    BY BuiltInFacts
  <2> QED  BY <2>1, <2>2, <2>3, RouteFacts DEF Origins
<1>3. Len(path) >= 1 /\ path[1] \in {"admin"}
  BY <1>1, <1>2, AdminWebTable, FitsAt DEF WebTable
<1> QED  BY <1>3 DEF IsApi

(* The request on its way. *)

\* What the route of a request is, and what maintenance mode and the form of
\* the answer have to do with it.
RouteInv ==
    LET route == request.route
        path == request.path
    IN  /\ \/ route = NoRoute
           \/ route = Dispatch(edition, modules, request.method, path)
        /\ request.stage = "handler" \/ request.answer = "ok" =>
              route \in ToSet(Routes(edition, modules)) /\ Fits(path, route.path)
        /\ request.closed => Exempt(path)
        /\ request.answer = "maintenance" => ~Exempt(path)
        /\ request.stage # "answered" => request.answer = "none"
        /\ ApiAnswersInEnvelope

RoutingInv == RoutingTypeOK /\ RouteInv

\* Only the prefixed slugs, and the other paths, are not from the table.
LEMMA PathIsSeq == \A p \in RequestPaths : IsSeq(p)
<1> SUFFICES ASSUME NEW p \in RequestPaths PROVE IsSeq(p)
  OBVIOUS
<1>1. CASE p \in OtherPaths
  BY <1>1, RoutingAssumption DEF IsSeq
<1>2. CASE \E r \in ToSet(AllRoutes), with \in {"7", "x"} : p = Filled(r.path, with)
  <2>1. PICK r \in ToSet(AllRoutes), with \in {"7", "x"} : p = Filled(r.path, with)
    BY <1>2
  <2>2. IsTable(AllRoutes)
    BY RouteFacts DEF AllRoutes
  <2>3. IsSeq(r.path)
    BY <2>2 DEF IsTable, ToSet
  <2> DEFINE n == Len(r.path)
  <2>4. n \in Nat /\ DOMAIN r.path = 1..n
    BY <2>3, SeqFacts
  <2>5. DOMAIN p = 1..n /\ p = [k \in 1..n |-> p[k]]
    BY <2>1, <2>4 DEF Filled
  <2> HIDE DEF n
  <2>6. p \in [1..n -> {p[k] : k \in 1..n}]
    BY <2>5
  <2> QED  BY <2>4, <2>6, SeqDef DEF IsSeq
<1> QED  BY <1>1, <1>2 DEF RequestPaths

\* What the guards say of a route.
LEMMA GateSays ==
    ASSUME NEW acc \in Account, NEW access
    PROVE  /\ access \in Guarded =>
                Gate(access, acc) \in {"ok", "unauthenticated", "forbidden", "to login",
                                       "to change-password"}
           /\ Gate(access, acc) \in {"to login", "to change-password"} =>
                IsPage(access) \/ access \in {"to login", "to change-password"}
           /\ Gate("missing", acc) = "missing" /\ Gate("method", acc) = "method"
<1>1. \A enforce : ApiGate(acc, enforce) \in {"ok", "unauthenticated", "forbidden"}
  BY DEF ApiGate, Account
<1>2. PageGate(acc) \in {"ok", "to change-password"}
  BY DEF PageGate
<1>3. Gate("missing", acc) = "missing" /\ Gate("method", acc) = "method"
  BY DEF Gate
<1>4. CASE access = "open"
  BY <1>3, <1>4 DEF Gate
<1>5. CASE access \in {"auth", "admin"}
  <2>1. Gate(access, acc) \in {"ok", "unauthenticated", "forbidden"}
    BY <1>1, <1>5 DEF Gate
  <2> QED  BY <1>3, <2>1
<1>6. CASE access \in {"page", "pending page"}
  <2>1. Gate(access, acc) \in {"ok", "to login", "to change-password"}
    BY <1>2, <1>6 DEF Gate
  <2> QED  BY <1>3, <1>6, <2>1 DEF IsPage
<1>7. CASE access \notin Guarded
  <2>1. Gate(access, acc) = access
    BY <1>7 DEF Gate, Guarded
  <2> QED  BY <1>3, <1>7, <2>1
<1> QED  BY <1>4, <1>5, <1>6, <1>7 DEF Guarded

LEMMA RoutingInit_Inv == RoutingInit => RoutingInv
<1> SUFFICES ASSUME RoutingInit PROVE RoutingInv
  OBVIOUS
<1>1. PICK m \in Methods, p \in RequestPaths :
          request = [method |-> m, path |-> p, stage |-> "limits", route |-> NoRoute,
                     answer |-> "none", form |-> "none", closed |-> FALSE]
  BY DEF RoutingInit
<1>2. request \in Request
  BY <1>1 DEF Request
<1>3. RoutingTypeOK
  BY <1>2, RoutingAssumption DEF RoutingInit, RoutingTypeOK
<1>4. RouteInv
  BY <1>1 DEF RouteInv, ApiAnswersInEnvelope
<1> QED  BY <1>3, <1>4 DEF RoutingInv

LEMMA RoutingStep_Inv == RoutingInv /\ [RoutingNext]_routingVars => RoutingInv'
<1> SUFFICES ASSUME RoutingInv, [RoutingNext]_routingVars PROVE RoutingInv'
  OBVIOUS
<1> DEFINE path == request.path
           D == Dispatch(edition, modules, request.method, path)
<1>1. /\ request \in Request /\ account \in Account
      /\ path \in RequestPaths /\ IsSeq(path)
      /\ request = [method |-> request.method, path |-> path, stage |-> request.stage,
                    route |-> request.route, answer |-> request.answer,
                    form |-> request.form, closed |-> request.closed]
  BY PathIsSeq DEF RoutingInv, RoutingTypeOK, Request
<1>2. ASSUME request' \in Request, RouteInv',
             UNCHANGED <<edition, modules, maintenance, account>>
      PROVE  RoutingInv'
  BY <1>2 DEF RoutingInv, RoutingTypeOK
<1>3. CASE request' = request /\ UNCHANGED <<edition, modules>>
           /\ maintenance' \in BOOLEAN /\ account' \in Account
  BY <1>3 DEF RoutingInv, RoutingTypeOK, RouteInv, ApiAnswersInEnvelope
<1>4. CASE Switch \/ Reassign
  <2>1. /\ request' = request /\ UNCHANGED <<edition, modules>>
        /\ maintenance' \in BOOLEAN /\ account' \in Account
    BY <1>4 DEF Switch, Reassign, RoutingInv, RoutingTypeOK
  <2> QED  BY <1>3, <2>1
<1>5. CASE UNCHANGED routingVars
  <2>1. /\ request' = request /\ UNCHANGED <<edition, modules>>
        /\ maintenance' \in BOOLEAN /\ account' \in Account
    BY <1>5 DEF routingVars, RoutingInv, RoutingTypeOK
  <2> QED  BY <1>3, <2>1
<1>6. CASE Limit
  <2>1. request.stage = "limits" /\ request.answer = "none"
    BY <1>6 DEF Limit, At, RoutingInv, RouteInv
  <2>2. UNCHANGED <<edition, modules, maintenance, account>>
    BY <1>6 DEF Limit, At
  <2>3. CASE Pass("maintenance")
    <3>1. request' \in Request
      BY <1>1, <2>3 DEF Pass, Request
    <3>2. RouteInv'
      BY <1>1, <2>1, <2>2, <2>3 DEF Pass, RouteInv, RoutingInv, ApiAnswersInEnvelope, Request
    <3> QED  BY <1>2, <2>2, <3>1, <3>2
  <2>4. CASE request' = Answered("limited", "envelope")
    <3>1. request' \in Request
      BY <1>1, <2>4 DEF Answered, Request
    <3>2. RouteInv'
      BY <1>1, <2>1, <2>2, <2>4 DEF Answered, RouteInv, RoutingInv, ApiAnswersInEnvelope, Request
    <3> QED  BY <1>2, <2>2, <3>1, <3>2
  <2> QED  BY <1>6, <2>3, <2>4 DEF Limit
<1>7. CASE Maintain
  <2>1. request.stage = "maintenance" /\ request.answer = "none"
    BY <1>7 DEF Maintain, At, RoutingInv, RouteInv
  <2>2. UNCHANGED <<edition, modules, maintenance, account>>
    BY <1>7 DEF Maintain, At
  <2>3. CASE /\ Exempt(path) \/ ~maintenance
             /\ request' = [request EXCEPT !.stage = "routing", !.closed = maintenance]
    <3>1. request' \in Request
      BY <1>1, <2>3 DEF RoutingInv, RoutingTypeOK, Request
    <3>2. RouteInv'
      BY <1>1, <2>1, <2>2, <2>3 DEF RouteInv, RoutingInv, RoutingTypeOK, ApiAnswersInEnvelope, Request
    <3> QED  BY <1>2, <2>2, <3>1, <3>2
  <2>4. CASE ~Exempt(path) /\ request' = Answered("maintenance", "html")
    <3>1. request' \in Request
      BY <1>1, <2>4 DEF Answered, Request
    <3>2. RouteInv'
      BY <1>1, <2>1, <2>2, <2>4 DEF Answered, RouteInv, RoutingInv, ApiAnswersInEnvelope, Request
    <3> QED  BY <1>2, <2>2, <3>1, <3>2
  <2>5. CASE Crash
    <3>1. request' \in Request
      BY <1>1, <2>5 DEF Crash, Answered, Request
    <3>2. RouteInv'
      BY <1>1, <2>1, <2>2, <2>5 DEF Crash, Answered, RouteInv, RoutingInv, ApiAnswersInEnvelope, Request
    <3> QED  BY <1>2, <2>2, <3>1, <3>2
  <2> QED  BY <1>7, <2>3, <2>4, <2>5 DEF Maintain
<1>8. CASE Route
  <2> DEFINE gate == Gate(D.access, account)
             verdict == IF gate = "ok" /\ Malformed(path, D.path) THEN "invalid" ELSE gate
  <2>1. request.stage = "routing" /\ request.answer = "none"
    BY <1>8 DEF Route, At, RoutingInv, RouteInv
  <2>2. UNCHANGED <<edition, modules, maintenance, account>>
    BY <1>8 DEF Route, At
  <2>3. request' = [(IF verdict = "ok" THEN [request EXCEPT !.stage = "handler"]
                     ELSE IF verdict \in {"to login", "to change-password"}
                     THEN Answered(verdict, "none")
                     ELSE Answered(verdict, ErrorForm(path, verdict)))
                    EXCEPT !.route = D]
    BY <1>8 DEF Route
  <2>4. \/ D = NoRoute \/ D = WrongMethod
        \/ D \in ToSet(Routes(edition, modules)) /\ Fits(path, D.path)
    BY Dispatched
  <2>5. D \in ToSet(AllRoutes) \cup {NoRoute, WrongMethod}
    BY <2>4, AmongAll
  <2>6. D \in ToSet(Routes(edition, modules)) => D.access \in Guarded
    BY RouteFacts DEF IsTable, ToSet
  <2>7. NoRoute.access = "missing" /\ WrongMethod.access = "method"
    BY DEF NoRoute, WrongMethod
  <2> HIDE DEF D
  <2>8. gate \in {"ok", "unauthenticated", "forbidden", "to login", "to change-password",
                  "missing", "method"}
    BY <1>1, <2>4, <2>6, <2>7, GateSays
  <2>9. gate = "ok" => D \in ToSet(Routes(edition, modules)) /\ Fits(path, D.path)
    BY <1>1, <2>4, <2>7, GateSays
  <2>10. gate \in {"to login", "to change-password"} => ~IsApi(path)
    <3> SUFFICES ASSUME gate \in {"to login", "to change-password"} PROVE ~IsApi(path)
      OBVIOUS
    <3>1. D \in ToSet(Routes(edition, modules)) /\ Fits(path, D.path) /\ D.access \in Guarded
      BY <1>1, <2>4, <2>6, <2>7, GateSays
    <3>2. IsPage(D.access)
      BY <1>1, <3>1, GateSays DEF Guarded
    <3> QED  BY <1>1, <3>1, <3>2, PagesAreNoApi
  <2> HIDE DEF gate
  <2>11. /\ verdict \in {"ok", "unauthenticated", "forbidden", "to login", "to change-password",
                        "missing", "method", "invalid"}
         /\ verdict = "ok" => D \in ToSet(Routes(edition, modules)) /\ Fits(path, D.path)
         /\ verdict \in {"to login", "to change-password"} => ~IsApi(path)
    BY <2>8, <2>9, <2>10
  <2> HIDE DEF verdict
  <2>12. /\ ErrorForm(path, verdict) \in {"envelope", "html"}
         /\ IsApi(path) => ErrorForm(path, verdict) = "envelope"
    BY DEF ErrorForm
  <2>13. CASE verdict = "ok"
    <3>1. request' = [request EXCEPT !.stage = "handler", !.route = D]
      BY <2>3, <2>13
    <3>2. request' \in Request
      BY <1>1, <2>5, <3>1 DEF Request
    <3>3. RouteInv'
      BY <1>1, <2>1, <2>2, <2>11, <2>13, <3>1
      DEF RouteInv, RoutingInv, ApiAnswersInEnvelope, Request, D
    <3> QED  BY <1>2, <2>2, <3>2, <3>3
  <2>14. CASE verdict # "ok"
    <3>1. PICK form \in {"none", "envelope", "html"} :
             /\ request' = [request EXCEPT !.stage = "answered", !.answer = verdict,
                                           !.form = form, !.route = D]
             /\ IsApi(path) => form = "envelope"
      BY <2>3, <2>11, <2>12, <2>14 DEF Answered
    <3>2. request' \in Request
      BY <1>1, <2>5, <2>11, <3>1 DEF Request
    <3>3. RouteInv'
      BY <1>1, <2>1, <2>2, <2>11, <2>14, <3>1
      DEF RouteInv, RoutingInv, ApiAnswersInEnvelope, Request, D
    <3> QED  BY <1>2, <2>2, <3>2, <3>3
  <2> QED  BY <2>13, <2>14
<1>9. CASE Handle
  <2>1. request.stage = "handler" /\ request.answer = "none"
    BY <1>9 DEF Handle, At, RoutingInv, RouteInv
  <2>2. UNCHANGED <<edition, modules, maintenance, account>>
    BY <1>9 DEF Handle, At
  <2>3. PICK answer \in {"ok", "error", "crash"}, form \in {"html", "csv", "envelope", "plain"} :
           /\ request' = Answered(answer, form)
           /\ IsApi(path) /\ answer # "crash" => form \in {"csv", "envelope"}
    BY <1>9 DEF Handle, Crash, ErrorForm
  <2>4. request' = [request EXCEPT !.stage = "answered", !.answer = answer, !.form = form]
    BY <2>3 DEF Answered
  <2>5. request' \in Request
    BY <1>1, <2>4 DEF Request
  <2>6. RouteInv'
    BY <1>1, <2>1, <2>2, <2>3, <2>4 DEF RouteInv, RoutingInv, ApiAnswersInEnvelope, Request
  <2> QED  BY <1>2, <2>2, <2>5, <2>6
<1> QED  BY <1>4, <1>5, <1>6, <1>7, <1>8, <1>9 DEF RoutingNext

\* The inductive invariant of a request on its way, for every plugin, choice of
\* modules and edition.
THEOREM RoutingInvariant == RoutingSpec => []RoutingInv
BY RoutingInit_Inv, RoutingStep_Inv, PTL DEF RoutingSpec

\* A request is always answered by a known route, or by none, in a known form.
THEOREM RoutingTypeCorrect == RoutingSpec => []RoutingTypeOK
<1>1. RoutingInv => RoutingTypeOK
  BY DEF RoutingInv
<1> QED  BY <1>1, RoutingInvariant, PTL

\* The inductive invariant says what the answers promise.
LEMMA AsPromised == RoutingInv => AnsweredAsPromised
<1> SUFFICES ASSUME RoutingInv PROVE AnsweredAsPromised
  OBVIOUS
<1>1. IsSeq(request.path)
  BY PathIsSeq DEF RoutingInv, RoutingTypeOK, Request
<1>2. FixedRoutesWin
  <2> SUFFICES ASSUME request.route.access \notin {"missing", "method"} PROVE FixedRoutesWin
    BY DEF FixedRoutesWin
  <2>1. request.route # NoRoute
    <3>1. NoRoute.access = "missing"
      BY DEF NoRoute
    <3> QED  BY <3>1
  <2>2. request.route = Dispatch(edition, modules, request.method, request.path)
    BY <2>1 DEF RoutingInv, RouteInv
  <2> QED  BY <2>2, Dispatched DEF FixedRoutesWin
<1>3. MaintenanceSparesAdmin
  <2>1. request.answer = "maintenance" => ~Spared(request.path)
    BY <1>1, SparedIsExempt DEF RoutingInv, RouteInv
  <2>2. request.closed /\ request.answer = "ok" =>
           \/ Spared(request.path) \/ request.path[1] \in PrefixedSlugs
           \/ request.route \in ToSet(PluginRoutes)
    BY <1>1, ExemptIsSpared DEF RoutingInv, RouteInv
  <2> QED  BY <2>1, <2>2 DEF MaintenanceSparesAdmin
<1> QED  BY <1>2, <1>3 DEF AnsweredAsPromised, RoutingInv, RouteInv

\* A path that is spelled out is never taken for a parameter, maintenance mode
\* spares the admin area and nothing of the public site, and the API answers in
\* its envelope, whatever the plugins mount.
THEOREM AnswersKept == RoutingSpec => []AnsweredAsPromised
BY RoutingInvariant, AsPromised, PTL

\* Whoever a page lets in, its API lets in, and the other way round, whatever
\* becomes of the account meanwhile.
THEOREM GatesAgree == RoutingSpec => []PagesAgreeWithApi
<1>1. RoutingInv => PagesAgreeWithApi
  <2> SUFFICES ASSUME RoutingInv PROVE PagesAgreeWithApi
    OBVIOUS
  <2>1. account \in Account
    BY DEF RoutingInv, RoutingTypeOK
  <2> QED  BY <2>1 DEF Account, PagesAgreeWithApi, Gate, ApiGate, PageGate
<1> QED  BY <1>1, RoutingInvariant, PTL
=============================================================================
