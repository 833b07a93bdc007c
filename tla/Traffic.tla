------------------------------ MODULE Traffic ------------------------------
(***************************************************************************)
(* TrafficTracker, TrafficService and TrafficRepository: page views are    *)
(* counted in memory and written to the database in batches, by the        *)
(* request that finds a flush due, by the flush job or for the dashboard.  *)
(***************************************************************************)
EXTENDS Naturals, FiniteSetsExt

CONSTANTS Paths, Visitors, Flushers,
          LastDay,     \* the model's days are 1..LastDay
          MaxPaths,    \* MAX_TRACKED_PATHS
          MaxViews,    \* bound of the views recorded
          NoBatch

VARIABLES today,
          views,        \* self._hits; a key that was not seen has 0
          uniques,     \* self._uniques
          batch,       \* batch[f]: what flusher f drained and has not written
          stored,      \* traffic_stats
          storedUniques,   \* traffic_daily
          recorded,    \* views of a key so far
          lostViews,        \* views of a key that will not be written
          seen         \* visitors of a day so far

trafficVars == <<today, views, uniques, batch, stored, storedUniques, recorded, lostViews, seen>>

Other == "(other)"
Days == 1..LastDay
Counters == Days \X (Paths \cup {Other})
Batch == [views : [Counters -> Nat], uniques : [Days -> Nat]]

ASSUME TrafficAssumption ==
    LastDay \in Nat \ {0} /\ IsFiniteSet(Visitors) /\ NoBatch \notin Batch

TrafficTypeOK ==
    /\ today \in Days
    /\ {views, stored, recorded, lostViews} \subseteq [Counters -> Nat]
    /\ {uniques, seen} \subseteq [Days -> SUBSET Visitors]
    /\ batch \in [Flushers -> Batch \cup {NoBatch}]
    /\ storedUniques \in [Days -> Nat]

Zero == [k \in Counters |-> 0]

TrafficInit ==
    /\ today = 1
    /\ views = Zero /\ stored = Zero /\ recorded = Zero /\ lostViews = Zero
    /\ uniques = [d \in Days |-> {}] /\ seen = [d \in Days |-> {}]
    /\ batch = [f \in Flushers |-> NoBatch]
    /\ storedUniques = [d \in Days |-> 0]

Plus(m, n) == [k \in Counters |-> m[k] + n[k]]

-----------------------------------------------------------------------------
\* Fault variants, each substituted for the definition named beside it.
KeepHits(h) == h                                                 \* AfterDrain
LatestWins(old, new) == new                                      \* Estimate

-----------------------------------------------------------------------------
Midnight ==
    /\ today < LastDay
    /\ today' = today + 1
    /\ UNCHANGED <<views, uniques, batch, stored, storedUniques, recorded, lostViews, seen>>

Tracked(d, path) ==
    IF views[<<d, path>>] = 0 /\ Cardinality({k \in Counters : views[k] > 0}) >= MaxPaths
    THEN <<d, Other>> ELSE <<d, path>>

\* The day was read before the tracker's lock was taken, perhaps yesterday.
Record(path, visitor, d) ==
    LET k == Tracked(d, path) IN
    /\ d \in {today, today - 1} \cap Days
    /\ MapThenSumSet(LAMBDA c : recorded[c], Counters) < MaxViews
    /\ views' = [views EXCEPT ![k] = @ + 1]
    /\ recorded' = [recorded EXCEPT ![k] = @ + 1]
    /\ uniques' = [uniques EXCEPT ![d] = @ \cup {visitor}]
    /\ seen' = [seen EXCEPT ![d] = @ \cup {visitor}]
    /\ UNCHANGED <<today, batch, stored, storedUniques, lostViews>>

AfterDrain(h) == Zero

\* drain(): under the flush lock and the tracker's, when a flush is due or
\* forced.
Drain(f) ==
    /\ batch[f] = NoBatch
    /\ batch' = [batch EXCEPT ![f] =
          [views |-> views, uniques |-> [d \in Days |-> Cardinality(uniques[d])]]]
    /\ views' = AfterDrain(views)
    /\ uniques' = [d \in Days |-> IF d = today THEN uniques[d] ELSE {}]
    /\ UNCHANGED <<today, stored, storedUniques, recorded, lostViews, seen>>

\* record_uniques: the estimate of a day only grows.
Estimate(old, new) == IF new > old THEN new ELSE old

\* The transaction around the upserts, after both locks are free again: a
\* later batch may be written before an older one.
WriteBatch(f) ==
    /\ batch[f] # NoBatch
    /\ stored' = Plus(stored, batch[f].views)
    /\ storedUniques' = [d \in Days |->
          IF batch[f].uniques[d] = 0 THEN storedUniques[d]
          ELSE Estimate(storedUniques[d], batch[f].uniques[d])]
    /\ batch' = [batch EXCEPT ![f] = NoBatch]
    /\ UNCHANGED <<today, views, uniques, recorded, lostViews, seen>>

\* A failing transaction: the batch is a local variable of the call.
WriteBatchFails(f) ==
    /\ batch[f] # NoBatch
    /\ lostViews' = Plus(lostViews, batch[f].views)
    /\ batch' = [batch EXCEPT ![f] = NoBatch]
    /\ UNCHANGED <<today, views, uniques, stored, storedUniques, recorded, seen>>

\* The views of k that flusher f holds, numbered.
HeldBy(f, k) == IF batch[f] = NoBatch THEN {} ELSE {f} \X (1..batch[f].views[k])
Unwritten(k) == Cardinality(UNION {HeldBy(f, k) : f \in Flushers})

\* A restart of the process loses what it had in memory.
RestartTracker ==
    /\ lostViews' = [k \in Counters |-> lostViews[k] + views[k] + Unwritten(k)]
    /\ views' = Zero
    /\ uniques' = [d \in Days |-> {}]
    /\ batch' = [f \in Flushers |-> NoBatch]
    /\ UNCHANGED <<today, stored, storedUniques, recorded, seen>>

TrafficNext ==
    \/ Midnight
    \/ \E p \in Paths, v \in Visitors, d \in Days : Record(p, v, d)
    \/ \E f \in Flushers : Drain(f) \/ WriteBatch(f) \/ WriteBatchFails(f)
    \/ RestartTracker

TrafficSpec == TrafficInit /\ [][TrafficNext]_trafficVars

-----------------------------------------------------------------------------
\* Every view is in exactly one place, whatever flushes overlap: counted in
\* memory, drained by one flusher, stored once, or lost with a failed
\* transaction or a restart.
ViewsConserved ==
    \A k \in Counters : recorded[k] = views[k] + Unwritten(k) + stored[k] + lostViews[k]

\* "Stores the day's unique-visitor estimate (monotonic max)"
\* (traffic_repository.py:28): no visitor is invented, and a batch written out
\* of order, or a restart that starts counting anew, takes nothing back.
UniquesOnlyGrow ==
    [][\A d \in Days : storedUniques[d] <= storedUniques'[d]
                       /\ storedUniques'[d] <= Cardinality(seen[d])]_trafficVars
=============================================================================
