----------------------------- MODULE TimedReads -----------------------------
(***************************************************************************)
(* What is read through the cache with a time to live: the menus, which    *)
(* get_or_set loads, the cache-warmup job preloads and every edit drops,   *)
(* and the dashboard metrics, which nothing drops.                         *)
(*                                                                         *)
(* A value is the moment its rows were read.  A loader may read before an  *)
(* edit and store after it, so an entry may be older than the last edit:   *)
(* the question is how much older.                                         *)
(***************************************************************************)
EXTENDS Integers

CONSTANTS Viewers,    \* requests, and runs of the cache-warmup job
          NoLoad,
          TimeToLive, \* per entry: 300 s for menus, 30 s for metrics
          MaxLoad,    \* between reading the rows and storing them
          EndOfTime   \* bound of the clock

Entries == {"menu", "metrics"}
Purposes == {"lock", "answer", "warmup"}

ASSUME TimedReadsAssumption ==
    /\ TimeToLive \in [Entries -> Nat] /\ MaxLoad \in Nat /\ EndOfTime \in Nat
    /\ NoLoad \notin [key : Entries, at : Nat, for : Purposes]

VARIABLES time,
          kept,     \* kept[k]: the entry and when it expires; it expires at 0 when there is none
          loading,  \* loading[v]: the rows a viewer has read and has still to store
          viewed    \* what was last shown, and how old its rows were

timedVars == <<time, kept, loading, viewed>>

NoRows == [at |-> 0, expires |-> 0]

TimedTypeOK ==
    /\ time \in Nat
    /\ kept \in [Entries -> [at : Nat, expires : Nat]]
    /\ loading \in [Viewers -> [key : Entries, at : Nat, for : Purposes] \cup {NoLoad}]
    /\ viewed \in [key : Entries, age : Nat]

TimedInit ==
    /\ time = 1
    /\ kept = [k \in Entries |-> NoRows]
    /\ loading = [v \in Viewers |-> NoLoad]
    /\ viewed = [key |-> "menu", age |-> 0]

-----------------------------------------------------------------------------
\* A fault variant, substituted for the definition named beside it.
NeverExpires(k) == kept[k].expires # 0                                 \* Live

-----------------------------------------------------------------------------
\* CacheEntry.is_expired, asked by get() and purge_expired().
Live(k) == time < kept[k].expires

ShowRows(k, at) == viewed' = [key |-> k, age |-> time - at]

ReadRows(v, k, for) ==
    /\ loading[v] = NoLoad
    /\ loading' = [loading EXCEPT ![v] = [key |-> k, at |-> time, for |-> for]]

\* An entry that lives is shown.
Hit(v, k) ==
    /\ loading[v] = NoLoad /\ Live(k)
    /\ ShowRows(k, kept[k].at)
    /\ UNCHANGED <<time, kept, loading>>

Unlocked == \A w \in Viewers : loading[w] # NoLoad => loading[w].for # "lock"

\* MenuService.get_menu: get_or_set lets one request load, under the lock of the
\* key, and the next looks again when it has the lock.
LoadMenu(v) ==
    /\ ~Live("menu") /\ Unlocked
    /\ ReadRows(v, "menu", "lock")
    /\ UNCHANGED <<time, kept, viewed>>

\* DashboardService.metrics: whoever finds no entry counts.
ComputeMetrics(v) ==
    /\ ~Live("metrics")
    /\ ReadRows(v, "metrics", "answer")
    /\ UNCHANGED <<time, kept, viewed>>

\* CacheWarmupJob.run: what has expired is dropped, and warm_cache reads the
\* menus whatever is stored, and takes no lock.
WarmUp(v) ==
    /\ kept' = [k \in Entries |-> IF Live(k) THEN kept[k] ELSE NoRows]
    /\ ReadRows(v, "menu", "warmup")
    /\ UNCHANGED <<time, viewed>>

\* set(), whatever has been stored or dropped since the rows were read.
StoreRows(v) ==
    /\ loading[v] # NoLoad
    /\ LET l == loading[v] IN
          /\ kept' = [kept EXCEPT ![l.key] = [at |-> l.at, expires |-> time + TimeToLive[l.key]]]
          /\ IF l.for = "warmup" THEN UNCHANGED viewed ELSE ShowRows(l.key, l.at)
    /\ loading' = [loading EXCEPT ![v] = NoLoad]
    /\ UNCHANGED time

\* The database raised: the lock is released and nothing is stored.
LoadFails(v) ==
    /\ loading[v] # NoLoad
    /\ loading' = [loading EXCEPT ![v] = NoLoad]
    /\ UNCHANGED <<time, kept, viewed>>

\* MenuService._invalidate, after the edit is written.
DropMenus ==
    /\ kept' = [kept EXCEPT !["menu"] = NoRows]
    /\ UNCHANGED <<time, loading, viewed>>

Second ==
    /\ time < EndOfTime
    /\ \A v \in Viewers : loading[v] # NoLoad => time < loading[v].at + MaxLoad
    /\ time' = time + 1
    /\ UNCHANGED <<kept, loading, viewed>>

TimedNext ==
    \/ \E v \in Viewers : \/ \E k \in Entries : Hit(v, k)
                          \/ LoadMenu(v) \/ ComputeMetrics(v) \/ WarmUp(v)
                          \/ StoreRows(v) \/ LoadFails(v)
    \/ DropMenus
    \/ Second

TimedSpec == TimedInit /\ [][TimedNext]_timedVars

-----------------------------------------------------------------------------
\* A load that races an edit, or a slower load, leaves an older entry behind,
\* and no later edit has to come and drop it: but what anyone is shown was
\* read at most a time to live and a load ago.
StaleForAtMostTtl == viewed.age <= TimeToLive[viewed.key] + MaxLoad
=============================================================================
