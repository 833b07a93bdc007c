------------------------- MODULE ReadThroughCache -------------------------
(***************************************************************************)
(* InMemoryCacheManager of infrastructure/cache/manager.py with the        *)
(* services that read through it and invalidate it: ContentService,        *)
(* MenuService, RedirectService and SiteSettingsService, in one process.   *)
(* All of them read with get_or_set and write the database first, then     *)
(* drop keys; MenuService.warm_cache also stores what it loaded without    *)
(* the key lock.                                                           *)
(*                                                                         *)
(* Each section under the cache's own lock is atomic.  Reading and writing *)
(* the database are steps of their own, outside that lock.  What a loader  *)
(* returns is a version number; NoRow is the None of a page that is not    *)
(* there or not published, which get_or_set does not cache.  Menus,        *)
(* redirects and settings load as lists and dictionaries, which are never  *)
(* None.  A statement that raises has written nothing: what a failing      *)
(* COMMIT may leave behind is in DatabaseManager.                          *)
(***************************************************************************)
EXTENDS Naturals

CONSTANTS Threads,    \* request threads and the warm-up job's thread
          Slugs,      \* content:<slug>, the page with that slug
          Menus,      \* menu:<area>, the menu items of an area
          Rules,      \* redirects:active
          Settings,   \* settings:all
          Pages,      \* rows of contents
          Unborn, Deleted,   \* where a page is that has no slug
          Nobody,     \* no thread
          MaxWrites   \* bound on the writes to the database

Keys == Slugs \cup Menus \cup Rules \cup Settings

ASSUME CacheAssumption ==
    /\ \A t \in {Slugs, Menus, Rules, Settings}, u \in {Slugs, Menus, Rules, Settings} :
          t = u \/ t \cap u = {}
    /\ Keys # {} /\ Pages # {}
    /\ Unborn \notin Keys /\ Deleted \notin Keys /\ Unborn # Deleted
    /\ Nobody \notin Threads
    /\ MaxWrites \in Nat

VARIABLES rows,      \* rows[k]: what the loader of k finds in the database
          place,     \* place[p]: the slug of page p
          writes,    \* number of writes so far
          store,     \* store[k]: cached value, or NoEntry
          expired,   \* keys whose entry is past its expires_at
          keyLock,   \* keyLock[k]: holder of the per-key lock of get_or_set
          pc, key, loaded,   \* per thread: position, key, what it loaded
          page,      \* page[t]: the page that t edits or deletes
          pending    \* pending[t]: what t has written and will drop

vars == <<rows, place, writes, store, expired, keyLock, pc, key, loaded, page, pending>>

NoRow == 0
NoEntry == 0
Fresh == writes + 2
Values == 0..(MaxWrites + 1)

Live(k) == store[k] # NoEntry /\ k \notin expired

TypeOK ==
    /\ rows \in [Keys -> Values]
    /\ place \in [Pages -> Slugs \cup {Unborn, Deleted}]
    /\ writes \in 0..MaxWrites
    /\ store \in [Keys -> Values]
    /\ expired \subseteq {k \in Keys : store[k] # NoEntry}
    /\ keyLock \in [Keys -> Threads \cup {Nobody}]
    /\ pc \in [Threads -> {"idle", "lock", "recheck", "load", "fill", "warmfill",
                           "edit", "update", "dropold", "drop"}]
    /\ key \in [Threads -> Keys]
    /\ loaded \in [Threads -> Values]
    /\ page \in [Threads -> Pages]
    /\ pending \in [Threads -> SUBSET Keys]

Placed(k) == \E p \in Pages : place[p] = k

Init ==
    /\ place \in [Pages -> Slugs \cup {Unborn}]
    /\ \A p, q \in Pages : place[p] = place[q] => p = q \/ place[p] = Unborn
    /\ rows = [k \in Keys |-> IF k \in Slugs /\ ~Placed(k) THEN NoRow ELSE 1]
    /\ writes = 0
    /\ store = [k \in Keys |-> NoEntry]
    /\ expired = {}
    /\ keyLock = [k \in Keys |-> Nobody]
    /\ pc = [t \in Threads |-> "idle"]
    /\ \E k \in Keys : key = [t \in Threads |-> k]
    /\ loaded = [t \in Threads |-> NoRow]
    /\ \E p \in Pages : page = [t \in Threads |-> p]
    /\ pending = [t \in Threads |-> {}]

Goto(t, label) == pc' = [pc EXCEPT ![t] = label]

\* get_or_set() and warm_cache() are over, and what was loaded is returned.
Forget(t) == Goto(t, "idle") /\ loaded' = [loaded EXCEPT ![t] = NoRow]

serviceVars == <<rows, place, writes, page, pending>>

-----------------------------------------------------------------------------
\* Fault variants, each substituted for the definition named beside it.
KeepEntry(keys) == UNCHANGED <<store, expired>>                     \* Drop
KeepLock(k) == UNCHANGED keyLock                                 \* Unlock
ClockStops(k) == FALSE /\ UNCHANGED vars                         \* TtlPasses
AnyoneEnters(k) == TRUE                                          \* LockFree

-----------------------------------------------------------------------------
(* InMemoryCacheManager *)

\* get(): a hit, or a miss that also removes an expired entry.
Hit(k) == Live(k) /\ UNCHANGED <<store, expired>>
Miss(k) ==
    /\ ~Live(k)
    /\ store' = [store EXCEPT ![k] = NoEntry]
    /\ expired' = expired \ {k}

\* set(): a new entry with a new expires_at.
Put(k, v) ==
    /\ store' = [store EXCEPT ![k] = v]
    /\ expired' = expired \ {k}

\* delete() of a key, delete_prefix() of all that it matches.
Drop(keys) ==
    /\ store' = [k \in Keys |-> IF k \in keys THEN NoEntry ELSE store[k]]
    /\ expired' = expired \ keys

\* purge_expired(), run by the clean-up job.
PurgeExpired ==
    /\ expired # {}
    /\ store' = [k \in Keys |-> IF k \in expired THEN NoEntry ELSE store[k]]
    /\ expired' = {}
    /\ UNCHANGED <<serviceVars, keyLock, pc, key, loaded>>

TtlPasses(k) ==
    /\ Live(k)
    /\ expired' = expired \cup {k}
    /\ UNCHANGED <<serviceVars, store, keyLock, pc, key, loaded>>

LockFree(k) == keyLock[k] = Nobody
Unlock(k) == keyLock' = [keyLock EXCEPT ![k] = Nobody]

-----------------------------------------------------------------------------
(* get_or_set(k, loader) *)

\* The unlocked fast path returns a hit at once.
FastPath(t, k) ==
    /\ pc[t] = "idle"
    /\ key' = [key EXCEPT ![t] = k]
    /\ \/ Hit(k) /\ UNCHANGED pc
       \/ Miss(k) /\ Goto(t, "lock")
    /\ UNCHANGED <<serviceVars, keyLock, loaded>>

TakeKeyLock(t) ==
    LET k == key[t] IN
    /\ pc[t] = "lock"
    /\ LockFree(k)
    /\ keyLock' = [keyLock EXCEPT ![k] = t]
    /\ Goto(t, "recheck")
    /\ UNCHANGED <<serviceVars, store, expired, key, loaded>>

\* Another thread may have filled the key while this one waited.
Recheck(t) ==
    LET k == key[t] IN
    /\ pc[t] = "recheck"
    /\ \/ Hit(k) /\ Unlock(k) /\ Goto(t, "idle")
       \/ Miss(k) /\ Goto(t, "load") /\ UNCHANGED keyLock
    /\ UNCHANGED <<serviceVars, key, loaded>>

Load(t) ==
    /\ pc[t] = "load"
    /\ loaded' = [loaded EXCEPT ![t] = rows[key[t]]]
    /\ Goto(t, "fill")
    /\ UNCHANGED <<serviceVars, store, expired, keyLock, key>>

\* The loader raises (a failed query): the with block frees the key lock.
LoadFails(t) ==
    /\ pc[t] = "load"
    /\ Unlock(key[t])
    /\ Goto(t, "idle")
    /\ UNCHANGED <<serviceVars, store, expired, key, loaded>>

Fill(t) ==
    LET k == key[t] IN
    /\ pc[t] = "fill"
    /\ IF loaded[t] = NoRow THEN UNCHANGED <<store, expired>> ELSE Put(k, loaded[t])
    /\ Unlock(k)
    /\ Forget(t)
    /\ UNCHANGED <<serviceVars, key>>

-----------------------------------------------------------------------------
(* Services *)

\* warm_cache(): load, then set, with no key lock in between.
WarmLoad(t, k) ==
    /\ pc[t] = "idle"
    /\ k \in Menus
    /\ key' = [key EXCEPT ![t] = k]
    /\ loaded' = [loaded EXCEPT ![t] = rows[k]]
    /\ Goto(t, "warmfill")
    /\ UNCHANGED <<serviceVars, store, expired, keyLock>>

WarmFill(t) ==
    /\ pc[t] = "warmfill"
    /\ Put(key[t], loaded[t])
    /\ Forget(t)
    /\ UNCHANGED <<serviceVars, keyLock, key>>

\* A committed statement of t that changes the rows of the keys in changed, and
\* after which t will drop those in drops.
Commit(t, changed, value, drops) ==
    /\ writes < MaxWrites
    /\ writes' = writes + 1
    /\ rows' = [k \in Keys |-> IF k \in changed THEN value[k] ELSE rows[k]]
    /\ pending' = [pending EXCEPT ![t] = drops]
    /\ UNCHANGED <<store, expired, keyLock, loaded>>

AllFresh == [k \in Keys |-> Fresh]

\* create / update / delete of a menu item or of a redirect: one statement, and
\* then the drop of the whole list.
WriteList(t) ==
    /\ pc[t] = "idle"
    /\ \E list \in {Menus, Rules} : \E changed \in SUBSET list \ {{}} :
          Commit(t, changed, AllFresh, list)
    /\ Goto(t, "drop")
    /\ UNCHANGED <<key, page, place>>

\* SiteSettingsService.update: one upsert for each value, and the drop after the
\* last.
Upsert(t) ==
    /\ pc[t] \in {"idle", "update"}
    /\ Settings # {}
    /\ Commit(t, Settings, AllFresh, Settings)
    /\ \/ Goto(t, "update") \/ Goto(t, "drop")
    /\ UNCHANGED <<key, page, place>>

\* The next value is too long, or its upsert raises: the ones before are stored,
\* and nothing is dropped.
UpdateFails(t) ==
    /\ pc[t] = "update"
    /\ pending' = [pending EXCEPT ![t] = {}]
    /\ Goto(t, "idle")
    /\ UNCHANGED <<rows, place, writes, store, expired, keyLock, key, loaded, page>>

\* What a page at slug k may show: a row, or nothing when it is not published.
PageValues(new) ==
    {[k \in Keys |-> IF k = new /\ shown THEN Fresh ELSE NoRow] : shown \in BOOLEAN}

\* ContentService.create: the slug is free (its column is UNIQUE).
CreatePage(t, p, k) ==
    /\ pc[t] = "idle"
    /\ place[p] = Unborn /\ ~Placed(k)
    /\ \E value \in PageValues(k) : Commit(t, {k}, value, {k})
    /\ place' = [place EXCEPT ![p] = k]
    /\ Goto(t, "drop")
    /\ UNCHANGED <<key, page>>

\* ContentService.update and delete read the page first, with its slug.
ReadPage(t, p) ==
    /\ pc[t] = "idle"
    /\ place[p] \in Slugs
    /\ key' = [key EXCEPT ![t] = place[p]]
    /\ page' = [page EXCEPT ![t] = p]
    /\ Goto(t, "edit")
    /\ UNCHANGED <<rows, place, writes, store, expired, keyLock, loaded, pending>>

\* The UPDATE, which may rename it from where it is by then; afterwards the slug
\* that was read is dropped, and then the one that was written.
SavePage(t, k) ==
    LET p == page[t]
        at == place[page[t]]
    IN
    /\ pc[t] = "edit"
    /\ at \in Slugs
    /\ k = at \/ ~Placed(k)
    /\ \E value \in PageValues(k) : Commit(t, {at, k}, value, {k})
    /\ place' = [place EXCEPT ![p] = k]
    /\ Goto(t, "dropold")
    /\ UNCHANGED <<key, page>>

DropOldSlug(t) ==
    /\ pc[t] = "dropold"
    /\ Drop({key[t]})
    /\ Goto(t, "drop")
    /\ UNCHANGED <<serviceVars, keyLock, key, loaded>>

\* The DELETE, and afterwards the drop of the slug that was read.
DeletePage(t) ==
    LET at == place[page[t]] IN
    /\ pc[t] = "edit"
    /\ at \in Slugs
    /\ Commit(t, {at}, [k \in Keys |-> NoRow], {key[t]})
    /\ place' = [place EXCEPT ![page[t]] = Deleted]
    /\ Goto(t, "drop")
    /\ UNCHANGED <<key, page>>

\* The page is gone, the slug is taken, or the statement fails.
EditRefused(t) ==
    /\ pc[t] = "edit"
    /\ Goto(t, "idle")
    /\ UNCHANGED <<serviceVars, store, expired, keyLock, key, loaded>>

\* _invalidate, the last of a write.
Invalidate(t) ==
    /\ pc[t] = "drop"
    /\ Drop(pending[t])
    /\ pending' = [pending EXCEPT ![t] = {}]
    /\ Goto(t, "idle")
    /\ UNCHANGED <<rows, place, writes, keyLock, key, loaded, page>>

Continue(t) ==
    \/ TakeKeyLock(t) \/ Recheck(t) \/ Load(t) \/ LoadFails(t) \/ Fill(t)
    \/ WarmFill(t) \/ UpdateFails(t) \/ (pc[t] = "update" /\ Upsert(t))
    \/ (\E k \in Slugs : SavePage(t, k)) \/ DeletePage(t) \/ EditRefused(t)
    \/ DropOldSlug(t) \/ Invalidate(t)

Next ==
    \/ \E t \in Threads :
          \/ Continue(t)
          \/ \E k \in Keys : FastPath(t, k) \/ WarmLoad(t, k)
          \/ WriteList(t) \/ Upsert(t)
          \/ \E p \in Pages : ReadPage(t, p) \/ \E k \in Slugs : CreatePage(t, p, k)
    \/ \E k \in Keys : TtlPasses(k)
    \/ PurgeExpired

Spec == Init /\ [][Next]_vars

\* A started operation goes on, and the clock reaches every expires_at.
FairSpec ==
    /\ Spec
    /\ \A t \in Threads : WF_vars(Continue(t))
    /\ \A k \in Keys : WF_vars(TtlPasses(k))

-----------------------------------------------------------------------------
\* Somebody who wrote what k shows will still drop it.
Writing(k) == \E t \in Threads : k \in pending[t] \/ (pc[t] = "dropold" /\ key[t] = k)
Stale(k) == Live(k) /\ store[k] # rows[k]

\* "only one thread calls loader()" (cache/manager.py:114): per key, at most
\* one thread of get_or_set is loading or storing.
SingleFlight ==
    \A t, u \in Threads :
        /\ pc[t] \in {"recheck", "load", "fill"}
        /\ pc[u] \in {"recheck", "load", "fill"}
        /\ key[t] = key[u]
        => t = u

\* "invalidate the cache immediately" (site_settings_service.py:3), "invalidated
\* on every change" (redirect_service.py:3): when no write is between its
\* statement and its invalidation, no stale value is served.
InvalidatedImmediately == \A k \in Keys : Stale(k) => Writing(k)

\* A reader, or the warm-up, is about to store for k what the database had before.
LateFill(k) ==
    \E t \in Threads : pc[t] \in {"fill", "warmfill"} /\ key[t] = k /\ loaded[t] # rows[k]

\* The page at k is saved or deleted by a thread that read it at another slug,
\* and will drop that one.
RenamedMeanwhile(k) ==
    \E t \in Threads : pc[t] = "edit" /\ place[page[t]] = k /\ key[t] # k

\* A stale value is served, with nobody left to drop it, only from one of three
\* causes: a fill whose load came before the write; an update of the settings
\* that raised after it had stored some (site_settings_service.py:49-53); or a
\* save or a deletion of a page that somebody renamed after it was read
\* (content_service.py:78-84, 94-96).  Every other write drops all it changed,
\* and no other step revives an old value, whatever the interleaving.  This is of
\* the cache of the process that wrote: another process has only the TTL.
StaleOnlyFromThreeCauses ==
    [][\A k \in Keys :
          (Stale(k)' /\ ~Writing(k)') =>
              \/ Stale(k) /\ ~Writing(k)
              \/ LateFill(k)
              \/ \E t \in Threads : UpdateFails(t) /\ k \in pending[t]
              \/ RenamedMeanwhile(k)]_vars

\* The per-key lock is always given back, by a loader that raises too
\* (cache/manager.py:119-126).
KeyLockReleased ==
    \A k \in Keys, t \in Threads : keyLock[k] = t ~> keyLock[k] # t

\* Staleness is bounded by the TTL: once the writes stop, every served value
\* is eventually, and then for good, the one in the database.
EventuallyFresh == <>[](\A k \in Keys : ~Stale(k))
=============================================================================
