---------------------- MODULE ReadThroughCacheProofs ----------------------
(***************************************************************************)
(* Proofs about ReadThroughCache, for any threads, keys, pages and number  *)
(* of writes.  SingleFlight needs the owner of each key lock to be known:  *)
(* the thread inside the locked section of get_or_set, and nobody else.    *)
(* Where stale values come from needs to be known who still has to drop    *)
(* what: a thread that is writing, and nobody else.                        *)
(***************************************************************************)
EXTENDS ReadThroughCache, TLAPS

Inside(t) == pc[t] \in {"recheck", "load", "fill"}

LockOwner == \A t \in Threads : Inside(t) => keyLock[key[t]] = t

\* Only a thread that is writing has keys to drop; an update of the settings, theirs.
PendingOwner ==
    \A t \in Threads :
        /\ pending[t] # {} => pc[t] \in {"update", "dropold", "drop"}
        /\ pc[t] = "update" => pending[t] = Settings

CacheInv == TypeOK /\ LockOwner /\ PendingOwner

-----------------------------------------------------------------------------
LEMMA ValuesFacts == NoRow \in Values /\ NoEntry \in Values /\ 1 \in Values
BY CacheAssumption DEF NoRow, NoEntry, Values

\* A statement stores what is in range, and t is to drop what it is told to.
LEMMA CommitType ==
    ASSUME TypeOK, NEW t \in Threads, NEW changed, NEW drops \in SUBSET Keys,
           NEW value \in [Keys -> Values], Commit(t, changed, value, drops)
    PROVE  /\ rows' \in [Keys -> Values] /\ writes' \in 0..MaxWrites
           /\ pending' \in [Threads -> SUBSET Keys]
           /\ UNCHANGED <<store, expired, keyLock, loaded>>
<1>1. writes + 1 \in 0..MaxWrites
    BY CacheAssumption DEF TypeOK, Commit
<1>2. QED
    BY <1>1 DEF TypeOK, Commit

LEMMA FreshFact == TypeOK /\ writes < MaxWrites => Fresh \in Values
BY CacheAssumption DEF TypeOK, Fresh, Values

LEMMA TypeStep == TypeOK /\ [Next]_vars => TypeOK'
<1> SUFFICES ASSUME TypeOK, [Next]_vars
             PROVE  TypeOK'
    OBVIOUS
<1> USE ValuesFacts DEF TypeOK
<1>1. ASSUME NEW t \in Threads, TakeKeyLock(t) PROVE TypeOK'
    BY <1>1 DEF TakeKeyLock, serviceVars, Goto
<1>2. ASSUME NEW t \in Threads, Recheck(t) PROVE TypeOK'
    BY <1>2 DEF Recheck, Hit, Miss, Unlock, serviceVars, Goto
<1>3. ASSUME NEW t \in Threads, Load(t) PROVE TypeOK'
    BY <1>3 DEF Load, serviceVars, Goto
<1>4. ASSUME NEW t \in Threads, LoadFails(t) PROVE TypeOK'
    BY <1>4 DEF LoadFails, Unlock, serviceVars, Goto
<1>5. ASSUME NEW t \in Threads, Fill(t) PROVE TypeOK'
    BY <1>5 DEF Fill, Put, Unlock, Forget, serviceVars, Goto
<1>6. ASSUME NEW t \in Threads, WarmFill(t) PROVE TypeOK'
    BY <1>6 DEF WarmFill, Put, Forget, serviceVars, Goto
<1>7. ASSUME NEW t \in Threads, NEW k \in Keys, FastPath(t, k) PROVE TypeOK'
    BY <1>7 DEF FastPath, Hit, Miss, serviceVars, Goto
<1>8. ASSUME NEW t \in Threads, NEW k \in Keys, WarmLoad(t, k) PROVE TypeOK'
    BY <1>8 DEF WarmLoad, serviceVars, Goto
<1>9. ASSUME NEW t \in Threads, WriteList(t) \/ Upsert(t) PROVE TypeOK'
    <2>1. PICK changed, drops : drops \in {Menus, Rules, Settings} /\ Commit(t, changed, AllFresh, drops)
        <3>1. CASE WriteList(t)
            BY <3>1 DEF WriteList
        <3>2. CASE Upsert(t)
            BY <3>2 DEF Upsert
        <3>3. QED
            BY <1>9, <3>1, <3>2
    <2>2. AllFresh \in [Keys -> Values] /\ drops \in SUBSET Keys
        BY <2>1, FreshFact DEF Commit, AllFresh, Keys
    <2>3. /\ pc' \in [Threads -> {"idle", "lock", "recheck", "load", "fill", "warmfill",
                                  "edit", "update", "dropold", "drop"}]
          /\ UNCHANGED <<key, page, place>>
        BY <1>9 DEF WriteList, Upsert, Goto
    <2>4. QED
        BY <2>1, <2>2, <2>3, CommitType
<1>10. ASSUME NEW t \in Threads, NEW p \in Pages, NEW k \in Slugs, CreatePage(t, p, k) PROVE TypeOK'
    <2>1. PICK value \in PageValues(k) : Commit(t, {k}, value, {k})
        BY <1>10 DEF CreatePage
    <2>2. value \in [Keys -> Values] /\ {k} \in SUBSET Keys
        BY <2>1, FreshFact DEF Commit, PageValues, Keys
    <2>3. /\ place' \in [Pages -> Slugs \cup {Unborn, Deleted}] /\ UNCHANGED <<key, page>>
          /\ pc' \in [Threads -> {"idle", "lock", "recheck", "load", "fill", "warmfill",
                                  "edit", "update", "dropold", "drop"}]
        BY <1>10 DEF CreatePage, Goto
    <2>4. QED
        BY <2>1, <2>2, <2>3, CommitType
<1>11. ASSUME NEW t \in Threads, NEW p \in Pages, ReadPage(t, p) PROVE TypeOK'
    BY <1>11 DEF ReadPage, Keys, Goto
<1>12. ASSUME NEW t \in Threads, NEW k \in Slugs, SavePage(t, k) PROVE TypeOK'
    <2>1. PICK value \in PageValues(k) : Commit(t, {place[page[t]], k}, value, {k})
        BY <1>12 DEF SavePage
    <2>2. value \in [Keys -> Values] /\ {k} \in SUBSET Keys
        BY <2>1, FreshFact DEF Commit, PageValues, Keys
    <2>3. /\ place' \in [Pages -> Slugs \cup {Unborn, Deleted}] /\ UNCHANGED <<key, page>>
          /\ pc' \in [Threads -> {"idle", "lock", "recheck", "load", "fill", "warmfill",
                                  "edit", "update", "dropold", "drop"}]
        BY <1>12 DEF SavePage, Goto
    <2>4. QED
        BY <2>1, <2>2, <2>3, CommitType
<1>13. ASSUME NEW t \in Threads, DeletePage(t) PROVE TypeOK'
    <2>1. Commit(t, {place[page[t]]}, [k \in Keys |-> NoRow], {key[t]})
        BY <1>13 DEF DeletePage
    <2>2. /\ place' \in [Pages -> Slugs \cup {Unborn, Deleted}] /\ UNCHANGED <<key, page>>
          /\ pc' \in [Threads -> {"idle", "lock", "recheck", "load", "fill", "warmfill",
                                  "edit", "update", "dropold", "drop"}]
        BY <1>13 DEF DeletePage, Goto
    <2>3. [k \in Keys |-> NoRow] \in [Keys -> Values] /\ {key[t]} \in SUBSET Keys
        OBVIOUS
    <2>4. QED
        BY <2>1, <2>2, <2>3, CommitType
<1>14. ASSUME NEW t \in Threads, UpdateFails(t) \/ EditRefused(t) PROVE TypeOK'
    BY <1>14 DEF UpdateFails, EditRefused, serviceVars, Goto
<1>15. ASSUME NEW t \in Threads, DropOldSlug(t) \/ Invalidate(t) PROVE TypeOK'
    <2>1. PICK keys : Drop(keys)
        <3>1. CASE DropOldSlug(t)
            BY <3>1 DEF DropOldSlug
        <3>2. CASE Invalidate(t)
            BY <3>2 DEF Invalidate
        <3>3. QED
            BY <1>15, <3>1, <3>2
    <2>2. store' \in [Keys -> Values] /\ expired' \subseteq {k \in Keys : store'[k] # NoEntry}
        BY <2>1 DEF Drop
    <2>3. QED
        BY <1>15, <2>2 DEF DropOldSlug, Invalidate, serviceVars, Goto
<1>16. ASSUME NEW k \in Keys, TtlPasses(k) PROVE TypeOK'
    BY <1>16 DEF TtlPasses, Live, serviceVars
<1>17. CASE PurgeExpired
    BY <1>17 DEF PurgeExpired, serviceVars
<1>18. CASE UNCHANGED vars
    BY <1>18 DEF vars
<1>19. QED
    BY <1>1, <1>2, <1>3, <1>4, <1>5, <1>6, <1>7, <1>8, <1>9, <1>10, <1>11, <1>12, <1>13,
       <1>14, <1>15, <1>16, <1>17, <1>18
       DEF Next, Continue

\* What a service does to the database and its drops leaves the key locks, and
\* everybody inside the locked section, alone.
ServiceStep(t) ==
    /\ ~Inside(t) /\ ~Inside(t)'
    /\ UNCHANGED keyLock
    /\ \A u \in Threads \ {t} : pc'[u] = pc[u] /\ key'[u] = key[u]

LEMMA ServiceSteps ==
    ASSUME TypeOK, NEW t \in Threads,
           \/ WarmFill(t) \/ UpdateFails(t) \/ Upsert(t) \/ (\E k \in Slugs : SavePage(t, k))
           \/ DeletePage(t) \/ EditRefused(t) \/ DropOldSlug(t) \/ Invalidate(t) \/ WriteList(t)
           \/ (\E k \in Keys : FastPath(t, k) \/ WarmLoad(t, k))
           \/ (\E p \in Pages : ReadPage(t, p) \/ \E k \in Slugs : CreatePage(t, p, k))
    PROVE  ServiceStep(t)
<1> USE DEF TypeOK, ServiceStep, Inside
<1>1. CASE WarmFill(t)
    BY <1>1 DEF WarmFill, Forget, Goto
<1>2. CASE UpdateFails(t) \/ EditRefused(t)
    BY <1>2 DEF UpdateFails, EditRefused, Goto
<1>3. CASE DropOldSlug(t) \/ Invalidate(t)
    BY <1>3 DEF DropOldSlug, Invalidate, Goto
<1>4. CASE Upsert(t)
    BY <1>4 DEF Upsert, Commit, Goto
<1>5. CASE WriteList(t)
    BY <1>5 DEF WriteList, Commit, Goto
<1>6. CASE \E k \in Slugs : SavePage(t, k)
    BY <1>6 DEF SavePage, Commit, Goto
<1>7. CASE DeletePage(t)
    BY <1>7 DEF DeletePage, Commit, Goto
<1>8. CASE \E k \in Keys : FastPath(t, k) \/ WarmLoad(t, k)
    BY <1>8 DEF FastPath, WarmLoad, Goto
<1>9. CASE \E p \in Pages : ReadPage(t, p)
    BY <1>9 DEF ReadPage, Goto
<1>10. CASE \E p \in Pages, k \in Slugs : CreatePage(t, p, k)
    BY <1>10 DEF CreatePage, Commit, Goto
<1>11. QED
    BY <1>1, <1>2, <1>3, <1>4, <1>5, <1>6, <1>7, <1>8, <1>9, <1>10

LEMMA LockStep == CacheInv /\ [Next]_vars => LockOwner'
<1> SUFFICES ASSUME CacheInv, [Next]_vars
             PROVE  LockOwner'
    OBVIOUS
<1> USE DEF CacheInv, TypeOK, LockOwner, Inside
<1>0. Nobody \notin Threads
    BY CacheAssumption
<1>1. ASSUME NEW t \in Threads, TakeKeyLock(t) PROVE LockOwner'
    BY <1>0, <1>1 DEF TakeKeyLock, LockFree, Goto
<1>2. ASSUME NEW t \in Threads, Recheck(t) PROVE LockOwner'
    BY <1>2 DEF Recheck, Unlock, Goto
<1>3. ASSUME NEW t \in Threads, Load(t) PROVE LockOwner'
    BY <1>3 DEF Load, Goto
<1>4. ASSUME NEW t \in Threads, LoadFails(t) PROVE LockOwner'
    BY <1>4 DEF LoadFails, Unlock, Goto
<1>5. ASSUME NEW t \in Threads, Fill(t) PROVE LockOwner'
    BY <1>5 DEF Fill, Unlock, Forget, Goto
<1>6. ASSUME NEW t \in Threads, ServiceStep(t) PROVE LockOwner'
    BY <1>6 DEF ServiceStep
<1>7. ASSUME NEW k \in Keys, TtlPasses(k) PROVE LockOwner'
    BY <1>7 DEF TtlPasses
<1>8. CASE PurgeExpired \/ UNCHANGED vars
    BY <1>8 DEF PurgeExpired, vars
<1> HIDE DEF CacheInv, TypeOK, LockOwner, Inside
<1>9. TypeOK
    BY DEF CacheInv
<1>10. QED
    BY <1>1, <1>2, <1>3, <1>4, <1>5, <1>6, <1>7, <1>8, <1>9, ServiceSteps DEF Next, Continue

\* A step that leaves the drops to do as they are, and the threads that write.
LEMMA PendingKept ==
    ASSUME PendingOwner, NEW t \in Threads, pending' = pending,
           \A u \in Threads \ {t} : pc'[u] = pc[u],
           pc[t] \notin {"update", "dropold", "drop"}, pc'[t] # "update"
    PROVE  PendingOwner'
BY DEF PendingOwner

LEMMA PendingStep == CacheInv /\ [Next]_vars => PendingOwner'
<1> SUFFICES ASSUME CacheInv, [Next]_vars
             PROVE  PendingOwner'
    OBVIOUS
<1> USE DEF CacheInv, TypeOK
<1>1. ASSUME NEW t \in Threads, TakeKeyLock(t) \/ Recheck(t) \/ Load(t) \/ LoadFails(t) \/ Fill(t)
      PROVE  PendingOwner'
    BY <1>1, PendingKept
       DEF TakeKeyLock, Recheck, Load, LoadFails, Fill, Forget, serviceVars, Goto
<1>2. ASSUME NEW t \in Threads, WarmFill(t) \/ EditRefused(t) PROVE PendingOwner'
    BY <1>2, PendingKept DEF WarmFill, EditRefused, Forget, serviceVars, Goto
<1>3. ASSUME NEW t \in Threads, NEW k \in Keys, FastPath(t, k) \/ WarmLoad(t, k) PROVE PendingOwner'
    BY <1>3, PendingKept DEF FastPath, WarmLoad, serviceVars, Goto
<1>4. ASSUME NEW t \in Threads, NEW p \in Pages, ReadPage(t, p) PROVE PendingOwner'
    BY <1>4, PendingKept DEF ReadPage, Goto
<1>5. ASSUME NEW t \in Threads, UpdateFails(t) \/ Invalidate(t) PROVE PendingOwner'
    BY <1>5 DEF UpdateFails, Invalidate, Goto, PendingOwner
<1>6. ASSUME NEW t \in Threads, DropOldSlug(t) PROVE PendingOwner'
    BY <1>6 DEF DropOldSlug, serviceVars, Goto, PendingOwner
<1>7. ASSUME NEW t \in Threads, WriteList(t) PROVE PendingOwner'
    BY <1>7 DEF WriteList, Commit, Goto, PendingOwner
<1>8. ASSUME NEW t \in Threads, Upsert(t) PROVE PendingOwner'
    <2>1. pending' = [pending EXCEPT ![t] = Settings] /\ Settings \in SUBSET Keys
        BY <1>8 DEF Upsert, Commit, Keys
    <2>2. QED
        BY <1>8, <2>1 DEF Upsert, Goto, PendingOwner
<1>9. ASSUME NEW t \in Threads, NEW p \in Pages, NEW k \in Slugs, CreatePage(t, p, k) PROVE PendingOwner'
    BY <1>9 DEF CreatePage, Commit, Goto, PendingOwner
<1>10. ASSUME NEW t \in Threads, NEW k \in Slugs, SavePage(t, k) PROVE PendingOwner'
    BY <1>10 DEF SavePage, Commit, Goto, PendingOwner
<1>11. ASSUME NEW t \in Threads, DeletePage(t) PROVE PendingOwner'
    BY <1>11 DEF DeletePage, Commit, Goto, PendingOwner
<1>12. CASE PurgeExpired \/ (\E k \in Keys : TtlPasses(k)) \/ UNCHANGED vars
    BY <1>12 DEF PurgeExpired, TtlPasses, serviceVars, vars, PendingOwner
<1>13. QED
    BY <1>1, <1>2, <1>3, <1>4, <1>5, <1>6, <1>7, <1>8, <1>9, <1>10, <1>11, <1>12 DEF Next, Continue

LEMMA InitInv == Init => CacheInv
BY ValuesFacts, CacheAssumption DEF Init, CacheInv, TypeOK, LockOwner, Inside, PendingOwner

\* The reachable states are well typed, the thread in the locked section of
\* get_or_set holds the lock of its key (cache/manager.py:115-126), and the keys
\* still to be dropped are those of a service that is writing.
THEOREM CacheInvariant == Spec => []CacheInv
<1>1. CacheInv /\ [Next]_vars => CacheInv'
    BY TypeStep, LockStep, PendingStep DEF CacheInv
<1>2. QED
    BY <1>1, InitInv, PTL DEF Spec

\* The variables keep their types: only cached keys expire, and a key lock has
\* a thread or nobody.
THEOREM CacheTypeCorrect == Spec => []TypeOK
<1>1. CacheInv => TypeOK
    BY DEF CacheInv
<1>2. QED
    BY <1>1, CacheInvariant, PTL

\* At most one thread per key runs the loader.
THEOREM LoaderRunsAlone == Spec => []SingleFlight
<1>1. CacheInv => SingleFlight
    BY DEF CacheInv, LockOwner, Inside, SingleFlight
<1>2. QED
    BY <1>1, CacheInvariant, PTL

\* Nobody holds a key lock outside the locked section of get_or_set.
HeldInside == \A t \in Threads, k \in Keys : keyLock[k] = t => Inside(t) /\ key[t] = k

\* A key lock is never left behind: whoever has it is loading or storing that
\* key, so that it is given back if only its thread goes on (KeyLockReleased).
THEOREM LocksAreInUse == Spec => []HeldInside
<1>1. Init => HeldInside
    BY CacheAssumption DEF Init, HeldInside
<1>2. CacheInv /\ HeldInside /\ [Next]_vars => HeldInside'
    <2> SUFFICES ASSUME CacheInv, HeldInside, [Next]_vars PROVE HeldInside'
        OBVIOUS
    <2> USE DEF CacheInv, TypeOK, LockOwner, HeldInside, Inside
    <2>0. Nobody \notin Threads
        BY CacheAssumption
    <2>1. ASSUME NEW t \in Threads, TakeKeyLock(t) PROVE HeldInside'
        BY <2>1 DEF TakeKeyLock, LockFree, Goto
    <2>2. ASSUME NEW t \in Threads, Recheck(t) PROVE HeldInside'
        BY <2>0, <2>2 DEF Recheck, Unlock, Goto
    <2>3. ASSUME NEW t \in Threads, Load(t) PROVE HeldInside'
        BY <2>3 DEF Load, Goto
    <2>4. ASSUME NEW t \in Threads, LoadFails(t) \/ Fill(t) PROVE HeldInside'
        BY <2>0, <2>4 DEF LoadFails, Fill, Unlock, Forget, Goto
    <2>5. ASSUME NEW t \in Threads, ServiceStep(t) PROVE HeldInside'
        BY <2>5 DEF ServiceStep
    <2>6. CASE PurgeExpired \/ (\E k \in Keys : TtlPasses(k)) \/ UNCHANGED vars
        BY <2>6 DEF PurgeExpired, TtlPasses, vars
    <2> HIDE DEF CacheInv, TypeOK, LockOwner, HeldInside, Inside
    <2>7. TypeOK
        BY DEF CacheInv
    <2>8. QED
        BY <2>1, <2>2, <2>3, <2>4, <2>5, <2>6, <2>7, ServiceSteps DEF Next, Continue
<1>3. QED
    BY <1>1, <1>2, CacheInvariant, PTL DEF Spec

-----------------------------------------------------------------------------
(* Where stale values come from. *)

StaleStep ==
    \A k \in Keys :
        (Stale(k)' /\ ~Writing(k)') =>
            \/ Stale(k) /\ ~Writing(k)
            \/ LateFill(k)
            \/ \E t \in Threads : UpdateFails(t) /\ k \in pending[t]
            \/ RenamedMeanwhile(k)

\* A step that stores nothing and does not touch k's row or writers cannot
\* make k stale.
LEMMA QuietStep ==
    ASSUME NEW k \in Keys, rows'[k] = rows[k],
           store'[k] = store[k] \/ store'[k] = NoEntry,
           k \in expired /\ store'[k] # NoEntry => k \in expired',
           Writing(k) => Writing(k)'
    PROVE  (Stale(k)' /\ ~Writing(k)') => (Stale(k) /\ ~Writing(k))
BY DEF Stale, Live

\* A thread that wrote nothing, and drops nothing, leaves the writers of k.
LEMMA WritersKept ==
    ASSUME NEW k \in Keys, NEW t \in Threads, UNCHANGED <<pending, key>>,
           \A u \in Threads \ {t} : pc'[u] = pc[u], pc[t] # "dropold"
    PROVE  Writing(k) => Writing(k)'
BY DEF Writing

\* A statement after which k is not among what is to drop, when k was not either.
LEMMA CommitQuiet ==
    ASSUME TypeOK, NEW k \in Keys, NEW t \in Threads, NEW changed, NEW value, NEW drops,
           Commit(t, changed, value, drops), k \notin changed,
           pending[t] \subseteq drops, UNCHANGED key,
           \A u \in Threads \ {t} : pc'[u] = pc[u], pc[t] # "dropold"
    PROVE  (Stale(k)' /\ ~Writing(k)') => (Stale(k) /\ ~Writing(k))
<1>1. rows'[k] = rows[k] /\ UNCHANGED <<store, expired>>
    BY DEF Commit
<1>2. pending' = [pending EXCEPT ![t] = drops] /\ pending \in [Threads -> SUBSET Keys]
    BY DEF Commit, TypeOK
<1>3. Writing(k) => Writing(k)'
    BY <1>2 DEF Writing
<1>4. QED
    BY <1>1, <1>3, QuietStep

\* A statement that changes only what it will drop.
LEMMA CommitSafe ==
    ASSUME CacheInv, NEW k \in Keys, NEW t \in Threads, NEW changed, NEW value, NEW drops,
           Commit(t, changed, value, drops), changed \subseteq drops,
           drops \subseteq Keys, pending[t] \subseteq drops, UNCHANGED key,
           \A u \in Threads \ {t} : pc'[u] = pc[u], pc[t] # "dropold"
    PROVE  (Stale(k)' /\ ~Writing(k)') => (Stale(k) /\ ~Writing(k))
<1>1. CASE k \in changed
    <2>1. k \in pending'[t]
        BY <1>1 DEF Commit, CacheInv, TypeOK
    <2>2. QED
        BY <2>1 DEF Writing
<1>2. CASE k \notin changed
    BY <1>2, CommitQuiet DEF CacheInv
<1>3. QED
    BY <1>1, <1>2

LEMMA StaleOrigin == CacheInv /\ [Next]_vars => [StaleStep]_vars
<1> SUFFICES ASSUME CacheInv, [Next]_vars, NEW k \in Keys,
                    Stale(k)', ~Writing(k)', ~(Stale(k) /\ ~Writing(k)),
                    ~LateFill(k), ~RenamedMeanwhile(k),
                    \A t \in Threads : UpdateFails(t) => k \notin pending[t]
             PROVE  FALSE
    BY DEF StaleStep
<1>a. TypeOK /\ PendingOwner
    BY DEF CacheInv
<1>b. pc \in [Threads -> {"idle", "lock", "recheck", "load", "fill", "warmfill",
                          "edit", "update", "dropold", "drop"}]
      /\ pending \in [Threads -> SUBSET Keys] /\ key \in [Threads -> Keys]
    BY <1>a DEF TypeOK
<1>1. ASSUME NEW t \in Threads, TakeKeyLock(t) \/ Recheck(t) \/ Load(t) \/ LoadFails(t) \/ EditRefused(t)
      PROVE  FALSE
    <2>1. /\ UNCHANGED rows
          /\ store'[k] = store[k] \/ store'[k] = NoEntry
          /\ k \in expired /\ store'[k] # NoEntry => k \in expired'
        BY <1>1, <1>a DEF TakeKeyLock, Recheck, Load, LoadFails, EditRefused, Hit, Miss,
                          serviceVars, TypeOK
    <2>2. Writing(k) => Writing(k)'
        BY <1>1, <1>b, WritersKept
           DEF TakeKeyLock, Recheck, Load, LoadFails, EditRefused, serviceVars, Goto
    <2>3. QED
        BY <2>1, <2>2, QuietStep
<1>2. ASSUME NEW t \in Threads, NEW j \in Keys, FastPath(t, j) \/ WarmLoad(t, j) PROVE FALSE
    <2>1. /\ UNCHANGED rows
          /\ store'[k] = store[k] \/ store'[k] = NoEntry
          /\ k \in expired /\ store'[k] # NoEntry => k \in expired'
        BY <1>2, <1>a DEF FastPath, WarmLoad, Hit, Miss, serviceVars, TypeOK
    <2>2. Writing(k) => Writing(k)'
        BY <1>2, <1>b DEF FastPath, WarmLoad, serviceVars, Writing, Goto
    <2>3. QED
        BY <2>1, <2>2, QuietStep
<1>3. ASSUME NEW t \in Threads, NEW p \in Pages, ReadPage(t, p) PROVE FALSE
    <2>1. UNCHANGED <<rows, store, expired>>
        BY <1>3 DEF ReadPage
    <2>2. Writing(k) => Writing(k)'
        BY <1>3, <1>b DEF ReadPage, Writing, Goto
    <2>3. QED
        BY <2>1, <2>2, QuietStep
<1>4. ASSUME NEW t \in Threads, Fill(t) \/ WarmFill(t) PROVE FALSE
    <2>1. pc[t] \in {"fill", "warmfill"} /\ UNCHANGED rows
        BY <1>4 DEF Fill, WarmFill, serviceVars
    <2>2. Writing(k) => Writing(k)'
        BY <1>4, <1>b, WritersKept DEF Fill, WarmFill, Forget, serviceVars, Goto
    <2>3. CASE UNCHANGED <<store, expired>>
        BY <2>1, <2>2, <2>3, QuietStep
    <2>4. CASE Put(key[t], loaded[t])
        <3>1. key[t] # k => store'[k] = store[k] /\ (k \in expired => k \in expired')
            BY <1>a, <2>4 DEF Put, TypeOK
        <3>2. key[t] = k
            BY <2>1, <2>2, <3>1, QuietStep
        <3>3. store'[k] = loaded[t]
            BY <1>a, <2>4, <3>2 DEF Put, TypeOK
        <3>4. QED
            BY <2>1, <3>2, <3>3 DEF Stale, LateFill
    <2>5. QED
        BY <1>4, <2>3, <2>4 DEF Fill, WarmFill
<1>5. ASSUME NEW t \in Threads, WriteList(t) PROVE FALSE
    <2>1. PICK changed, drops : /\ drops \in {Menus, Rules} /\ changed \subseteq drops
                                /\ Commit(t, changed, AllFresh, drops)
        BY <1>5 DEF WriteList
    <2>2. pending[t] = {} /\ UNCHANGED key /\ pc[t] # "dropold" /\ drops \subseteq Keys
        BY <1>5, <1>a, <1>b, <2>1 DEF WriteList, PendingOwner, Keys
    <2>3. \A u \in Threads \ {t} : pc'[u] = pc[u]
        BY <1>5, <1>b DEF WriteList, Goto
    <2>4. QED
        BY <2>1, <2>2, <2>3, CommitSafe
<1>6. ASSUME NEW t \in Threads, Upsert(t) PROVE FALSE
    <2>1. Commit(t, Settings, AllFresh, Settings) /\ Settings \subseteq Keys
        BY <1>6 DEF Upsert, Keys
    <2>2. pending[t] \subseteq Settings /\ UNCHANGED key /\ pc[t] # "dropold"
        BY <1>6, <1>a, <1>b DEF Upsert, PendingOwner
    <2>3. \A u \in Threads \ {t} : pc'[u] = pc[u]
        BY <1>6, <1>b DEF Upsert, Goto
    <2>4. QED
        BY <2>1, <2>2, <2>3, CommitSafe
<1>7. ASSUME NEW t \in Threads, NEW p \in Pages, NEW j \in Slugs, CreatePage(t, p, j) PROVE FALSE
    <2>1. PICK value : Commit(t, {j}, value, {j})
        BY <1>7 DEF CreatePage
    <2>2. pending[t] = {} /\ UNCHANGED key /\ pc[t] # "dropold" /\ {j} \subseteq Keys
        BY <1>7, <1>a, <1>b DEF CreatePage, PendingOwner, Keys
    <2>3. \A u \in Threads \ {t} : pc'[u] = pc[u]
        BY <1>7, <1>b DEF CreatePage, Goto
    <2>4. QED
        BY <2>1, <2>2, <2>3, CommitSafe
<1>8. ASSUME NEW t \in Threads, NEW j \in Slugs, SavePage(t, j) PROVE FALSE
    <2>1. PICK value : Commit(t, {place[page[t]], j}, value, {j})
        BY <1>8 DEF SavePage
    <2>2. /\ pc[t] = "edit" /\ pc'[t] = "dropold" /\ UNCHANGED key
          /\ \A u \in Threads \ {t} : pc'[u] = pc[u]
        BY <1>8, <1>b DEF SavePage, Goto
    <2>3. k # j /\ k # key[t]
        BY <1>b, <2>1, <2>2 DEF Commit, Writing
    <2>4. k # place[page[t]]
        BY <2>2, <2>3 DEF RenamedMeanwhile
    <2>5. pending[t] = {}
        BY <1>a, <2>2 DEF PendingOwner
    <2>6. QED
        BY <1>a, <2>1, <2>2, <2>3, <2>4, <2>5, CommitQuiet
<1>9. ASSUME NEW t \in Threads, DeletePage(t) PROVE FALSE
    <2>1. Commit(t, {place[page[t]]}, [j \in Keys |-> NoRow], {key[t]})
        BY <1>9 DEF DeletePage
    <2>2. /\ pc[t] = "edit" /\ UNCHANGED key
          /\ \A u \in Threads \ {t} : pc'[u] = pc[u]
        BY <1>9, <1>b DEF DeletePage, Goto
    <2>3. k # key[t]
        BY <1>b, <2>1 DEF Commit, Writing
    <2>4. k # place[page[t]]
        BY <2>2, <2>3 DEF RenamedMeanwhile
    <2>5. pending[t] = {}
        BY <1>a, <2>2 DEF PendingOwner
    <2>6. QED
        BY <1>a, <2>1, <2>2, <2>4, <2>5, CommitQuiet
<1>10. ASSUME NEW t \in Threads, UpdateFails(t) PROVE FALSE
    <2>1. k \notin pending[t]
        BY <1>10
    <2>2. UNCHANGED <<rows, store, expired, key>>
        BY <1>10 DEF UpdateFails
    <2>3. Writing(k) => Writing(k)'
        BY <1>10, <1>b, <2>1 DEF UpdateFails, Writing, Goto
    <2>4. QED
        BY <2>2, <2>3, QuietStep
<1>11. ASSUME NEW t \in Threads, DropOldSlug(t) PROVE FALSE
    <2>1. UNCHANGED <<rows, key, pending>> /\ Drop({key[t]})
        BY <1>11 DEF DropOldSlug, serviceVars
    <2>2. store'[k] # NoEntry
        BY DEF Stale, Live
    <2>3. key[t] # k /\ store'[k] = store[k] /\ (k \in expired => k \in expired')
        BY <2>1, <2>2 DEF Drop
    <2>4. Writing(k) => Writing(k)'
        BY <1>11, <1>b, <2>1, <2>3 DEF DropOldSlug, Writing, Goto
    <2>5. QED
        BY <2>1, <2>3, <2>4, QuietStep
<1>12. ASSUME NEW t \in Threads, Invalidate(t) PROVE FALSE
    <2>1. UNCHANGED <<rows, key>> /\ Drop(pending[t])
        BY <1>12 DEF Invalidate
    <2>2. store'[k] # NoEntry
        BY DEF Stale, Live
    <2>3. k \notin pending[t] /\ store'[k] = store[k] /\ (k \in expired => k \in expired')
        BY <2>1, <2>2 DEF Drop
    <2>4. Writing(k) => Writing(k)'
        BY <1>12, <1>b, <2>1, <2>3 DEF Invalidate, Writing, Goto
    <2>5. QED
        BY <2>1, <2>3, <2>4, QuietStep
<1>13. ASSUME NEW j \in Keys, TtlPasses(j) PROVE FALSE
    BY <1>13, QuietStep DEF TtlPasses, serviceVars, Writing
<1>14. CASE PurgeExpired
    <2>1. /\ UNCHANGED rows
          /\ store'[k] = store[k] \/ store'[k] = NoEntry
          /\ k \in expired => store'[k] = NoEntry
        BY <1>14 DEF PurgeExpired, serviceVars
    <2>2. Writing(k) => Writing(k)'
        BY <1>14 DEF PurgeExpired, serviceVars, Writing
    <2>3. QED
        BY <2>1, <2>2, QuietStep
<1>15. CASE UNCHANGED vars
    BY <1>15, QuietStep DEF vars, Writing
<1>16. QED
    BY <1>1, <1>2, <1>3, <1>4, <1>5, <1>6, <1>7, <1>8, <1>9, <1>10, <1>11, <1>12, <1>13,
       <1>14, <1>15 DEF Next, Continue

\* Whatever the interleaving, a key whose stale value nobody is left to drop got
\* there by a fill that overlapped the write, by a settings update that raised
\* half-way, or by the rename of a page between the read and the write of another
\* request: for any other write the invalidation does its work.
THEOREM StaleOnlyFromCauses == Spec => StaleOnlyFromThreeCauses
<1>1. CacheInv /\ [Next]_vars => [StaleStep]_vars
    BY StaleOrigin
<1>2. QED
    BY <1>1, CacheInvariant, PTL DEF Spec, StaleOnlyFromThreeCauses, StaleStep
=============================================================================
