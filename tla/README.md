# A TLA+ verification of PyWebFW

PyWebFW is a Python web framework: FastAPI in front, services and repositories
in the middle, SQLite behind a connection pool, an in-process cache, an event
bus and an asyncio scheduler. This directory models the parts of it whose
correctness depends on interleaving, failure and order, checks them with TLC on
small instances, and proves the central invariants with TLAPS. `PROJECT.json`
maps every definition to the lines of the code it stands for.

## 1. Inventory

### How the parts interact

Requests run in worker threads (FastAPI's synchronous endpoints) or on the event
loop (middleware, `POST /jobs/{name}/run`). A service calls repositories, which
issue one SQL statement each through `PooledDatabaseManager`; that takes a
connection from `ConnectionPool`. Services read through `InMemoryCacheManager`
and drop keys after writing. `EventBus` calls subscribers inline: a renamed page
makes a redirect, a contact message makes a mail. The scheduler's loop is a task
of the event loop; the jobs' `run()` methods execute in the loop's default thread
pool and use the same services and database. The ASGI lifespan starts the
scheduler and, at shutdown, stops it and closes the idle connections. Several
containers may share one database; each has its own cache, rate limiter, traffic
counters and scheduler, and each migrates and seeds the database when it boots.

### Components

| Component | State | Operations | What is hard | What makes it correct | Modules |
|---|---|---|---|---|---|
| Connection pool (`infrastructure/database/manager.py:44-114`) | idle list, in-use counter, condition variable | acquire, check-in, close_idle, close_all | threads, time-outs, failing `connect()` | bounded, exclusive, exact counter, no lost wakeup, every checkout answered | `BoundedPool`, `ConnectionPool` |
| Database manager, unit of work (`manager.py:153-310`, `unit_of_work.py`) | ambient connection, the driver's open transaction, the database | execute, transaction, close_idle_connections, shutdown | a failing statement, body or commit; cleanup after check-in; the write lock | a unit is atomic, durable on success and absent on failure; connections end clean | `AtomicUnits`, `DatabaseManager` |
| Cache (`infrastructure/cache/manager.py`) and the services that read through it | entries with a TTL, per-key locks | get, set, delete, delete_prefix, purge_expired, get_or_set, warm_cache | a fill racing a write and its invalidation; an update that raises half-way; a page renamed between read and write | one loader per key; staleness only from these three causes, and bounded by the TTL | `ReadThroughCache`, `TimedReads` |
| Scheduler (`scheduler/engine.py`, `base.py`) | last runs, results, tasks in flight, loop task | start, stop, tick, run_job_now, execute with retries, record, is_due | overlapping executions, stop during a run, a hanging job, clock changes | stop() drains and returns, due jobs fire, alerts only after the last attempt, once a day | `Scheduler`, `DailySchedule` |
| Rate limiter (`core/security.py:155-186`) | hits per key | allow, sweep | the clock is read outside the lock | no window holds more than the maximum; idle keys go | `RateLimiter` |
| Middleware, routes, guards, error handlers (`core/middleware.py`, `bootstrap.py`, `api/`, `web/controllers.py`) | the maintenance flag, the account | limits, maintenance, routing, guards, handlers, error answers | two editions and any choice of modules; order of registration; guards written twice | fixed routes win, the admin area stays reachable, pages and API agree on who is let in | `HttpRouting` |
| Users, tokens, 2FA (`services/auth_service.py`, `user_service.py`, `infrastructure/auth`, `api/`) | user rows with token_version | login, change_password, revoke_tokens, TOTP set-up, user CRUD | whole-row read-modify-write by concurrent requests | a revoked token stays revoked; nobody is locked out; the initial password is changed first | `UserAccounts` |
| Redirects and slug changes (`redirect_service.py`, `content_service.py`, `web/controllers.py:158-189`) | redirect rows, content rows | create, rename, delete, slug_changed, rules by hand; drafts, which no path answers, are left out | rename there and back, slugs taken over, failing steps | the rule leads to the newest name; a page is hidden only by a reused slug | `Site` |
| Site settings (`site_settings_service.py`, `web/pages/admin.py`) | key-value rows, one cache entry | all, update, the settings page | pages filled from the cache, a late fill, an invalid value after valid ones | what is shown is stored; a save is whole and sets nothing back | `SiteSettings` |
| Edit forms (`web/pages/admin.py`, `api/admin_api.py`, `repositories/`) | a row, and the copies in open forms | open, submit, update, delete | old copies, fields the form does not show, fields a client leaves out | an edit is undone only from an older copy, or reset to the default of a field that was not sent; a save reported is a save made | `EditForms` |
| Traffic counters (`traffic_service.py`, `traffic_repository.py`) | hits, uniques, presence | record, drain, flush | concurrent and failing flushes, midnight, restart | every view is in one place; stored visitors never go down | `Traffic` |
| Schema (`infrastructure/database/schema.py`) | the tables | ensure, migrate, seed, index | containers that boot together, crashes | idempotent: seeded once, complete before it serves, all come up | `Boot`, `ContentSearch` |
| Search (`search_service.py`, `content_repository.py`) | the FTS5 index and its triggers | search, fallback, rebuild | an index that is there but not filled | the index follows the table; searches miss nothing | `ContentSearch` |
| Service container (`core/container.py`, both `bootstrap.py`) | factories, instances | resolve | threads, a factory that raises, the reduced edition | one instance per key; unregistered only after a failure | `Container` |
| Event bus, contact form, mail (`core/events.py`, `contact_service.py`, `mailer.py`) | handlers; messages | submit, publish, inbox | a raising subscriber, a failing insert | isolation; the visitor is told the truth | `Contact` |
| Pagination (`core/pagination.py`, `repositories/base.py`) | none | COUNT and SELECT of a page | rows that come and go between pages | a client that reads to the end has seen everything that stayed | `Listing` |
| Backups (`backup_service.py`) | files | create with rotation, delete | overlapping calls, unfinished files | the newest are kept | `Backups` |
| Media (`media_service.py`, `storage.py`) | files, the audit log | save, delete, list | a file deleted while it is written, a failing audit insert | the log tells what is in the directory | `Media` |
| Dashboard, system services, CLI, scaffolding, configuration, logging, layouts | none, or a read of the operating system | | | | see section 6 |
| Community edition (`editions/community`) | a reduced copy of the above | | wiring and routes cut by a script | nothing resolved that was cut | in `Container`, `HttpRouting`, `Boot` |

The hazards, each at its line, are in `PROJECT.json`.

## 2. Plan

Done, in this order: `BoundedPool` (abstract) and `ConnectionPool` (refines it);
`AtomicUnits` (abstract) and `DatabaseManager` (composed over `BoundedPool`,
refines `AtomicUnits`); `ReadThroughCache`; `Scheduler`; `UserAccounts`; the
components of `MCServices`; the proofs listed in section 5.

Left, most important first:

1. `DatabaseManager` with a nested `transaction()` and with reads, so that
   `UserAccounts` and `Site` could be composed over it instead of taking each
   statement as atomic.
2. `Site` behind `ReadThroughCache`: redirect rules and pages are cached apart.
3. A database error in each step of `Media` and `Backups`, beyond the inserts.

## 3. Modules

### BoundedPool and ConnectionPool

`BoundedPool` says what the pool promises: a request is answered by a connection
nobody else holds or by a refusal, and at most `MaxSize` connections are open.

`ConnectionPool` has the code's state: `idle`, `inUse`, and a program counter,
a held connection and a deadline flag per thread. Each `with self._lock` section
is one action (`TakeIdle`, `Reserve`, `FindNothing`, `Checkin`, `CloseIdle`).
`connect()` runs outside the lock: `FactoryReturns`, `FactoryRaises`. The
condition variable is modelled as CPython implements it: a thread that timed out
is still in the wait set until it has the lock back, so a `notify()` may be
spent on it (`Notify`). The idle list is a set; which connection is reused does
not matter to any property.

### AtomicUnits and DatabaseManager

Extends `BoundedPool` and adds what SQLite keeps per connection (uncommitted
writes, `in_transaction`, the single write lock) and one request per thread:
an autocommit `execute()` or a `transaction()` of `UnitSize` statements. A
statement may fail on a constraint (the implicit transaction stays open), find
the database locked, or fail otherwise; the body or the commit may fail. The
order after a failure is the code's: `transaction()` rolls back before its
check-in (`Unwind`), `execute()` rolls back after it (`LateRollback`), and only
for driver errors. `hit` records whose writes a late rollback took.

`AtomicUnits` says what a caller of `execute()` or `UnitOfWork` may rely on, with
no connection, statement or lock: `Store` puts whole units into the database,
`Return` and `Raise` tell a caller truthfully whether its unit is there, and
`GiveUp` is the one step that may take something from somebody else, who must not
have been answered yet. `DatabaseManager` refines it (`ImplementsAtomicUnits`):
`stored` is the units all of whose writes are in `db`, `ended` what the caller was
told (`Told`), `harmed` is `hit`. Acquiring, writing, rolling back and checking in
are stutters; `CommitSucceeds` is `Store`; the step in which a request ends is
`Return`, `Raise` or, for the late rollback, `GiveUp`.

### ReadThroughCache and TimedReads

`ReadThroughCache` is `get_or_set` step by step (fast path, key lock, second
look, load, store), expiry, purge, `warm_cache`, which loads and stores without
the key lock, and the writes of the four services that read through the cache.
A value is a version number, so staleness is an inequality; a page that is not
there or not published is `NoRow`, and not cached. `pending` is what a thread has
written and will drop. Menus and redirects write one row and drop the whole list
(`WriteList`). `SiteSettingsService.update` writes value after value and drops
the entry after the last (`Upsert`); when one is too long or its statement
raises, it ends without the drop (`UpdateFails`). Pages move: `place` is the
slug of a page, `ReadPage` the read that `update` and `delete` begin with,
`SavePage` and `DeletePage` the write, which happens wherever the page is by
then, while `DropOldSlug` and `Invalidate` drop the slug that was read and the
one that was written.

`TimedReads` looks at the same code with a clock: the value of the menus and of
the dashboard metrics is the moment its rows were read, an entry has the code's
time to live, and the question is how old what is shown can be.

### Scheduler and DailySchedule

Coroutines of one event loop, so the code between two awaits is one action:
`Tick` fires every due job at once, `LoopEnds` is what `stop()` does between its
two awaits. Executions queue for a bounded FIFO executor, first for `run()`,
then for the audit insert. `due` abstracts the schedules: a job becomes due at
any time, and a daily one may stop being due at midnight. A worker's return and
the resumption of the coroutine behind it are one step.

`DailySchedule` is `is_due()` with its two clocks: the engine's monotonic time of
the last run, which a restart forgets, and the wall clock, which somebody may set.
`RunJobNow` is the administrator's "Run now", which starts the job whatever the
schedule says and is the last run from then on.

### UserAccounts

A request names its operation, its caller and its row, and goes through `Fetch`
(the guard and the read), `Check` (the uniqueness query), and `Store`, `Insert`
or `Delete`. `Outcomes` says what an operation makes of the row it read;
`update()` writes the whole row, as the repository does. A token is a user and
the `token_version` it embeds, accepted when the row still has that version. A
one-time code is named by the secret it was computed from. `stale` marks requests
whose copy has become older than the row, `lost` the rows such a copy was
written over.

### Site

`ContentService` with the event it publishes: `FetchPage`, `CheckSlug`,
`InsertPage`, `UpdatePage` or `DeletePage`, then `Finish` (audit, cache, event),
`Lookup` and `Forward` (the slug_changed handler), each of which may fail. Rules
are also made and dropped by hand. `Answer` is the order in which a path is
resolved: a fixed route, a rule, a page. `newest` is where the last rename of a
slug went.

### HttpRouting

The routes as data (`AdminUserRoutes`, `PublicWebRoutes`, ...), with the edition
as a parameter where the community edition leaves something out (`MainOnly`),
mounted in the builder's order for any choice of modules, and one request at a
time through the middlewares: `Limit`, `Maintain`, `Route`, `Handle`. `Gate` has
the guards of the API and those of the pages; `ErrorForm` the error handlers. A
handler succeeds, raises one of the framework's errors, or crashes. The
maintenance flag and the account change between two stages.

### RateLimiter, Traffic

`RateLimiter`: `ReadClock` and `Decide` are the two halves of `allow()`, the
clock before the lock and what happens under it, the sweep included. `MaxDelay`
is how long a call may wait in between.

`Traffic`: `Record` with the bound on distinct paths, `Drain` under the flush
lock, `WriteBatch` in its transaction outside it, failing writes, `Midnight`,
`RestartTracker`. A batch is a function on day and path; visitors are sets.

### Boot, ContentSearch, Container

`Boot`: a container's `ensure()` statement by statement: create tables, check for
and add each column, index, count, seed, commit. DDL commits by itself, the first
insert takes the write lock, containers die and are started again.

`ContentSearch`: the objects of the index appear one by one while others edit
and search; `Rebuild` fills it, or fails and leaves it as it was. A text matches
the term or does not.

`Container`: the wiring of both editions as data (`ServiceNeeds`,
`InfrastructureNeeds`) and `resolve()` as a stack of keys under one re-entrant
lock, first for `build_app()` and then for requests in threads.

### Contact, SiteSettings, EditForms

`Contact`: honeypot, limiter, insert, audit insert, and the subscribers in turn;
administrators open and delete messages meanwhile.

`SiteSettings`: a settings page is filled from the cache (`OpenPage`), and
submitted whole with what was typed into it (`BeginSave`); `UpsertSetting` writes
a key, a value that is too long ends the update, `EndSave` drops the entry.
`behind` and `wronged` say why an entry is old and whether a save set somebody
else's back.

`EditForms`: one field of one row of users, menus or contents. `Shows` says
whether the form has the field, `ReadFirst` which of the others the handler reads
before it writes. A client of the API may leave out the fields that have a default
(`Optional`), and the handler then writes the default. The value of the field is
who wrote it.

### Listing, Backups, Media

`Listing`: `CountRows` and `SelectRows` of a page, with rows added and deleted in
between. `Backups`: `TakeStamp`, `OpenFile`, `Vacuum`, `List`, `Unlink`, `Stat` of
overlapping calls. `Media`: the file operations and audit inserts of uploads,
deletions and listings.

### MC modules

`MCConnectionPool`, `MCDatabaseManager`, `MCReadThroughCache`, `MCScheduler`
and `MCUserAccounts` instantiate one module each. `MCServices` extends the
fifteen smaller ones. They share no variable, and their product would say
nothing new, so a variable `focus` picks the one component that moves in a
behaviour; the state space is the sum of theirs. The others stay in one of their
initial states.

Definitions under "Fault variants" in a module are faulty forms of the
definitions named beside them. No specification uses them. Substituted one at a
time, each makes TLC report the property `PROJECT.json` names: they show that
the properties depend on the code.

## 4. Runs

| Run | Shows | Instance |
|---|---|---|
| `pool` | `CountExact`, refinement of `BoundedPool`, `EventuallyAnswered` | 4 threads, 3 connections, 2 slots, time-outs, fairness |
| `pool_wakeup` | `NoLostWakeup` | 5 threads, 2 slots, no time-outs |
| `db` | `AtomicUnlessHit`, `OutcomeIsTrue`, `QuietConnectionsClean`, refinement of `AtomicUnits` | 3 threads, 2 connections; transactions of 2 statements and autocommit statements, every fault in both |
| `db_late_rollback` (violated) | `UnitAtomic`: the late rollback undoes half of another thread's transaction | the same without constraint violations |
| `db_dirty_idle` (violated) | `IdleConnectionsClean`: a constraint violation leaves a transaction open on an idle connection | autocommit statements, constraint violations only |
| `cache` | `SingleFlight`, `StaleOnlyFromThreeCauses`, `KeyLockReleased`, `EventuallyFresh` | 2 threads, 2 writes; 2 menus, 1 list of rules, 1 of settings, or 1 page and 2 slugs; fairness |
| `cache_stale` (violated) | `InvalidatedImmediately`: a load before the write is stored after it | 2 threads, the list of rules, 2 writes |
| `sched` | `ExecutionsAccountedFor` (`StopDrains`, `AlertMeansExhausted`, `DrainGoesOn`), `StopReturns`, `DueJobFires` | 2 jobs (one with a retry, one daily that may hang), loop and manual executions, 2 workers, fairness |
| `sched_blocked` (violated) | `SlowJobBlocksNobody`: a slow job takes all workers | 2 overlapping executions of each job, 2 workers |
| `accounts` | `RevokedUnlessOverwritten`, `EnabledHasSecret`, `AdminActsAfterReset` | 3 user ids, two of them administrators at first, 2 requests, 3 names, 2 passwords, 2 secrets |
| `accounts_revoked` (violated) | `RevokedStaysRevoked` | the same |
| `services` | one to three properties of each component below | one component in focus per behaviour |

What `services` checks, by component:

| Module | Properties | Instance |
|---|---|---|
| `Site` | `ForwardsToNewest`, `HiddenOnlyByReuse` | 2 pages, 3 slugs (one of them a fixed route), 2 overlapping edits, a rule left by an earlier rename or none |
| `HttpRouting` | `AnsweredAsPromised` (`FixedRoutesWin`, `MaintenanceSparesAdmin`, `ApiAnswersInEnvelope`), `PagesAgreeWithApi` | every route of both editions with one request for each path and method, four choices of modules, one plugin page |
| `RateLimiter` | `WindowBounded`, `IdleKeysDropped` | 3 calls, 2 addresses, 1 hit per window of 3, a delay of 1, 8 ticks |
| `Traffic` | `ViewsConserved`, `UniquesOnlyGrow` | 2 flushers, 2 days, 2 visitors, 3 views, 1 path and "(other)" |
| `Boot` | `SeededOnce`, `UpMeansReady`, `AllComeUp` | 3 containers, a new database or one without the added columns, 1 crash |
| `Container` | `SingletonsSound` (`BuiltOnce`, `UnregisteredOnlyAfterFailure`) | 2 threads, both editions, four choices of modules, 2 factories that may raise |
| `DailySchedule` | `OncePerDay` | days of 4 hours, 10 hours, 2 clock changes or restarts, manual runs at any time |
| `Backups` | `NewestKept` | 3 overlapping calls, 1 backup kept |
| `Listing` | `NothingMissed` | 3 rows at first, pages of 2, 2 new rows |
| `Contact` | `AnswersAreTrue` (`HandlersIsolated`, `ReceivedIsStored`) | 2 messages, 2 administrators, 1 message per window |
| `SiteSettings` | `ShownAreStored`, `SavesAreKept` (`SavedAsAWhole`, `FreshPagesUndoNothing`) | 2 pages, 1 reader, 2 keys |
| `ContentSearch` | `IndexServesSearch` (`IndexFollowsContents`, `SearchIsComplete`) | 1 row, 2 booting containers, 1 search, 2 edits |
| `TimedReads` | `StaleForAtMostTtl` | 2 viewers, times to live of 2 and 1, loads of up to 1, 5 ticks |
| `EditForms` | `EditsAreKept` (`EditsStay`, `SavedMeansStored`) | 2 forms or clients; a field of each kind, with a default and without |
| `Media` | `LogTellsTheDirectory` | 2 uploads, 2 deletions, 1 listing |

Why the bounds suffice. The pool's hazards need a holder, a waiter that times out
and a newcomer; a second slot lets connections be confused. A lost wakeup needs
two waiters and two check-ins. The late rollback needs two threads and one
connection in common. A stale fill needs a reader and a writer, and a page that is
no longer where it was read two writes; two menus show that a write drops all of
them. The services share no key and read nothing of one another, so
`MCReadThroughCache` follows the keys of one service per behaviour. The scheduler needs two jobs for one to be delayed
by the other, and two executions of one job for an overlap. A revoked token comes
back through one request that revokes and one that writes an older copy; a third
user id lets one be created. A rule hides a page after two renames, and two edits
overlap in every pair of steps. A burst is one call more than the maximum, and
the third call lets a sweep come in between. Overlapping flushes, boots, saves and
uploads are pairs; a third container finds what two others left. The settings
have two keys, so that a save can stop between them.

`MaxWrites`, `LoopSlots`, `ManualSlots`, `MaxTime`, `EndOfTime`, `LastHour`,
`LastDay`, `MaxViews`, `MaxCrashes`, `MaxShifts`, `MaxEdits` and `LastId` are bounds
of the model, not of the code. `db`, `accounts`, their variants and `services`
switch the deadlock check off: a thread or request that has been served, a client
on its last page, and clocks at their bounds have no further step. All others
check for deadlock. `SYMMETRY` is used only in runs without liveness properties.
The type invariants are proved, each for the specification of its component, and
not checked again.

### What the violated runs say

* `db_late_rollback`: `manager.py:226` rolls back a connection that has already
  been checked in. The trace: one thread's statement fails, its connection goes
  back, another thread takes it and writes, the first thread rolls that write
  back, and the second commits only what it writes afterwards. What holds is
  `AtomicUnlessHit`: nothing else breaks a unit.
* `db_dirty_idle`: `manager.py:218-222` does not roll back at all. The next user
  of the connection joins the open transaction, and SQLite's write lock is held
  in the meantime. `db` shows that no data is lost by it, and what is left when
  all units are over (`QuietConnectionsClean`).
* `cache_stale`: `cache/manager.py:123-125`, here with the redirect rules, which
  `redirect_service.py:3` calls "invalidated on every change". What holds is
  `StaleOnlyFromThreeCauses`, which names two more ways for an old value to stay:
  an update of the settings that raises after it has stored some values never
  reaches the drop (`site_settings_service.py:49-53`), and the current slug of a page
  is not dropped by a request that read the page before another one renamed it
  (`content_service.py:78-84`, `94-96`). The TTL ends them all (`EventuallyFresh`),
  a late fill after at most a time to live and a load (`StaleForAtMostTtl`).
* `sched_blocked`: `scheduler/base.py:139` with `engine.py:82-88`; the ticks go
  on (`sched`) but the runs wait.
* `accounts_revoked`: every change of a user writes the whole row back
  (`auth_service.py:70-75`, `user_service.py:85-102`). A request that read the row
  before a logout and writes after it puts the old `token_version` back, and the
  token that `infrastructure/auth/manager.py:4-6` calls revoked immediately is
  accepted again. What holds is `RevokedUnlessOverwritten`.

### Fairness

* Pool: a thread that has the lock finishes its critical section, `connect()`
  ends, clocks advance. Nothing is assumed about how long a connection is used;
  the deadline is what answers a waiter.
* Cache: a started operation goes on (no loader hangs forever), and clocks
  advance. `EventuallyFresh` is about the time after the last write, which the
  bound on writes makes explicit.
* Scheduler: the event loop runs what is ready, `asyncio.sleep` ends, workers take
  work, and `run()` ends unless its job is in `SlowJobs`. Nothing forces a stop, a
  start or a manual run.
* Boot: a container that is down is started again (the deployment's restart
  policy) and a boot goes on; crashes are bounded. Nothing is assumed of the order.

## 5. Proofs

The theorems hold for every value of the constants that satisfies the named
assumptions, one per module that needs any (`PoolAssumption`,
`ConnectionPoolAssumption`, `DatabaseManagerAssumption`, `CacheAssumption`,
`SchedulerAssumption`, `UserAccountsAssumption`, `RateLimiterAssumption`,
`TimedReadsAssumption`, `FormsAssumption`, `ContactAssumption`,
`ListingAssumption`, `SiteAssumption`, `ContentSearchAssumption`,
`BootAssumption`, `ContainerAssumption`, `BackupsAssumption`,
`ScheduleAssumption`, `TrafficAssumption`, `RoutingAssumption`). They say that sets that are counted
are finite, that limits and durations are natural numbers (positive where the code
divides by them or keeps at least one), and that a marker such as `NoThread`
is none of the things it stands in for. Four say a little more:
`BootAssumption` that the columns an old database may have are among those the
schema adds, `SiteAssumption` that the rules found at first map slugs to slugs,
`ScheduleAssumption` that the target hour is an hour of the day,
`RoutingAssumption` that plugins mount rows of a method and a path, and that a
process may be started with all modules.

`ConnectionPoolProofs`, `DatabaseManagerProofs`, `ReadThroughCacheProofs`,
`SchedulerProofs` and `UserAccountsProofs` are about the module they are named
for. `RequestProofs` has the components a request goes through, `ContentProofs`
those that keep what is shown, and `OperationsProofs` those that start, count and
save. Each component has the same three steps: an inductive invariant, that the
initial states and every action keep it, and the theorems that follow from it.

* `ConnectionPoolProofs`: `PoolInvariant`, from which `TypeCorrect`,
  `CounterIsExact`, `PoolIsBounded`, `NoSharing`, `WakeupsSuffice` (without
  time-outs) and `PoolRefinement`. The properties alone are not inductive: that
  `inUse - 1` is a natural number needs the counter to be the cardinality of
  `Busy`, and that a new connection fits needs the bound on idle plus in use. The
  invariant ties the program counter to the held connection and to the wait set;
  each action changes `Busy` by at most one thread, which a lemma on
  cardinalities turns into a change of the counter. For the wakeups it adds that
  a notified thread counts as one on its way to a slot. The refinement maps
  `asking` to the threads inside `acquire()` and shows each action to be an
  abstract step or a stutter.
* `DatabaseManagerProofs`, in three layers. `ProgressInv`: who holds a connection
  follows from where the thread is, and no two hold the same. `WriteInv`: the
  uncommitted writes of a connection belong to its holder or to a thread whose
  rollback comes late (`PendingInv`); a unit that was not hit has everything it
  wrote so far on its connection (`CompleteInv`); and the database has the writes
  of units that are over (`StoredInv`). From it `UnitsAtomic`, `OutcomesTrue`,
  `PendingIsMine`. `OpenInv`: whoever left a transaction open is still at it, or
  met a constraint; from it `QuietMeansClean`. `UnitsRefinement` needs the first
  two layers: that whatever a commit stores belongs to units nobody has been
  answered about is `PendingInv` (`PendingUndecided`), that a returning unit is
  stored is `StoredInv`, and that a raising one is not is the same read the other
  way. `OutcomesStand` draws the conclusion no invariant can state: once
  a caller is answered, no step changes what it was told. `ManagerUsesPool` shows
  the manager to be a client of `BoundedPool`, which the code's pool implements (`PoolRefinement`).
* `ReadThroughCacheProofs`: `CacheInvariant` is the types with `LockOwner`, that a
  thread between taking and releasing the key lock is its holder, and
  `PendingOwner`, that only a thread that is writing has keys to drop. It gives
  `CacheTypeCorrect` and `LoaderRunsAlone`. `StaleOnlyFromCauses` follows action by
  action: a statement changes what its thread will drop (`CommitSafe`), but for a
  page that is no longer where it was read, and a step that neither stores nor
  changes rows nor ends a write makes nothing stale (`QuietStep`). `LocksAreInUse` is the converse of `LockOwner`: who holds a key lock is in
  the locked section of that key.
* `SchedulerProofs`: `SchedulerInvariant` adds to the properties that the executor's
  queue has no duplicates and only executions that wait for a worker, that
  `_running` has every execution of the loop until its end, and that what
  `stop()` gathers covers all of them. It gives `SchedulerTypes`,
  `StopLeavesNothingRunning` and `AlertsAreHonest`. `DrainNeverStuck` needs the
  converse as well, that whoever waits for a worker is in the queue
  (`QueueComplete`): then either somebody has a worker and moves, or all workers are
  free and the queue is not empty. `ExecutionsCounted` is the three together.
* `UserAccountsProofs`: `TypeInv` says in which stages a request has a copy.
  `SecretInv` carries the secret of an enabled account through the copies
  (`NobodyLockedOut`), `ResetInv` does the same for the password change
  (`ResetComesFirst`). `VersionInv` compares versions: a row that was never
  overwritten by an older copy is at least as new as all its tokens, newer than
  those revoked, and a copy that is not stale is at least as new as the row
  (`RevocationHolds`).

In `RequestProofs`:

* Rate limiter. `BoundInv` says that a hit is remembered until a window has
  passed, so a burst is part of a bucket, and that buckets are bounded
  (`LimitHolds`). `SweepInv` bounds how old the last sweep is, and from it how old
  a hit can be (`KeysDropped`).
* Timed reads. An entry expires a time to live after it was stored, and was stored
  at most a load after it was read (`StaleBounded`).
* Contact form. `CallInv` says at each stage of a call what has happened to its
  row: from the insert to the answer the row is there unless an administrator
  deleted it, and a subscriber is called only for a row that was inserted.
  `AnswersTrue` is about answers, which come several steps after the insert.
* Listing. While nothing disturbs the reading, the table has no gaps, the COUNT is
  that of the SELECT, and of the first rows those that come before the page at
  hand were shown (`ReadInv`); so after the last page all were (`NoRowMissed`), for
  any page size.
* Routing. That fixed routes win is a fact about the tables: in those of the
  builder, for either edition and any choice of modules, no route takes what a
  later one of its method is for (`Clean`). The controllers of the API have a
  literal segment each that keeps them apart (`ApiEdition`), pages and API differ
  in the first one, and within a table the rows are compared pairwise, a page of
  the same length by its name. The route dispatched is then the row that spells the
  path out, whatever the plugins mount behind it (`Dispatched`). Which paths
  maintenance mode spares is decided by their prefix before anything is routed, so
  `RouteInv` carries that decision to the answer and `ExemptIsSpared` compares it
  with the routes. Only pages are answered by a redirect and none is under the
  API's prefix, which leaves the envelope. Together `AnswersKept`. `GatesAgree`: the
  guards of the pages let in exactly the accounts those of the API let in, in
  whatever state the account is.

In `ContentProofs`:

* Edit forms. A copy that is not known to be old is the current value, or the
  default of a field that was left out (`CopiesInv`), which gives `EditsLost`; only a deletion makes a form late
  (`LateInv`), which gives `SavesAreStored`; together `EditsKept`.
* Site. `RulesFollow` and `PagesAnswered` look at a state without edits under
  way, while a rule follows its rename several steps later. `PendingInv` says that
  a path without an excuse has at most one rename whose rule is not written
  yet, that it is the newest, and that what it found of the rule is still so;
  `RuleInv` that otherwise the rule is the newest; `PageInv` that a slug that was
  left is on no page unless it was reused; `CopyInv` that a copy of a page is older
  than the page only when a rename came in between.
* Site settings. An entry without an excuse is what is stored, but for the keys an
  update that has not ended has written (`EntryInv`, `HalfWay`), and a page
  without an excuse shows what is stored wherever nobody typed (`SavePageInv`).
  `WriterInv` says that two updates at a time are known to be crossed.
  `EntryIsStored` and `SavesKept` follow when an update ends.
* Search. What a search must find was in the table before it looked, and an index
  is read for all of it only after a rebuild (`QueryInv`); from the rebuild on it
  follows the table (`IndexInv`), so `IndexServes`.
* Media. `FileInv` and `RemovalInv` say what is in the directory at each stage of
  an upload and a deletion, `AuditInv` which of it is on record (`LogTrue`).

In `OperationsProofs`:

* Boot. `SchemaInv`: a container that is past a statement of the schema finds what
  it created. `SeedInv`: from the first table to the commit, a container seeds
  all tables under the write lock in a database where none was seeded, or finds
  them seeded and at most fills the menus somebody emptied. `SeededOnce` alone is
  not inductive: that a container does not seed a second time rests on all tables
  being committed together (`TogetherInv`). `SeedsOnce`, `UpIsReady`. What
  `AllComeUp` rests on is proved too: the write lock is in use (`LockIsInUse`), and
  no boot takes back what another has migrated (`SchemaGrows`), so that a column
  that made one boot fail is there for the next.
* Container. The keys of both editions lie in three layers, and what a factory
  resolves lies in a lower one (`Rank`); so the stack of `resolve()` is strictly
  falling, no key is on it twice, and what it needs was registered (`StackInv`).
  With `PlaceInv` it gives `ContainerSound`: one instance per key, for any
  threads, choice of modules and failing factories.
* Backups. A file is missing only when `Keep` newer ones had been started
  (`Expendable`) or when it was deleted by hand, and what a call is about to
  remove has that many newer ones too, which is an argument about the number of
  files a call has listed. From it `NewestAreKept`.
* Daily schedule. `RunInv`: but for days with a clock change or a restart, today was
  served, by a tick or by hand after the target (`Served`), exactly if the last run
  came after today's target; a manual run keeps that (`RunNowKeeps`).
  With `ClockInv`, linear arithmetic on days and hours gives `RunsOnceADay` for
  any target hour and length of the day.
* Traffic. A view is in memory, in the batch of one flusher, stored, or counted as
  lost (`CountInv`), with sets of views in flight, so that any number of flushers
  is added up: `NoViewTwice`. `SeenInv` bounds what is known of the visitors of a
  day by those seen; `EstimatesGrow` is the action property `UniquesOnlyGrow`.

Every invariant and action property that a passing run checks is stated by a theorem, and
so are the types of every component. Only model-checked are the liveness
properties (`EventuallyAnswered`, `KeyLockReleased`, `EventuallyFresh`,
`StopReturns`, `DueJobFires`, `AllComeUp`): liveness under fairness, `ENABLED` and
induction over data are out of the prover's reach. What can be proved of them is
that nothing is ever left waiting for nobody: `WakeupsSuffice`, `LocksAreInUse`,
`DrainNeverStuck` and `LockIsInUse` are those halves, for every value of the
constants.

No module declares a `RECURSIVE` operator.

## 6. Not modelled, and why

* Reads, statistics and status reports change nothing. PostgreSQL and
  Redis are behind the same interfaces; the models follow SQLite and the
  in-memory cache, which are the defaults.
* A nested `transaction()` joins the outer one; no code under `src/` catches an
  exception in between. `optimize()` is a maintenance statement.
* Durations are abstracted, so the blocking of the event loop by a mail sent from
  `alert_failed_job` is outside the models. A plugin's schedule, job or page may do
  anything; the models cover what the built-in ones can do.
* CSV export, log retention, configuration, logging, field validation, password
  hashing, token signing, the HTML and the layouts are functions of their input.
  The configuration accepts a pool size or a limit of zero, with which nothing
  would be served; the assumptions exclude it.
* The command line and the scaffolding write template files once. Health reports
  read the operating system.
* The community edition is cut from the main one by `tools/export_community.py`,
  which at this commit stops with "drift: line not found"; its routes are modelled
  from what the script and the edition's own `bootstrap.py` name. Its `execute()`
  has no late rollback and its `get_or_set` no key lock: they are the fault
  variants `NoLateRollback` and `AnyoneEnters` of the main edition's modules.
* `MediaService`, `TrafficService` and `BackupService` are modelled as they stand,
  though nothing in this commit makes or calls one: what is checked of them holds
  for a module that does.
* `ReadThroughCache` and `SiteSettings` have the cache of one process, the one
  that writes. With the public site and the admin area in separate containers
  the others learn of a write only when their entries expire (`TimedReads`).
* A search may begin on an index whose rebuild has failed or is still to come; it
  answers without raising and misses rows, whatever `schema.py:231` says.
  `IndexServesSearch` is about an index some container has filled, or none.
* `Listing` says what a reader may miss: a row deleted before its page, or added
  between the COUNT and the SELECT, shifts the rest, and the property excuses it.
* The admin pages: the login page has no field for the one-time code although the
  API takes one, and the account page offers no way to switch the second factor
  off. Such gaps are about what is shown, not about what a step may do.
* The components share little state in the models. `UserAccounts`, `Site`,
  `EditForms` and the others take a statement of the database as one step, which
  `UnitsRefinement` justifies for autocommit statements, and leave out the
  failure modes that are `DatabaseManager`'s subject.
