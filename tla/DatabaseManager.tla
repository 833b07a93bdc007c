-------------------------- MODULE DatabaseManager --------------------------
(***************************************************************************)
(* PooledDatabaseManager and SQLiteDatabaseManager of                      *)
(* infrastructure/database/manager.py over the pool of BoundedPool: the    *)
(* autocommit execute(), transaction() with its ambient connection, and    *)
(* what each does to the connection when a statement or a commit fails.    *)
(*                                                                         *)
(* A thread serves one request, which is one unit of writes: a single      *)
(* execute(), or a transaction() around UnitSize executes.  SQLite is      *)
(* modelled from how the manager uses it: a write statement opens a        *)
(* transaction implicitly and takes the database's single write lock, both *)
(* kept until commit or rollback, also when the statement itself fails on  *)
(* a constraint.  Reads (fetch_one, fetch_all) change no state and are     *)
(* left out.                                                               *)
(***************************************************************************)
EXTENDS BoundedPool

CONSTANTS UnitKinds,   \* subset of {"execute", "transaction"}
          UnitSize,    \* statements in a transaction
          Faults       \* Faults[kind]: what may go wrong in such a unit, a
                       \* subset of {"integrity", "busy", "driver", "body"}

ASSUME DatabaseManagerAssumption ==
    /\ UnitKinds \subseteq {"execute", "transaction"}
    /\ UnitSize \in Nat \ {0}
    /\ Faults \in [{"execute", "transaction"} ->
                      SUBSET {"integrity", "busy", "driver", "body"}]

VARIABLES pc,        \* where t is in execute() / transaction()
          unit,      \* unit[t]: what t runs
          done,      \* done[t]: statements of t's unit that succeeded
          err,       \* err[t]: the exception t is raising, or "none"
          lastConn,  \* lastConn[t]: execute's variable conn after checkin
          wrote,     \* wrote[c]: writes of c's open transaction
          inTx,      \* inTx[c]: raw.in_transaction
          writer,    \* the connection with the write lock, or NoConn
          db,        \* committed writes
          hit        \* threads that lost writes to the late rollback of another

unitVars == <<pc, unit, done, err>>
connVars == <<wrote, inTx, writer>>
dbmVars == <<idle, held, asking, pc, unit, done, err, lastConn, wrote, inTx, writer, db, hit>>

Size(t) == IF unit[t] = "execute" THEN 1 ELSE UnitSize
Writes(t) == {<<t, k>> : k \in 1..Size(t)}

DbmTypeOK ==
    /\ AbsTypeOK
    /\ pc \in [Threads -> {"start", "asking", "write", "commit", "unwind",
                           "checkin", "rollback", "done"}]
    /\ unit \in [Threads -> {"execute", "transaction"}]
    /\ done \in [Threads -> 0..UnitSize]
    /\ err \in [Threads -> {"none", "refused", "integrity", "driver", "body"}]
    /\ lastConn \in [Threads -> Conns \cup {NoConn}]
    /\ wrote \in [Conns -> SUBSET (Threads \X (1..UnitSize))]
    /\ inTx \in [Conns -> BOOLEAN]
    /\ writer \in Conns \cup {NoConn}
    /\ db \subseteq Threads \X (1..UnitSize)
    /\ hit \subseteq Threads

DbmInit ==
    /\ AbsInit
    /\ pc = [t \in Threads |-> "start"]
    /\ unit \in [Threads -> UnitKinds]
    /\ done = [t \in Threads |-> 0]
    /\ err = [t \in Threads |-> "none"]
    /\ lastConn = [t \in Threads |-> NoConn]
    /\ wrote = [c \in Conns |-> {}]
    /\ inTx = [c \in Conns |-> FALSE]
    /\ writer = NoConn
    /\ db = {}
    /\ hit = {}

Goto(t, label) == pc' = [pc EXCEPT ![t] = label]

-----------------------------------------------------------------------------
\* Fault variants, each substituted for the definition named beside it.
NoUnwind(t) == "checkin"                                         \* AfterRaise
CommitEachStatement(t) == "commit"                               \* AfterWrite
NoLateRollback(t) == "done"                                      \* AfterCheckin
CommitForgotten(t) == IF done[t] + 1 = Size(t) THEN "checkin" ELSE "write" \* AfterWrite

-----------------------------------------------------------------------------
(* SQLite, as the manager uses it. *)

LockFree(c) == writer \in {NoConn, c}

\* rollback() or close() of the connections in S.
Discard(S) ==
    /\ wrote' = [c \in Conns |-> IF c \in S THEN {} ELSE wrote[c]]
    /\ inTx' = [c \in Conns |-> c \notin S /\ inTx[c]]
    /\ writer' = IF writer \in S THEN NoConn ELSE writer

WritesOn(c, u) == \E w \in wrote[c] : w[1] = u

\* The durable effect of commit(): what the open transaction of c wrote.
Persist(c) == db' = db \cup wrote[c]

-----------------------------------------------------------------------------
(* execute() and transaction(). *)

BeginUnit(t) ==
    /\ pc[t] = "start"
    /\ Ask(t)
    /\ Goto(t, "asking")
    /\ UNCHANGED <<unit, done, err, lastConn, connVars, db, hit>>

Acquire(t) ==
    /\ \E c \in Conns : Reuse(t, c) \/ Open(t, c)
    /\ Goto(t, "write")
    /\ UNCHANGED <<unit, done, err, lastConn, connVars, db, hit>>

\* Pool exhausted, or connect() failed: the error of either reaches the caller.
AcquireFails(t) ==
    /\ Refuse(t)
    /\ err' = [err EXCEPT ![t] = "refused"]
    /\ Goto(t, "done")
    /\ UNCHANGED <<unit, done, lastConn, connVars, db, hit>>

\* What follows a successful statement: an execute outside a transaction
\* commits at once, a transaction commits at the end of its block.
AfterWrite(t) == IF done[t] + 1 = Size(t) THEN "commit" ELSE "write"

StatementSucceeds(t) ==
    LET c == held[t] IN
    /\ pc[t] = "write"
    /\ LockFree(c)
    /\ writer' = c
    /\ inTx' = [inTx EXCEPT ![c] = TRUE]
    /\ wrote' = [wrote EXCEPT ![c] = @ \cup {<<t, done[t] + 1>>}]
    /\ done' = [done EXCEPT ![t] = @ + 1]
    /\ Goto(t, AfterWrite(t))
    /\ UNCHANGED <<idle, held, asking, unit, err, lastConn, db, hit>>

\* A raising statement leaves the with block: transaction() rolls back first,
\* an autocommit execute() checks the connection in as it is.
AfterRaise(t) == IF unit[t] = "transaction" THEN "unwind" ELSE "checkin"

Raise(t, kind) ==
    /\ err' = [err EXCEPT ![t] = kind]
    /\ Goto(t, AfterRaise(t))
    /\ UNCHANGED <<idle, held, asking, unit, done, lastConn, db, hit>>

\* A UNIQUE or FK violation: the implicit transaction stays open and keeps the
\* write lock.
StatementConflicts(t) ==
    LET c == held[t] IN
    /\ "integrity" \in Faults[unit[t]]
    /\ pc[t] = "write"
    /\ LockFree(c)
    /\ writer' = c
    /\ inTx' = [inTx EXCEPT ![c] = TRUE]
    /\ UNCHANGED wrote
    /\ Raise(t, "integrity")

\* "database is locked" after busy_timeout: BEGIN happened, the write did not.
StatementBusy(t) ==
    LET c == held[t] IN
    /\ "busy" \in Faults[unit[t]]
    /\ pc[t] = "write"
    /\ ~LockFree(c)
    /\ inTx' = [inTx EXCEPT ![c] = TRUE]
    /\ UNCHANGED <<wrote, writer>>
    /\ Raise(t, "driver")

\* Any other driver error, raised before the statement touched anything.
StatementErrors(t) ==
    /\ "driver" \in Faults[unit[t]]
    /\ pc[t] = "write"
    /\ UNCHANGED connVars
    /\ Raise(t, "driver")

\* The caller's code raises between two statements of its transaction.
BodyRaises(t) ==
    /\ "body" \in Faults[unit[t]]
    /\ pc[t] = "write"
    /\ unit[t] = "transaction"
    /\ UNCHANGED connVars
    /\ Raise(t, "body")

CommitSucceeds(t) ==
    LET c == held[t] IN
    /\ pc[t] = "commit"
    /\ Persist(c)
    /\ Discard({c})
    /\ Goto(t, "checkin")
    /\ UNCHANGED <<idle, held, asking, unit, done, err, lastConn, hit>>

\* COMMIT itself fails and leaves the transaction open.
CommitFails(t) ==
    /\ "driver" \in Faults[unit[t]]
    /\ pc[t] = "commit"
    /\ UNCHANGED connVars
    /\ Raise(t, "driver")

\* transaction() rolls back before its connection goes back to the pool.  For
\* a driver error the execute() inside has already done the same.
Unwind(t) ==
    /\ pc[t] = "unwind"
    /\ Discard({held[t]})
    /\ Goto(t, "checkin")
    /\ UNCHANGED <<idle, held, asking, unit, done, err, lastConn, db, hit>>

\* execute() handles a driver error after its with block.
AfterCheckin(t) == IF unit[t] = "execute" /\ err[t] = "driver" THEN "rollback" ELSE "done"

\* The pool's with block ends; the variable conn of execute() still names the
\* connection it no longer holds.
LeavePool(t) ==
    /\ pc[t] = "checkin"
    /\ Release(t)
    /\ lastConn' = [lastConn EXCEPT ![t] = held[t]]
    /\ Goto(t, AfterCheckin(t))
    /\ UNCHANGED <<unit, done, err, connVars, db, hit>>

\* conn.raw.rollback() in the except clause of execute(); on a connection that
\* was closed meanwhile it raises, which the code swallows.
LateRollback(t) ==
    /\ pc[t] = "rollback"
    /\ hit' = hit \cup {u \in Threads \ {t} : \E c \in Conns : c = lastConn[t] /\ WritesOn(c, u)}
    /\ Discard({lastConn[t]})
    /\ Goto(t, "done")
    /\ UNCHANGED <<idle, held, asking, unit, done, err, lastConn, db>>

\* close_idle_connections() and shutdown(): SQLite rolls back what a closed
\* connection left open.  A connection opened later is another one, so no
\* pending late rollback reaches it.
CloseIdleConnections(S) ==
    /\ S # {}
    /\ Evict(S)
    /\ Discard(S)
    /\ lastConn' = [t \in Threads |-> IF lastConn[t] \in S THEN NoConn ELSE lastConn[t]]
    /\ UNCHANGED <<unitVars, db, hit>>

Request(t) ==
    \/ BeginUnit(t) \/ Acquire(t) \/ AcquireFails(t)
    \/ StatementSucceeds(t) \/ StatementConflicts(t) \/ StatementBusy(t)
    \/ StatementErrors(t) \/ BodyRaises(t)
    \/ CommitSucceeds(t) \/ CommitFails(t) \/ Unwind(t)
    \/ LeavePool(t) \/ LateRollback(t)

DbmNext ==
    \/ \E t \in Threads : Request(t)
    \/ \E S \in SUBSET idle : CloseIdleConnections(S)

DbmSpec == DbmInit /\ [][DbmNext]_dbmVars

-----------------------------------------------------------------------------
Succeeded(t) == pc[t] = "done" /\ err[t] = "none"
Failed(t) == pc[t] = "done" /\ err[t] # "none"

\* "same transaction, atomic" (unit_of_work.py:6): at every instant the
\* database has all the writes of a unit or none of them.
UnitAtomic == \A t \in Threads : Writes(t) \subseteq db \/ Writes(t) \cap db = {}

\* The promise of the unit of work is kept to everybody else: nothing but the
\* rollback of execute() on a connection it has given back breaks a unit.
AtomicUnlessHit == \A t \in Threads \ hit : Writes(t) \subseteq db \/ Writes(t) \cap db = {}

\* A unit that returned to its caller without an exception is in the database.
SuccessIsDurable == \A t \in Threads \ hit : Succeeded(t) => Writes(t) \subseteq db

\* An autocommit statement that met a driver error: when its COMMIT failed, the
\* connection goes back with the write pending, before the late rollback.
RolledBackLate(t) == unit[t] = "execute" /\ err[t] = "driver"

\* A unit whose caller got an exception leaves nothing behind: no later commit
\* on the connection it used picks its writes up.
FailureLeavesNothing ==
    \A t \in Threads : Failed(t) => Writes(t) \cap db = {} \/ RolledBackLate(t)

\* Both: a caller can rely on how its unit ended, whatever other units do on the
\* same connections.
OutcomeIsTrue == SuccessIsDurable /\ FailureLeavesNothing

\* The writes of an open transaction are those of the thread that holds the
\* connection: no unit is committed or discarded by another.
PendingWritesAreMine ==
    \A c \in Conns : \A w \in wrote[c] : held[w[1]] = c \/ RolledBackLate(w[1])

\* "rollback on exception" (docs/SRS.md:212): a connection goes back to the
\* pool with no transaction open, so it holds no lock while idle.
IdleConnectionsClean == \A c \in idle : ~inTx[c] /\ writer # c

\* The same, late: a driver error of execute() is rolled back after the
\* connection went back (manager.py:223-228), so once every unit is over, a
\* transaction is open only where an autocommit statement met a constraint.
QuietConnectionsClean ==
    (\A t \in Threads : pc[t] = "done") =>
        \A c \in Conns : inTx[c] \/ writer = c =>
            \E t \in Threads : lastConn[t] = c /\ unit[t] = "execute" /\ err[t] = "integrity"

\* What the caller of a unit knows.
Told(t) ==
    CASE pc[t] # "done"                     -> "open"
      [] Succeeded(t)                       -> "returned"
      [] Failed(t) /\ RolledBackLate(t)     -> "unknown"
      [] Failed(t) /\ ~RolledBackLate(t)    -> "raised"

AU == INSTANCE AtomicUnits WITH
          Units  <- Threads,
          stored <- {t \in Threads \ hit : Writes(t) \subseteq db},
          ended  <- [t \in Threads |-> Told(t)],
          harmed <- hit

\* Statement by statement, with pooled connections and SQLite's lock, the manager
\* does what AtomicUnits does in single steps.  On top of the invariants it says
\* that what was answered stays: no later step stores, loses or harms it.
ImplementsAtomicUnits == AU!UnitsSpec
=============================================================================
