-------------------------- MODULE ConnectionPool --------------------------
(***************************************************************************)
(* ConnectionPool of infrastructure/database/manager.py: the idle list, the *)
(* in-use counter and the condition variable that threads block on.        *)
(*                                                                         *)
(* Every critical section (the bodies of "with self._lock") is one action. *)
(* The driver's connect() runs outside the lock and is an action of its    *)
(* own.  The condition variable is CPython's threading.Condition: a waiter *)
(* whose wait timed out stays in the wait set until it has the lock back,  *)
(* so a notify issued in between is spent on it.                           *)
(*                                                                         *)
(* Abstracted: the idle list is a set (which idle connection is handed out *)
(* is not distinguished), clocks are the nondeterministic step Expire, and *)
(* the idle threshold of close_idle is any choice of idle connections.     *)
(***************************************************************************)
EXTENDS Naturals, FiniteSets

CONSTANTS Threads, Conns, NoConn, MaxSize,
          Timeouts   \* TRUE when a checkout may run out of its time budget

ASSUME ConnectionPoolAssumption ==
    /\ IsFiniteSet(Threads)
    /\ IsFiniteSet(Conns)
    /\ NoConn \notin Conns
    /\ MaxSize \in Nat \ {0}
    /\ Timeouts \in BOOLEAN

VARIABLES idle,      \* _idle
          inUse,     \* _in_use
          held,      \* held[t]: what acquire() yielded to t, or NoConn
          pc,        \* where t is in _checkout / acquire
          waiters,   \* the threads registered in the condition variable
          late       \* threads whose deadline has passed

vars == <<idle, inUse, held, pc, waiters, late>>

\* "out": not in acquire().  "ready": about to run the loop of _checkout with
\* the lock.  "waiting": inside Condition.wait.  "timedout": the wait gave up
\* and is taking the lock back.  "creating": in the factory, outside the lock.
\* "using": in the body of the with statement.
PCs == {"out", "ready", "waiting", "timedout", "creating", "using"}

Busy      == {t \in Threads : pc[t] \in {"creating", "using"}}
Ready     == {t \in Threads : pc[t] = "ready"}
HeldConns == {held[t] : t \in Threads} \ {NoConn}
OpenConns == idle \cup HeldConns

TypeOK ==
    /\ idle \subseteq Conns
    /\ inUse \in Nat
    /\ held \in [Threads -> Conns \cup {NoConn}]
    /\ pc \in [Threads -> PCs]
    /\ waiters \subseteq Threads
    /\ late \subseteq Threads

Init ==
    /\ idle = {}
    /\ inUse = 0
    /\ held = [t \in Threads |-> NoConn]
    /\ pc = [t \in Threads |-> "out"]
    /\ waiters = {}
    /\ late = {}

-----------------------------------------------------------------------------
\* Fault variants, each substituted for the definition named beside it to show
\* that a property depends on that definition.
AtMostMax(n) == n <= MaxSize                      \* BelowMax
SlotLeaked   == UNCHANGED inUse                   \* FreeSlot
NotifyNobody(after) == pc' = after /\ UNCHANGED waiters    \* Notify
WaitForever(t) == FALSE /\ UNCHANGED vars         \* WaitTimesOut

-----------------------------------------------------------------------------
\* self._in_use < self._max_size
BelowMax(n) == n < MaxSize

\* self._in_use -= 1
FreeSlot == inUse' = inUse - 1

\* self._idle.pop(), as a choice of c
PopIdle(c) == idle' = idle \ {c}

\* self._lock.notify(), issued by a thread whose own step makes pc become
\* "after".  A waiter that already timed out uses the notification up.
Notify(after) ==
    \/ /\ waiters = {}
       /\ pc' = after
       /\ UNCHANGED waiters
    \/ \E w \in waiters :
          /\ waiters' = waiters \ {w}
          /\ pc' = IF after[w] = "waiting" THEN [after EXCEPT ![w] = "ready"] ELSE after

BeginAcquire(t) ==
    /\ pc[t] = "out"
    /\ pc' = [pc EXCEPT ![t] = "ready"]
    /\ late' = late \ {t}
    /\ UNCHANGED <<idle, inUse, held, waiters>>

\* The clock passes t's deadline.
Expire(t) ==
    /\ Timeouts
    /\ pc[t] \in {"ready", "waiting"}
    /\ t \notin late
    /\ late' = late \cup {t}
    /\ UNCHANGED <<idle, inUse, held, pc, waiters>>

TakeIdle(t) ==
    /\ pc[t] = "ready"
    /\ \E c \in idle :
          /\ PopIdle(c)
          /\ held' = [held EXCEPT ![t] = c]
    /\ inUse' = inUse + 1
    /\ pc' = [pc EXCEPT ![t] = "using"]
    /\ UNCHANGED <<waiters, late>>

Reserve(t) ==
    /\ pc[t] = "ready"
    /\ idle = {}
    /\ BelowMax(inUse)
    /\ inUse' = inUse + 1
    /\ pc' = [pc EXCEPT ![t] = "creating"]
    /\ UNCHANGED <<idle, held, waiters, late>>

\* The loop finds nothing: it raises at once when the deadline has passed,
\* and waits otherwise.
FindNothing(t) ==
    /\ pc[t] = "ready"
    /\ idle = {}
    /\ ~BelowMax(inUse)
    /\ \/ /\ t \in late
          /\ pc' = [pc EXCEPT ![t] = "out"]
          /\ UNCHANGED waiters
       \/ /\ t \notin late
          /\ pc' = [pc EXCEPT ![t] = "waiting"]
          /\ waiters' = waiters \cup {t}
    /\ UNCHANGED <<idle, inUse, held, late>>

\* Condition.wait gives up; it still has to take the lock back.
WaitTimesOut(t) ==
    /\ pc[t] = "waiting"
    /\ t \in late
    /\ pc' = [pc EXCEPT ![t] = "timedout"]
    /\ UNCHANGED <<idle, inUse, held, waiters, late>>

\* wait() returned False: raise DatabaseError without another look at the
\* idle list or the counter.
RaiseExhausted(t) ==
    /\ pc[t] = "timedout"
    /\ pc' = [pc EXCEPT ![t] = "out"]
    /\ waiters' = waiters \ {t}
    /\ UNCHANGED <<idle, inUse, held, late>>

FactoryReturns(t) ==
    /\ pc[t] = "creating"
    /\ \E c \in Conns \ OpenConns : held' = [held EXCEPT ![t] = c]
    /\ pc' = [pc EXCEPT ![t] = "using"]
    /\ UNCHANGED <<idle, inUse, waiters, late>>

FactoryRaises(t) ==
    /\ pc[t] = "creating"
    /\ FreeSlot
    /\ Notify([pc EXCEPT ![t] = "out"])
    /\ UNCHANGED <<idle, held, late>>

Checkin(t) ==
    /\ pc[t] = "using"
    /\ idle' = idle \cup {held[t]}
    /\ held' = [held EXCEPT ![t] = NoConn]
    /\ FreeSlot
    /\ Notify([pc EXCEPT ![t] = "out"])
    /\ UNCHANGED late

\* close_idle(max_idle_seconds) closes those idle longer than the threshold,
\* any set of them; close_all() closes every one.
CloseIdle(S) ==
    /\ S # {}
    /\ idle' = idle \ S
    /\ UNCHANGED <<inUse, held, pc, waiters, late>>

Checkout(t) ==
    TakeIdle(t) \/ Reserve(t) \/ FindNothing(t) \/ RaiseExhausted(t)

CallFactory(t) == FactoryReturns(t) \/ FactoryRaises(t)

Next ==
    \/ \E t \in Threads :
          \/ BeginAcquire(t) \/ Expire(t)
          \/ Checkout(t) \/ WaitTimesOut(t)
          \/ CallFactory(t) \/ Checkin(t)
    \/ \E S \in SUBSET idle : CloseIdle(S)

Spec == Init /\ [][Next]_vars

\* A thread that has the lock runs its critical section to the end, connect()
\* returns or raises, and clocks advance.  Nothing is assumed of how long a
\* thread uses its connection.
Fairness ==
    \A t \in Threads :
        /\ WF_vars(Checkout(t))
        /\ WF_vars(CallFactory(t))
        /\ WF_vars(Expire(t))
        /\ WF_vars(WaitTimesOut(t))

FairSpec == Spec /\ Fairness

-----------------------------------------------------------------------------
\* manager.py:67-71 and 80, 88: the counter is the number of threads that are
\* creating or using a connection; a factory failure does not leak its slot.
CountExact == inUse = Cardinality(Busy)

\* "bounded connection pool" (manager.py:45): idle connections and those in
\* use or being created never exceed max_size, although a connection leaves
\* the idle list and the counter rises in different places.
Bounded == Cardinality(idle) + inUse <= MaxSize

\* A connection is held by at most one thread, and never while it is idle
\* (and so never after close_idle closed it).
Exclusive ==
    /\ \A t \in Threads : held[t] # NoConn <=> pc[t] = "using"
    /\ \A t \in Threads : held[t] \notin idle
    /\ \A t, u \in Threads : t # u /\ held[t] = held[u] => held[t] = NoConn

\* The wakeups suffice: while a thread sleeps in Condition.wait, every slot
\* that is free is matched by a thread on its way to claim it (manager.py:81
\* and 89).  Stated for checkouts that do not run out of time.
NoLostWakeup == waiters # {} => inUse + Cardinality(Ready) >= MaxSize

\* Every acquire() is answered with a connection or an error, even when the
\* notification meant for it was used up by a thread that had timed out.
EventuallyAnswered ==
    \A t \in Threads : pc[t] = "ready" ~> pc[t] \in {"using", "out"}

\* The pool implements the abstract one: a request is pending from the call of
\* acquire() to its answer.
BP == INSTANCE BoundedPool WITH
          asking <- {t \in Threads : pc[t] \in {"ready", "waiting", "timedout", "creating"}}

\* Every checkout, checkin, failure and eviction is a step of BoundedPool, or
\* none of its business: the counter and the condition variable behind them
\* never open a connection too many or share one.
ImplementsBoundedPool == BP!AbsSpec
=============================================================================
