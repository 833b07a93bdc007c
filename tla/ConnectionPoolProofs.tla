----------------------- MODULE ConnectionPoolProofs -----------------------
(***************************************************************************)
(* Proofs about ConnectionPool, for any finite set of threads, any         *)
(* max_size and with or without timeouts.                                  *)
(*                                                                         *)
(* Bounded is not inductive alone: the counter must be known to equal the  *)
(* number of threads behind it (CountExact), and a checkin may only return *)
(* a connection that is not idle already (Exclusive).  IInv conjoins them. *)
(***************************************************************************)
EXTENDS ConnectionPool, FiniteSetTheorems, TLAPS

IInv == TypeOK /\ CountExact /\ Bounded /\ Exclusive

-----------------------------------------------------------------------------
(* Lemmas about the operators. *)

\* Busy and Ready are finite, so their cardinalities are numbers.
LEMMA FiniteThreads ==
    \A S \in SUBSET Threads : IsFiniteSet(S) /\ Cardinality(S) \in Nat
BY FS_Subset, FS_CardinalityType, ConnectionPoolAssumption

LEMMA FiniteConns ==
    \A S \in SUBSET Conns : IsFiniteSet(S) /\ Cardinality(S) \in Nat
BY FS_Subset, FS_CardinalityType, ConnectionPoolAssumption

\* A notification changes nothing but the wait set and one sleeping waiter,
\* which becomes ready.
LEMMA NotifyEffect ==
    ASSUME NEW after \in [Threads -> PCs], waiters \subseteq Threads, Notify(after)
    PROVE  /\ pc' \in [Threads -> PCs]
           /\ waiters' \subseteq waiters
           /\ \A u \in Threads : \/ pc'[u] = after[u]
                                 \/ after[u] = "waiting" /\ pc'[u] = "ready"
<1>1. CASE waiters = {} /\ pc' = after /\ UNCHANGED waiters
    BY <1>1
<1>2. CASE \E w \in waiters :
              /\ waiters' = waiters \ {w}
              /\ pc' = IF after[w] = "waiting" THEN [after EXCEPT ![w] = "ready"] ELSE after
    <2>1. PICK w \in waiters :
              /\ waiters' = waiters \ {w}
              /\ pc' = IF after[w] = "waiting" THEN [after EXCEPT ![w] = "ready"] ELSE after
        BY <1>2
    <2>2. w \in Threads
        OBVIOUS
    <2>3. QED
        BY <2>1, <2>2 DEF PCs
<1>3. QED
    BY <1>1, <1>2 DEF Notify

\* A thread that takes a slot enters Busy, one that gives it back leaves it.
LEMMA BusyGains ==
    ASSUME NEW t \in Threads, t \notin Busy, Busy' = Busy \cup {t}
    PROVE  Cardinality(Busy') = Cardinality(Busy) + 1
<1>1. IsFiniteSet(Busy) /\ Cardinality(Busy) \in Nat
    BY FiniteThreads DEF Busy
<1>2. QED
    BY <1>1, FS_AddElement

LEMMA BusyLoses ==
    ASSUME NEW t \in Threads, t \in Busy, Busy' = Busy \ {t}
    PROVE  Cardinality(Busy') = Cardinality(Busy) - 1
<1>1. IsFiniteSet(Busy) /\ Cardinality(Busy) \in Nat
    BY FiniteThreads DEF Busy
<1>2. QED
    BY <1>1, FS_RemoveElement

-----------------------------------------------------------------------------
(* Type correctness. *)

\* A release is only ever issued by a thread the counter counts.
LEMMA SlotToFree ==
    ASSUME IInv, NEW t \in Threads, pc[t] \in {"creating", "using"}
    PROVE  inUse > 0
<1>1. t \in Busy /\ IsFiniteSet(Busy) /\ Cardinality(Busy) \in Nat
    BY FiniteThreads DEF Busy
<1>2. Cardinality(Busy) # 0
    BY <1>1, FS_EmptySet
<1>3. QED
    BY <1>1, <1>2 DEF IInv, CountExact

LEMMA TypeStep == IInv /\ [Next]_vars => TypeOK'
<1> SUFFICES ASSUME IInv, [Next]_vars
             PROVE  TypeOK'
    OBVIOUS
<1> USE DEF IInv, TypeOK
<1>1. ASSUME NEW t \in Threads, BeginAcquire(t) PROVE TypeOK'
    BY <1>1 DEF BeginAcquire, PCs
<1>2. ASSUME NEW t \in Threads, Expire(t) PROVE TypeOK'
    BY <1>2 DEF Expire
<1>3. ASSUME NEW t \in Threads, TakeIdle(t) PROVE TypeOK'
    BY <1>3 DEF TakeIdle, PopIdle, PCs
<1>4. ASSUME NEW t \in Threads, Reserve(t) PROVE TypeOK'
    BY <1>4 DEF Reserve, PCs
<1>5. ASSUME NEW t \in Threads, FindNothing(t) PROVE TypeOK'
    BY <1>5 DEF FindNothing, PCs
<1>6. ASSUME NEW t \in Threads, RaiseExhausted(t) PROVE TypeOK'
    BY <1>6 DEF RaiseExhausted, PCs
<1>7. ASSUME NEW t \in Threads, WaitTimesOut(t) PROVE TypeOK'
    BY <1>7 DEF WaitTimesOut, PCs
<1>8. ASSUME NEW t \in Threads, FactoryReturns(t) PROVE TypeOK'
    BY <1>8 DEF FactoryReturns, PCs
<1>9. ASSUME NEW t \in Threads, FactoryRaises(t) PROVE TypeOK'
    <2>1. inUse' \in Nat
        BY <1>9, SlotToFree DEF FactoryRaises, FreeSlot
    <2>2. [pc EXCEPT ![t] = "out"] \in [Threads -> PCs]
        BY DEF PCs
    <2>3. pc' \in [Threads -> PCs] /\ waiters' \subseteq waiters
        BY <1>9, <2>2, NotifyEffect DEF FactoryRaises
    <2>4. QED
        BY <1>9, <2>1, <2>3 DEF FactoryRaises
<1>10. ASSUME NEW t \in Threads, Checkin(t) PROVE TypeOK'
    <2>1. inUse' \in Nat
        BY <1>10, SlotToFree DEF Checkin, FreeSlot
    <2>2. [pc EXCEPT ![t] = "out"] \in [Threads -> PCs]
        BY DEF PCs
    <2>3. pc' \in [Threads -> PCs] /\ waiters' \subseteq waiters
        BY <1>10, <2>2, NotifyEffect DEF Checkin
    <2>4. held[t] \in Conns
        BY <1>10 DEF Checkin, Exclusive
    <2>5. QED
        BY <1>10, <2>1, <2>3, <2>4 DEF Checkin
<1>11. ASSUME NEW S \in SUBSET idle, CloseIdle(S) PROVE TypeOK'
    BY <1>11 DEF CloseIdle
<1>12. CASE UNCHANGED vars
    BY <1>12 DEF vars
<1>13. QED
    BY <1>1, <1>2, <1>3, <1>4, <1>5, <1>6, <1>7, <1>8, <1>9, <1>10, <1>11, <1>12
       DEF Next, Checkout, CallFactory

-----------------------------------------------------------------------------
(* The counter is exact. *)

LEMMA CountStep == IInv /\ [Next]_vars => CountExact'
<1> SUFFICES ASSUME IInv, [Next]_vars
             PROVE  CountExact'
    OBVIOUS
<1> USE DEF IInv, TypeOK
<1>0. ASSUME Busy' = Busy, inUse' = inUse PROVE CountExact'
    BY <1>0 DEF CountExact
<1>1. ASSUME NEW t \in Threads, BeginAcquire(t) PROVE CountExact'
    <2>1. Busy' = Busy
        BY <1>1 DEF BeginAcquire, Busy
    <2>2. QED
        BY <1>0, <1>1, <2>1 DEF BeginAcquire
<1>2. ASSUME NEW t \in Threads, Expire(t) PROVE CountExact'
    BY <1>0, <1>2 DEF Expire, Busy
<1>3. ASSUME NEW t \in Threads, TakeIdle(t) PROVE CountExact'
    <2>1. t \notin Busy /\ Busy' = Busy \cup {t}
        BY <1>3 DEF TakeIdle, Busy
    <2>2. QED
        BY <1>3, <2>1, BusyGains DEF TakeIdle, CountExact
<1>4. ASSUME NEW t \in Threads, Reserve(t) PROVE CountExact'
    <2>1. t \notin Busy /\ Busy' = Busy \cup {t}
        BY <1>4 DEF Reserve, Busy
    <2>2. QED
        BY <1>4, <2>1, BusyGains DEF Reserve, CountExact
<1>5. ASSUME NEW t \in Threads, FindNothing(t) PROVE CountExact'
    <2>1. Busy' = Busy
        BY <1>5 DEF FindNothing, Busy
    <2>2. QED
        BY <1>0, <1>5, <2>1 DEF FindNothing
<1>6. ASSUME NEW t \in Threads, RaiseExhausted(t) PROVE CountExact'
    <2>1. Busy' = Busy
        BY <1>6 DEF RaiseExhausted, Busy
    <2>2. QED
        BY <1>0, <1>6, <2>1 DEF RaiseExhausted
<1>7. ASSUME NEW t \in Threads, WaitTimesOut(t) PROVE CountExact'
    <2>1. Busy' = Busy
        BY <1>7 DEF WaitTimesOut, Busy
    <2>2. QED
        BY <1>0, <1>7, <2>1 DEF WaitTimesOut
<1>8. ASSUME NEW t \in Threads, FactoryReturns(t) PROVE CountExact'
    <2>1. Busy' = Busy
        BY <1>8 DEF FactoryReturns, Busy
    <2>2. QED
        BY <1>0, <1>8, <2>1 DEF FactoryReturns
<1>9. ASSUME NEW t \in Threads, pc[t] \in {"creating", "using"},
             FreeSlot, Notify([pc EXCEPT ![t] = "out"])
      PROVE  CountExact'
    <2>1. [pc EXCEPT ![t] = "out"] \in [Threads -> PCs]
        BY DEF PCs
    <2>2. \A u \in Threads :
             \/ pc'[u] = [pc EXCEPT ![t] = "out"][u]
             \/ [pc EXCEPT ![t] = "out"][u] = "waiting" /\ pc'[u] = "ready"
        BY <1>9, <2>1, NotifyEffect
    <2>3. t \in Busy /\ Busy' = Busy \ {t}
        BY <1>9, <2>2 DEF Busy
    <2>4. Cardinality(Busy') = Cardinality(Busy) - 1
        BY <2>3, BusyLoses
    <2>5. QED
        BY <1>9, <2>4 DEF CountExact, FreeSlot
<1>10. ASSUME NEW S \in SUBSET idle, CloseIdle(S) PROVE CountExact'
    BY <1>0, <1>10 DEF CloseIdle, Busy
<1>11. CASE UNCHANGED vars
    BY <1>0, <1>11 DEF vars, Busy
<1>12. QED
    BY <1>1, <1>2, <1>3, <1>4, <1>5, <1>6, <1>7, <1>8, <1>9, <1>10, <1>11
       DEF Next, Checkout, CallFactory, FactoryRaises, Checkin

-----------------------------------------------------------------------------
(* The bound. *)

LEMMA BoundStep == IInv /\ [Next]_vars => Bounded'
<1> SUFFICES ASSUME IInv, [Next]_vars
             PROVE  Bounded'
    OBVIOUS
<1> USE DEF IInv, TypeOK
<1>0. MaxSize \in Nat /\ IsFiniteSet(idle) /\ Cardinality(idle) \in Nat
    BY FiniteConns, ConnectionPoolAssumption
<1>1. ASSUME UNCHANGED <<idle, inUse>> PROVE Bounded'
    BY <1>1 DEF Bounded
<1>2. ASSUME NEW t \in Threads, TakeIdle(t) PROVE Bounded'
    <2>1. PICK c \in idle : idle' = idle \ {c}
        BY <1>2 DEF TakeIdle, PopIdle
    <2>2. Cardinality(idle') = Cardinality(idle) - 1
        BY <1>0, <2>1, FS_RemoveElement
    <2>3. QED
        BY <1>0, <1>2, <2>2 DEF TakeIdle, Bounded
<1>3. ASSUME NEW t \in Threads, Reserve(t) PROVE Bounded'
    <2>1. Cardinality(idle') = 0
        BY <1>3, FS_EmptySet DEF Reserve
    <2>2. QED
        BY <1>0, <1>3, <2>1 DEF Reserve, BelowMax, Bounded
<1>4. ASSUME NEW t \in Threads, FactoryRaises(t) PROVE Bounded'
    BY <1>0, <1>4 DEF FactoryRaises, FreeSlot, Bounded
<1>5. ASSUME NEW t \in Threads, Checkin(t) PROVE Bounded'
    <2>1. idle' = idle \cup {held[t]} /\ held[t] \notin idle
        BY <1>5 DEF Checkin, Exclusive
    <2>2. Cardinality(idle') = Cardinality(idle) + 1
        BY <1>0, <2>1, FS_AddElement
    <2>3. QED
        BY <1>0, <1>5, <2>2 DEF Checkin, FreeSlot, Bounded
<1>6. ASSUME NEW S \in SUBSET idle, CloseIdle(S) PROVE Bounded'
    <2>1. Cardinality(idle') \in Nat /\ Cardinality(idle') <= Cardinality(idle)
        BY <1>0, <1>6, FS_Subset, FiniteConns DEF CloseIdle
    <2>2. QED
        BY <1>0, <1>6, <2>1 DEF CloseIdle, Bounded
<1>7. QED
    BY <1>1, <1>2, <1>3, <1>4, <1>5, <1>6
       DEF Next, Checkout, CallFactory, vars, BeginAcquire, Expire, FindNothing,
           RaiseExhausted, WaitTimesOut, FactoryReturns

-----------------------------------------------------------------------------
(* Nobody shares a connection. *)

LEMMA ExclusiveStep == IInv /\ [Next]_vars => Exclusive'
<1> SUFFICES ASSUME IInv, [Next]_vars
             PROVE  Exclusive'
    OBVIOUS
<1> USE DEF IInv, TypeOK
<1>0. NoConn \notin Conns
    BY ConnectionPoolAssumption
<1>1. ASSUME UNCHANGED <<idle, held>>,
             \A t \in Threads : pc'[t] = "using" <=> pc[t] = "using"
      PROVE  Exclusive'
    BY <1>1 DEF Exclusive
<1>2. ASSUME NEW t \in Threads, TakeIdle(t) PROVE Exclusive'
    <2>1. PICK c \in idle : idle' = idle \ {c} /\ held' = [held EXCEPT ![t] = c]
        BY <1>2 DEF TakeIdle, PopIdle
    <2>2. c \in Conns /\ c # NoConn /\ \A u \in Threads : held[u] # c
        BY <1>0, <2>1 DEF Exclusive
    <2>3. \A u \in Threads : held'[u] # NoConn <=> pc'[u] = "using"
        BY <1>2, <2>1, <2>2 DEF TakeIdle, Exclusive
    <2>4. \A u \in Threads : held'[u] \notin idle'
        BY <2>1, <2>2 DEF Exclusive
    <2>5. \A u, v \in Threads : u # v /\ held'[u] = held'[v] => held'[u] = NoConn
        BY <2>1, <2>2 DEF Exclusive
    <2>6. QED
        BY <2>3, <2>4, <2>5 DEF Exclusive
<1>3. ASSUME NEW t \in Threads, FactoryReturns(t) PROVE Exclusive'
    <2>1. PICK c \in Conns \ OpenConns : held' = [held EXCEPT ![t] = c]
        BY <1>3 DEF FactoryReturns
    <2>2. c # NoConn /\ c \notin idle /\ \A u \in Threads : held[u] # c
        BY <1>0, <2>1 DEF OpenConns, HeldConns
    <2>3. \A u \in Threads : held'[u] # NoConn <=> pc'[u] = "using"
        BY <1>3, <2>1, <2>2 DEF FactoryReturns, Exclusive
    <2>4. \A u \in Threads : held'[u] \notin idle'
        BY <1>3, <2>1, <2>2 DEF FactoryReturns, Exclusive
    <2>5. \A u, v \in Threads : u # v /\ held'[u] = held'[v] => held'[u] = NoConn
        BY <2>1, <2>2 DEF Exclusive
    <2>6. QED
        BY <2>3, <2>4, <2>5 DEF Exclusive
<1>4. ASSUME NEW t \in Threads, Notify([pc EXCEPT ![t] = "out"])
      PROVE  \A u \in Threads : pc'[u] = "using" <=> u # t /\ pc[u] = "using"
    <2>1. [pc EXCEPT ![t] = "out"] \in [Threads -> PCs]
        BY DEF PCs
    <2>2. \A u \in Threads :
             \/ pc'[u] = [pc EXCEPT ![t] = "out"][u]
             \/ [pc EXCEPT ![t] = "out"][u] = "waiting" /\ pc'[u] = "ready"
        BY <1>4, <2>1, NotifyEffect
    <2>3. QED
        BY <2>2
<1>5. ASSUME NEW t \in Threads, FactoryRaises(t) PROVE Exclusive'
    <2>1. pc[t] = "creating" /\ UNCHANGED <<idle, held>>
        BY <1>5 DEF FactoryRaises
    <2>2. \A u \in Threads : pc'[u] = "using" <=> u # t /\ pc[u] = "using"
        BY <1>4, <1>5 DEF FactoryRaises
    <2>3. QED
        BY <1>1, <2>1, <2>2
<1>6. ASSUME NEW t \in Threads, Checkin(t) PROVE Exclusive'
    <2>1. /\ held[t] # NoConn
          /\ idle' = idle \cup {held[t]}
          /\ held' = [held EXCEPT ![t] = NoConn]
        BY <1>6 DEF Checkin, Exclusive
    <2>2. \A u \in Threads : pc'[u] = "using" <=> u # t /\ pc[u] = "using"
        BY <1>4, <1>6 DEF Checkin
    <2>3. \A u \in Threads : held'[u] # NoConn <=> pc'[u] = "using"
        BY <2>1, <2>2 DEF Exclusive
    <2>4. \A u \in Threads : held'[u] \notin idle'
        BY <1>0, <2>1 DEF Exclusive
    <2>5. \A u, v \in Threads : u # v /\ held'[u] = held'[v] => held'[u] = NoConn
        BY <2>1 DEF Exclusive
    <2>6. QED
        BY <2>3, <2>4, <2>5 DEF Exclusive
<1>7. ASSUME NEW S \in SUBSET idle, CloseIdle(S) PROVE Exclusive'
    BY <1>7 DEF CloseIdle, Exclusive
<1>8. ASSUME NEW t \in Threads,
             \/ BeginAcquire(t) \/ Expire(t) \/ Reserve(t) \/ FindNothing(t)
             \/ RaiseExhausted(t) \/ WaitTimesOut(t)
      PROVE  Exclusive'
    BY <1>1, <1>8 DEF BeginAcquire, Expire, Reserve, FindNothing, RaiseExhausted, WaitTimesOut
<1>9. CASE UNCHANGED vars
    BY <1>1, <1>9 DEF vars
<1>10. QED
    BY <1>2, <1>3, <1>5, <1>6, <1>7, <1>8, <1>9 DEF Next, Checkout, CallFactory

-----------------------------------------------------------------------------
(* The safety theorem. *)

LEMMA InitIInv == Init => IInv
<1> SUFFICES ASSUME Init PROVE IInv
    OBVIOUS
<1>1. TypeOK
    BY DEF Init, TypeOK, PCs
<1>2. Busy = {} /\ Cardinality({}) = 0
    BY FS_EmptySet DEF Init, Busy
<1>3. CountExact /\ Bounded
    BY <1>2, ConnectionPoolAssumption DEF Init, CountExact, Bounded
<1>4. Exclusive
    BY DEF Init, Exclusive
<1>5. QED
    BY <1>1, <1>3, <1>4 DEF IInv

LEMMA IInvStep == IInv /\ [Next]_vars => IInv'
BY TypeStep, CountStep, BoundStep, ExclusiveStep DEF IInv

\* In every reachable state of the pool the counter is exact, at most max_size
\* connections are idle, in use or being created, and none is shared
\* (manager.py:62-109).
THEOREM PoolInvariant == Spec => []IInv
BY InitIInv, IInvStep, PTL DEF Spec

\* Type correctness.
THEOREM TypeCorrect == Spec => []TypeOK
BY PoolInvariant, PTL DEF IInv

\* No slot leaks, on a failed connect() or otherwise.
THEOREM CounterIsExact == Spec => []CountExact
BY PoolInvariant, PTL DEF IInv

\* The pool is bounded.
THEOREM PoolIsBounded == Spec => []Bounded
BY PoolInvariant, PTL DEF IInv

\* No two threads ever hold one connection, and none is idle meanwhile.
THEOREM NoSharing == Spec => []Exclusive
BY PoolInvariant, PTL DEF IInv

-----------------------------------------------------------------------------
(* The wakeups suffice, when no checkout runs out of time.                  *)

WInv ==
    /\ IInv
    /\ late = {}
    /\ \A t \in Threads : pc[t] # "timedout" /\ (t \in waiters => pc[t] = "waiting")
    /\ NoLostWakeup

LEMMA ReadyGains ==
    ASSUME NEW t \in Threads, t \notin Ready, Ready' = Ready \cup {t}
    PROVE  Cardinality(Ready') = Cardinality(Ready) + 1
<1>1. IsFiniteSet(Ready) /\ Cardinality(Ready) \in Nat
    BY FiniteThreads DEF Ready
<1>2. QED
    BY <1>1, FS_AddElement

LEMMA ReadyLoses ==
    ASSUME NEW t \in Threads, t \in Ready, Ready' = Ready \ {t}
    PROVE  Cardinality(Ready') = Cardinality(Ready) - 1
<1>1. IsFiniteSet(Ready) /\ Cardinality(Ready) \in Nat
    BY FiniteThreads DEF Ready
<1>2. QED
    BY <1>1, FS_RemoveElement

\* A slot given back wakes a waiter whenever there is one, so the free slot and
\* the thread that will claim it appear together.
LEMMA WakeupOnFree ==
    ASSUME WInv, NEW t \in Threads, pc[t] \in {"creating", "using"},
           FreeSlot, Notify([pc EXCEPT ![t] = "out"])
    PROVE  /\ \A u \in Threads : pc'[u] # "timedout" /\ (u \in waiters' => pc'[u] = "waiting")
           /\ NoLostWakeup'
<1> DEFINE after == [pc EXCEPT ![t] = "out"]
<1> USE DEF WInv, IInv, TypeOK
<1>0. MaxSize \in Nat /\ Cardinality(Ready) \in Nat
    BY FiniteThreads, ConnectionPoolAssumption DEF Ready
<1>1. CASE waiters = {} /\ pc' = after /\ UNCHANGED waiters
    BY <1>1 DEF NoLostWakeup
<1>2. CASE \E w \in waiters :
              /\ waiters' = waiters \ {w}
              /\ pc' = IF after[w] = "waiting" THEN [after EXCEPT ![w] = "ready"] ELSE after
    <2>1. PICK w \in waiters :
              /\ waiters' = waiters \ {w}
              /\ pc' = IF after[w] = "waiting" THEN [after EXCEPT ![w] = "ready"] ELSE after
        BY <1>2
    <2>2. w \in Threads /\ w # t /\ pc[w] = "waiting"
        OBVIOUS
    <2>3. pc' = [after EXCEPT ![w] = "ready"]
        BY <2>1, <2>2
    <2>4. w \notin Ready /\ Ready' = Ready \cup {w}
        BY <2>2, <2>3 DEF Ready
    <2>5. Cardinality(Ready') = Cardinality(Ready) + 1
        BY <2>2, <2>4, ReadyGains
    <2>6. NoLostWakeup'
        BY <1>0, <2>1, <2>5 DEF NoLostWakeup, FreeSlot
    <2>7. \A u \in Threads : pc'[u] # "timedout" /\ (u \in waiters' => pc'[u] = "waiting")
        BY <2>1, <2>2, <2>3
    <2>8. QED
        BY <2>6, <2>7
<1>3. QED
    BY <1>1, <1>2 DEF Notify

LEMMA WakeupStep ==
    ASSUME ~Timeouts
    PROVE  WInv /\ [Next]_vars => WInv'
<1> SUFFICES ASSUME WInv, [Next]_vars
             PROVE  WInv'
    OBVIOUS
<1> DEFINE Sleepers == \A u \in Threads : pc[u] # "timedout" /\ (u \in waiters => pc[u] = "waiting")
<1>0. IInv'
    BY IInvStep DEF WInv
<1> USE DEF WInv, IInv, TypeOK
<1>a. MaxSize \in Nat /\ Cardinality(Ready) \in Nat
    BY FiniteThreads, ConnectionPoolAssumption DEF Ready
<1>1. ASSUME NEW t \in Threads, BeginAcquire(t) PROVE WInv'
    <2>1. t \notin Ready /\ Ready' = Ready \cup {t}
        BY <1>1 DEF BeginAcquire, Ready
    <2>2. Cardinality(Ready') = Cardinality(Ready) + 1
        BY <2>1, ReadyGains
    <2>3. NoLostWakeup'
        BY <1>1, <1>a, <2>2 DEF BeginAcquire, NoLostWakeup
    <2>4. late' = {} /\ Sleepers'
        BY <1>1 DEF BeginAcquire
    <2>5. QED
        BY <1>0, <2>3, <2>4
<1>2. ASSUME NEW t \in Threads, Expire(t) PROVE WInv'
    BY <1>2 DEF Expire
<1>3. ASSUME NEW t \in Threads, TakeIdle(t) \/ Reserve(t) PROVE WInv'
    <2>1. inUse' = inUse + 1 /\ UNCHANGED <<waiters, late>>
        BY <1>3 DEF TakeIdle, Reserve
    <2>2. t \in Ready /\ Ready' = Ready \ {t}
        BY <1>3 DEF TakeIdle, Reserve, Ready
    <2>3. Cardinality(Ready') = Cardinality(Ready) - 1
        BY <2>2, ReadyLoses
    <2>4. NoLostWakeup'
        BY <1>a, <2>1, <2>3 DEF NoLostWakeup
    <2>5. Sleepers'
        BY <1>3 DEF TakeIdle, Reserve
    <2>6. QED
        BY <1>0, <2>1, <2>4, <2>5
<1>4. ASSUME NEW t \in Threads, FindNothing(t) PROVE WInv'
    <2>1. /\ pc' = [pc EXCEPT ![t] = "waiting"]
          /\ waiters' = waiters \cup {t}
          /\ UNCHANGED <<inUse, late>>
        BY <1>4 DEF FindNothing
    <2>2. inUse >= MaxSize
        BY <1>4, <1>a DEF FindNothing, BelowMax
    <2>3. Cardinality(Ready') \in Nat
        BY FiniteThreads DEF Ready
    <2>4. NoLostWakeup'
        BY <1>a, <2>1, <2>2, <2>3 DEF NoLostWakeup
    <2>5. Sleepers'
        BY <2>1
    <2>6. QED
        BY <1>0, <2>1, <2>4, <2>5
<1>5. ASSUME NEW t \in Threads, RaiseExhausted(t) \/ WaitTimesOut(t) PROVE WInv'
    BY <1>5 DEF RaiseExhausted, WaitTimesOut
<1>6. ASSUME NEW t \in Threads, FactoryReturns(t) PROVE WInv'
    <2>1. Ready' = Ready /\ UNCHANGED <<inUse, waiters, late>>
        BY <1>6 DEF FactoryReturns, Ready
    <2>2. Sleepers'
        BY <1>6 DEF FactoryReturns
    <2>3. QED
        BY <1>0, <2>1, <2>2 DEF NoLostWakeup
<1>7. ASSUME NEW t \in Threads, FactoryRaises(t) \/ Checkin(t) PROVE WInv'
    <2>1. /\ pc[t] \in {"creating", "using"}
          /\ FreeSlot
          /\ Notify([pc EXCEPT ![t] = "out"])
          /\ UNCHANGED late
        BY <1>7 DEF FactoryRaises, Checkin
    <2>2. QED
        BY <1>0, <2>1, WakeupOnFree
<1>8. ASSUME NEW S \in SUBSET idle, CloseIdle(S) PROVE WInv'
    BY <1>0, <1>8 DEF CloseIdle, NoLostWakeup, Ready
<1>9. CASE UNCHANGED vars
    BY <1>0, <1>9 DEF vars, NoLostWakeup, Ready
<1>10. QED
    BY <1>1, <1>2, <1>3, <1>4, <1>5, <1>6, <1>7, <1>8, <1>9 DEF Next, Checkout, CallFactory

\* Without timeouts no notification of the condition variable is ever lost
\* (manager.py:81, 89): a sleeping thread implies that every free slot already
\* has a thread on its way to claim it.
THEOREM WakeupsSuffice ==
    ASSUME ~Timeouts
    PROVE  Spec => []NoLostWakeup
<1>1. Init => WInv
    BY InitIInv DEF Init, WInv, NoLostWakeup
<1>2. WInv /\ [Next]_vars => WInv'
    BY WakeupStep
<1>3. WInv => NoLostWakeup
    BY DEF WInv
<1>4. QED
    BY <1>1, <1>2, <1>3, PTL DEF Spec

-----------------------------------------------------------------------------
(* The pool implements BoundedPool.                                        *)

Pending == {t \in Threads : pc[t] \in {"ready", "waiting", "timedout", "creating"}}

\* The threads with a connection are fewer than the slots in use when one
\* more thread is still in the factory: connect() has room to return into.
LEMMA RoomForOneMore ==
    ASSUME IInv, NEW t \in Threads, pc[t] = "creating"
    PROVE  Cardinality(OpenConns) < MaxSize
<1> DEFINE Using == {u \in Threads : pc[u] = "using"}
           f == [u \in Using |-> held[u]]
<1> USE DEF IInv, TypeOK
<1>1. f \in Surjection(Using, HeldConns)
    BY DEF Surjection, HeldConns, Exclusive
<1>2. IsFiniteSet(Using) /\ Cardinality(Using) \in Nat
    BY FiniteThreads
<1>3. IsFiniteSet(HeldConns) /\ Cardinality(HeldConns) <= Cardinality(Using)
    BY <1>1, <1>2, FS_Surjection
<1>4. t \in Busy /\ Using \subseteq Busy \ {t}
    BY DEF Busy
<1>5. IsFiniteSet(Busy) /\ Cardinality(Busy) \in Nat
    BY FiniteThreads DEF Busy
<1>6. IsFiniteSet(Busy \ {t}) /\ Cardinality(Busy \ {t}) = Cardinality(Busy) - 1
    BY <1>4, <1>5, FS_RemoveElement
<1>7. Cardinality(Using) <= Cardinality(Busy) - 1
    BY <1>4, <1>6, FS_Subset
<1>8. IsFiniteSet(idle) /\ Cardinality(idle) \in Nat
    BY FiniteConns
<1>9. idle \cap HeldConns = {}
    BY DEF HeldConns, Exclusive
<1>10. Cardinality(idle \cap HeldConns) = 0
    BY <1>9, FS_EmptySet
<1>11. Cardinality(OpenConns) = Cardinality(idle) + Cardinality(HeldConns)
    <2>1. Cardinality(HeldConns) \in Nat
        BY <1>3, FS_CardinalityType
    <2>2. Cardinality(OpenConns)
              = Cardinality(idle) + Cardinality(HeldConns) - Cardinality(idle \cap HeldConns)
        BY <1>3, <1>8, FS_Union DEF OpenConns
    <2>3. QED
        BY <1>8, <1>10, <2>1, <2>2
<1>12. Cardinality(HeldConns) \in Nat
    BY <1>3, FS_CardinalityType
<1>13. MaxSize \in Nat
    BY ConnectionPoolAssumption
<1>14. QED
    BY <1>2, <1>3, <1>5, <1>7, <1>8, <1>11, <1>12, <1>13 DEF CountExact, Bounded

LEMMA RefineInit == Init => BP!AbsInit
BY DEF Init, BP!AbsInit

\* A slot given back: the notified waiter keeps asking, only t stops.
LEMMA FreeKeepsPending ==
    ASSUME TypeOK, NEW t \in Threads, Notify([pc EXCEPT ![t] = "out"])
    PROVE  Pending' = Pending \ {t}
<1>1. [pc EXCEPT ![t] = "out"] \in [Threads -> PCs]
    BY DEF TypeOK, PCs
<1>2. \A u \in Threads :
          \/ pc'[u] = [pc EXCEPT ![t] = "out"][u]
          \/ [pc EXCEPT ![t] = "out"][u] = "waiting" /\ pc'[u] = "ready"
    BY <1>1, NotifyEffect DEF TypeOK
<1>3. QED
    BY <1>2 DEF Pending, TypeOK

LEMMA RefineStep == IInv /\ [Next]_vars => [BP!AbsNext]_(BP!absVars)
<1> SUFFICES ASSUME IInv, [Next]_vars
             PROVE  BP!AbsNext \/ UNCHANGED <<idle, held, Pending>>
    BY DEF BP!absVars, Pending
<1> USE DEF IInv, TypeOK
<1>0. NoConn \notin Conns
    BY ConnectionPoolAssumption
<1>1. ASSUME NEW t \in Threads, BeginAcquire(t) PROVE BP!Ask(t)
    <2>1. held[t] = NoConn /\ UNCHANGED <<idle, held>>
        BY <1>1 DEF BeginAcquire, Exclusive
    <2>2. t \notin Pending /\ Pending' = Pending \cup {t}
        BY <1>1 DEF BeginAcquire, Pending
    <2>3. QED
        BY <2>1, <2>2 DEF BP!Ask, Pending
<1>2. ASSUME NEW t \in Threads, TakeIdle(t) PROVE \E c \in Conns : BP!Reuse(t, c)
    <2>1. PICK c \in idle : idle' = idle \ {c} /\ held' = [held EXCEPT ![t] = c]
        BY <1>2 DEF TakeIdle, PopIdle
    <2>2. t \in Pending /\ Pending' = Pending \ {t}
        BY <1>2 DEF TakeIdle, Pending
    <2>3. BP!Reuse(t, c)
        BY <2>1, <2>2 DEF BP!Reuse, Pending
    <2>4. QED
        BY <2>1, <2>3
<1>3. ASSUME NEW t \in Threads,
             \/ Expire(t) \/ Reserve(t) \/ WaitTimesOut(t)
      PROVE  UNCHANGED <<idle, held, Pending>>
    BY <1>3 DEF Expire, Reserve, WaitTimesOut, Pending
<1>4. ASSUME NEW t \in Threads, FindNothing(t)
      PROVE  BP!Refuse(t) \/ UNCHANGED <<idle, held, Pending>>
    <2>1. UNCHANGED <<idle, held>> /\ t \in Pending
        BY <1>4 DEF FindNothing, Pending
    <2>2. Pending' = Pending \/ Pending' = Pending \ {t}
        BY <1>4 DEF FindNothing, Pending
    <2>3. QED
        BY <2>1, <2>2 DEF BP!Refuse, Pending
<1>5. ASSUME NEW t \in Threads, RaiseExhausted(t) PROVE BP!Refuse(t)
    <2>1. UNCHANGED <<idle, held>> /\ t \in Pending /\ Pending' = Pending \ {t}
        BY <1>5 DEF RaiseExhausted, Pending
    <2>2. QED
        BY <2>1 DEF BP!Refuse, Pending
<1>6. ASSUME NEW t \in Threads, FactoryReturns(t) PROVE \E c \in Conns : BP!Open(t, c)
    <2>1. PICK c \in Conns \ OpenConns : held' = [held EXCEPT ![t] = c]
        BY <1>6 DEF FactoryReturns
    <2>2. UNCHANGED idle /\ t \in Pending /\ Pending' = Pending \ {t}
        BY <1>6 DEF FactoryReturns, Pending
    <2>3. Cardinality(OpenConns) < MaxSize
        BY <1>6, RoomForOneMore DEF FactoryReturns
    <2>4. BP!OpenConns = OpenConns
        BY DEF BP!OpenConns, BP!HeldConns, OpenConns, HeldConns
    <2>5. BP!Cardinality(OpenConns) = Cardinality(OpenConns)
        BY DEF BP!Cardinality, Cardinality
    <2>6. BP!Open(t, c)
        BY <2>1, <2>2, <2>3, <2>4, <2>5 DEF BP!Open, Pending
    <2>7. QED
        BY <2>1, <2>6
<1>7. ASSUME NEW t \in Threads, FactoryRaises(t) PROVE BP!Refuse(t)
    <2>1. UNCHANGED <<idle, held>> /\ t \in Pending
        BY <1>7 DEF FactoryRaises, Pending
    <2>2. Pending' = Pending \ {t}
        BY <1>7, FreeKeepsPending DEF FactoryRaises
    <2>3. QED
        BY <2>1, <2>2 DEF BP!Refuse, Pending
<1>8. ASSUME NEW t \in Threads, Checkin(t) PROVE BP!Release(t)
    <2>1. /\ held[t] # NoConn
          /\ idle' = idle \cup {held[t]}
          /\ held' = [held EXCEPT ![t] = NoConn]
        BY <1>8 DEF Checkin, Exclusive
    <2>2. t \notin Pending
        BY <1>8 DEF Checkin, Pending
    <2>3. Pending' = Pending
        BY <1>8, <2>2, FreeKeepsPending DEF Checkin
    <2>4. QED
        BY <2>1, <2>3 DEF BP!Release, Pending
<1>9. ASSUME NEW S \in SUBSET idle, CloseIdle(S) PROVE BP!Evict(S)
    BY <1>9 DEF CloseIdle, BP!Evict
<1>10. CASE UNCHANGED vars
    BY <1>10 DEF vars, Pending
<1>11. QED
    BY <1>1, <1>2, <1>3, <1>4, <1>5, <1>6, <1>7, <1>8, <1>9, <1>10
       DEF Next, Checkout, CallFactory, BP!AbsNext, BP!Answer

\* The lock, the counter and the condition variable of manager.py:44-109
\* implement the abstract pool, whatever the threads, connections and size.
THEOREM PoolRefinement == Spec => ImplementsBoundedPool
<1>1. IInv /\ [Next]_vars => [BP!AbsNext]_(BP!absVars)
    BY RefineStep
<1>2. QED
    BY <1>1, RefineInit, PoolInvariant, PTL DEF Spec, ImplementsBoundedPool, BP!AbsSpec
=============================================================================
