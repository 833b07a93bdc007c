----------------------- MODULE DatabaseManagerProofs ------------------------
(***************************************************************************)
(* Proofs about DatabaseManager, for every number of threads, connections  *)
(* and statements, and whatever faults occur.                              *)
(***************************************************************************)
EXTENDS DatabaseManager, TLAPS

\* What is known of a unit from where its thread is.
Progress(t) ==
    /\ held[t] # NoConn <=> pc[t] \in {"write", "commit", "unwind", "checkin"}
    /\ t \in asking <=> pc[t] = "asking"
    /\ done[t] <= Size(t)
    /\ pc[t] \in {"start", "asking"} => done[t] = 0
    /\ pc[t] \in {"start", "asking", "write", "commit"} => err[t] = "none"
    /\ pc[t] = "write" => done[t] < Size(t)
    /\ pc[t] = "commit" => done[t] = Size(t)
    /\ pc[t] = "unwind" => unit[t] = "transaction" /\ err[t] # "none"
    /\ pc[t] = "rollback" => RolledBackLate(t)
    /\ pc[t] \notin {"rollback", "done"} => lastConn[t] = NoConn

\* A connection has one holder, or is idle.
Separate ==
    /\ \A t \in Threads : held[t] \notin idle
    /\ \A t, u \in Threads : held[t] = held[u] /\ held[t] # NoConn => t = u

ProgressInv == DbmTypeOK /\ Separate /\ \A t \in Threads : Progress(t)

\* Which threads' writes an open transaction may have.
Unfinished(t, c) ==
    \/ held[t] = c /\ pc[t] \in {"write", "commit", "unwind"}
    \/ RolledBackLate(t)

PendingInv == \A c \in Conns : \A w \in wrote[c] : w[2] <= done[w[1]] /\ Unfinished(w[1], c)

\* Unless a late rollback hit it, a unit that is still going on has all its
\* writes on its connection.
CompleteInv ==
    \A t \in Threads \ hit :
        pc[t] \in {"write", "commit"} => \A k \in 1..done[t] : <<t, k>> \in wrote[held[t]]

Over(t) == pc[t] \in {"checkin", "done"} /\ err[t] = "none"

StoredInv ==
    /\ \A w \in db : w[2] <= done[w[1]] /\ (Over(w[1]) \/ RolledBackLate(w[1]))
    /\ \A t \in Threads \ hit : Over(t) => Writes(t) \subseteq db

\* A transaction is open on a connection that somebody holds or has yet to roll
\* back, or on one that a failed autocommit statement left so.
OpenFor(t, c) ==
    \/ held[t] = c /\ pc[t] # "checkin"
    \/ held[t] = c /\ unit[t] = "execute" /\ err[t] \in {"driver", "integrity"}
    \/ lastConn[t] = c /\ pc[t] = "rollback"
    \/ lastConn[t] = c /\ unit[t] = "execute" /\ err[t] = "integrity"

OpenInv == \A c \in Conns : inTx[c] \/ writer = c => \E t \in Threads : OpenFor(t, c)

-----------------------------------------------------------------------------
(* The places of threads and connections.                                  *)

LEMMA ProgressInit == DbmInit => ProgressInv
<1> SUFFICES ASSUME DbmInit PROVE ProgressInv
  OBVIOUS
<1> USE PoolAssumption, DatabaseManagerAssumption
<1>1. DbmTypeOK
  <2>1. inTx \in [Conns -> BOOLEAN] /\ wrote \in [Conns -> SUBSET (Threads \X (1..UnitSize))]
    BY DEF DbmInit
  <2>2. /\ unit \in [Threads -> {"execute", "transaction"}]
        /\ done \in [Threads -> 0..UnitSize]
    <3>1. unit \in [Threads -> UnitKinds]
      BY DEF DbmInit
    <3>2. unit \in [Threads -> {"execute", "transaction"}]
      BY <3>1, Zenon
    <3> QED  BY <3>2 DEF DbmInit
  <2>3. /\ pc \in [Threads -> {"start", "asking", "write", "commit", "unwind",
                               "checkin", "rollback", "done"}]
        /\ err \in [Threads -> {"none", "refused", "integrity", "driver", "body"}]
        /\ lastConn \in [Threads -> Conns \cup {NoConn}]
    BY DEF DbmInit
  <2> QED  BY <2>1, <2>2, <2>3 DEF DbmInit, AbsInit, DbmTypeOK, AbsTypeOK
<1>2. Separate
  BY DEF DbmInit, AbsInit, Separate
<1>3. \A t \in Threads : Progress(t)
  BY DEF DbmInit, AbsInit, Progress, Size
<1> QED  BY <1>1, <1>2, <1>3 DEF ProgressInv

\* Writes are typed by the threads and numbers they name.
LEMMA WriteType ==
    ASSUME DbmTypeOK
    PROVE  /\ \A c \in Conns : \A w \in wrote[c] :
                 w[1] \in Threads /\ w[2] \in 1..UnitSize /\ w = <<w[1], w[2]>>
           /\ \A w \in db : w[1] \in Threads /\ w[2] \in 1..UnitSize /\ w = <<w[1], w[2]>>
BY DEF DbmTypeOK

LEMMA SizeType == \A t \in Threads : Size(t) \in Nat \ {0} /\ Size(t) <= UnitSize
BY DatabaseManagerAssumption DEF Size

LEMMA DiscardEffect ==
    ASSUME DbmTypeOK, NEW S, Discard(S)
    PROVE  /\ wrote' \in [Conns -> SUBSET (Threads \X (1..UnitSize))]
           /\ inTx' \in [Conns -> BOOLEAN]
           /\ writer' \in Conns \cup {NoConn}
           /\ \A c \in Conns : wrote'[c] = IF c \in S THEN {} ELSE wrote[c]
           /\ \A c \in Conns : inTx'[c] => inTx[c] /\ c \notin S
           /\ \A c \in Conns : writer' = c => writer = c /\ c \notin S
<1> USE PoolAssumption
<1>1. /\ wrote' \in [Conns -> SUBSET (Threads \X (1..UnitSize))]
      /\ \A c \in Conns : wrote'[c] = IF c \in S THEN {} ELSE wrote[c]
  BY DEF Discard, DbmTypeOK
<1>2. inTx' \in [Conns -> BOOLEAN] /\ \A c \in Conns : inTx'[c] => inTx[c] /\ c \notin S
  BY Zenon DEF Discard, DbmTypeOK
<1>3. writer' \in Conns \cup {NoConn} /\ \A c \in Conns : writer' = c => writer = c /\ c \notin S
  BY DEF Discard, DbmTypeOK
<1> QED  BY <1>1, <1>2, <1>3

\* Only t moves on.
Others(t) ==
    \A u \in Threads \ {t} :
        /\ pc'[u] = pc[u] /\ err'[u] = err[u] /\ done'[u] = done[u]
        /\ held'[u] = held[u] /\ lastConn'[u] = lastConn[u]
        /\ (u \in asking' <=> u \in asking)

LEMMA ProgressKept ==
    ASSUME ProgressInv, NEW t \in Threads, Others(t), unit' = unit, Progress(t)'
    PROVE  \A u \in Threads : Progress(u)'
BY DEF ProgressInv, Others, Progress, Size, RolledBackLate

\* What each step of a unit does to the variables of its own thread.
LEMMA RequestTypes ==
    ASSUME ProgressInv, NEW t \in Threads, Request(t)
    PROVE  DbmTypeOK'
<1> USE PoolAssumption, DatabaseManagerAssumption DEF ProgressInv, DbmTypeOK, AbsTypeOK, Goto
<1>1. CASE BeginUnit(t)
  BY <1>1 DEF BeginUnit, Ask, connVars
<1>2. CASE Acquire(t)
  BY <1>2 DEF Acquire, Reuse, Open, connVars
<1>3. CASE AcquireFails(t)
  BY <1>3 DEF AcquireFails, Refuse, connVars
<1>4. CASE StatementSucceeds(t)
  <2>1. /\ pc[t] = "write" /\ held[t] \in Conns
        /\ done[t] < Size(t) /\ done[t] + 1 \in 1..UnitSize
    BY <1>4, SizeType DEF StatementSucceeds, Progress
  <2>2. done' \in [Threads -> 0..UnitSize]
    BY <1>4, <2>1 DEF StatementSucceeds
  <2>3. wrote' \in [Conns -> SUBSET (Threads \X (1..UnitSize))]
    BY <1>4, <2>1 DEF StatementSucceeds
  <2>4. inTx' \in [Conns -> BOOLEAN] /\ writer' \in Conns \cup {NoConn}
    BY <1>4, <2>1 DEF StatementSucceeds
  <2>5. pc' \in [Threads -> {"start", "asking", "write", "commit", "unwind",
                             "checkin", "rollback", "done"}]
    BY <1>4 DEF StatementSucceeds, AfterWrite
  <2>6. UNCHANGED <<idle, held, asking, unit, err, lastConn, db, hit>>
    BY <1>4 DEF StatementSucceeds
  <2> QED  BY <2>2, <2>3, <2>4, <2>5, <2>6
<1>5. CASE \E kind \in {"integrity", "driver", "body"} : pc[t] = "write" /\ Raise(t, kind)
             /\ inTx' \in [Conns -> BOOLEAN] /\ writer' \in Conns \cup {NoConn}
             /\ UNCHANGED wrote
  BY <1>5 DEF Raise, AfterRaise
<1>6. CASE CommitSucceeds(t)
  <2>1. db' \subseteq Threads \X (1..UnitSize)
    BY <1>6 DEF CommitSucceeds, Persist, Progress
  <2> QED  BY <1>6, <2>1, DiscardEffect DEF CommitSucceeds
<1>7. CASE CommitFails(t)
  BY <1>7 DEF CommitFails, Raise, AfterRaise, connVars
<1>8. CASE Unwind(t)
  BY <1>8, DiscardEffect DEF Unwind
<1>9. CASE LeavePool(t)
  BY <1>9 DEF LeavePool, Release, AfterCheckin, connVars
<1>10. CASE LateRollback(t)
  BY <1>10, DiscardEffect DEF LateRollback
<1>11. CASE StatementConflicts(t) \/ StatementBusy(t)
  <2>1. held[t] \in Conns
    BY <1>11 DEF StatementConflicts, StatementBusy, Progress
  <2>2. inTx' \in [Conns -> BOOLEAN] /\ writer' \in Conns \cup {NoConn} /\ UNCHANGED wrote
    BY <1>11, <2>1 DEF StatementConflicts, StatementBusy
  <2> QED  BY <1>5, <1>11, <2>2 DEF StatementConflicts, StatementBusy
<1>12. CASE StatementErrors(t) \/ BodyRaises(t)
  BY <1>5, <1>12 DEF StatementErrors, BodyRaises, connVars
<1> QED  BY <1>1, <1>2, <1>3, <1>4, <1>6, <1>7, <1>8, <1>9, <1>10, <1>11, <1>12 DEF Request

LEMMA RequestProgress ==
    ASSUME ProgressInv, NEW t \in Threads, Request(t)
    PROVE  Others(t) /\ unit' = unit /\ Progress(t)' /\ Separate'
<1> USE PoolAssumption DEF ProgressInv, DbmTypeOK, AbsTypeOK, Goto
<1>0. Progress(t) /\ Separate /\ Size(t) \in Nat \ {0} /\ done[t] \in Nat
  BY SizeType
<1>1. CASE BeginUnit(t)
  <2>1. Others(t) /\ unit' = unit /\ Separate'
    BY <1>0, <1>1 DEF BeginUnit, Ask, Others, Separate
  <2>2. Progress(t)'
    BY <1>0, <1>1 DEF BeginUnit, Ask, Progress, Size
  <2> QED  BY <2>1, <2>2
<1>2. CASE Acquire(t)
  <2>1. PICK c \in Conns : Reuse(t, c) \/ Open(t, c)
    BY <1>2 DEF Acquire
  <2>2. /\ c # NoConn /\ \A u \in Threads : held[u] # c
        /\ held' = [held EXCEPT ![t] = c] /\ asking' = asking \ {t}
        /\ idle' = idle \ {c}
    BY <1>0, <2>1 DEF Reuse, Open, OpenConns, HeldConns, Separate
  <2>3. pc[t] = "asking" /\ done[t] = 0 /\ err[t] = "none"
    BY <1>0, <2>1 DEF Reuse, Open, Progress
  <2>4. Progress(t)'
    BY <1>0, <1>2, <2>2, <2>3 DEF Acquire, Progress, Size
  <2>5. Others(t) /\ unit' = unit /\ Separate'
    BY <1>0, <1>2, <2>2 DEF Acquire, Others, Separate
  <2> QED  BY <2>4, <2>5
<1>3. CASE AcquireFails(t)
  <2>1. Others(t) /\ unit' = unit /\ Separate'
    BY <1>0, <1>3 DEF AcquireFails, Refuse, Others, Separate
  <2>2. Progress(t)'
    BY <1>0, <1>3 DEF AcquireFails, Refuse, Progress, Size
  <2> QED  BY <2>1, <2>2
<1>4. CASE StatementSucceeds(t)
  <2>1. Others(t) /\ unit' = unit /\ Separate'
    BY <1>0, <1>4 DEF StatementSucceeds, Others, Separate
  <2>2. Progress(t)'
    BY <1>0, <1>4 DEF StatementSucceeds, AfterWrite, Progress, Size
  <2> QED  BY <2>1, <2>2
<1>5. CASE \E kind \in {"integrity", "driver", "body"} :
              pc[t] \in {"write", "commit"} /\ Raise(t, kind)
  <2>1. Others(t) /\ unit' = unit /\ Separate'
    BY <1>0, <1>5 DEF Raise, Others, Separate
  <2>2. Progress(t)'
    BY <1>0, <1>5 DEF Raise, AfterRaise, Progress, Size
  <2> QED  BY <2>1, <2>2
<1>6. CASE CommitSucceeds(t) \/ Unwind(t)
  <2>1. Others(t) /\ unit' = unit /\ Separate'
    BY <1>0, <1>6 DEF CommitSucceeds, Unwind, Others, Separate
  <2>2. Progress(t)'
    BY <1>0, <1>6 DEF CommitSucceeds, Unwind, Progress, Size
  <2> QED  BY <2>1, <2>2
<1>7. CASE LeavePool(t)
  <2>1. Others(t) /\ unit' = unit /\ Separate'
    BY <1>0, <1>7 DEF LeavePool, Release, Others, Separate
  <2>2. Progress(t)'
    BY <1>0, <1>7 DEF LeavePool, Release, AfterCheckin, Progress, Size, RolledBackLate
  <2> QED  BY <2>1, <2>2
<1>8. CASE LateRollback(t)
  <2>1. Others(t) /\ unit' = unit /\ Separate'
    BY <1>0, <1>8 DEF LateRollback, Others, Separate
  <2>2. Progress(t)'
    BY <1>0, <1>8 DEF LateRollback, Progress, Size
  <2> QED  BY <2>1, <2>2
<1> QED  BY <1>1, <1>2, <1>3, <1>4, <1>5, <1>6, <1>7, <1>8
         DEF Request, StatementConflicts, StatementBusy, StatementErrors, BodyRaises, CommitFails

LEMMA ProgressNext == ProgressInv /\ [DbmNext]_dbmVars => ProgressInv'
<1> SUFFICES ASSUME ProgressInv, [DbmNext]_dbmVars PROVE ProgressInv'
  OBVIOUS
<1>1. ASSUME NEW t \in Threads, Request(t) PROVE ProgressInv'
  BY <1>1, RequestTypes, RequestProgress, ProgressKept DEF ProgressInv
<1>2. ASSUME NEW S \in SUBSET idle, CloseIdleConnections(S) PROVE ProgressInv'
  <2>1. lastConn' \in [Threads -> Conns \cup {NoConn}]
    BY <1>2 DEF CloseIdleConnections, ProgressInv, DbmTypeOK
  <2>2. DbmTypeOK'
    BY <1>2, <2>1, DiscardEffect
       DEF CloseIdleConnections, Evict, unitVars, ProgressInv, DbmTypeOK, AbsTypeOK
  <2>3. Separate'
    BY <1>2 DEF CloseIdleConnections, Evict, ProgressInv, Separate
  <2>4. \A t \in Threads : Progress(t)'
    BY <1>2 DEF CloseIdleConnections, Evict, unitVars, ProgressInv, Progress, Size,
                RolledBackLate
  <2> QED  BY <2>2, <2>3, <2>4 DEF ProgressInv
<1>3. CASE UNCHANGED dbmVars
  BY <1>3 DEF dbmVars, ProgressInv, DbmTypeOK, AbsTypeOK, Separate, Progress, Size, RolledBackLate
<1> QED  BY <1>1, <1>2, <1>3 DEF DbmNext

\* The variables keep their types.
THEOREM DbmTypeCorrect == DbmSpec => []DbmTypeOK
<1>1. ProgressInv => DbmTypeOK
  BY DEF ProgressInv
<1> QED  BY <1>1, ProgressInit, ProgressNext, PTL DEF DbmSpec

LEMMA ProgressInvariant == DbmSpec => []ProgressInv
BY ProgressInit, ProgressNext, PTL DEF DbmSpec
-----------------------------------------------------------------------------
(* The writes of a unit.                                                   *)

WriteInv == PendingInv /\ CompleteInv /\ StoredInv

\* A step of t that writes nothing and loses nothing only has to place t's own
\* writes where they belong.
LEMMA WritesStay ==
    ASSUME ProgressInv, WriteInv, NEW t \in Threads, Others(t), unit' = unit,
           \A c \in Conns : wrote'[c] \subseteq wrote[c], UNCHANGED <<db, done>>, hit \subseteq hit',
           \A c \in Conns : \A w \in wrote'[c] : w[1] = t => Unfinished(t, c)',
           \A w \in db : w[1] = t => Over(t)' \/ RolledBackLate(t)',
           t \notin hit' /\ Over(t)' => Writes(t) \subseteq db,
           \A u \in Threads \ hit' : pc'[u] \in {"write", "commit"} =>
               \A k \in 1..done[u] : <<u, k>> \in wrote'[held'[u]]
    PROVE  WriteInv'
<1>1. PendingInv'
  <2> SUFFICES ASSUME NEW c \in Conns, NEW w \in wrote'[c]
               PROVE  w[2] <= done'[w[1]] /\ Unfinished(w[1], c)'
    BY DEF PendingInv
  <2>1. w \in wrote[c] /\ w[1] \in Threads
    BY WriteType DEF ProgressInv
  <2>2. w[2] <= done[w[1]] /\ Unfinished(w[1], c)
    BY <2>1 DEF WriteInv, PendingInv
  <2>3. CASE w[1] = t
    BY <2>2, <2>3
  <2>4. CASE w[1] # t
    BY <2>1, <2>2, <2>4 DEF Others, Unfinished, RolledBackLate
  <2> QED  BY <2>3, <2>4
<1>2. CompleteInv'
  BY DEF CompleteInv
<1>3. StoredInv'
  <2>1. ASSUME NEW w \in db'
        PROVE  w[2] <= done'[w[1]] /\ (Over(w[1])' \/ RolledBackLate(w[1])')
    <3>1. w \in db /\ w[1] \in Threads /\ w[2] <= done[w[1]]
      BY <2>1, WriteType DEF ProgressInv, WriteInv, StoredInv
    <3>2. CASE w[1] = t
      BY <3>1, <3>2
    <3>3. CASE w[1] # t
      BY <3>1, <3>3 DEF Others, WriteInv, StoredInv, Over, RolledBackLate
    <3> QED  BY <3>1, <3>2, <3>3
  <2>2. ASSUME NEW u \in Threads \ hit', Over(u)' PROVE Writes(u)' \subseteq db'
    <3>1. Writes(u)' = Writes(u)
      BY DEF Writes, Size
    <3>2. CASE u = t
      BY <2>2, <3>1, <3>2
    <3>3. CASE u # t
      BY <2>2, <3>1, <3>3 DEF Others, WriteInv, StoredInv, Over
    <3> QED  BY <3>2, <3>3
  <2> QED  BY <2>1, <2>2 DEF StoredInv
<1> QED  BY <1>1, <1>2, <1>3 DEF WriteInv

\* A thread that has not written has nothing pending and nothing stored.
LEMMA NothingWritten ==
    ASSUME ProgressInv, WriteInv, NEW t \in Threads, done[t] = 0
    PROVE  /\ \A c \in Conns : \A w \in wrote[c] : w[1] # t
           /\ \A w \in db : w[1] # t
BY WriteType DEF ProgressInv, WriteInv, PendingInv, StoredInv

\* The writes of a unit that goes on are on its connection, and not stored.
LEMMA GoesOn ==
    ASSUME ProgressInv, WriteInv, NEW t \in Threads, ~RolledBackLate(t)
    PROVE  /\ \A c \in Conns : \A w \in wrote[c] : w[1] = t =>
                 held[t] = c /\ pc[t] \in {"write", "commit", "unwind"}
           /\ \A w \in db : w[1] = t => Over(t)
BY DEF WriteInv, PendingInv, StoredInv, Unfinished

LEMMA WriteInit == DbmInit => WriteInv
BY DEF DbmInit, WriteInv, PendingInv, CompleteInv, StoredInv, Over

LEMMA WriteNext == ProgressInv /\ WriteInv /\ [DbmNext]_dbmVars => WriteInv'
<1> SUFFICES ASSUME ProgressInv, WriteInv, [DbmNext]_dbmVars PROVE WriteInv'
  OBVIOUS
<1> USE DEF Goto
<1>0. DbmTypeOK /\ DbmTypeOK' /\ ProgressInv'
  BY ProgressNext DEF ProgressInv
<1>1. ASSUME NEW t \in Threads, BeginUnit(t) \/ Acquire(t) \/ AcquireFails(t)
      PROVE  WriteInv'
  <2>1. Others(t) /\ unit' = unit
    BY <1>1, RequestProgress DEF Request
  <2>2. UNCHANGED <<wrote, db, done, hit>> /\ done[t] = 0
    <3>1. pc[t] \in {"start", "asking"}
      BY <1>1 DEF BeginUnit, Acquire, AcquireFails, Reuse, Open, Refuse, ProgressInv, Progress
    <3>2. UNCHANGED <<wrote, db, done, hit>>
      BY <1>1 DEF BeginUnit, Acquire, AcquireFails, connVars
    <3> QED  BY <3>1, <3>2 DEF ProgressInv, Progress
  <2>3. ~Over(t)'
    BY <1>0, <1>1 DEF BeginUnit, Acquire, AcquireFails, Over, DbmTypeOK
  <2>4. \A u \in Threads \ hit' : pc'[u] \in {"write", "commit"} =>
            \A k \in 1..done[u] : <<u, k>> \in wrote'[held'[u]]
    BY <2>1, <2>2 DEF Others, WriteInv, CompleteInv
  <2> QED  BY <2>1, <2>2, <2>3, <2>4, NothingWritten, WritesStay
<1>2. ASSUME NEW t \in Threads, StatementSucceeds(t)
      PROVE  WriteInv'
  <2> DEFINE c == held[t]
             w == <<t, done[t] + 1>>
  <2>1. Others(t) /\ unit' = unit
    BY <1>2, RequestProgress DEF Request
  <2>2. /\ pc[t] = "write" /\ err[t] = "none" /\ c \in Conns /\ done[t] \in Nat
        /\ done[t] < Size(t)
    BY <1>0, <1>2 DEF StatementSucceeds, ProgressInv, Progress, DbmTypeOK, AbsTypeOK
  <2>3. /\ wrote'[c] = wrote[c] \cup {w}
        /\ \A d \in Conns \ {c} : wrote'[d] = wrote[d]
        /\ done'[t] = done[t] + 1 /\ pc'[t] \in {"write", "commit"}
        /\ UNCHANGED <<held, err, db, hit>>
    BY <1>0, <1>2, <2>2 DEF StatementSucceeds, AfterWrite, DbmTypeOK
  <2>4. ~RolledBackLate(t) /\ ~RolledBackLate(t)' /\ ~Over(t) /\ ~Over(t)'
    BY <2>2, <2>3 DEF RolledBackLate, Over
  <2>5. PendingInv'
    <3> SUFFICES ASSUME NEW d \in Conns, NEW x \in wrote'[d]
                 PROVE  x[2] <= done'[x[1]] /\ Unfinished(x[1], d)'
      BY DEF PendingInv
    <3>1. CASE x = w /\ d = c
      BY <2>2, <2>3, <3>1 DEF Unfinished
    <3>2. CASE x \in wrote[d]
      <4>1. /\ x[1] \in Threads /\ x[2] \in Nat
            /\ x[2] <= done[x[1]] /\ Unfinished(x[1], d)
        BY <1>0, <3>2, WriteType DEF WriteInv, PendingInv
      <4>2. CASE x[1] = t
        BY <2>2, <2>3, <2>4, <4>1, <4>2 DEF Unfinished
      <4>3. CASE x[1] # t
        BY <2>1, <4>1, <4>3 DEF Others, Unfinished, RolledBackLate
      <4> QED  BY <4>2, <4>3
    <3> QED  BY <2>3, <3>1, <3>2
  <2>6. CompleteInv'
    <3> SUFFICES ASSUME NEW u \in Threads \ hit, pc'[u] \in {"write", "commit"},
                        NEW k \in 1..done'[u]
                 PROVE  <<u, k>> \in wrote'[held'[u]]
      BY <2>3 DEF CompleteInv
    <3>1. CASE u = t
      <4>1. k \in 1..done[t] \/ k = done[t] + 1
        BY <2>2, <2>3, <3>1
      <4> QED  BY <2>2, <2>3, <3>1, <4>1 DEF WriteInv, CompleteInv
    <3>2. CASE u # t
      <4>1. pc[u] \in {"write", "commit"} /\ k \in 1..done[u] /\ held[u] \in Conns
        BY <1>0, <2>1, <3>2 DEF Others, ProgressInv, Progress, DbmTypeOK, AbsTypeOK
      <4> QED  BY <2>3, <4>1 DEF WriteInv, CompleteInv
    <3> QED  BY <3>1, <3>2
  <2>7. StoredInv'
    <3>1. \A x \in db : x[1] # t
      BY <2>4, GoesOn
    <3>2. \A x \in db' : x[2] <= done'[x[1]] /\ (Over(x[1])' \/ RolledBackLate(x[1])')
      BY <1>0, <2>1, <2>3, <3>1, WriteType
         DEF Others, WriteInv, StoredInv, Over, RolledBackLate
    <3>3. \A u \in Threads \ hit' : Over(u)' => Writes(u)' \subseteq db'
      BY <2>1, <2>3, <2>4 DEF Others, WriteInv, StoredInv, Over, Writes, Size
    <3> QED  BY <3>2, <3>3 DEF StoredInv
  <2> QED  BY <2>5, <2>6, <2>7 DEF WriteInv
<1>3. ASSUME NEW t \in Threads, NEW kind \in {"integrity", "driver", "body"},
             pc[t] \in {"write", "commit"}, Raise(t, kind), UNCHANGED wrote,
             unit[t] = "execute" /\ done[t] # 0 => kind = "driver", Request(t)
      PROVE  WriteInv'
  <2>1. Others(t) /\ unit' = unit
    BY <1>3, RequestProgress
  <2>2. /\ err'[t] = kind /\ pc'[t] = AfterRaise(t) /\ pc'[t] \notin {"write", "commit"}
        /\ UNCHANGED <<held, db, done, hit>>
    BY <1>0, <1>3 DEF Raise, AfterRaise, DbmTypeOK
  <2>3. err[t] = "none" /\ ~RolledBackLate(t) /\ ~Over(t) /\ ~Over(t)'
    BY <1>3, <2>2 DEF ProgressInv, Progress, RolledBackLate, Over
  <2>4. \A c \in Conns : \A w \in wrote[c] : w[1] = t => Unfinished(t, c)'
    <3>1. CASE unit[t] = "transaction"
      BY <1>3, <2>1, <2>2, <2>3, <3>1, GoesOn DEF Unfinished, AfterRaise
    <3>2. CASE unit[t] = "execute" /\ done[t] = 0
      BY <3>2, NothingWritten
    <3>3. CASE unit[t] = "execute" /\ kind = "driver"
      BY <2>1, <2>2, <3>3 DEF Unfinished, RolledBackLate
    <3> QED  BY <1>0, <1>3, <3>1, <3>2, <3>3 DEF DbmTypeOK
  <2>5. \A w \in db : w[1] # t
    BY <2>3, GoesOn
  <2>6. \A u \in Threads \ hit' : pc'[u] \in {"write", "commit"} =>
            \A k \in 1..done[u] : <<u, k>> \in wrote'[held'[u]]
    BY <1>3, <2>1, <2>2 DEF Others, WriteInv, CompleteInv
  <2> QED  BY <1>3, <2>1, <2>2, <2>3, <2>4, <2>5, <2>6, WritesStay
<1>4. ASSUME NEW t \in Threads, CommitSucceeds(t)
      PROVE  WriteInv'
  <2> DEFINE c == held[t]
  <2>1. Others(t) /\ unit' = unit
    BY <1>4, RequestProgress DEF Request
  <2>2. /\ pc[t] = "commit" /\ err[t] = "none" /\ c \in Conns /\ done[t] = Size(t)
        /\ \A u \in Threads \ {t} : held[u] # c
    BY <1>0, <1>4 DEF CommitSucceeds, ProgressInv, Progress, Separate, DbmTypeOK, AbsTypeOK
  <2>3. /\ db' = db \cup wrote[c]
        /\ \A d \in Conns : wrote'[d] = IF d = c THEN {} ELSE wrote[d]
        /\ pc'[t] = "checkin" /\ UNCHANGED <<held, done, err, hit>>
    BY <1>0, <1>4, DiscardEffect DEF CommitSucceeds, Persist, DbmTypeOK
  <2>4. ~RolledBackLate(t) /\ Over(t)'
    BY <2>2, <2>3 DEF RolledBackLate, Over
  <2>5. PendingInv'
    <3> SUFFICES ASSUME NEW d \in Conns, NEW x \in wrote'[d]
                 PROVE  x[2] <= done'[x[1]] /\ Unfinished(x[1], d)'
      BY DEF PendingInv
    <3>1. d # c /\ x \in wrote[d] /\ x[1] \in Threads
      BY <1>0, <2>3, WriteType
    <3>2. x[2] <= done[x[1]] /\ Unfinished(x[1], d) /\ x[1] # t
      BY <2>4, <3>1, GoesOn DEF WriteInv, PendingInv
    <3> QED  BY <2>1, <2>3, <3>1, <3>2 DEF Others, Unfinished, RolledBackLate
  <2>6. CompleteInv'
    <3> SUFFICES ASSUME NEW u \in Threads \ hit, pc'[u] \in {"write", "commit"},
                        NEW k \in 1..done[u]
                 PROVE  <<u, k>> \in wrote'[held[u]]
      BY <2>3 DEF CompleteInv
    <3>1. u # t /\ pc[u] \in {"write", "commit"} /\ held[u] # c
      BY <2>1, <2>2, <2>3 DEF Others
    <3>2. held[u] \in Conns
      BY <1>0, <3>1 DEF ProgressInv, Progress, DbmTypeOK, AbsTypeOK
    <3> QED  BY <2>3, <3>1, <3>2 DEF WriteInv, CompleteInv
  <2>7. StoredInv'
    <3>1. ASSUME NEW x \in db'
          PROVE  x[2] <= done'[x[1]] /\ (Over(x[1])' \/ RolledBackLate(x[1])')
      <4>1. x[1] \in Threads
        BY <1>0, <2>2, <2>3, <3>1, WriteType
      <4>2. CASE x \in db
        BY <2>1, <2>3, <2>4, <4>1, <4>2 DEF Others, WriteInv, StoredInv, Over, RolledBackLate
      <4>3. CASE x \in wrote[c]
        <5>1. x[2] <= done[x[1]] /\ Unfinished(x[1], c)
          BY <2>2, <4>3 DEF WriteInv, PendingInv
        <5>2. x[1] = t \/ RolledBackLate(x[1])
          BY <2>2, <4>1, <5>1 DEF Unfinished
        <5> QED  BY <2>1, <2>3, <2>4, <5>1, <5>2 DEF RolledBackLate
      <4> QED  BY <2>3, <4>2, <4>3
    <3>2. ASSUME NEW u \in Threads \ hit', Over(u)' PROVE Writes(u)' \subseteq db'
      <4>1. Writes(u)' = Writes(u)
        BY <2>1 DEF Writes, Size
      <4>2. CASE u = t
        BY <2>2, <2>3, <3>2, <4>1, <4>2 DEF WriteInv, CompleteInv, Writes
      <4>3. CASE u # t
        BY <2>1, <2>3, <3>2, <4>1, <4>3 DEF Others, WriteInv, StoredInv, Over
      <4> QED  BY <4>2, <4>3
    <3> QED  BY <3>1, <3>2 DEF StoredInv
  <2> QED  BY <2>5, <2>6, <2>7 DEF WriteInv
<1>5. ASSUME NEW t \in Threads, Unwind(t)
      PROVE  WriteInv'
  <2>1. Others(t) /\ unit' = unit
    BY <1>5, RequestProgress DEF Request
  <2>2. /\ pc[t] = "unwind" /\ err[t] # "none" /\ unit[t] = "transaction" /\ held[t] \in Conns
        /\ \A u \in Threads \ {t} : held[u] # held[t]
    BY <1>0, <1>5 DEF Unwind, ProgressInv, Progress, Separate, DbmTypeOK, AbsTypeOK
  <2>3. /\ \A d \in Conns : wrote'[d] = IF d = held[t] THEN {} ELSE wrote[d]
        /\ pc'[t] = "checkin" /\ UNCHANGED <<held, done, err, db, hit>>
    BY <1>0, <1>5, DiscardEffect DEF Unwind, DbmTypeOK
  <2>4. ~RolledBackLate(t) /\ ~Over(t) /\ ~Over(t)'
    BY <2>2, <2>3 DEF RolledBackLate, Over
  <2>5. /\ \A c \in Conns : \A w \in wrote'[c] : w[1] # t
        /\ \A w \in db : w[1] # t
    BY <2>3, <2>4, GoesOn
  <2>6. \A u \in Threads \ hit' : pc'[u] \in {"write", "commit"} =>
            \A k \in 1..done[u] : <<u, k>> \in wrote'[held'[u]]
    <3> SUFFICES ASSUME NEW u \in Threads \ hit, pc'[u] \in {"write", "commit"},
                        NEW k \in 1..done[u]
                 PROVE  <<u, k>> \in wrote'[held[u]]
      BY <2>3
    <3>1. u # t /\ pc[u] \in {"write", "commit"} /\ held[u] # held[t]
      BY <2>1, <2>2, <2>3 DEF Others
    <3>2. held[u] \in Conns
      BY <1>0, <3>1 DEF ProgressInv, Progress, DbmTypeOK, AbsTypeOK
    <3> QED  BY <2>3, <3>1, <3>2 DEF WriteInv, CompleteInv
  <2> QED  BY <2>1, <2>3, <2>4, <2>5, <2>6, WritesStay
<1>6. ASSUME NEW t \in Threads, LeavePool(t)
      PROVE  WriteInv'
  <2>1. Others(t) /\ unit' = unit
    BY <1>6, RequestProgress DEF Request
  <2>2. /\ pc[t] = "checkin" /\ pc'[t] \in {"rollback", "done"}
        /\ UNCHANGED <<wrote, done, err, db, hit>>
    BY <1>0, <1>6 DEF LeavePool, AfterCheckin, connVars, DbmTypeOK
  <2>3. /\ RolledBackLate(t)' <=> RolledBackLate(t)
        /\ Over(t)' => Over(t)
        /\ ~RolledBackLate(t) => (Over(t) => Over(t)')
    BY <1>6, <2>1, <2>2 DEF LeavePool, AfterCheckin, RolledBackLate, Over, ProgressInv, DbmTypeOK
  <2>4. \A c \in Conns : \A w \in wrote[c] : w[1] = t => RolledBackLate(t)
    BY <2>2, GoesOn
  <2>5. \A w \in db : w[1] = t => Over(t)' \/ RolledBackLate(t)'
    BY <2>3, GoesOn
  <2>6. t \notin hit' /\ Over(t)' => Writes(t) \subseteq db
    BY <2>2, <2>3 DEF WriteInv, StoredInv
  <2>7. \A u \in Threads \ hit' : pc'[u] \in {"write", "commit"} =>
            \A k \in 1..done[u] : <<u, k>> \in wrote'[held'[u]]
    BY <2>1, <2>2 DEF Others, WriteInv, CompleteInv
  <2>8. \A c \in Conns : \A w \in wrote'[c] : w[1] = t => Unfinished(t, c)'
    BY <2>2, <2>3, <2>4 DEF Unfinished
  <2> QED  BY <2>1, <2>2, <2>5, <2>6, <2>7, <2>8, WritesStay
<1>7. ASSUME NEW t \in Threads, LateRollback(t)
      PROVE  WriteInv'
  <2>1. Others(t) /\ unit' = unit
    BY <1>7, RequestProgress DEF Request
  <2>2. /\ RolledBackLate(t) /\ pc'[t] = "done" /\ UNCHANGED <<held, done, err, db>>
        /\ \A d \in Conns : wrote'[d] = IF d \in {lastConn[t]} THEN {} ELSE wrote[d]
    BY <1>0, <1>7, DiscardEffect DEF LateRollback, ProgressInv, Progress, DbmTypeOK
  <2>3. /\ hit \subseteq hit'
        /\ \A u \in Threads \ {t} : \A c \in Conns :
              c = lastConn[t] /\ WritesOn(c, u) => u \in hit'
    BY <1>7 DEF LateRollback
  <2>4. RolledBackLate(t)' /\ ~Over(t)'
    BY <2>1, <2>2 DEF RolledBackLate, Over
  <2>5. \A u \in Threads \ hit' : pc'[u] \in {"write", "commit"} =>
            \A k \in 1..done[u] : <<u, k>> \in wrote'[held'[u]]
    <3> SUFFICES ASSUME NEW u \in Threads \ hit', pc'[u] \in {"write", "commit"},
                        NEW k \in 1..done[u]
                 PROVE  <<u, k>> \in wrote'[held[u]]
      BY <2>2
    <3>1. u # t /\ pc[u] \in {"write", "commit"}
      BY <2>1, <2>2 DEF Others
    <3>2. held[u] \in Conns /\ <<u, k>> \in wrote[held[u]]
      BY <1>0, <2>3, <3>1 DEF ProgressInv, Progress, DbmTypeOK, AbsTypeOK, WriteInv, CompleteInv
    <3>3. WritesOn(held[u], u)
      BY <3>2 DEF WritesOn
    <3>4. held[u] # lastConn[t]
      BY <2>3, <3>1, <3>2, <3>3
    <3> QED  BY <2>2, <3>2, <3>4
  <2> QED  BY <2>1, <2>2, <2>3, <2>4, <2>5, WritesStay DEF Unfinished
<1>8. ASSUME NEW S \in SUBSET idle, CloseIdleConnections(S)
      PROVE  WriteInv'
  <2>1. /\ UNCHANGED <<held, pc, unit, done, err, db, hit>>
        /\ \A d \in Conns : wrote'[d] = IF d \in S THEN {} ELSE wrote[d]
    BY <1>0, <1>8, DiscardEffect DEF CloseIdleConnections, Evict, unitVars
  <2>2. \A u \in Threads : pc[u] \in {"write", "commit"} => held[u] \in Conns \ S
    BY <1>0 DEF ProgressInv, Progress, Separate, DbmTypeOK, AbsTypeOK
  <2>3. PendingInv'
    BY <2>1 DEF WriteInv, PendingInv, Unfinished, RolledBackLate
  <2>4. CompleteInv'
    BY <2>1, <2>2 DEF WriteInv, CompleteInv
  <2>5. StoredInv'
    BY <2>1 DEF WriteInv, StoredInv, Over, RolledBackLate, Writes, Size
  <2> QED  BY <2>3, <2>4, <2>5 DEF WriteInv
<1>9. CASE UNCHANGED dbmVars
  BY <1>9 DEF dbmVars, connVars, WriteInv, PendingInv, CompleteInv, StoredInv, Unfinished,
              RolledBackLate, Over, Writes, Size
<1>10. ASSUME NEW t \in Threads, Request(t) PROVE WriteInv'
  <2>1. CASE StatementConflicts(t) \/ StatementBusy(t) \/ StatementErrors(t) \/ BodyRaises(t)
    <3>1. pc[t] = "write" /\ UNCHANGED wrote
      BY <2>1 DEF StatementConflicts, StatementBusy, StatementErrors, BodyRaises, connVars
    <3>2. unit[t] = "execute" => done[t] = 0
      BY <1>0, <3>1 DEF ProgressInv, Progress, Size, DbmTypeOK
    <3>3. \E kind \in {"integrity", "driver", "body"} : Raise(t, kind)
      BY <2>1 DEF StatementConflicts, StatementBusy, StatementErrors, BodyRaises
    <3> QED  BY <1>3, <1>10, <3>1, <3>2, <3>3
  <2>2. CASE CommitFails(t)
    BY <1>3, <1>10, <2>2 DEF CommitFails, connVars
  <2> QED  BY <1>1, <1>2, <1>4, <1>5, <1>6, <1>7, <1>10, <2>1, <2>2 DEF Request
<1> QED  BY <1>8, <1>9, <1>10 DEF DbmNext

LEMMA WriteInvariant == DbmSpec => []WriteInv
BY WriteInit, WriteNext, ProgressInvariant, PTL DEF DbmSpec

\* Whatever fails and whoever else uses its connection later, a unit is in the
\* database as a whole or not at all, unless another's late rollback met it in
\* the middle.
THEOREM UnitsAtomic == DbmSpec => []AtomicUnlessHit
<1>1. ProgressInv /\ WriteInv => AtomicUnlessHit
  <2> SUFFICES ASSUME ProgressInv, WriteInv, NEW t \in Threads \ hit,
                      Writes(t) \cap db # {}
               PROVE  Writes(t) \subseteq db
    BY DEF AtomicUnlessHit
  <2>1. PICK w \in Writes(t) : w \in db
    OBVIOUS
  <2>2. w[1] = t
    BY <2>1 DEF Writes
  <2>3. CASE RolledBackLate(t)
    <3>1. Writes(t) = {w}
      BY <2>1, <2>3 DEF Writes, Size, RolledBackLate
    <3> QED  BY <2>1, <3>1
  <2>4. CASE Over(t)
    BY <2>4 DEF WriteInv, StoredInv
  <2> QED  BY <2>1, <2>2, <2>3, <2>4 DEF WriteInv, StoredInv
<1> QED  BY <1>1, ProgressInvariant, WriteInvariant, PTL

\* What a caller was told is done is in the database, unless such a rollback
\* took it.
THEOREM SuccessStored == DbmSpec => []SuccessIsDurable
<1>1. WriteInv => SuccessIsDurable
  BY DEF WriteInv, StoredInv, SuccessIsDurable, Succeeded, Over
<1> QED  BY <1>1, WriteInvariant, PTL

\* A unit whose caller got an exception is never committed by those who use its
\* connection after it, but for an autocommit statement whose COMMIT failed.
THEOREM FailureForgotten == DbmSpec => []FailureLeavesNothing
<1>1. WriteInv => FailureLeavesNothing
  <2> SUFFICES ASSUME WriteInv, NEW t \in Threads, Failed(t), NEW w \in Writes(t), w \in db
               PROVE  RolledBackLate(t)
    BY DEF FailureLeavesNothing
  <2>1. w[1] = t
    BY DEF Writes
  <2> QED  BY <2>1 DEF WriteInv, StoredInv, Over, Failed
<1> QED  BY <1>1, WriteInvariant, PTL

\* How a unit ended is what the database has of it.
THEOREM OutcomesTrue == DbmSpec => []OutcomeIsTrue
<1>1. SuccessIsDurable /\ FailureLeavesNothing => OutcomeIsTrue
  BY DEF OutcomeIsTrue
<1> QED  BY <1>1, SuccessStored, FailureForgotten, PTL

\* Nobody commits or discards the open transaction of somebody else.
THEOREM PendingIsMine == DbmSpec => []PendingWritesAreMine
<1>1. WriteInv => PendingWritesAreMine
  BY DEF WriteInv, PendingInv, Unfinished, PendingWritesAreMine
<1> QED  BY <1>1, WriteInvariant, PTL

-----------------------------------------------------------------------------
(* Open transactions.                                                      *)

\* A connection that is open for t stays so while others move, and holds no
\* transaction longer than the step that ends it.
LEMMA OpenNext == ProgressInv /\ OpenInv /\ [DbmNext]_dbmVars => OpenInv'
<1> SUFFICES ASSUME ProgressInv, OpenInv, [DbmNext]_dbmVars PROVE OpenInv'
  OBVIOUS
<1> USE DEF Goto
<1>0. DbmTypeOK
  BY DEF ProgressInv
<1>1. ASSUME NEW t \in Threads, Request(t) PROVE OpenInv'
  <2>1. Others(t) /\ unit' = unit /\ Progress(t)
    BY <1>1, RequestProgress DEF ProgressInv
  <2>3. ASSUME NEW c \in Conns, inTx[c] \/ writer = c, ~OpenFor(t, c) \/ OpenFor(t, c)'
        PROVE  \E u \in Threads : OpenFor(u, c)'
    <3>1. PICK u \in Threads : OpenFor(u, c)
      BY <2>3 DEF OpenInv
    <3>2. u # t => OpenFor(u, c)'
      BY <2>1, <3>1 DEF Others, OpenFor
    <3> QED  BY <2>3, <3>1, <3>2
  <2>4. CASE BeginUnit(t) \/ AcquireFails(t) \/ Acquire(t)
    <3>2. /\ UNCHANGED <<inTx, writer>> /\ held[t] = NoConn
          /\ pc[t] \in {"start", "asking"} /\ err[t] = "none"
      BY <2>1, <2>4 DEF BeginUnit, Acquire, AcquireFails, Reuse, Open, Refuse, Progress, connVars
    <3>3. \A c \in Conns : ~OpenFor(t, c)
      BY <3>2, PoolAssumption DEF OpenFor
    <3> QED  BY <2>3, <3>2, <3>3 DEF OpenInv
  <2>5. CASE \/ StatementSucceeds(t) \/ StatementConflicts(t) \/ StatementBusy(t)
             \/ StatementErrors(t) \/ BodyRaises(t) \/ CommitFails(t)
    <3>1. /\ pc[t] \in {"write", "commit"} /\ err[t] = "none" /\ held[t] \in Conns
          /\ UNCHANGED <<held, lastConn>>
      BY <1>0, <2>1, <2>5 DEF StatementSucceeds, StatementConflicts, StatementBusy,
            StatementErrors, BodyRaises, CommitFails, Raise, Progress, DbmTypeOK, AbsTypeOK
    <3>2. \A c \in Conns : inTx'[c] \/ writer' = c => inTx[c] \/ writer = c \/ c = held[t]
      BY <1>0, <2>5, <3>1 DEF StatementSucceeds, StatementConflicts, StatementBusy,
            StatementErrors, BodyRaises, CommitFails, Raise, DbmTypeOK, connVars
    <3>3. OpenFor(t, held[t])'
      <4>1. CASE pc'[t] # "checkin"
        BY <3>1, <4>1 DEF OpenFor
      <4>2. CASE pc'[t] = "checkin"
        <5>1. unit[t] = "execute" /\ err'[t] \in {"driver", "integrity"}
          BY <1>0, <2>5, <4>2 DEF StatementSucceeds, AfterWrite, StatementConflicts,
                StatementBusy, StatementErrors, BodyRaises, CommitFails, Raise, AfterRaise, DbmTypeOK
        <5> QED  BY <2>1, <3>1, <5>1 DEF OpenFor
      <4> QED  BY <4>1, <4>2
    <3>4. \A c \in Conns : OpenFor(t, c) => c = held[t]
      BY <3>1 DEF OpenFor
    <3> QED  BY <2>3, <3>2, <3>3, <3>4, <3>1 DEF OpenInv
  <2>6. CASE CommitSucceeds(t) \/ Unwind(t)
    <3>1. /\ pc[t] \in {"commit", "unwind"} /\ Discard({held[t]})
          /\ UNCHANGED <<held, lastConn, err>>
      BY <2>6 DEF CommitSucceeds, Unwind
    <3>2. \A c \in Conns : inTx'[c] \/ writer' = c => (inTx[c] \/ writer = c) /\ c # held[t]
      BY <1>0, <3>1, DiscardEffect
    <3>3. \A c \in Conns \ {held[t]} : OpenFor(t, c) => OpenFor(t, c)'
      BY <2>1, <3>1 DEF OpenFor
    <3> QED  BY <2>3, <3>2, <3>3 DEF OpenInv
  <2>7. CASE LeavePool(t)
    <3>1. /\ pc[t] = "checkin" /\ UNCHANGED <<inTx, writer, err>>
          /\ lastConn'[t] = held[t] /\ pc'[t] = AfterCheckin(t)
      BY <1>0, <2>7 DEF LeavePool, connVars, DbmTypeOK
    <3>2. \A c \in Conns : OpenFor(t, c) => OpenFor(t, c)'
      BY <2>1, <3>1, PoolAssumption DEF OpenFor, Progress, AfterCheckin
    <3> QED  BY <2>3, <3>1, <3>2 DEF OpenInv
  <2>8. CASE LateRollback(t)
    <3>1. pc[t] = "rollback" /\ Discard({lastConn[t]}) /\ err[t] = "driver" /\ held[t] = NoConn
      BY <2>1, <2>8 DEF LateRollback, Progress, RolledBackLate
    <3>2. \A c \in Conns : inTx'[c] \/ writer' = c => (inTx[c] \/ writer = c) /\ c # lastConn[t]
      BY <1>0, <3>1, DiscardEffect
    <3>3. \A c \in Conns \ {lastConn[t]} : ~OpenFor(t, c)
      BY <3>1, PoolAssumption DEF OpenFor
    <3> QED  BY <2>3, <3>2, <3>3 DEF OpenInv
  <2> QED  BY <1>1, <2>4, <2>5, <2>6, <2>7, <2>8 DEF Request
<1>2. ASSUME NEW S \in SUBSET idle, CloseIdleConnections(S) PROVE OpenInv'
  <2>1. /\ UNCHANGED <<held, pc, unit, err>>
        /\ \A t \in Threads : lastConn[t] \notin S => lastConn'[t] = lastConn[t]
    BY <1>2 DEF CloseIdleConnections, Evict, unitVars
  <2>2. \A c \in Conns : inTx'[c] \/ writer' = c => (inTx[c] \/ writer = c) /\ c \notin S
    BY <1>0, <1>2, DiscardEffect DEF CloseIdleConnections
  <2>3. \A t \in Threads, c \in Conns \ S : OpenFor(t, c) => OpenFor(t, c)'
    BY <2>1 DEF OpenFor
  <2> QED  BY <2>2, <2>3 DEF OpenInv
<1>3. CASE UNCHANGED dbmVars
  BY <1>3 DEF dbmVars, connVars, OpenInv, OpenFor
<1> QED  BY <1>1, <1>2, <1>3 DEF DbmNext

\* When every unit is over, the late rollbacks have ended every transaction but
\* those of autocommit statements that met a constraint.
THEOREM QuietMeansClean == DbmSpec => []QuietConnectionsClean
<1>1. DbmInit => OpenInv
  BY PoolAssumption DEF DbmInit, OpenInv
<1>2. ProgressInv /\ OpenInv => QuietConnectionsClean
  <2> SUFFICES ASSUME ProgressInv, OpenInv, \A t \in Threads : pc[t] = "done",
                      NEW c \in Conns, inTx[c] \/ writer = c
               PROVE  \E t \in Threads :
                         lastConn[t] = c /\ unit[t] = "execute" /\ err[t] = "integrity"
    BY DEF QuietConnectionsClean
  <2>1. PICK t \in Threads : OpenFor(t, c)
    BY DEF OpenInv
  <2>2. held[t] # c
    BY PoolAssumption DEF ProgressInv, Progress
  <2> QED  BY <2>1, <2>2 DEF OpenFor
<1> QED  BY <1>1, <1>2, ProgressInvariant, OpenNext, PTL DEF DbmSpec
-----------------------------------------------------------------------------
(* The manager implements AtomicUnits.                                     *)

Stored == {t \in Threads \ hit : Writes(t) \subseteq db}
Answers == [t \in Threads |-> Told(t)]

LEMMA WritesOfUnit ==
    ASSUME NEW t \in Threads, Writes(t) \subseteq db
    PROVE  \E w \in db : w[1] = t
<1>1. Size(t) \in Nat \ {0}
  BY SizeType
<1>2. <<t, 1>> \in Writes(t)
  BY <1>1 DEF Writes
<1> QED  BY <1>2

LEMMA UnitsRefineInit == DbmInit => AU!UnitsInit
<1> SUFFICES ASSUME DbmInit PROVE AU!UnitsInit
  OBVIOUS
<1>1. Stored = {}
  BY WritesOfUnit DEF Stored, DbmInit
<1>2. Answers = [t \in Threads |-> "open"]
  <2>1. \A t \in Threads : pc[t] # "done"
    BY DEF DbmInit
  <2>2. ASSUME NEW t \in Threads PROVE Told(t) = "open"
    <3>1. pc[t] # "done"
      BY <2>1
    <3> QED  BY <3>1 DEF Told, Succeeded, Failed
  <2> QED  BY <2>2 DEF Answers
<1> QED  BY <1>1, <1>2 DEF AU!UnitsInit, Stored, Answers, DbmInit

\* A step of t that neither commits nor ends its unit is no step of AtomicUnits.
LEMMA UnitGoesOn ==
    ASSUME NEW t \in Threads, Others(t), unit' = unit, UNCHANGED <<db, hit>>,
           pc[t] # "done", pc'[t] # "done"
    PROVE  UNCHANGED <<Stored, Answers, hit>>
<1>1. Stored' = Stored
  BY DEF Stored, Writes, Size
<1>2. \A u \in Threads : Told(u)' = Told(u)
  BY DEF Others, Told, Succeeded, Failed, RolledBackLate
<1> QED  BY <1>1, <1>2 DEF Answers

\* The step that ends t's unit tells its caller, and nobody else, the outcome.
LEMMA UnitEnds ==
    ASSUME NEW t \in Threads, Others(t), unit' = unit, pc[t] # "done", pc'[t] = "done"
    PROVE  /\ Answers[t] = "open"
           /\ Answers' = [Answers EXCEPT ![t] = Told(t)']
<1>1. \A u \in Threads \ {t} : Told(u)' = Told(u)
  BY DEF Others, Told, Succeeded, Failed, RolledBackLate
<1>2. Told(t) = "open"
  BY DEF Told, Succeeded, Failed
<1> QED  BY <1>1, <1>2 DEF Answers

\* Those who may still write, or be harmed, have not been answered.
LEMMA PendingUndecided ==
    ASSUME ProgressInv, WriteInv, NEW c \in Conns, NEW w \in wrote[c]
    PROVE  w[1] \in AU!Undecided
<1>1. w[1] \in Threads /\ Unfinished(w[1], c)
  BY WriteType DEF ProgressInv, WriteInv, PendingInv
<1>2. Told(w[1]) \in {"open", "unknown"}
  <2>1. CASE pc[w[1]] # "done"
    BY <2>1 DEF Told, Succeeded, Failed
  <2>2. CASE pc[w[1]] = "done"
    <3>1. RolledBackLate(w[1])
      BY <1>1, <2>2 DEF Unfinished
    <3> QED  BY <2>2, <3>1 DEF Told, Succeeded, Failed, RolledBackLate
  <2> QED  BY <2>1, <2>2
<1> QED  BY <1>1, <1>2 DEF AU!Undecided

LEMMA UnitsRefineStep ==
    ProgressInv /\ WriteInv /\ [DbmNext]_dbmVars => [AU!UnitsNext]_(AU!unitsVars)
<1> SUFFICES ASSUME ProgressInv, WriteInv, [DbmNext]_dbmVars
             PROVE  AU!UnitsNext \/ UNCHANGED <<Stored, Answers, hit>>
  BY DEF AU!unitsVars, Stored, Answers
<1> USE DEF Goto
<1>0. DbmTypeOK /\ DbmTypeOK' /\ ProgressInv' /\ WriteInv'
  BY ProgressNext, WriteNext DEF ProgressInv
<1>1. ASSUME NEW t \in Threads, Request(t)
      PROVE  AU!UnitsNext \/ UNCHANGED <<Stored, Answers, hit>>
  <2>0. Others(t) /\ unit' = unit /\ Progress(t)
    BY <1>1, RequestProgress DEF ProgressInv
  <2>1. CASE \/ BeginUnit(t) \/ Acquire(t) \/ StatementSucceeds(t) \/ StatementConflicts(t)
             \/ StatementBusy(t) \/ StatementErrors(t) \/ BodyRaises(t) \/ CommitFails(t)
             \/ Unwind(t)
    <3>1. pc[t] # "done" /\ UNCHANGED <<db, hit>>
      BY <2>0, <2>1 DEF BeginUnit, Acquire, Reuse, Open, StatementSucceeds, StatementConflicts,
            StatementBusy, StatementErrors, BodyRaises, CommitFails, Unwind, Raise, Progress
    <3>2. pc'[t] # "done"
      BY <1>0, <2>1 DEF BeginUnit, Acquire, StatementSucceeds, AfterWrite, StatementConflicts,
            StatementBusy, StatementErrors, BodyRaises, CommitFails, Unwind, Raise, AfterRaise,
            DbmTypeOK
    <3> QED  BY <2>0, <3>1, <3>2, UnitGoesOn
  <2>2. CASE AcquireFails(t)
    <3>1. /\ pc[t] = "asking" /\ pc'[t] = "done" /\ err'[t] = "refused"
          /\ UNCHANGED <<db, hit>> /\ done[t] = 0
      BY <1>0, <2>0, <2>2 DEF AcquireFails, Refuse, Progress, DbmTypeOK
    <3>2. Told(t)' = "raised"
      BY <3>1 DEF Told, Succeeded, Failed, RolledBackLate
    <3>3. t \notin Stored /\ Stored' = Stored
      BY <2>0, <3>1, NothingWritten, WritesOfUnit DEF Stored, Writes, Size
    <3>4. AU!Raise(t)
      BY <2>0, <3>1, <3>2, <3>3, UnitEnds DEF AU!Raise, AU!End, Stored, Answers
    <3> QED  BY <3>4 DEF AU!UnitsNext
  <2>3. CASE CommitSucceeds(t)
    <3> DEFINE S == Stored' \ Stored
    <3>1. /\ pc[t] = "commit" /\ held[t] \in Conns /\ db' = db \cup wrote[held[t]]
          /\ pc'[t] = "checkin" /\ UNCHANGED hit
      BY <1>0, <2>0, <2>3 DEF CommitSucceeds, Persist, Progress, DbmTypeOK, AbsTypeOK
    <3>2. \A u \in Threads : Writes(u)' = Writes(u)
      BY <2>0 DEF Writes, Size
    <3>3. Stored' = Stored \cup S
      BY <3>1, <3>2 DEF Stored
    <3>4. S \subseteq AU!Undecided \ hit
      <4> SUFFICES ASSUME NEW u \in S PROVE u \in AU!Undecided \ hit
        OBVIOUS
      <4>1. /\ u \in Threads \ hit /\ Writes(u) \subseteq db'
            /\ ~(Writes(u) \subseteq db)
        BY <3>1, <3>2 DEF Stored
      <4>2. PICK w \in Writes(u) : w \in wrote[held[t]]
        BY <3>1, <4>1
      <4>3. w[1] = u
        BY <4>2 DEF Writes
      <4> QED  BY <3>1, <4>1, <4>2, <4>3, PendingUndecided
    <3>5. Answers' = Answers
      <4>1. \A u \in Threads : Told(u)' = Told(u)
        BY <2>0, <2>3, <3>1 DEF CommitSucceeds, Others, Told, Succeeded, Failed, RolledBackLate
      <4> QED  BY <4>1 DEF Answers
    <3>6. S \in SUBSET Threads
      BY DEF Stored
    <3>7. AU!Store(S)
      BY <3>1, <3>3, <3>4, <3>5 DEF AU!Store, Stored, Answers
    <3> QED  BY <3>6, <3>7 DEF AU!UnitsNext
  <2>4. CASE LeavePool(t)
    <3>1. /\ pc[t] = "checkin" /\ pc'[t] = AfterCheckin(t)
          /\ UNCHANGED <<db, hit, err>>
      BY <1>0, <2>4 DEF LeavePool, DbmTypeOK
    <3>2. CASE RolledBackLate(t)
      BY <2>0, <3>1, <3>2, UnitGoesOn DEF AfterCheckin, RolledBackLate
    <3>3. CASE ~RolledBackLate(t)
      <4>1. pc'[t] = "done" /\ ~RolledBackLate(t)' /\ Stored' = Stored
        BY <2>0, <3>1, <3>3 DEF AfterCheckin, RolledBackLate, Stored, Writes, Size
      <4>2. CASE err[t] = "none"
        <5>1. Told(t)' = "returned"
          BY <3>1, <4>1, <4>2 DEF Told, Succeeded, Failed
        <5>2. t \in Stored \cup hit
          BY <3>1, <4>2 DEF WriteInv, StoredInv, Over, Stored
        <5>3. AU!Return(t)
          BY <2>0, <3>1, <4>1, <5>1, <5>2, UnitEnds DEF AU!Return, AU!End, Stored, Answers
        <5> QED  BY <5>3 DEF AU!UnitsNext
      <4>3. CASE err[t] # "none"
        <5>1. Told(t)' = "raised"
          BY <3>1, <4>1, <4>3 DEF Told, Succeeded, Failed
        <5>2. t \notin Stored
          BY <3>3, <4>3, GoesOn, WritesOfUnit DEF Over, Stored
        <5>3. AU!Raise(t)
          BY <2>0, <3>1, <4>1, <5>1, <5>2, UnitEnds DEF AU!Raise, AU!End, Stored, Answers
        <5> QED  BY <5>3 DEF AU!UnitsNext
      <4> QED  BY <4>2, <4>3
    <3> QED  BY <3>2, <3>3
  <2>5. CASE LateRollback(t)
    <3> DEFINE S == {u \in Threads \ {t} : \E c \in Conns : c = lastConn[t] /\ WritesOn(c, u)}
    <3>1. /\ pc[t] = "rollback" /\ pc'[t] = "done" /\ hit' = hit \cup S /\ UNCHANGED <<db, err>>
      BY <1>0, <2>5 DEF LateRollback, DbmTypeOK
    <3>2. Told(t)' = "unknown"
      BY <2>0, <3>1 DEF Told, Succeeded, Failed, RolledBackLate, Progress
    <3>3. S \subseteq AU!Undecided
      BY PendingUndecided DEF WritesOn
    <3>4. Stored' = Stored \ S
      BY <2>0, <3>1 DEF Stored, Writes, Size
    <3>5. S \in SUBSET Threads
      OBVIOUS
    <3> HIDE DEF S
    <3>6. AU!GiveUp(t, S)
      BY <2>0, <3>1, <3>2, <3>3, <3>4, UnitEnds DEF AU!GiveUp, AU!End, Stored, Answers
    <3> QED  BY <3>5, <3>6 DEF AU!UnitsNext
  <2> QED  BY <1>1, <2>1, <2>2, <2>3, <2>4, <2>5 DEF Request
<1>2. ASSUME NEW S \in SUBSET idle, CloseIdleConnections(S)
      PROVE  UNCHANGED <<Stored, Answers, hit>>
  BY <1>2 DEF CloseIdleConnections, unitVars, Stored, Answers, Writes, Size, Told, Succeeded,
              Failed, RolledBackLate
<1>3. CASE UNCHANGED dbmVars
  BY <1>3 DEF dbmVars, Stored, Answers, Writes, Size, Told, Succeeded, Failed,
              RolledBackLate
<1> QED  BY <1>1, <1>2, <1>3 DEF DbmNext

\* The pooled connections, the statements, SQLite's lock and the rollbacks of
\* manager.py implement units whose writes are stored in one step or never, and
\* whose callers are told which before anything else can change it.
THEOREM UnitsRefinement == DbmSpec => ImplementsAtomicUnits
<1> QED  BY UnitsRefineInit, UnitsRefineStep, ProgressInvariant, WriteInvariant, PTL
         DEF DbmSpec, ImplementsAtomicUnits, AU!UnitsSpec

\* What a caller was told, for good: no later step of any unit changes whether
\* an answered unit is stored, nor harms it.
OutcomeStands(t) ==
    Told(t) \in {"returned", "raised"} =>
        (t \in Stored' <=> t \in Stored) /\ (t \in hit' <=> t \in hit) /\ Told(t)' = Told(t)

\* The answer to a finished unit is never made false, by commits, rollbacks or
\* the closing of connections that happen after it.
THEOREM OutcomesStand == DbmSpec => [][\A t \in Threads : OutcomeStands(t)]_dbmVars
<1>1. ASSUME AU!UnitsNext \/ UNCHANGED <<Stored, Answers, hit>>, NEW t \in Threads,
             Told(t) \in {"returned", "raised"}
      PROVE  (t \in Stored' <=> t \in Stored) /\ (t \in hit' <=> t \in hit)
             /\ Answers'[t] = Answers[t]
  <2>0. t \notin AU!Undecided /\ Answers[t] # "open"
    BY <1>1 DEF AU!Undecided, Answers
  <2>1. ASSUME NEW S \in SUBSET Threads, AU!Store(S)
        PROVE  (t \in Stored' <=> t \in Stored) /\ Answers' = Answers /\ hit' = hit
    BY <2>0, <2>1 DEF AU!Store, Stored, Answers
  <2>2. ASSUME NEW u \in Threads, AU!Return(u) \/ AU!Raise(u)
        PROVE  Stored' = Stored /\ Answers'[t] = Answers[t] /\ hit' = hit
    BY <2>0, <2>2 DEF AU!Return, AU!Raise, AU!End, Stored, Answers
  <2>3. ASSUME NEW u \in Threads, NEW S \in SUBSET Threads, AU!GiveUp(u, S)
        PROVE  (t \in Stored' <=> t \in Stored) /\ (t \in hit' <=> t \in hit)
               /\ Answers'[t] = Answers[t]
    BY <2>0, <2>3 DEF AU!GiveUp, AU!End, Stored, Answers
  <2> QED  BY <1>1, <2>1, <2>2, <2>3 DEF AU!UnitsNext
<1>2. ProgressInv /\ WriteInv /\ [DbmNext]_dbmVars => [\A t \in Threads : OutcomeStands(t)]_dbmVars
  <2> SUFFICES ASSUME ProgressInv, WriteInv, [DbmNext]_dbmVars, NEW t \in Threads,
                      Told(t) \in {"returned", "raised"}
               PROVE  (t \in Stored' <=> t \in Stored) /\ (t \in hit' <=> t \in hit)
                      /\ Told(t)' = Told(t)
    BY DEF OutcomeStands
  <2>1. AU!UnitsNext \/ UNCHANGED <<Stored, Answers, hit>>
    BY UnitsRefineStep DEF AU!unitsVars, Stored, Answers
  <2>2. Answers[t] = Told(t) /\ Answers'[t] = Told(t)'
    BY DEF Answers
  <2> QED  BY <1>1, <2>1, <2>2
<1> QED  BY <1>2, ProgressInvariant, WriteInvariant, PTL DEF DbmSpec

\* For the pool the manager is one more client: it acquires and gives back
\* connections as BoundedPool allows, through every failure.
THEOREM ManagerUsesPool == DbmSpec => AbsSpec
<1>1. DbmInit => AbsInit
  BY DEF DbmInit
<1>2. ASSUME NEW t \in Threads, Request(t) PROVE AbsNext \/ UNCHANGED absVars
  BY <1>2 DEF Request, BeginUnit, Acquire, AcquireFails, StatementSucceeds, StatementConflicts,
        StatementBusy, StatementErrors, BodyRaises, CommitSucceeds, CommitFails, Unwind,
        LeavePool, LateRollback, Raise, absVars, AbsNext, Answer
<1>3. ProgressInv /\ [DbmNext]_dbmVars => [AbsNext]_absVars
  <2> SUFFICES ASSUME ProgressInv, [DbmNext]_dbmVars PROVE AbsNext \/ UNCHANGED absVars
    OBVIOUS
  <2>1. ASSUME NEW S \in SUBSET idle, CloseIdleConnections(S) PROVE AbsNext
    <3>1. S \in SUBSET Conns /\ Evict(S)
      BY <2>1 DEF CloseIdleConnections, ProgressInv, DbmTypeOK, AbsTypeOK
    <3> QED  BY <3>1 DEF AbsNext
  <2>2. CASE UNCHANGED dbmVars
    BY <2>2 DEF dbmVars, absVars
  <2> QED  BY <1>2, <2>1, <2>2 DEF DbmNext
<1> QED  BY <1>1, <1>3, ProgressInvariant, PTL DEF DbmSpec, AbsSpec
=============================================================================
