-------------------------- MODULE SchedulerProofs --------------------------
(***************************************************************************)
(* Theorems about Scheduler: what stop() leaves behind and when job.failed *)
(* is published, for every registry, retry policy and number of workers.   *)
(***************************************************************************)
EXTENDS Scheduler, FiniteSetTheorems, TLAPS

\* What the executor queues is waiting for a worker, and is queued once.
QueueOK ==
    /\ \A i \in 1..Len(queue) : pc[queue[i]] \in {"queued", "recorded"}
    /\ \A i, k \in 1..Len(queue) : queue[i] = queue[k] => i = k

\* _running has every execution of the loop from its creation to its end, and
\* stop() gathers all of them, because none is created once the loop is gone.
Tracked ==
    /\ \A r \in LoopRuns : pc[r] # "idle" => r \in running
    /\ life = "draining" => \A r \in LoopRuns : pc[r] # "idle" => r \in awaited

\* The attempts of an execution, by how far it is.
Attempts ==
    \A r \in Runs :
        /\ attempt[r] <= MaxAttempts[Job(r)]
        /\ pc[r] = "sleeping" => attempt[r] < MaxAttempts[Job(r)]
        /\ r \in alerted => /\ pc[r] \in {"recorded", "auditing"}
                            /\ attempt[r] = MaxAttempts[Job(r)]

IInv == TypeOK /\ QueueOK /\ Tracked /\ StopDrains /\ Attempts

-----------------------------------------------------------------------------
\* The job of an execution has a retry policy of at least one attempt.
LEMMA JobOfRun ==
    ASSUME NEW r \in Runs
    PROVE  Job(r) \in Jobs /\ MaxAttempts[Job(r)] \in Nat \ {0}
BY SchedulerAssumption DEF Runs, Job

\* Appending to the work queue an execution that was not waiting for a worker
\* keeps it free of duplicates.
LEMMA AppendKeepsQueue ==
    ASSUME TypeOK, QueueOK, NEW r \in Runs, pc[r] \notin {"queued", "recorded"},
           NEW label \in {"queued", "recorded"},
           queue' = Append(queue, r), Goto(r, label)
    PROVE  QueueOK' /\ queue' \in Seq(Runs) /\ pc' \in [Runs -> PCs]
<1> USE DEF TypeOK, QueueOK, Goto
<1>1. queue' \in Seq(Runs) /\ Len(queue') = Len(queue) + 1 /\ Len(queue) \in Nat
  OBVIOUS
<1>2. \A i \in 1..Len(queue) : queue'[i] = queue[i] /\ queue[i] \in Runs
  OBVIOUS
<1>3. queue'[Len(queue) + 1] = r
  OBVIOUS
<1>4. \A i \in 1..Len(queue) : queue[i] # r
  OBVIOUS
<1>5. \A i \in 1..Len(queue') : i \in 1..Len(queue) \/ i = Len(queue) + 1
  BY <1>1
<1>6. pc' \in [Runs -> PCs]
  BY DEF PCs
<1>7. \A i \in 1..Len(queue') : pc'[queue'[i]] \in {"queued", "recorded"}
  BY <1>2, <1>3, <1>4, <1>5
<1>8. \A i, k \in 1..Len(queue') : queue'[i] = queue'[k] => i = k
  BY <1>2, <1>3, <1>4, <1>5
<1>. QED  BY <1>1, <1>6, <1>7, <1>8

\* A step that leaves the queue alone and moves only executions outside it.
LEMMA OthersKeepQueue ==
    ASSUME TypeOK, QueueOK, UNCHANGED queue,
           \A r \in Runs : pc[r] \in {"queued", "recorded"} => pc'[r] = pc[r]
    PROVE  QueueOK'
BY DEF TypeOK, QueueOK

LEMMA InitInvariant == ASSUME Init PROVE IInv
<1>1. TypeOK
  BY DEF Init, TypeOK, PCs
<1>2. QueueOK /\ Tracked /\ StopDrains
  BY DEF Init, QueueOK, Tracked, StopDrains, LoopRuns, Runs
<1>3. Attempts
  BY JobOfRun DEF Init, Attempts
<1>. QED  BY <1>1, <1>2, <1>3 DEF IInv

\* An execution goes on with an attempt it is allowed.
LEMMA SubmitKeepsInvariant ==
    ASSUME IInv, NEW r \in Runs, NEW k \in Nat, SubmitRun(r, k),
           k <= MaxAttempts[Job(r)],
           pc[r] \in {"created", "sleeping"} \/ (r \notin LoopRuns /\ pc[r] = "idle"),
           due' \subseteq Jobs,
           UNCHANGED <<life, running, awaited, alerted, lastResult>>
    PROVE  IInv'
<1> USE DEF IInv, SubmitRun
<1>1. QueueOK' /\ queue' \in Seq(Runs) /\ pc' \in [Runs -> PCs]
  BY AppendKeepsQueue
<1>2. TypeOK'
  BY <1>1 DEF TypeOK
<1>3. Tracked' /\ StopDrains'
  BY DEF Tracked, StopDrains, Goto, TypeOK, LoopRuns, Runs
<1>4. Attempts'
  BY DEF Attempts, Goto, TypeOK
<1>. QED  BY <1>1, <1>2, <1>3, <1>4

\* An execution has a result: a failure only after its last attempt.
LEMMA RecordKeepsInvariant ==
    ASSUME IInv, NEW r \in Runs, NEW status \in {"success", "failed"},
           pc[r] = "running", Record(r, status),
           status = "failed" => ~MayRetry(r)
    PROVE  IInv'
<1> USE DEF IInv, Record
<1>1. QueueOK' /\ queue' \in Seq(Runs) /\ pc' \in [Runs -> PCs]
  BY AppendKeepsQueue
<1>2. TypeOK'
  BY <1>1, JobOfRun DEF TypeOK
<1>3. Tracked' /\ StopDrains'
  BY DEF Tracked, StopDrains, Goto, TypeOK, LoopRuns, Runs
<1>4. status = "failed" => attempt[r] = MaxAttempts[Job(r)]
  BY JobOfRun DEF Attempts, MayRetry, TypeOK
<1>5. Attempts'
  BY <1>4 DEF Attempts, Goto, TypeOK
<1>. QED  BY <1>1, <1>2, <1>3, <1>5

LEMMA TickKeepsInvariant == ASSUME IInv, Tick PROVE IInv'
<1> USE DEF IInv, Tick
<1>1. PICK slot \in [due -> LoopSlots] :
        LET fired == {<<j, slot[j]>> : j \in due} IN
        /\ \A r \in fired : pc[r] = "idle"
        /\ pc' = [r \in Runs |-> IF r \in fired THEN "created" ELSE pc[r]]
        /\ running' = running \cup fired
  OBVIOUS
<1> DEFINE fired == {<<j, slot[j]>> : j \in due}
<1>2. fired \subseteq LoopRuns /\ LoopRuns \subseteq Runs
  BY DEF TypeOK, LoopRuns, Runs
<1>3. \A r \in fired : pc[r] = "idle"
  BY <1>1
<1>4. /\ pc' = [r \in Runs |-> IF r \in fired THEN "created" ELSE pc[r]]
      /\ running' = running \cup fired
  BY <1>1
<1> HIDE DEF fired
<1>5. TypeOK'
  BY <1>2, <1>4 DEF TypeOK, PCs
<1>6. QueueOK'
  BY <1>3, <1>4, OthersKeepQueue
<1>7. Tracked' /\ StopDrains'
  BY <1>2, <1>4 DEF Tracked, StopDrains, LoopAlive
<1>8. Attempts'
  BY <1>3, <1>4 DEF Attempts, TypeOK
<1>. QED  BY <1>5, <1>6, <1>7, <1>8

LEMMA WorkerKeepsInvariant == ASSUME IInv, WorkerTakes PROVE IInv'
<1> USE DEF IInv, WorkerTakes, Goto
<1> DEFINE r == Head(queue)
<1>1. r \in Runs /\ r = queue[1] /\ Len(queue) \in Nat \ {0}
  BY DEF TypeOK
<1>2. pc[r] \in {"queued", "recorded"}
  BY <1>1 DEF QueueOK
<1>3. pc' = [pc EXCEPT ![r] = IF pc[r] = "queued" THEN "running" ELSE "auditing"]
  OBVIOUS
<1>4. /\ queue' \in Seq(Runs)
      /\ Len(queue') = Len(queue) - 1
      /\ \A i \in 1..Len(queue') : queue'[i] = queue[i + 1] /\ i + 1 \in 1..Len(queue)
  BY <1>1 DEF TypeOK
<1> HIDE DEF r
<1>5. TypeOK'
  BY <1>1, <1>3, <1>4 DEF TypeOK, PCs
<1>6. \A i \in 1..Len(queue') : queue'[i] # r /\ queue'[i] \in Runs
  BY <1>1, <1>4 DEF QueueOK, TypeOK
<1>7. \A i \in 1..Len(queue') : pc'[queue'[i]] \in {"queued", "recorded"}
  BY <1>3, <1>4, <1>6 DEF QueueOK, TypeOK
<1>8. \A i, k \in 1..Len(queue') : queue'[i] = queue'[k] => i = k
  BY <1>1, <1>4 DEF QueueOK
<1>9. Tracked' /\ StopDrains'
  BY <1>1, <1>2, <1>3 DEF Tracked, StopDrains, TypeOK, LoopRuns, Runs
<1>10. Attempts'
  BY <1>1, <1>2, <1>3 DEF Attempts, TypeOK
<1>. QED  BY <1>5, <1>7, <1>8, <1>9, <1>10 DEF QueueOK

LEMMA AuditKeepsInvariant == ASSUME IInv, NEW r \in Runs, AuditEnds(r) PROVE IInv'
<1> USE DEF IInv, AuditEnds, Goto
<1>1. TypeOK'
  BY DEF TypeOK, PCs
<1>2. QueueOK'
  BY OthersKeepQueue DEF TypeOK
<1>3. Tracked' /\ StopDrains'
  BY DEF Tracked, StopDrains, TypeOK, LoopRuns, Runs
<1>4. Attempts'
  BY JobOfRun DEF Attempts, TypeOK
<1>. QED  BY <1>1, <1>2, <1>3, <1>4

\* Every step keeps the invariant.
LEMMA NextInvariant == ASSUME IInv, [Next]_vars PROVE IInv'
<1>1. CASE \E j \in Jobs : ComeDue(j) \/ Midnight(j)
  BY <1>1 DEF IInv, ComeDue, Midnight, TypeOK, QueueOK, Tracked, StopDrains, Attempts
<1>2. CASE Start
  BY <1>2 DEF IInv, Start, TypeOK, QueueOK, Tracked, StopDrains, Attempts
<1>3. CASE Tick
  BY <1>3, TickKeepsInvariant
<1>4. CASE Stop
  BY <1>4 DEF IInv, Stop, TypeOK, QueueOK, Tracked, StopDrains, Attempts
<1>5. CASE LoopEnds
  BY <1>5 DEF IInv, LoopEnds, InFlight, TypeOK, QueueOK, Tracked, StopDrains, Attempts
<1>6. CASE Drained
  BY <1>6 DEF IInv, Drained, TypeOK, QueueOK, Tracked, StopDrains, Attempts
<1>7. CASE WorkerTakes
  BY <1>7, WorkerKeepsInvariant
<1>8. ASSUME NEW r \in Runs, BeginExecute(r) PROVE IInv'
  <2>1. 1 <= MaxAttempts[Job(r)]
    BY JobOfRun
  <2>2. /\ due' \subseteq Jobs /\ pc[r] = "created" /\ SubmitRun(r, 1)
        /\ UNCHANGED <<life, running, awaited, alerted, lastResult>>
    BY <1>8 DEF BeginExecute, IInv, TypeOK
  <2>. QED  BY <2>1, <2>2, SubmitKeepsInvariant
<1>9. ASSUME NEW r \in Runs, RunJobNow(r) PROVE IInv'
  <2>1. 1 <= MaxAttempts[Job(r)]
    BY JobOfRun
  <2>2. due' \subseteq Jobs
    BY <1>9 DEF RunJobNow, IInv, TypeOK
  <2>. QED  BY <1>9, <2>1, <2>2, SubmitKeepsInvariant DEF RunJobNow
<1>10. ASSUME NEW r \in Runs, SleepEnds(r) PROVE IInv'
  <2>1. attempt[r] + 1 \in Nat /\ attempt[r] + 1 <= MaxAttempts[Job(r)]
    BY <1>10, JobOfRun DEF SleepEnds, IInv, Attempts, TypeOK
  <2>2. /\ due' \subseteq Jobs /\ pc[r] = "sleeping" /\ SubmitRun(r, attempt[r] + 1)
        /\ UNCHANGED <<life, running, awaited, alerted, lastResult>>
    BY <1>10 DEF SleepEnds, NextAttempt, IInv, TypeOK
  <2>. QED  BY <2>1, <2>2, SubmitKeepsInvariant
<1>11. ASSUME NEW r \in Runs, RunReturns(r) PROVE IInv'
  BY <1>11, RecordKeepsInvariant DEF RunReturns
<1>12. ASSUME NEW r \in Runs, RunRaises(r) PROVE IInv'
  <2>1. CASE ~MayRetry(r)
    BY <1>12, <2>1, RecordKeepsInvariant DEF RunRaises, Failure
  <2>2. CASE MayRetry(r)
    <3>1. /\ pc[r] = "running" /\ Goto(r, "sleeping")
          /\ UNCHANGED <<life, due, running, awaited, attempt, alerted, queue, lastResult>>
      BY <1>12, <2>2 DEF RunRaises
    <3>2. TypeOK'
      BY <3>1 DEF IInv, TypeOK, Goto, PCs
    <3>3. QueueOK'
      BY <3>1, OthersKeepQueue DEF IInv, TypeOK, Goto
    <3>4. Tracked' /\ StopDrains'
      BY <3>1 DEF IInv, Tracked, StopDrains, TypeOK, Goto, LoopRuns, Runs
    <3>5. Attempts'
      BY <2>2, <3>1 DEF IInv, Attempts, MayRetry, TypeOK, Goto
    <3>. QED  BY <3>2, <3>3, <3>4, <3>5 DEF IInv
  <2>. QED  BY <2>1, <2>2
<1>13. ASSUME NEW r \in Runs, AuditEnds(r) PROVE IInv'
  BY <1>13, AuditKeepsInvariant
<1>14. CASE UNCHANGED vars
  BY <1>14 DEF IInv, vars, TypeOK, QueueOK, Tracked, StopDrains, Attempts
<1>. QED
  BY <1>1, <1>2, <1>3, <1>4, <1>5, <1>6, <1>7, <1>8, <1>9, <1>10, <1>11, <1>12,
     <1>13, <1>14 DEF Next, RunEnds

\* The inductive invariant holds in every reachable state of the scheduler.
THEOREM SchedulerInvariant == Spec => []IInv
BY InitInvariant, NextInvariant, PTL DEF Spec

\* Every variable keeps its type (engine.py:47-51).
THEOREM SchedulerTypes == Spec => []TypeOK
BY SchedulerInvariant, PTL DEF IInv

\* When stop() returns, no execution the loop fired is in flight, whatever the
\* number of overlapping executions (engine.py:62-74).
THEOREM StopLeavesNothingRunning == Spec => []StopDrains
BY SchedulerInvariant, PTL DEF IInv

\* job.failed is published only by an execution whose attempts all failed, and
\* no execution exceeds its retry policy (base.py:136-153).
THEOREM AlertsAreHonest == Spec => []AlertMeansExhausted
<1>1. IInv => AlertMeansExhausted
  BY DEF IInv, Attempts, AlertMeansExhausted
<1>. QED  BY <1>1, SchedulerInvariant, PTL

-----------------------------------------------------------------------------
\* Whoever waits for a worker is in the work queue.
Waiting == {"queued", "recorded"}
InQueue(r) == \E i \in 1..Len(queue) : queue[i] = r
QueueComplete == \A r \in Runs : pc[r] \in Waiting => InQueue(r)

\* An append puts r in the queue, and nobody out of it.
LEMMA AppendKeepsComplete ==
    ASSUME TypeOK, QueueComplete, NEW r \in Runs, NEW label, queue' = Append(queue, r),
           Goto(r, label)
    PROVE  QueueComplete'
<1> SUFFICES ASSUME NEW u \in Runs, pc'[u] \in Waiting PROVE InQueue(u)'
  BY DEF QueueComplete, Waiting
<1>1. /\ Len(queue') = Len(queue) + 1 /\ Len(queue) \in Nat /\ queue'[Len(queue) + 1] = r
      /\ \A i \in 1..Len(queue) : queue'[i] = queue[i]
  BY DEF TypeOK
<1>2. CASE u = r
  BY <1>1, <1>2 DEF InQueue
<1>3. CASE u # r
  <2>1. InQueue(u)
    BY <1>3 DEF QueueComplete, Goto, TypeOK
  <2> QED  BY <1>1, <2>1 DEF InQueue
<1>. QED  BY <1>2, <1>3

\* So does a step that leaves the queue alone and sends nobody to it.
LEMMA OthersKeepComplete ==
    ASSUME QueueComplete, UNCHANGED queue,
           \A r \in Runs : pc'[r] \in Waiting => pc[r] = pc'[r]
    PROVE  QueueComplete'
BY DEF QueueComplete, InQueue

\* A worker takes the execution it takes out of the queue, and no other.
LEMMA WorkerKeepsComplete == ASSUME TypeOK, QueueComplete, WorkerTakes PROVE QueueComplete'
<1> DEFINE r == Head(queue)
<1>1. /\ r = queue[1] /\ r \in Runs /\ Len(queue) \in Nat \ {0}
      /\ queue' = Tail(queue)
  BY DEF WorkerTakes, TypeOK
<1>2. pc' = [pc EXCEPT ![r] = IF pc[r] = "queued" THEN "running" ELSE "auditing"]
  BY DEF WorkerTakes, Goto
<1>3. /\ Len(queue') = Len(queue) - 1
      /\ \A i \in 1..Len(queue') : queue'[i] = queue[i + 1]
  BY <1>1 DEF TypeOK
<1> HIDE DEF r
<1> SUFFICES ASSUME NEW u \in Runs, pc'[u] \in Waiting PROVE InQueue(u)'
  BY DEF QueueComplete, Waiting
<1>4. u # r /\ pc[u] \in Waiting
  BY <1>1, <1>2 DEF TypeOK, Waiting
<1>5. PICK i \in 1..Len(queue) : queue[i] = u
  BY <1>4 DEF QueueComplete, InQueue
<1>6. i # 1
  BY <1>1, <1>4, <1>5
<1>7. i - 1 \in 1..Len(queue') /\ queue'[i - 1] = u
  BY <1>1, <1>3, <1>5, <1>6
<1>. QED  BY <1>7 DEF InQueue

LEMMA CompleteNext == ASSUME IInv, QueueComplete, [Next]_vars PROVE QueueComplete'
<1> USE DEF IInv
<1>1. CASE \/ \E j \in Jobs : ComeDue(j) \/ Midnight(j)
           \/ Start \/ Stop \/ LoopEnds \/ Drained \/ UNCHANGED vars
  BY <1>1, OthersKeepComplete DEF ComeDue, Midnight, Start, Stop, LoopEnds, Drained, vars
<1>2. CASE Tick
  <2>1. PICK fired : pc' = [r \in Runs |-> IF r \in fired THEN "created" ELSE pc[r]]
    BY <1>2 DEF Tick
  <2>2. UNCHANGED queue
    BY <1>2 DEF Tick
  <2>. QED  BY <2>1, <2>2, OthersKeepComplete DEF Waiting
<1>3. CASE WorkerTakes
  BY <1>3, WorkerKeepsComplete
<1>4. ASSUME NEW r \in Runs, BeginExecute(r) \/ RunJobNow(r) \/ SleepEnds(r) \/ RunReturns(r)
      PROVE  QueueComplete'
  <2>1. PICK label : queue' = Append(queue, r) /\ Goto(r, label)
    BY <1>4 DEF BeginExecute, RunJobNow, SleepEnds, RunReturns, SubmitRun, Record
  <2>. QED  BY <2>1, AppendKeepsComplete
<1>5. ASSUME NEW r \in Runs, RunRaises(r) PROVE QueueComplete'
  <2>1. CASE MayRetry(r)
    <3>1. UNCHANGED queue /\ Goto(r, "sleeping")
      BY <1>5, <2>1 DEF RunRaises
    <3>. QED  BY <3>1, OthersKeepComplete DEF Goto, TypeOK, Waiting
  <2>2. CASE ~MayRetry(r)
    BY <1>5, <2>2, AppendKeepsComplete DEF RunRaises, Record
  <2>. QED  BY <2>1, <2>2
<1>6. ASSUME NEW r \in Runs, AuditEnds(r) PROVE QueueComplete'
  BY <1>6, OthersKeepComplete DEF AuditEnds, Goto, TypeOK, Waiting
<1>. QED  BY <1>1, <1>2, <1>3, <1>4, <1>5, <1>6 DEF Next, RunEnds

\* stop() never waits for executions that all wait themselves: the safety half
\* of StopReturns, for every number of jobs, executions and workers.
THEOREM DrainNeverStuck == Spec => []DrainGoesOn
<1>1. Init => QueueComplete
  BY DEF Init, QueueComplete, Waiting
<1>2. IInv /\ QueueComplete => DrainGoesOn
  <2> SUFFICES ASSUME IInv, QueueComplete, NEW r \in awaited, pc[r] # "idle",
                      \A u \in Runs :
                         pc[u] \notin {"created", "running", "sleeping", "auditing"}
               PROVE  queue # <<>> /\ Cardinality(Executing) < Workers
    BY DEF DrainGoesOn
  <2>1. r \in Runs /\ pc[r] \in Waiting
    BY DEF IInv, TypeOK, PCs, Waiting
  <2>2. queue # <<>>
    BY <2>1 DEF QueueComplete, InQueue
  <2>3. Executing = {}
    BY DEF Executing
  <2>. QED  BY <2>2, <2>3, FS_EmptySet, SchedulerAssumption
<1>. QED  BY <1>1, <1>2, CompleteNext, SchedulerInvariant, PTL DEF Spec

\* No execution is lost between its creation and its audit record, counted
\* wrong, or waited for in vain.
THEOREM ExecutionsCounted == Spec => []ExecutionsAccountedFor
<1>1. StopDrains /\ AlertMeansExhausted /\ DrainGoesOn => ExecutionsAccountedFor
  BY DEF ExecutionsAccountedFor
<1>. QED  BY <1>1, StopLeavesNothingRunning, AlertsAreHonest, DrainNeverStuck, PTL
=============================================================================
