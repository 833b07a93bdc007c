----------------------------- MODULE Scheduler -----------------------------
(***************************************************************************)
(* SchedulerEngine (scheduler/engine.py) with BaseSchedulerJob.execute     *)
(* (scheduler/base.py), and the application lifespan that starts and stops *)
(* it (bootstrap.py).                                                      *)
(*                                                                         *)
(* Coroutines of one event loop: what runs between two awaits is one       *)
(* action.  run() of a job and the audit insert go to the loop's default   *)
(* ThreadPoolExecutor, a FIFO queue in front of a bounded set of workers.  *)
(* A worker's return and the resumption of the coroutine that awaits it    *)
(* are one step.                                                           *)
(*                                                                         *)
(* Abstracted: clocks (is_due becomes true at any time, and false again    *)
(* only for a daily job at midnight), durations, messages.  An execution   *)
(* is a job with a slot; the slots bound how many executions of one job    *)
(* are in flight.                                                          *)
(***************************************************************************)
EXTENDS Naturals, Sequences, FiniteSets

CONSTANTS Jobs,          \* the registry
          DailyJobs,     \* those with a DailyTimeSchedule
          SlowJobs,      \* those whose run() may never return
          MaxAttempts,   \* retry_policy.max_attempts of each job
          LoopSlots,     \* executions that _loop fires
          ManualSlots,   \* executions that run_job_now starts
          Workers        \* threads of the default executor

ASSUME SchedulerAssumption ==
    /\ DailyJobs \subseteq Jobs
    /\ SlowJobs \subseteq Jobs
    /\ MaxAttempts \in [Jobs -> Nat \ {0}]
    /\ LoopSlots \cap ManualSlots = {}
    /\ Workers \in Nat \ {0}

VARIABLES life,       \* the lifespan, and how far stop() has come
          due,        \* jobs whose is_due(_last_run.get(name), now) holds
          running,    \* _running
          awaited,    \* what stop() gathers
          pc,         \* per execution: where it is
          attempt,    \* per execution: attempt
          alerted,    \* executions that have published job.failed
          queue,      \* the executor's work queue
          lastResult  \* _last_result: status of each job, or "none"

vars == <<life, due, running, awaited, pc, attempt, alerted, queue, lastResult>>

Runs     == Jobs \X (LoopSlots \cup ManualSlots)
LoopRuns == Jobs \X LoopSlots
Job(r)   == r[1]

\* "created": task made, not yet begun.  "queued" / "running": run() waits for
\* a worker / has one.  "sleeping": between two attempts.  "recorded" /
\* "auditing": the audit insert waits for a worker / has one.
PCs == {"idle", "created", "queued", "running", "sleeping", "recorded", "auditing"}

Executing == {r \in Runs : pc[r] \in {"running", "auditing"}}

TypeOK ==
    /\ life \in {"stopped", "running", "cancelling", "draining"}
    /\ due \subseteq Jobs
    /\ running \subseteq Runs
    /\ awaited \subseteq Runs
    /\ pc \in [Runs -> PCs]
    /\ attempt \in [Runs -> Nat]
    /\ alerted \subseteq Runs
    /\ queue \in Seq(Runs)
    /\ lastResult \in [Jobs -> {"none", "success", "failed"}]

\* A job that never ran is due at once, a daily one only past its time.
Init ==
    /\ life = "stopped"
    /\ due \in {S \in SUBSET Jobs : Jobs \ DailyJobs \subseteq S}
    /\ running = {}
    /\ awaited = {}
    /\ pc = [r \in Runs |-> "idle"]
    /\ attempt = [r \in Runs |-> 0]
    /\ alerted = {}
    /\ queue = <<>>
    /\ lastResult = [j \in Jobs |-> "none"]

Goto(r, label) == pc' = [pc EXCEPT ![r] = label]

-----------------------------------------------------------------------------
\* Fault variants, each substituted for the definition named beside it.
AliveUntilStopped == life # "stopped"                     \* LoopAlive
OneAtATime == life = "running" /\ running = {}            \* LoopAlive
SameAttempt(r) == attempt[r]                              \* NextAttempt

-----------------------------------------------------------------------------
(* Schedules *)

\* Time makes a job due.  The guard is the bound on overlapping executions: a
\* job comes due while it still has an idle slot.
ComeDue(j) ==
    /\ j \notin due
    /\ \E n \in LoopSlots : pc[<<j, n>>] = "idle"
    /\ due' = due \cup {j}
    /\ UNCHANGED <<life, running, awaited, pc, attempt, alerted, queue, lastResult>>

\* DailyTimeSchedule: before today's target the job is not due, even when
\* yesterday's was never served.
Midnight(j) ==
    /\ j \in due \cap DailyJobs
    /\ due' = due \ {j}
    /\ UNCHANGED <<life, running, awaited, pc, attempt, alerted, queue, lastResult>>

-----------------------------------------------------------------------------
(* SchedulerEngine: lifecycle and loop *)

Start ==
    /\ life = "stopped"
    /\ life' = "running"
    /\ UNCHANGED <<due, running, awaited, pc, attempt, alerted, queue, lastResult>>

\* The loop task sleeps between ticks until it is cancelled.
LoopAlive == life = "running"

\* One turn of _loop fires every due job.  A turn that finds none changes
\* nothing.
Tick ==
    /\ LoopAlive
    /\ due # {}
    /\ \E slot \in [due -> LoopSlots] :
          LET fired == {<<j, slot[j]>> : j \in due} IN
          /\ \A r \in fired : pc[r] = "idle"
          /\ pc' = [r \in Runs |-> IF r \in fired THEN "created" ELSE pc[r]]
          /\ running' = running \cup fired
    /\ due' = {}
    /\ UNCHANGED <<life, awaited, attempt, alerted, queue, lastResult>>

\* stop(): the flag is set and the loop task cancelled, in one go.
Stop ==
    /\ life = "running"
    /\ life' = "cancelling"
    /\ UNCHANGED <<due, running, awaited, pc, attempt, alerted, queue, lastResult>>

\* list(self._running)
InFlight == running

\* The loop task has ended; stop() gathers what is still in flight, if any.
LoopEnds ==
    /\ life = "cancelling"
    /\ awaited' = InFlight
    /\ life' = IF InFlight = {} THEN "stopped" ELSE "draining"
    /\ UNCHANGED <<due, running, pc, attempt, alerted, queue, lastResult>>

Drained ==
    /\ life = "draining"
    /\ \A r \in awaited : pc[r] = "idle"
    /\ life' = "stopped"
    /\ awaited' = {}
    /\ UNCHANGED <<due, running, pc, attempt, alerted, queue, lastResult>>

-----------------------------------------------------------------------------
(* BaseSchedulerJob.execute, _record and the executor *)

\* await asyncio.to_thread(self.run)
SubmitRun(r, k) ==
    /\ attempt' = [attempt EXCEPT ![r] = k]
    /\ queue' = Append(queue, r)
    /\ Goto(r, "queued")

BeginExecute(r) ==
    /\ pc[r] = "created"
    /\ SubmitRun(r, 1)
    /\ UNCHANGED <<life, due, running, awaited, alerted, lastResult>>

\* run_job_now(name), from a request handler: it marks the job as just run and
\* goes straight on into execute().  Requests are served while the application
\* is up.
RunJobNow(r) ==
    /\ life = "running"
    /\ r \notin LoopRuns
    /\ pc[r] = "idle"
    /\ due' = due \ {Job(r)}
    /\ SubmitRun(r, 1)
    /\ UNCHANGED <<life, running, awaited, alerted, lastResult>>

WorkerTakes ==
    /\ queue # <<>>
    /\ Cardinality(Executing) < Workers
    /\ LET r == Head(queue) IN
          Goto(r, IF pc[r] = "queued" THEN "running" ELSE "auditing")
    /\ queue' = Tail(queue)
    /\ UNCHANGED <<life, due, running, awaited, attempt, alerted, lastResult>>

\* _record(): keep the result, publish job.failed, submit the audit insert.
Record(r, status) ==
    /\ lastResult' = [lastResult EXCEPT ![Job(r)] = status]
    /\ alerted' = IF status = "failed" THEN alerted \cup {r} ELSE alerted
    /\ queue' = Append(queue, r)
    /\ Goto(r, "recorded")
    /\ UNCHANGED <<life, due, running, awaited, attempt>>

RunReturns(r) ==
    /\ pc[r] = "running"
    /\ Record(r, "success")

MayRetry(r) == attempt[r] < MaxAttempts[Job(r)]

\* JobStatus of an execution out of attempts.
Failure(j) == "failed"

RunRaises(r) ==
    /\ pc[r] = "running"
    /\ \/ /\ MayRetry(r)
          /\ Goto(r, "sleeping")
          /\ UNCHANGED <<life, due, running, awaited, attempt, alerted, queue, lastResult>>
       \/ /\ ~MayRetry(r)
          /\ Record(r, Failure(Job(r)))

NextAttempt(r) == attempt[r] + 1

SleepEnds(r) ==
    /\ pc[r] = "sleeping"
    /\ SubmitRun(r, NextAttempt(r))
    /\ UNCHANGED <<life, due, running, awaited, alerted, lastResult>>

\* The insert is done, or raised and was logged: the task ends, and its done
\* callback takes it out of _running.
AuditEnds(r) ==
    /\ pc[r] = "auditing"
    /\ Goto(r, "idle")
    /\ running' = running \ {r}
    /\ attempt' = [attempt EXCEPT ![r] = 0]
    /\ alerted' = alerted \ {r}
    /\ UNCHANGED <<life, due, awaited, queue, lastResult>>

RunEnds(r) == RunReturns(r) \/ RunRaises(r)

Next ==
    \/ \E j \in Jobs : ComeDue(j) \/ Midnight(j)
    \/ Start \/ Tick \/ Stop \/ LoopEnds \/ Drained
    \/ \E r \in Runs :
          \/ BeginExecute(r) \/ RunJobNow(r)
          \/ RunEnds(r) \/ SleepEnds(r) \/ AuditEnds(r)
    \/ WorkerTakes

Spec == Init /\ [][Next]_vars

\* The event loop runs what is ready, workers take work, sleeps end, and every
\* run() but those of SlowJobs returns or raises.
FairSpec ==
    /\ Spec
    /\ WF_vars(Tick) /\ WF_vars(LoopEnds) /\ WF_vars(Drained)
    /\ WF_vars(WorkerTakes)
    /\ \A r \in Runs :
          /\ WF_vars(BeginExecute(r))
          /\ WF_vars(SleepEnds(r))
          /\ WF_vars(AuditEnds(r))
          /\ Job(r) \notin SlowJobs => WF_vars(RunEnds(r))

-----------------------------------------------------------------------------
\* "let in-flight jobs finish cleanly" (engine.py:72): once stop() has
\* returned, and the lifespan goes on to shut the database down, no execution
\* the loop fired is anywhere between its creation and its audit record.
StopDrains == life = "stopped" => \A r \in LoopRuns : pc[r] = "idle"

\* An execution makes at most max_attempts attempts, and job.failed is
\* published only when all of them failed (base.py:136-153, engine.py:107).
AlertMeansExhausted ==
    \A r \in Runs :
        /\ attempt[r] <= MaxAttempts[Job(r)]
        /\ r \in alerted => attempt[r] = MaxAttempts[Job(r)]

\* stop() waits for nothing that cannot move: while it gathers, either it can
\* return, or an execution is out of the executor's queue, or the queue has
\* something to do and a worker free for it (engine.py:73).
DrainGoesOn ==
    life = "draining" =>
        \/ \A r \in awaited : pc[r] = "idle"
        \/ \E r \in Runs : pc[r] \in {"created", "running", "sleeping", "auditing"}
        \/ queue # <<>> /\ Cardinality(Executing) < Workers

\* What becomes of an execution: its attempts are counted, its failure is
\* published when they are used up, and stop() waits for it and for no more.
ExecutionsAccountedFor == StopDrains /\ AlertMeansExhausted /\ DrainGoesOn

\* "a slow job must never delay other jobs' ticks" (engine.py:84): a due
\* interval job is fired, whatever the executions in flight do.
DueJobFires ==
    \A j \in Jobs \ DailyJobs :
        (j \in due /\ life = "running") ~> (j \notin due \/ life # "running")

\* stop() returns, unless a job that may hang is in flight: the retries, the
\* audit inserts and the executor's queue all drain behind it.
StopReturns ==
    (life = "cancelling" /\ \A r \in Runs : Job(r) \in SlowJobs => pc[r] = "idle")
        ~> life = "stopped"

\* "a slow or crashing job does not block other jobs" (docs/spec.md:192): no
\* execution waits for a worker while another job has all of them.
SlowJobBlocksNobody ==
    \A r \in Runs :
        pc[r] = "queued" =>
            \/ Cardinality(Executing) < Workers
            \/ \A j \in Jobs \ {Job(r)} : \E e \in Executing : Job(e) # j
=============================================================================
