--------------------------- MODULE DailySchedule ---------------------------
(***************************************************************************)
(* DailyTimeSchedule.is_due() of scheduler/base.py, as the ticks of the    *)
(* engine ask it, and the "Run now" of the administrator, which writes the *)
(* same time of the last run.  The engine keeps that time by the monotonic *)
(* clock and the schedule its target by the wall clock.                    *)
(***************************************************************************)
EXTENDS Integers

CONSTANTS DayLength,   \* hours of a day
          Target,      \* hour
          LastHour,    \* where the model's clock stops
          MaxShifts,   \* bound of the changes of the wall clock and restarts
          NeverRun

ASSUME ScheduleAssumption ==
    /\ DayLength \in Nat \ {0} /\ Target \in 0..(DayLength - 1)
    /\ LastHour \in Nat /\ MaxShifts \in Nat /\ NeverRun \notin Nat

VARIABLES monotonic,   \* hours since the first start
          shift,       \* wall clock = monotonic + shift
          lastRun,     \* monotonic time of the last run, or NeverRun
          runs,        \* runs[d]: how often a tick started the job on day d
          ticked,      \* days on which a tick came at or after the target
          byHand,      \* days on which "Run now" came between target and tick
          shifts,      \* clock changes and restarts so far
          shiftedDays    \* days on which there was one

scheduleVars == <<monotonic, shift, lastRun, runs, ticked, byHand, shifts, shiftedDays>>

Wall == monotonic + shift
Day(wall) == wall \div DayLength
ScheduleDays == 0..Day(LastHour + DayLength + MaxShifts)
TargetOf(d) == d * DayLength + Target

ScheduleTypeOK ==
    /\ monotonic \in 0..LastHour
    /\ shift \in Int /\ Wall \in Nat
    /\ lastRun \in Nat \cup {NeverRun}
    /\ runs \in [ScheduleDays -> Nat]
    /\ ticked \subseteq ScheduleDays /\ byHand \subseteq ScheduleDays
    /\ shiftedDays \subseteq ScheduleDays
    /\ shifts \in 0..MaxShifts

ScheduleInit ==
    /\ monotonic = 0
    /\ shift \in 0..(DayLength - 1)
    /\ lastRun = NeverRun
    /\ runs = [d \in ScheduleDays |-> 0]
    /\ ticked = {} /\ byHand = {}
    /\ shifts = 0
    /\ shiftedDays = {}

-----------------------------------------------------------------------------
\* Fault variants, each substituted for the definition named beside it.
DayAfterRun(last) == monotonic - last >= DayLength                   \* Unserved

-----------------------------------------------------------------------------
Reached == Wall >= TargetOf(Day(Wall))

\* last_run_wall < target: the run predates today's target.
Unserved(last) == Wall - (monotonic - last) < TargetOf(Day(Wall))

Due == Reached /\ (lastRun = NeverRun \/ Unserved(lastRun))

\* A tick of the engine.  Ticks are less than an hour apart while the loop
\* runs; a blocked loop skips hours.
EngineTick ==
    /\ ticked' = IF Reached THEN ticked \cup {Day(Wall)} ELSE ticked
    /\ IF Due THEN /\ lastRun' = monotonic
                   /\ runs' = [runs EXCEPT ![Day(Wall)] = @ + 1]
       ELSE UNCHANGED <<lastRun, runs>>
    /\ UNCHANGED <<monotonic, shift, byHand, shifts, shiftedDays>>

\* run_job_now(): "Run now" starts the job whatever the schedule says, and is
\* the last run from then on.
RunJobNow ==
    /\ lastRun' = monotonic
    /\ byHand' = IF Reached /\ Day(Wall) \notin ticked THEN byHand \cup {Day(Wall)}
                 ELSE byHand
    /\ UNCHANGED <<monotonic, shift, runs, ticked, shifts, shiftedDays>>

Hour ==
    /\ monotonic < LastHour
    /\ monotonic' = monotonic + 1
    /\ UNCHANGED <<shift, lastRun, runs, ticked, byHand, shifts, shiftedDays>>

Disturb ==
    /\ shifts < MaxShifts
    /\ shifts' = shifts + 1
    /\ shiftedDays' = shiftedDays \cup {Day(Wall), Day(Wall')}

\* Summer time, or a clock that is set.
ClockChange ==
    /\ \E change \in {-1, 1} : Wall + change \in Nat /\ shift' = shift + change
    /\ UNCHANGED <<monotonic, lastRun, runs, ticked, byHand>>
    /\ Disturb

\* A new process knows of no run.
RestartEngine ==
    /\ lastRun' = NeverRun
    /\ UNCHANGED <<monotonic, shift, runs, ticked, byHand>>
    /\ Disturb

ScheduleNext == EngineTick \/ RunJobNow \/ Hour \/ ClockChange \/ RestartEngine

ScheduleSpec == ScheduleInit /\ [][ScheduleNext]_scheduleVars

-----------------------------------------------------------------------------
\* "Runs once per day at HH:MM" (scheduler/base.py:75), between two restarts:
\* on a day with a tick at or after the target the ticks start the job exactly
\* once, although the last run is known by another clock and ticks come at any
\* hour.  A "Run now" after the target and before the first such tick serves the
\* day in its place ("this target has not been served", scheduler/base.py:90);
\* one before the target, or after the tick, is a run on top and neither
\* suppresses nor repeats the scheduled one of any day.  A restart after the
\* target runs the job again, and a change of the clock may run it twice or not
\* at all.
OncePerDay ==
    \A d \in ScheduleDays \ shiftedDays :
        runs[d] = IF d \in ticked \ byHand THEN 1 ELSE 0
=============================================================================
