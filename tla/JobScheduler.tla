---------------------------- MODULE JobScheduler ----------------------------
(***************************************************************************)
(* IngestScheduler: an APScheduler with an in-memory job store, coalescing *)
(* on, one instance per job, and a grace time after which a late run is    *)
(* dropped.  Time passes in slots of 300 seconds, the interval of the      *)
(* interval jobs; the grace time is two slots, and the notification fires  *)
(* one slot after the evaluation.  The modelled part of a day ends with    *)
(* LastSlot: then the clock stands still, and the interval jobs go on.     *)
(*                                                                         *)
(* APScheduler is external; this is the part of it that the defaults of    *)
(* IngestScheduler select.                                                 *)
(***************************************************************************)
EXTENDS Integers

CONSTANTS
    IntervalJobs,   \* jobs with an IntervalTrigger of one slot
    CronJobs,       \* jobs with a CronTrigger
    FireAt,         \* per cron job, the slot of its time of the day
    Grace,          \* misfire_grace_time in slots, 2 in the code
    LastSlot,       \* bound: the slots of the day
    MaxLate,        \* bound: the slots a blocked process may be behind
    NoFire          \* a cron job that fires no more today

Jobs == IntervalJobs \cup CronJobs

ASSUME FireAtAssumption == FireAt \in [CronJobs -> 1..LastSlot]
ASSUME JobKindsAssumption == IntervalJobs \cap CronJobs = {}
ASSUME SlotsAssumption == {Grace, MaxLate} \subseteq Nat /\ LastSlot \in Nat \ {0}
ASSUME NoFireAssumption == NoFire \notin Int

VARIABLES
    now,        \* the slot of the day
    up,         \* the application runs
    blocked,    \* its event loop does not turn: blocked, or the host asleep
    due         \* per job, the slots until its next_run_time; 0 is due

schedulerVars == <<now, up, blocked, due>>

NoneDue == [j \in Jobs |-> NoFire]

\* variant with a fault: a cron job added in its own slot fires in it once more
FirstDueAgain(slot) ==
    [j \in Jobs |-> IF j \in IntervalJobs THEN 1
                    ELSE IF FireAt[j] >= slot THEN FireAt[j] - slot ELSE NoFire]

\* the first run time of a job added in a slot: an interval from now, or the
\* next time of the day; a time that has passed is tomorrow's
FirstDue(slot) ==
    [j \in Jobs |-> IF j \in IntervalJobs THEN 1
                    ELSE IF FireAt[j] > slot THEN FireAt[j] - slot ELSE NoFire]

SchedulerInit ==
    /\ now = 0
    /\ up = TRUE
    /\ blocked = FALSE
    /\ due = FirstDue(0)

SchedulerTypeOK ==
    /\ now \in 0..LastSlot
    /\ up \in BOOLEAN
    /\ blocked \in BOOLEAN
    /\ due \in [Jobs -> ((-MaxLate)..LastSlot) \cup {NoFire}]

Due == {j \in Jobs : due[j] # NoFire /\ due[j] <= 0}

\* run_coroutine_job drops a run that starts later than the grace time.  Of an
\* interval job that is behind, coalescing keeps the last run time only, which
\* is less than an interval ago.
Missed(j) == j \in CronJobs /\ -due[j] > Grace

\* the jobs a wakeup starts: due, and no instance of them open
Fired(open) == {j \in Due \ open : ~Missed(j)}

\* variant with a fault: a job whose instance is still open is not scheduled again
RearmedIdle(open) ==
    [j \in Jobs |-> IF j \notin Due THEN due[j]
                    ELSE IF j \in IntervalJobs \ open THEN 1 ELSE NoFire]

\* what is due is scheduled again, run or not
Rearmed(open) ==
    [j \in Jobs |-> IF j \notin Due THEN due[j]
                    ELSE IF j \in IntervalJobs THEN 1 ELSE NoFire]

\* one slot passes
ClockTicks ==
    /\ \A j \in Jobs : due[j] # NoFire => due[j] > -MaxLate
    /\ now' = IF now < LastSlot THEN now + 1 ELSE now
    /\ due' = [j \in Jobs |-> IF due[j] = NoFire THEN NoFire ELSE due[j] - 1]

\* _process_jobs: every due job, in one go
Wakeup(open) ==
    /\ up
    /\ ~blocked
    /\ Due # {}
    /\ due' = Rearmed(open)

\* scheduler.start(): the jobs registered before it get their first run time
SchedulerStart ==
    /\ ~up
    /\ up' = TRUE
    /\ due' = FirstDue(now)

\* scheduler.shutdown(), or a crash: the job store is lost
SchedulerStop ==
    /\ up
    /\ up' = FALSE
    /\ blocked' = FALSE
    /\ due' = NoneDue
=============================================================================
