---------------------------- MODULE DailyPipeline ---------------------------
(***************************************************************************)
(* One trading day of the whole service, for one stock of the watchlist:   *)
(* the scheduler of the application, the bodies of its jobs, the commands  *)
(* an operator may run beside it, and the tables they meet in.  The other  *)
(* modules open each body up; here a body is as many steps as other        *)
(* processes can tell apart, and the question is what the schedule alone   *)
(* guarantees, since no job waits for the one it depends on.               *)
(*                                                                         *)
(* The stock is one that both rules fire for once their rows are there.    *)
(* A writer of a payload commits in the step that inserts it: RowTransform *)
(* shows what the gap between the two can do.                              *)
(***************************************************************************)
EXTENDS JobScheduler, Sequences

CONSTANTS
    Datasets,
    Signals,
    Needs,              \* per signal, the datasets its rule reads rows of
    DatasetOf,          \* the dataset of each ingest and transform job
    EvaluatedSignals,   \* the signals of register_signal_jobs, in order
    NotifiedSignals,    \* the signal_names of register_notification_jobs
    CommandSignals,     \* the registry of the commands
    SyncLists,          \* the dataset lists of the ingest commands
    Commands,           \* processes that run commands
    NotYet,             \* a payload that is not in ingest_raw
    NoMessage,          \* the scheduled notification is not decided
    MaxCommands,        \* bound: commands run
    MaxFaults           \* bound: disturbances of the application

Evaluation == "signal_evaluation"
Dispatch   == "notification_dispatch"

\* without a webhook URL the application does not register Dispatch
ASSUME JobsAssumption ==
    /\ Evaluation \in CronJobs
    /\ Dispatch \notin IntervalJobs
    /\ DatasetOf \in [Jobs \ {Evaluation, Dispatch} -> Datasets]
ASSUME SignalListsAssumption ==
    /\ EvaluatedSignals \in Seq(Signals) \ {<< >>}
    /\ {NotifiedSignals, CommandSignals} \subseteq Seq(Signals)
    /\ SyncLists \subseteq Seq(Datasets) \ {<< >>}
ASSUME NeedsAssumption == Needs \in [Signals -> SUBSET Datasets]
ASSUME CommandsAssumption == Commands \cap (Jobs \cup {Dispatch}) = {}
ASSUME AbsentAssumption == NotYet \notin Int /\ \A sent \in SUBSET Signals : NoMessage # sent
ASSUME BoundsAssumption == MaxCommands \in Nat /\ MaxFaults \in Nat

VARIABLES
    run,        \* per job and command process, its open call
    rawAt,      \* per dataset, the slot the stock's payload was committed in
    rows,       \* the datasets with a domain row of the stock for the day
    events,     \* the signals with an event of the stock for the day
    message,    \* what the scheduled notification sent; {} if it skipped
    shown,      \* the signals the channel shows an event of
    evaluated,  \* history: the signals the scheduled evaluation recorded
    faults,     \* history: the disturbances, in order
    calm,       \* history: the slots since the last one was over, up to Settle
    commands    \* history: the number of commands run

dayVars == <<run, rawAt, rows, events, message, shown, evaluated, commands>>
weather == <<faults, calm>>
vars == <<schedulerVars, dayVars, weather>>

Runners == Jobs \cup Commands

\* the slots a payload may take to its domain table
Settle == 2

Idle == [pc |-> "idle", todo |-> << >>, got |-> {}, slow |-> FALSE]
Call(pc, todo) == [pc |-> pc, todo |-> todo, got |-> {}, slow |-> FALSE]

Open == {r \in Runners : run[r].pc # "idle"}

\* what a job's tick calls: the registrations of create_app
Tick(j) ==
    IF j = Evaluation THEN Call("read", EvaluatedSignals)
    ELSE IF j = Dispatch THEN Call("load", NotifiedSignals)
    ELSE Call(IF j \in IntervalJobs THEN "fetch" ELSE "ingest", <<DatasetOf[j]>>)

FaultKinds == {"blocked", "slow", "failed", "stopped"}

\* something the schedule does not allow for happens to the application
Fault(kind) ==
    /\ Len(faults) < MaxFaults
    /\ faults' = Append(faults, kind)
    /\ calm' = 0

Happened(kind) == \E n \in DOMAIN faults : faults[n] = kind
Undisturbed == faults = << >>

NonEmpty(S) == Seq(S) \ {<< >>}

CallOf(pcs, todos, gots) == [pc : pcs, todo : todos, got : gots, slow : BOOLEAN]

DataCalls   == CallOf({"ingest", "fetch", "commit"}, NonEmpty(Datasets), {{}})
RuleCalls   == CallOf({"read", "record"}, NonEmpty(Signals), {{}})
NotifyCalls == CallOf({"load"}, Seq(Signals), SUBSET Signals)
Calls       == {Idle} \cup DataCalls \cup RuleCalls \cup NotifyCalls

TypeOK ==
    /\ SchedulerTypeOK
    /\ run \in [Runners -> Calls]
    /\ rawAt \in [Datasets -> (0..LastSlot) \cup {NotYet}]
    /\ rows \subseteq Datasets
    /\ events \subseteq Signals /\ shown \subseteq Signals /\ evaluated \subseteq Signals
    /\ message = NoMessage \/ message \subseteq Signals
    /\ faults \in Seq(FaultKinds) /\ Len(faults) <= MaxFaults
    /\ calm \in 0..Settle
    /\ commands \in 0..MaxCommands

\* the application has just started, before the first time of the day
Init ==
    /\ SchedulerInit
    /\ run = [r \in Runners |-> Idle]
    /\ rawAt = [d \in Datasets |-> NotYet]
    /\ rows = {}
    /\ events = {}
    /\ message = NoMessage
    /\ shown = {}
    /\ evaluated = {}
    /\ faults = << >>
    /\ calm = 0
    /\ commands = 0
-----------------------------------------------------------------------------
(***************************************************************************)
(* Time and the scheduler.  A slot ends when what was due in it has been   *)
(* started and every job but an ingest, which may take hours at eight      *)
(* requests a minute, has ended; else that is a disturbance: the loop is   *)
(* blocked, or a job is slow.                                              *)
(***************************************************************************)
IsIngest(r) == run[r].pc = "ingest"

SlotEnds ==
    /\ \/ blocked
       \/ /\ Due = {}
          /\ \A j \in Jobs \cap Open : IsIngest(j) \/ run[j].slow
    /\ ClockTicks
    /\ calm' = IF blocked \/ ~up \/ \E j \in Jobs : run[j].slow THEN 0
               ELSE IF calm < Settle THEN calm + 1 ELSE calm
    /\ UNCHANGED <<up, blocked, dayVars, faults>>

Wake ==
    /\ Wakeup(Open)
    /\ run' = [r \in Runners |-> IF r \in Fired(Open) THEN Tick(r) ELSE run[r]]
    /\ UNCHANGED <<now, up, blocked, rawAt, rows, events, message, shown, evaluated,
                   commands, weather>>

Block ==
    /\ up /\ ~blocked
    /\ Fault("blocked")
    /\ blocked' = TRUE
    /\ UNCHANGED <<now, up, due, dayVars>>

Unblock ==
    /\ blocked
    /\ blocked' = FALSE
    /\ UNCHANGED <<now, up, due, dayVars, weather>>

\* a job takes longer than its slot: a slow query, a lock, retries
Slow(j) ==
    /\ j \in Open /\ ~IsIngest(j) /\ ~run[j].slow
    /\ Fault("slow")
    /\ run' = [run EXCEPT ![j].slow = TRUE]
    /\ UNCHANGED <<schedulerVars, rawAt, rows, events, message, shown, evaluated, commands>>

\* shutdown cancels the open jobs, a crash ends them; commands go on
Stop ==
    /\ SchedulerStop
    /\ Fault("stopped")
    /\ run' = [r \in Runners |-> IF r \in Jobs THEN Idle ELSE run[r]]
    /\ UNCHANGED <<now, rawAt, rows, events, message, shown, evaluated, commands>>

Start ==
    /\ SchedulerStart
    /\ UNCHANGED <<now, blocked, dayVars, weather>>
-----------------------------------------------------------------------------
(* The bodies.  The steps of a job wait while the event loop is blocked.   *)

AtStep(r, pc) ==
    /\ run[r].pc = pc
    /\ r \in Jobs => ~blocked

Item(r) == Head(run[r].todo)

\* the call after its first item: the next one from the given step, or the end
After(c, pc) ==
    IF Tail(c.todo) = << >> THEN Idle
    ELSE [c EXCEPT !.pc = pc, !.todo = Tail(c.todo)]

\* the stock's turn in the ingest of a dataset: its payload, or a failure row
IngestStock(r) ==
    /\ AtStep(r, "ingest")
    /\ \/ rawAt' = [rawAt EXCEPT ![Item(r)] = IF @ = NotYet THEN now ELSE @]
       \/ UNCHANGED rawAt
    /\ run' = [run EXCEPT ![r] = After(@, "ingest")]
    /\ UNCHANGED <<schedulerVars, rows, events, message, shown, evaluated, commands, weather>>

\* an error that is no FinMindError ends the ingest, and a command's next dataset
IngestRaises(r) ==
    /\ AtStep(r, "ingest")
    /\ run' = [run EXCEPT ![r] = Idle]
    /\ UNCHANGED <<schedulerVars, rawAt, rows, events, message, shown, evaluated,
                   commands, weather>>

\* process_new reads the raw rows past the cursor, and returns if there are none
FetchRaw(r) ==
    /\ AtStep(r, "fetch")
    /\ run' = [run EXCEPT ![r] =
                  IF rawAt[Item(r)] = NotYet \/ Item(r) \in rows THEN Idle
                  ELSE [@ EXCEPT !.pc = "commit"]]
    /\ UNCHANGED <<schedulerVars, rawAt, rows, events, message, shown, evaluated,
                   commands, weather>>

\* and commits their upserts
CommitRows(r) ==
    /\ AtStep(r, "commit")
    /\ rows' = rows \cup {Item(r)}
    /\ run' = [run EXCEPT ![r] = Idle]
    /\ UNCHANGED <<schedulerVars, rawAt, events, message, shown, evaluated, commands, weather>>

\* variant with a fault: the rule gives up unless every dataset has rows
ReadRowsOfAll(r) ==
    /\ AtStep(r, "read")
    /\ run' = [run EXCEPT ![r] = IF Datasets \subseteq rows THEN [@ EXCEPT !.pc = "record"]
                                 ELSE After(@, "read")]
    /\ UNCHANGED <<schedulerVars, rawAt, rows, events, message, shown, evaluated,
                   commands, weather>>

\* evaluate() reads the rows for one signal; if the rule does not fire there is
\* nothing to write.  Rows are never deleted, so its three queries together see
\* what one of them could have seen alone.
ReadRows(r) ==
    /\ AtStep(r, "read")
    /\ run' = [run EXCEPT ![r] = IF Needs[Item(r)] \subseteq rows THEN [@ EXCEPT !.pc = "record"]
                                 ELSE After(@, "read")]
    /\ UNCHANGED <<schedulerVars, rawAt, rows, events, message, shown, evaluated,
                   commands, weather>>

\* variant with a fault: the loop does not notice its end
RecordEventOnAndOn(r) ==
    /\ AtStep(r, "record")
    /\ events' = events \cup {Item(r)}
    /\ evaluated' = IF r = Evaluation THEN evaluated \cup {Item(r)} ELSE evaluated
    /\ run' = [run EXCEPT ![r] = [@ EXCEPT !.pc = "read", !.todo = Tail(@)]]
    /\ UNCHANGED <<schedulerVars, rawAt, rows, message, shown, commands, weather>>

\* it upserts the event; the tick goes on with the next signal
RecordEvent(r) ==
    /\ AtStep(r, "record")
    /\ events' = events \cup {Item(r)}
    /\ evaluated' = IF r = Evaluation THEN evaluated \cup {Item(r)} ELSE evaluated
    /\ run' = [run EXCEPT ![r] = After(@, "read")]
    /\ UNCHANGED <<schedulerVars, rawAt, rows, message, shown, commands, weather>>

\* variant with a fault: what the channel shows already is left out
LoadEventsUnshown(r) ==
    /\ AtStep(r, "load")
    /\ run[r].todo # << >>
    /\ run' = [run EXCEPT ![r].got = @ \cup (({Item(r)} \cap events) \ shown),
                          ![r].todo = Tail(@)]
    /\ UNCHANGED <<schedulerVars, rawAt, rows, events, message, shown, evaluated,
                   commands, weather>>

\* publish_daily reads the events of one signal name
LoadEvents(r) ==
    /\ AtStep(r, "load")
    /\ run[r].todo # << >>
    /\ run' = [run EXCEPT ![r].got = @ \cup ({Item(r)} \cap events), ![r].todo = Tail(@)]
    /\ UNCHANGED <<schedulerVars, rawAt, rows, events, message, shown, evaluated,
                   commands, weather>>

\* the scheduled notification is decided by its own call, not by a command's
Decided(r) == message' = IF r = Dispatch THEN run[r].got ELSE message

\* it posts what it read; with nothing to post it skips the channel
Publish(r) ==
    /\ AtStep(r, "load")
    /\ run[r].todo = << >>
    /\ Decided(r)
    /\ shown' = shown \cup run[r].got
    /\ run' = [run EXCEPT ![r] = Idle]
    /\ UNCHANGED <<schedulerVars, rawAt, rows, events, evaluated, commands, weather>>

\* a database error, or the webhook's; the channel may show the message.  The
\* scheduler logs the error, and the job fires again at its next time.
JobRaises(j) ==
    /\ \E pc \in {"fetch", "commit", "read", "record", "load"} : AtStep(j, pc)
    /\ Fault("failed")
    /\ \/ UNCHANGED <<message, shown>>
       \/ run[j].pc = "load" /\ run[j].todo = << >>
          /\ Decided(j) /\ shown' = shown \cup run[j].got
    /\ run' = [run EXCEPT ![j] = Idle]
    /\ UNCHANGED <<schedulerVars, rawAt, rows, events, evaluated, commands>>

\* `literati-ingest` and `literati-signal`: an ingest of one or two datasets, a
\* transform, an evaluate or a backfill of the day, a notify
RunCommand(c) ==
    /\ run[c] = Idle
    /\ commands < MaxCommands
    /\ commands' = commands + 1
    /\ \E call \in {Call("ingest", list) : list \in SyncLists}
                      \cup {Call("fetch", <<d>>) : d \in Datasets}
                      \cup {Call("read", <<s>>) : s \in Signals}
                      \cup (IF Dispatch \in Jobs THEN {Call("load", CommandSignals)} ELSE {}) :
          run' = [run EXCEPT ![c] = call]
    /\ UNCHANGED <<schedulerVars, rawAt, rows, events, message, shown, evaluated, weather>>

\* a command fails or is interrupted; a POST may have been shown
CommandDies(c) ==
    /\ run[c].pc # "idle"
    /\ \/ UNCHANGED shown
       \/ run[c].pc = "load" /\ run[c].todo = << >> /\ shown' = shown \cup run[c].got
    /\ run' = [run EXCEPT ![c] = Idle]
    /\ UNCHANGED <<schedulerVars, rawAt, rows, events, message, evaluated, commands, weather>>
-----------------------------------------------------------------------------
BodyStep(r) ==
    \/ IngestStock(r) \/ IngestRaises(r)
    \/ FetchRaw(r) \/ CommitRows(r)
    \/ ReadRows(r) \/ RecordEvent(r)
    \/ LoadEvents(r) \/ Publish(r)

Next ==
    \/ SlotEnds \/ Wake \/ Block \/ Unblock \/ Stop \/ Start
    \/ \E j \in Jobs : Slow(j) \/ JobRaises(j)
    \/ \E r \in Runners : BodyStep(r)
    \/ \E c \in Commands : RunCommand(c) \/ CommandDies(c)

Spec == Init /\ [][Next]_vars
-----------------------------------------------------------------------------
SignalsOf(list) == {list[n] : n \in DOMAIN list}

(* What create_app gives the three jobs that only the clock puts in order.  *)

\* register_signal_jobs and register_notification_jobs: 17:45 and 17:50
EvaluationFirst == Dispatch \in Jobs => FireAt[Evaluation] < FireAt[Dispatch]

\* register_price_jobs and register_chip_jobs: a transform for each dataset
EveryTransform == \A d \in Datasets : \E j \in IntervalJobs : DatasetOf[j] = d

\* create_app: the notification is told of signals that are evaluated
AllEvaluated == SignalsOf(NotifiedSignals) \subseteq SignalsOf(EvaluatedSignals)

ByThen(d, slot) == rawAt[d] # NotYet /\ rawAt[d] <= slot

\* The latency of the transforms, and their recovery: a payload is in its domain
\* table two slots after it was committed, however the ticks fall between the
\* commits of the ingests, if the last two slots were calm.  What a slow or failed
\* tick, a blocked loop or a restart held up is made good by then.
RowsInTime ==
    calm = Settle => \A d \in Datasets : ByThen(d, now - Settle) => d \in rows

\* the payloads a signal needs were committed two slots before its evaluation
InTime(s) == \A d \in Needs[s] : ByThen(d, FireAt[Evaluation] - Settle)

\* the day's run of the notification has been and is over
IsOver == Dispatch \in Jobs /\ due[Dispatch] = NoFire /\ run[Dispatch].pc = "idle"

\* The day end to end: payload to message through three jobs that only the
\* clock puts in order.  On an undisturbed day the notification sends, of the
\* signals the application is told to notify, all whose payloads came in time.
DayComplete ==
    Undisturbed /\ IsOver =>
        \A s \in SignalsOf(NotifiedSignals) : InTime(s) => message # NoMessage /\ s \in message

\* When neither a blocked loop nor a slow job lets the notification catch up
\* with the evaluation, it covers all that the evaluation recorded, also when
\* the evaluation ended early, the application was restarted in between, or an
\* operator posted the same events before.
DispatchComplete ==
    ~Happened("blocked") /\ ~Happened("slow") /\ message # NoMessage =>
        evaluated \cap SignalsOf(NotifiedSignals) \subseteq message

Promise == INSTANCE DailyPromise WITH Notified <- SignalsOf(NotifiedSignals)

\* However jobs are late, dropped, cancelled, run twice by hand, or come back
\* after a restart: the day's notification is decided at most once, and events
\* and messages have what they claim to rest on.
ImplementsPromise == Promise!Spec
=============================================================================
