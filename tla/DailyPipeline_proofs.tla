------------------------ MODULE DailyPipeline_proofs ------------------------
(***************************************************************************)
(* Theorems about DailyPipeline, for every schedule, every number of       *)
(* datasets, signals and commands, and any disturbances: its type          *)
(* invariant, that it implements DailyPromise, and what the clock alone    *)
(* guarantees: that the notification covers the evaluation, that payloads  *)
(* reach their tables in time, and that an undisturbed day is complete.    *)
(***************************************************************************)
EXTENDS DailyPipeline, SequenceTheorems, TLAPS

(***************************************************************************)
(* Type correctness.                                                       *)
(***************************************************************************)

LEMMA ElementTypes ==
  ASSUME NEW S, NEW list \in NonEmpty(S)
  PROVE  /\ Head(list) \in S
         /\ Tail(list) \in Seq(S)
  BY HeadTailProperties DEF NonEmpty

\* The step a call is at says what it holds.
LEMMA CallKinds ==
  ASSUME NEW c \in Calls
  PROVE  /\ c.pc = "idle" => c = Idle
         /\ c.pc \in {"ingest", "fetch", "commit"} => c \in DataCalls
         /\ c.pc \in {"read", "record"} => c \in RuleCalls
         /\ c.pc = "load" => c \in NotifyCalls
<1>1. Idle.pc = "idle"
  BY DEF Idle
<1>2. \A d \in DataCalls : d.pc \in {"ingest", "fetch", "commit"}
  BY DEF DataCalls, CallOf
<1>3. \A d \in RuleCalls : d.pc \in {"read", "record"}
  BY DEF RuleCalls, CallOf
<1>4. \A d \in NotifyCalls : d.pc = "load"
  BY DEF NotifyCalls, CallOf
<1> QED BY <1>1, <1>2, <1>3, <1>4 DEF Calls

LEMMA CallItems ==
  ASSUME NEW c \in Calls
  PROVE  /\ c.pc \in {"ingest", "fetch", "commit"} => c.todo \in NonEmpty(Datasets)
         /\ c.pc \in {"read", "record"} => c.todo \in NonEmpty(Signals)
         /\ c.pc = "load" => c.todo \in Seq(Signals) /\ c.got \subseteq Signals
  BY CallKinds DEF DataCalls, RuleCalls, NotifyCalls, CallOf

\* A call of a kind stays one when it goes to another step of the kind.
LEMMA Moved ==
  ASSUME NEW pcs, NEW todos, NEW gots, NEW c \in CallOf(pcs, todos, gots), NEW pc \in pcs
  PROVE  [c EXCEPT !.pc = pc] \in CallOf(pcs, todos, gots)
  BY DEF CallOf

LEMMA MovedOn ==
  ASSUME NEW pcs, NEW todos, NEW gots, NEW c \in CallOf(pcs, todos, gots), NEW pc \in pcs,
         NEW todo \in todos
  PROVE  [c EXCEPT !.pc = pc, !.todo = todo] \in CallOf(pcs, todos, gots)
  BY DEF CallOf

LEMMA AfterIngest ==
  ASSUME NEW c \in Calls, c.pc = "ingest"
  PROVE  After(c, "ingest") \in Calls
<1>1. c \in DataCalls
  BY CallKinds
<1>2. Tail(c.todo) = << >> \/ Tail(c.todo) \in NonEmpty(Datasets)
  BY <1>1, ElementTypes DEF DataCalls, CallOf, NonEmpty
<1>3. Tail(c.todo) # << >> => [c EXCEPT !.pc = "ingest", !.todo = Tail(c.todo)] \in DataCalls
  BY <1>1, <1>2, MovedOn DEF DataCalls
<1> QED BY <1>3, Zenon DEF After, Calls

LEMMA AfterRead ==
  ASSUME NEW c \in Calls, c.pc \in {"read", "record"}
  PROVE  After(c, "read") \in Calls
<1>1. c \in RuleCalls
  BY CallKinds
<1>2. Tail(c.todo) = << >> \/ Tail(c.todo) \in NonEmpty(Signals)
  BY <1>1, ElementTypes DEF RuleCalls, CallOf, NonEmpty
<1>3. Tail(c.todo) # << >> => [c EXCEPT !.pc = "read", !.todo = Tail(c.todo)] \in RuleCalls
  BY <1>1, <1>2, MovedOn DEF RuleCalls
<1> QED BY <1>3, Zenon DEF After, Calls

\* The calls that ticks and commands open.
LEMMA OpenedType ==
  /\ \A d \in Datasets : Call("fetch", <<d>>) \in Calls /\ Call("ingest", <<d>>) \in Calls
  /\ \A list \in NonEmpty(Datasets) : Call("ingest", list) \in Calls
  /\ \A list \in NonEmpty(Signals) : Call("read", list) \in Calls
  /\ \A list \in Seq(Signals) : Call("load", list) \in Calls
<1>1. \A d \in Datasets : <<d>> \in NonEmpty(Datasets)
  BY DEF NonEmpty
<1>2. \A list \in NonEmpty(Datasets) : Call("fetch", list) \in DataCalls /\ Call("ingest", list) \in DataCalls
  BY DEF Call, DataCalls, CallOf
<1>3. \A list \in NonEmpty(Signals) : Call("read", list) \in RuleCalls
  BY DEF Call, RuleCalls, CallOf
<1>4. \A list \in Seq(Signals) : Call("load", list) \in NotifyCalls
  BY DEF Call, NotifyCalls, CallOf
<1> QED BY <1>1, <1>2, <1>3, <1>4 DEF Calls

LEMMA TickType ==
  ASSUME NEW j \in Jobs
  PROVE  Tick(j) \in Calls
<1>1. EvaluatedSignals \in NonEmpty(Signals) /\ NotifiedSignals \in Seq(Signals)
  BY SignalListsAssumption DEF NonEmpty
<1>2. j \notin {Evaluation, Dispatch} => DatasetOf[j] \in Datasets
  BY JobsAssumption
<1> QED BY <1>1, <1>2, OpenedType DEF Tick

LEMMA FirstDueType ==
  ASSUME NEW slot \in 0..LastSlot
  PROVE  FirstDue(slot) \in [Jobs -> ((-MaxLate)..LastSlot) \cup {NoFire}]
  BY FireAtAssumption, SlotsAssumption DEF FirstDue, Jobs

LEMMA InitType == Init => TypeOK
<1> SUFFICES ASSUME Init PROVE TypeOK
  OBVIOUS
<1>1. SchedulerTypeOK
  <2>1. 0 \in 0..LastSlot
    BY SlotsAssumption
  <2> QED BY <2>1, FirstDueType DEF Init, SchedulerInit, SchedulerTypeOK
<1>2. Idle \in Calls
  BY DEF Calls
<1> QED BY <1>1, <1>2, BoundsAssumption, SlotsAssumption DEF Init, TypeOK, Settle

\* A disturbance is one more entry of a list that is kept short.
LEMMA FaultType ==
  ASSUME TypeOK, NEW kind \in FaultKinds, Fault(kind)
  PROVE  faults' \in Seq(FaultKinds) /\ Len(faults') <= MaxFaults /\ calm' \in 0..Settle
  BY BoundsAssumption DEF TypeOK, Fault, Settle

LEMMA TypeStep ==
  ASSUME TypeOK, [Next]_vars
  PROVE  TypeOK'
<1> USE DEF TypeOK, SchedulerTypeOK
<1>1. CASE SlotEnds
  <2>1. due' \in [Jobs -> ((-MaxLate)..LastSlot) \cup {NoFire}]
    BY <1>1, SlotsAssumption, NoFireAssumption DEF SlotEnds, ClockTicks
  <2>2. now' \in 0..LastSlot /\ calm' \in 0..Settle
    BY <1>1, SlotsAssumption DEF SlotEnds, ClockTicks, Settle
  <2> QED BY <1>1, <2>1, <2>2 DEF SlotEnds, dayVars
<1>2. CASE Wake
  <2>1. due' \in [Jobs -> ((-MaxLate)..LastSlot) \cup {NoFire}]
    BY <1>2, SlotsAssumption DEF Wake, Wakeup, Rearmed
  <2>2. run' \in [Runners -> Calls]
    BY <1>2, TickType DEF Wake, Fired, Due
  <2> QED BY <1>2, <2>1, <2>2 DEF Wake, Wakeup, weather
<1>3. CASE Block
  BY <1>3, FaultType DEF Block, dayVars, FaultKinds
<1>4. CASE Unblock
  BY <1>4 DEF Unblock, dayVars, weather
<1>5. CASE Stop
  <2>1. run' \in [Runners -> Calls]
    BY <1>5 DEF Stop, Calls
  <2>2. due' \in [Jobs -> ((-MaxLate)..LastSlot) \cup {NoFire}]
    BY <1>5 DEF Stop, SchedulerStop, NoneDue
  <2> QED BY <1>5, <2>1, <2>2, FaultType DEF Stop, SchedulerStop, FaultKinds
<1>6. CASE Start
  BY <1>6, FirstDueType DEF Start, SchedulerStart, dayVars, weather
<1>7. ASSUME NEW j \in Jobs, Slow(j) PROVE TypeOK'
  <2>1. run[j] \in Calls /\ run[j].pc # "idle"
    BY <1>7 DEF Slow, Open, Runners
  <2>2. [run[j] EXCEPT !.slow = TRUE] \in Calls
    <3>1. \A pcs, todos, gots : run[j] \in CallOf(pcs, todos, gots) =>
             [run[j] EXCEPT !.slow = TRUE] \in CallOf(pcs, todos, gots)
      BY DEF CallOf
    <3>2. run[j] # Idle
      BY <2>1 DEF Idle
    <3> QED BY <2>1, <3>1, <3>2 DEF Calls, DataCalls, RuleCalls, NotifyCalls
  <2>3. run' \in [Runners -> Calls]
    BY <1>7, <2>2 DEF Slow
  <2> QED BY <1>7, <2>3, FaultType DEF Slow, schedulerVars, FaultKinds
<1>8. ASSUME NEW j \in Jobs, JobRaises(j) PROVE TypeOK'
  <2>1. run' \in [Runners -> Calls]
    BY <1>8 DEF JobRaises, Calls
  <2>2. /\ message' = NoMessage \/ message' \subseteq Signals
        /\ shown' \subseteq Signals
    BY <1>8, CallItems DEF JobRaises, Decided, Runners
  <2> QED BY <1>8, <2>1, <2>2, FaultType DEF JobRaises, schedulerVars, FaultKinds
<1>9. ASSUME NEW r \in Runners, BodyStep(r) PROVE TypeOK'
  <2> USE <1>9
  <2>0. run[r] \in Calls
    OBVIOUS
  <2>1. CASE IngestStock(r)
    <3>1. run' \in [Runners -> Calls]
      BY <2>0, <2>1, AfterIngest DEF IngestStock, AtStep
    <3>2. rawAt' \in [Datasets -> (0..LastSlot) \cup {NotYet}]
      BY <2>1 DEF IngestStock
    <3> QED BY <2>1, <3>1, <3>2 DEF IngestStock, schedulerVars, weather
  <2>2. CASE IngestRaises(r)
    BY <2>2 DEF IngestRaises, schedulerVars, weather, Calls
  <2>3. CASE FetchRaw(r)
    <3>1. [run[r] EXCEPT !.pc = "commit"] \in Calls
      BY <2>0, <2>3, CallKinds, Moved DEF FetchRaw, AtStep, Calls, DataCalls
    <3>2. run' \in [Runners -> Calls]
      BY <2>3, <3>1 DEF FetchRaw, Calls
    <3> QED BY <2>3, <3>2 DEF FetchRaw, schedulerVars, weather
  <2>4. CASE CommitRows(r)
    <3>1. Item(r) \in Datasets
      BY <2>0, <2>4, CallItems, ElementTypes DEF CommitRows, AtStep, Item
    <3> QED BY <2>4, <3>1 DEF CommitRows, schedulerVars, weather, Calls
  <2>5. CASE ReadRows(r)
    <3>1. [run[r] EXCEPT !.pc = "record"] \in Calls
      BY <2>0, <2>5, CallKinds, Moved DEF ReadRows, AtStep, Calls, RuleCalls
    <3>2. run' \in [Runners -> Calls]
      BY <2>0, <2>5, <3>1, AfterRead DEF ReadRows, AtStep
    <3> QED BY <2>5, <3>2 DEF ReadRows, schedulerVars, weather
  <2>6. CASE RecordEvent(r)
    <3>1. Item(r) \in Signals
      BY <2>0, <2>6, CallItems, ElementTypes DEF RecordEvent, AtStep, Item
    <3>2. run' \in [Runners -> Calls]
      BY <2>0, <2>6, AfterRead DEF RecordEvent, AtStep
    <3> QED BY <2>6, <3>1, <3>2 DEF RecordEvent, schedulerVars, weather
  <2>7. CASE LoadEvents(r)
    <3> DEFINE got == run[r].got \cup ({Item(r)} \cap events)
               rest == Tail(run[r].todo)
    <3>1. run[r] \in NotifyCalls
      BY <2>0, <2>7, CallKinds DEF LoadEvents, AtStep
    <3>2. got \in SUBSET Signals
      BY <3>1 DEF NotifyCalls, CallOf
    <3>3. rest \in Seq(Signals)
      BY <2>7, <3>1, ElementTypes DEF LoadEvents, NonEmpty, NotifyCalls, CallOf
    <3>4. run' = [run EXCEPT ![r] = [run[r] EXCEPT !.got = got, !.todo = rest]]
      BY <2>7 DEF LoadEvents
    <3> HIDE DEF got, rest
    <3>5. [run[r] EXCEPT !.got = got, !.todo = rest] \in Calls
      BY <3>1, <3>2, <3>3 DEF Calls, NotifyCalls, CallOf
    <3> QED BY <2>7, <3>4, <3>5 DEF LoadEvents, schedulerVars, weather
  <2>8. CASE Publish(r)
    <3>1. run[r].got \subseteq Signals
      BY <2>0, <2>8, CallItems DEF Publish, AtStep
    <3> QED BY <2>8, <3>1 DEF Publish, Decided, schedulerVars, weather, Calls
  <2> QED BY <2>1, <2>2, <2>3, <2>4, <2>5, <2>6, <2>7, <2>8 DEF BodyStep
<1>10. ASSUME NEW c \in Commands, RunCommand(c) PROVE TypeOK'
  <2>1. PICK call : /\ call \in {Call("ingest", list) : list \in SyncLists}
                           \cup {Call("fetch", <<d>>) : d \in Datasets}
                           \cup {Call("read", <<s>>) : s \in Signals}
                           \cup {Call("load", CommandSignals)}
                    /\ run' = [run EXCEPT ![c] = call]
    BY <1>10 DEF RunCommand
  <2>2. call \in Calls
    <3>1. \A s \in Signals : <<s>> \in NonEmpty(Signals)
      BY DEF NonEmpty
    <3>2. SyncLists \subseteq NonEmpty(Datasets) /\ CommandSignals \in Seq(Signals)
      BY SignalListsAssumption DEF NonEmpty
    <3> QED BY <2>1, <3>1, <3>2, OpenedType
  <2>3. run' \in [Runners -> Calls]
    BY <2>1, <2>2
  <2>4. commands' \in 0..MaxCommands
    BY <1>10, BoundsAssumption DEF RunCommand
  <2> QED BY <1>10, <2>3, <2>4 DEF RunCommand, schedulerVars, weather
<1>11. ASSUME NEW c \in Commands, CommandDies(c) PROVE TypeOK'
  <2>1. run[c] \in Calls
    BY DEF Runners
  <2>2. shown' \subseteq Signals
    BY <1>11, <2>1, CallItems DEF CommandDies
  <2> QED BY <1>11, <2>2 DEF CommandDies, schedulerVars, weather, Calls
<1>12. CASE UNCHANGED vars
  BY <1>12 DEF vars, dayVars, schedulerVars, weather
<1> QED
  BY <1>1, <1>2, <1>3, <1>4, <1>5, <1>6, <1>7, <1>8, <1>9, <1>10, <1>11, <1>12 DEF Next

\* Whatever the schedule, its disturbances and the commands, every call is at a
\* step that fits what it holds, and the clock and the job store stay in bounds.
THEOREM DayTypeCorrect == Spec => []TypeOK
<1>1. Init => TypeOK
  BY InitType
<1>2. TypeOK /\ [Next]_vars => TypeOK'
  BY TypeStep
<1> QED BY <1>1, <1>2, PTL DEF Spec
-----------------------------------------------------------------------------
(***************************************************************************)
(* The refinement.  Beside its type, two facts of the open calls: what a   *)
(* call carries is grounded in the tables, which only grow; and what is    *)
(* due for the notification, what runs of it and what came of it exclude   *)
(* one another, with the slot it fires in as the boundary that a restart   *)
(* cannot move.                                                            *)
(***************************************************************************)

\* an event about to be recorded has its rows, events about to be sent exist
Grounded(c, arrived, recorded) ==
    /\ c.pc = "record" => Needs[Head(c.todo)] \subseteq arrived
    /\ c.pc = "load" => c.got \subseteq recorded

\* a call of the scheduled notification is about its own signals
OfDispatch(c) ==
    /\ c.pc \in {"idle", "load"}
    /\ c.pc = "load" => c.got \cup SignalsOf(c.todo) \subseteq SignalsOf(NotifiedSignals)

AllGrounded == \A r \in Runners : Grounded(run[r], rows, events)

NotDecided == message = NoMessage

OnceADay ==
    Dispatch \in Jobs =>
        /\ OfDispatch(run[Dispatch])
        /\ run[Dispatch].pc # "idle" => NotDecided
        /\ ~NotDecided \/ run[Dispatch].pc # "idle" => FireAt[Dispatch] <= now
        /\ due[Dispatch] # NoFire =>
              /\ NotDecided
              /\ run[Dispatch].pc = "idle"
              /\ FireAt[Dispatch] <= now \/ FireAt[Dispatch] <= now + due[Dispatch]

DayInv == TypeOK /\ AllGrounded /\ OnceADay

\* The tables grow under the calls that stay as they are.
LEMMA StaysGrounded ==
  ASSUME NEW c, NEW arrived, NEW recorded, Grounded(c, arrived, recorded),
         NEW more, NEW later, arrived \subseteq more, recorded \subseteq later
  PROVE  Grounded(c, more, later)
  BY DEF Grounded

\* A call that has just been opened, has moved on or is over carries nothing.
LEMMA NothingCarried ==
  ASSUME NEW c, NEW arrived, NEW recorded, c.pc \notin {"record", "load"}
  PROVE  Grounded(c, arrived, recorded)
  BY DEF Grounded

LEMMA OpenedGrounded ==
  ASSUME NEW pc, NEW todo, NEW arrived, NEW recorded, pc # "record"
  PROVE  Grounded(Call(pc, todo), arrived, recorded)
  BY DEF Grounded, Call

LEMMA IdleGrounded ==
  ASSUME NEW arrived, NEW recorded
  PROVE  Grounded(Idle, arrived, recorded)
  BY DEF Grounded, Idle

LEMMA AfterGrounded ==
  ASSUME NEW pc \in {"ingest", "read"}, NEW c \in Calls, c.pc # "idle",
         NEW arrived, NEW recorded
  PROVE  Grounded(After(c, pc), arrived, recorded)
<1>0. c # Idle
  BY DEF Idle
<1>1. \E pcs, todos, gots : c \in CallOf(pcs, todos, gots)
  BY <1>0, Zenon DEF Calls, DataCalls, RuleCalls, NotifyCalls
<1>2. [c EXCEPT !.pc = pc, !.todo = Tail(c.todo)].pc = pc
  BY <1>1 DEF CallOf
<1>3. After(c, pc) = Idle \/ After(c, pc) = [c EXCEPT !.pc = pc, !.todo = Tail(c.todo)]
  BY DEF After
<1>4. CASE After(c, pc) = Idle
  BY <1>4, IdleGrounded
<1>5. CASE After(c, pc) = [c EXCEPT !.pc = pc, !.todo = Tail(c.todo)]
  BY <1>2, <1>5, NothingCarried
<1> QED BY <1>3, <1>4, <1>5

\* The rest of a list has signals of the list.
LEMMA RestOfList ==
  ASSUME NEW S, NEW list \in NonEmpty(S)
  PROVE  Head(list) \in SignalsOf(list) /\ SignalsOf(Tail(list)) \subseteq SignalsOf(list)
  BY HeadTailProperties DEF SignalsOf, NonEmpty

LEMMA GroundedOne ==
  ASSUME TypeOK, AllGrounded, NEW r \in Runners, NEW c, run' = [run EXCEPT ![r] = c],
         rows \subseteq rows', events \subseteq events', Grounded(c, rows', events')
  PROVE  AllGrounded'
<1> SUFFICES ASSUME NEW s \in Runners PROVE Grounded(run'[s], rows', events')
  BY DEF AllGrounded
<1>1. CASE s = r
  BY <1>1 DEF TypeOK
<1>2. CASE s # r
  BY <1>2, StaysGrounded DEF TypeOK, AllGrounded
<1> QED BY <1>1, <1>2

LEMMA GroundedInit == Init => AllGrounded
  BY IdleGrounded DEF Init, AllGrounded

LEMMA GroundedStep ==
  ASSUME TypeOK, AllGrounded, [Next]_vars
  PROVE  AllGrounded'
<1>0. ASSUME UNCHANGED <<run, rows, events>> PROVE AllGrounded'
  BY <1>0 DEF AllGrounded
<1>1. CASE SlotEnds \/ Block \/ Unblock \/ Start \/ UNCHANGED vars
  BY <1>0, <1>1 DEF SlotEnds, Block, Unblock, Start, dayVars, vars
<1>2. CASE Wake
  <2>1. \A j \in Jobs : Grounded(Tick(j), rows', events')
    BY OpenedGrounded DEF Tick
  <2>2. \A r \in Runners : run'[r] = run[r] \/ (r \in Jobs /\ run'[r] = Tick(r))
    BY <1>2 DEF Wake, Fired, Due
  <2> QED BY <1>2, <2>1, <2>2 DEF Wake, AllGrounded
<1>3. CASE Stop
  <2>1. \A r \in Runners : run'[r] = run[r] \/ run'[r] = Idle
    BY <1>3 DEF Stop
  <2> QED BY <1>3, <2>1, IdleGrounded DEF Stop, AllGrounded
<1>4. ASSUME NEW j \in Jobs, Slow(j) PROVE AllGrounded'
  <2>1. \E pcs, todos, gots : run[j] \in CallOf(pcs, todos, gots)
    <3>1. run[j] # Idle /\ run[j] \in Calls
      BY <1>4 DEF Slow, Open, Idle, Runners, TypeOK
    <3> QED BY <3>1, Zenon DEF Calls, DataCalls, RuleCalls, NotifyCalls
  <2>2. Grounded([run[j] EXCEPT !.slow = TRUE], rows, events)
    BY <2>1 DEF AllGrounded, Grounded, CallOf, Runners
  <2> QED BY <1>4, <2>2, GroundedOne DEF Slow, Runners
<1>5. ASSUME NEW j \in Jobs, JobRaises(j) PROVE AllGrounded'
  BY <1>5, IdleGrounded, GroundedOne DEF JobRaises, Runners
<1>6. ASSUME NEW r \in Runners, BodyStep(r) PROVE AllGrounded'
  <2> USE <1>6
  <2>0. run[r] \in Calls
    BY DEF TypeOK
  <2>1. CASE IngestStock(r)
    <3>1. Grounded(After(run[r], "ingest"), rows', events')
      BY <2>0, <2>1, AfterGrounded DEF IngestStock, AtStep
    <3> QED BY <2>1, <3>1, GroundedOne DEF IngestStock
  <2>2. CASE IngestRaises(r)
    BY <2>2, IdleGrounded, GroundedOne DEF IngestRaises
  <2>3. CASE FetchRaw(r)
    <3>1. [run[r] EXCEPT !.pc = "commit"].pc = "commit"
      BY <2>0, <2>3, CallKinds DEF FetchRaw, AtStep, DataCalls, CallOf
    <3>2. Grounded([run[r] EXCEPT !.pc = "commit"], rows', events')
      BY <3>1, NothingCarried
    <3> QED BY <2>3, <3>2, IdleGrounded, GroundedOne DEF FetchRaw
  <2>4. CASE CommitRows(r)
    BY <2>4, IdleGrounded, GroundedOne DEF CommitRows
  <2>5. CASE ReadRows(r)
    <3>1. Grounded(After(run[r], "read"), rows', events')
      BY <2>0, <2>5, AfterGrounded DEF ReadRows, AtStep
    <3>2. ASSUME Needs[Item(r)] \subseteq rows
          PROVE  Grounded([run[r] EXCEPT !.pc = "record"], rows', events')
      <4>1. /\ [run[r] EXCEPT !.pc = "record"].pc = "record"
            /\ [run[r] EXCEPT !.pc = "record"].todo = run[r].todo
        BY <2>0, <2>5, CallKinds DEF ReadRows, AtStep, RuleCalls, CallOf
      <4> QED BY <2>5, <3>2, <4>1 DEF Grounded, Item, ReadRows
    <3> QED BY <2>5, <3>1, <3>2, GroundedOne DEF ReadRows
  <2>6. CASE RecordEvent(r)
    <3>1. Grounded(After(run[r], "read"), rows', events')
      BY <2>0, <2>6, AfterGrounded DEF RecordEvent, AtStep
    <3> QED BY <2>6, <3>1, GroundedOne DEF RecordEvent
  <2>7. CASE LoadEvents(r)
    <3> DEFINE got == run[r].got \cup ({Item(r)} \cap events)
               c == [run[r] EXCEPT !.got = got, !.todo = Tail(run[r].todo)]
    <3>1. c.pc = "load" /\ c.got = got
      BY <2>0, <2>7, CallKinds DEF LoadEvents, AtStep, NotifyCalls, CallOf
    <3>2. run[r].got \subseteq events
      BY <2>7 DEF AllGrounded, Grounded, LoadEvents, AtStep
    <3>3. run' = [run EXCEPT ![r] = c]
      BY <2>7 DEF LoadEvents
    <3>4. Grounded(c, rows', events')
      BY <2>7, <3>1, <3>2 DEF Grounded, LoadEvents
    <3> HIDE DEF c
    <3> QED BY <2>7, <3>3, <3>4, GroundedOne DEF LoadEvents
  <2>8. CASE Publish(r)
    BY <2>8, IdleGrounded, GroundedOne DEF Publish
  <2> QED BY <2>1, <2>2, <2>3, <2>4, <2>5, <2>6, <2>7, <2>8 DEF BodyStep
<1>7. ASSUME NEW c \in Commands, RunCommand(c) PROVE AllGrounded'
  <2>1. PICK call : /\ call \in {Call("ingest", list) : list \in SyncLists}
                           \cup {Call("fetch", <<d>>) : d \in Datasets}
                           \cup {Call("read", <<s>>) : s \in Signals}
                           \cup {Call("load", CommandSignals)}
                    /\ run' = [run EXCEPT ![c] = call]
    BY <1>7 DEF RunCommand
  <2>2. Grounded(call, rows', events')
    BY <2>1, OpenedGrounded
  <2>3. rows' = rows /\ events' = events /\ c \in Runners
    BY <1>7 DEF RunCommand, Runners
  <2> QED BY <2>1, <2>2, <2>3, GroundedOne
<1>8. ASSUME NEW c \in Commands, CommandDies(c) PROVE AllGrounded'
  BY <1>8, IdleGrounded, GroundedOne DEF CommandDies, Runners
<1> QED BY <1>1, <1>2, <1>3, <1>4, <1>5, <1>6, <1>7, <1>8 DEF Next

\* What leaves the notification, its call and its time alone.
LEMMA OnceKept ==
  ASSUME OnceADay, Dispatch \in Jobs => run'[Dispatch] = run[Dispatch],
         UNCHANGED <<now, due, message>>
  PROVE  OnceADay'
  BY DEF OnceADay, OfDispatch, NotDecided, SignalsOf

\* Its call is over without a decision.
LEMMA OnceGivenUp ==
  ASSUME OnceADay, Dispatch \in Jobs => run'[Dispatch] = Idle,
         UNCHANGED <<now, due, message>>
  PROVE  OnceADay'
  BY DEF OnceADay, OfDispatch, NotDecided, Idle

\* Its call is over and has decided.
LEMMA OnceDecided ==
  ASSUME OnceADay, run[Dispatch].pc = "load", run'[Dispatch] = Idle, Dispatch \in Jobs,
         UNCHANGED <<now, due>>
  PROVE  OnceADay'
  BY DEF OnceADay, OfDispatch, NotDecided, Idle

LEMMA OnceInit == Init => OnceADay
<1> SUFFICES ASSUME Init, Dispatch \in Jobs
             PROVE  OnceADay
  BY DEF OnceADay
<1>1. run[Dispatch] = Idle
  BY DEF Init, Runners
<1>2. OfDispatch(run[Dispatch]) /\ run[Dispatch].pc = "idle"
  BY <1>1 DEF OfDispatch, Idle
<1>3. NotDecided
  BY DEF Init, NotDecided
<1>4. due[Dispatch] = NoFire \/ FireAt[Dispatch] <= now + due[Dispatch]
  BY JobsAssumption, FireAtAssumption, SlotsAssumption
     DEF Init, SchedulerInit, FirstDue, Jobs
<1> QED BY <1>2, <1>3, <1>4 DEF OnceADay

LEMMA OnceStep ==
  ASSUME TypeOK, OnceADay, [Next]_vars
  PROVE  OnceADay'
<1>a. Dispatch \in Jobs => Dispatch \in CronJobs /\ FireAt[Dispatch] \in 1..LastSlot
  BY JobsAssumption, FireAtAssumption DEF Jobs
<1>b. Dispatch \notin Commands /\ (Dispatch \in Jobs => Dispatch \in Runners)
  BY CommandsAssumption DEF Runners
<1>1. CASE SlotEnds
  <2> SUFFICES ASSUME Dispatch \in Jobs PROVE OnceADay'
    BY DEF OnceADay
  <2>1. now \in Int /\ now' \in Int /\ now <= now' /\ (now' = now + 1 \/ now' = LastSlot)
    BY <1>1, SlotsAssumption DEF SlotEnds, ClockTicks, TypeOK, SchedulerTypeOK
  <2>2. UNCHANGED <<run, message>>
    BY <1>1 DEF SlotEnds, dayVars
  <2>3. OfDispatch(run'[Dispatch]) = OfDispatch(run[Dispatch])
    BY <2>2
  <2>4. /\ due[Dispatch] = NoFire => due'[Dispatch] = NoFire
        /\ due[Dispatch] # NoFire => due[Dispatch] \in Int /\ due'[Dispatch] = due[Dispatch] - 1
    BY <1>1 DEF SlotEnds, ClockTicks, TypeOK, SchedulerTypeOK
  <2>5. due'[Dispatch] # NoFire =>
           FireAt[Dispatch] <= now' \/ FireAt[Dispatch] <= now' + due'[Dispatch]
    BY <1>a, <2>1, <2>4, SlotsAssumption DEF OnceADay
  <2>6. FireAt[Dispatch] <= now => FireAt[Dispatch] <= now'
    BY <1>a, <2>1, SlotsAssumption
  <2> QED BY <2>2, <2>4, <2>5, <2>6 DEF OnceADay, NotDecided, OfDispatch, SignalsOf
<1>2. CASE Wake
  <2> SUFFICES ASSUME Dispatch \in Jobs PROVE OnceADay'
    BY DEF OnceADay
  <2>1. /\ UNCHANGED <<now, message>>
        /\ due' = Rearmed(Open)
        /\ run'[Dispatch] = IF Dispatch \in Fired(Open) THEN Tick(Dispatch) ELSE run[Dispatch]
    BY <1>2, <1>b DEF Wake, Wakeup
  <2>2. due'[Dispatch] = IF Dispatch \in Due THEN NoFire ELSE due[Dispatch]
    BY <2>1, <1>a, JobsAssumption DEF Rearmed
  <2>3. CASE Dispatch \in Fired(Open)
    <3>1. Dispatch \in Due /\ due[Dispatch] # NoFire /\ due[Dispatch] <= 0
      BY <2>3 DEF Fired, Due
    <3>2. NotDecided /\ FireAt[Dispatch] <= now
      <4>1. due[Dispatch] \in Int /\ now \in Int
        BY <3>1 DEF TypeOK, SchedulerTypeOK
      <4> QED BY <1>a, <3>1, <4>1 DEF OnceADay
    <3>3. Tick(Dispatch) = Call("load", NotifiedSignals)
      BY DEF Tick, Evaluation, Dispatch
    <3>4. OfDispatch(run'[Dispatch])
      BY <2>1, <2>3, <3>3 DEF OfDispatch, Call
    <3> QED BY <2>1, <2>2, <3>1, <3>2, <3>4 DEF OnceADay, NotDecided
  <2>4. CASE Dispatch \notin Fired(Open)
    BY <2>1, <2>2, <2>4 DEF OnceADay, NotDecided, OfDispatch, SignalsOf
  <2> QED BY <2>3, <2>4
<1>3. CASE Block \/ Unblock \/ UNCHANGED vars
  BY <1>3, OnceKept DEF Block, Unblock, dayVars, vars, schedulerVars
<1>4. CASE Stop
  <2> SUFFICES ASSUME Dispatch \in Jobs PROVE OnceADay'
    BY DEF OnceADay
  <2>1. run'[Dispatch] = Idle /\ due'[Dispatch] = NoFire /\ UNCHANGED <<now, message>>
    BY <1>4, <1>b DEF Stop, SchedulerStop, NoneDue
  <2> QED BY <2>1 DEF OnceADay, NotDecided, OfDispatch, Idle
<1>5. CASE Start
  <2> SUFFICES ASSUME Dispatch \in Jobs PROVE OnceADay'
    BY DEF OnceADay
  <2>1. UNCHANGED <<now, run, message>>
    BY <1>5 DEF Start, dayVars
  <2>2. due'[Dispatch] = IF FireAt[Dispatch] > now THEN FireAt[Dispatch] - now ELSE NoFire
    BY <1>5, <1>a, JobsAssumption DEF Start, SchedulerStart, FirstDue
  <2>3. now \in Int
    BY DEF TypeOK, SchedulerTypeOK
  <2>4. FireAt[Dispatch] > now => ~(FireAt[Dispatch] <= now) /\ FireAt[Dispatch] <= now + (FireAt[Dispatch] - now)
    BY <1>a, <2>3
  <2> QED BY <2>1, <2>2, <2>4 DEF OnceADay, NotDecided, OfDispatch, SignalsOf
<1>6. ASSUME NEW j \in Jobs, Slow(j) PROVE OnceADay'
  <2> SUFFICES ASSUME Dispatch \in Jobs PROVE OnceADay'
    BY DEF OnceADay
  <2>1. UNCHANGED <<now, due, message>>
    BY <1>6 DEF Slow, schedulerVars
  <2>2. CASE j # Dispatch
    BY <1>6, <1>b, <2>1, <2>2, OnceKept DEF Slow, TypeOK
  <2>3. CASE j = Dispatch
    <3>1. run[Dispatch].pc = "load" /\ run[Dispatch] \in NotifyCalls
      BY <1>6, <1>b, <2>3, CallKinds DEF Slow, Open, OnceADay, OfDispatch, TypeOK
    <3>2. run'[Dispatch] = [run[Dispatch] EXCEPT !.slow = TRUE]
      BY <1>6, <1>b, <2>3 DEF Slow, TypeOK
    <3>3. /\ run'[Dispatch].pc = "load" /\ run'[Dispatch].got = run[Dispatch].got
          /\ run'[Dispatch].todo = run[Dispatch].todo
      BY <3>1, <3>2 DEF NotifyCalls, CallOf
    <3> QED BY <2>1, <3>1, <3>3 DEF OnceADay, NotDecided, OfDispatch, SignalsOf
  <2> QED BY <2>2, <2>3
<1>7. ASSUME NEW j \in Jobs, JobRaises(j) PROVE OnceADay'
  <2>1. UNCHANGED <<now, due>> /\ run' = [run EXCEPT ![j] = Idle]
    BY <1>7 DEF JobRaises, schedulerVars
  <2>2. CASE j # Dispatch
    <3>1. UNCHANGED message
      BY <1>7, <2>2 DEF JobRaises, Decided
    <3> QED BY <1>b, <2>1, <2>2, <3>1, OnceKept DEF TypeOK
  <2>3. CASE j = Dispatch
    <3>1. run[Dispatch].pc = "load"
      BY <1>7, <2>3 DEF JobRaises, AtStep, OnceADay, OfDispatch
    <3>2. run'[Dispatch] = Idle /\ Dispatch \in Jobs
      BY <1>b, <2>1, <2>3 DEF TypeOK
    <3> QED BY <2>1, <3>1, <3>2, OnceDecided
  <2> QED BY <2>2, <2>3
<1>8. ASSUME NEW r \in Runners, BodyStep(r) PROVE OnceADay'
  <2>1. UNCHANGED <<now, due>>
    BY <1>8 DEF BodyStep, IngestStock, IngestRaises, FetchRaw, CommitRows, ReadRows,
                RecordEvent, LoadEvents, Publish, schedulerVars
  <2>2. \E c : run' = [run EXCEPT ![r] = c]
    BY <1>8, Zenon DEF BodyStep, IngestStock, IngestRaises, FetchRaw, CommitRows, ReadRows,
                RecordEvent, LoadEvents, Publish
  <2>3. CASE r # Dispatch
    <3>1. UNCHANGED message
      BY <1>8, <2>3 DEF BodyStep, IngestStock, IngestRaises, FetchRaw, CommitRows, ReadRows,
                RecordEvent, LoadEvents, Publish, Decided
    <3> QED BY <1>b, <2>1, <2>2, <2>3, <3>1, OnceKept DEF TypeOK
  <2>4. CASE r = Dispatch
    <3>1. Dispatch \in Jobs
      BY <1>b, <2>4 DEF Runners
    <3>2. run[Dispatch].pc \in {"idle", "load"}
      BY <3>1 DEF OnceADay, OfDispatch
    <3>3. LoadEvents(r) \/ Publish(r)
      BY <1>8, <2>4, <3>2 DEF BodyStep, IngestStock, IngestRaises, FetchRaw, CommitRows,
                ReadRows, RecordEvent, AtStep
    <3>4. CASE Publish(r)
      <4>1. run'[Dispatch] = Idle /\ run[Dispatch].pc = "load"
        BY <1>b, <2>4, <3>1, <3>4 DEF Publish, AtStep, TypeOK
      <4> QED BY <2>1, <3>1, <4>1, OnceDecided
    <3>5. CASE LoadEvents(r)
      <4> DEFINE old == run[Dispatch]
                 c == [old EXCEPT !.got = @ \cup ({Head(old.todo)} \cap events),
                                  !.todo = Tail(old.todo)]
      <4>1. old.pc = "load" /\ old \in NotifyCalls /\ old.todo \in NonEmpty(Signals)
        BY <1>b, <2>4, <3>1, <3>5, CallKinds, CallItems
           DEF LoadEvents, AtStep, TypeOK, NonEmpty
      <4>2. run'[Dispatch] = c /\ UNCHANGED message
        BY <1>b, <2>4, <3>1, <3>5 DEF LoadEvents, TypeOK, Item
      <4>3. /\ c.pc = "load" /\ c.todo = Tail(old.todo)
            /\ c.got = old.got \cup ({Head(old.todo)} \cap events)
        BY <4>1 DEF NotifyCalls, CallOf
      <4>4. c.got \cup SignalsOf(c.todo) \subseteq old.got \cup SignalsOf(old.todo)
        BY <4>1, <4>3, RestOfList
      <4> HIDE DEF c, old
      <4>5. OfDispatch(run'[Dispatch])
        BY <3>1, <4>1, <4>2, <4>3, <4>4 DEF OnceADay, OfDispatch, old
      <4> QED BY <2>1, <4>1, <4>2, <4>3, <4>5 DEF OnceADay, NotDecided, old
    <3> QED BY <3>3, <3>4, <3>5
  <2> QED BY <2>3, <2>4
<1>9. ASSUME NEW c \in Commands, RunCommand(c) \/ CommandDies(c) PROVE OnceADay'
  <2>1. \E call : run' = [run EXCEPT ![c] = call]
    BY <1>9, Zenon DEF RunCommand, CommandDies
  <2>2. UNCHANGED <<now, due, message>>
    BY <1>9 DEF RunCommand, CommandDies, schedulerVars
  <2> QED BY <1>b, <2>1, <2>2, OnceKept DEF TypeOK
<1> QED BY <1>1, <1>2, <1>3, <1>4, <1>5, <1>6, <1>7, <1>8, <1>9 DEF Next

LEMMA DayInvInit == Init => DayInv
  BY InitType, GroundedInit, OnceInit DEF DayInv

LEMMA DayInvStep ==
  ASSUME DayInv, [Next]_vars
  PROVE  DayInv'
  BY TypeStep, GroundedStep, OnceStep DEF DayInv

LEMMA PromiseInit == Init => Promise!Init
  BY DEF Init, Promise!Init

\* Of a runner's post, that of the notification is the announcement, and any
\* other repeats what is recorded.
LEMMA PostMapped ==
  ASSUME DayInv, NEW r \in Runners, run[r].pc = "load", Decided(r),
         shown' = shown \cup run[r].got, UNCHANGED <<rows, events>>
  PROVE  Promise!Next
<1>1. run[r].got \subseteq events
  BY DEF DayInv, AllGrounded, Grounded
<1>2. CASE r = Dispatch
  <2>1. Dispatch \in Jobs
    BY <1>2, CommandsAssumption DEF Runners
  <2>2. message = NoMessage /\ run[r].got \subseteq SignalsOf(NotifiedSignals)
    BY <1>2, <2>1 DEF DayInv, OnceADay, OfDispatch, NotDecided
  <2>3. message' = run[r].got
    BY <1>2 DEF Decided
  <2> QED BY <1>1, <2>2, <2>3 DEF Promise!Next, Promise!Announce
<1>3. CASE r # Dispatch
  BY <1>1, <1>3 DEF Decided, Promise!Next, Promise!Repeat
<1> QED BY <1>2, <1>3

LEMMA PromiseStep ==
  ASSUME DayInv, [Next]_vars
  PROVE  [Promise!Next]_Promise!vars
<1> USE DEF Promise!vars
<1>1. CASE SlotEnds \/ Wake \/ Block \/ Unblock \/ Stop \/ Start \/ UNCHANGED vars
  BY <1>1 DEF SlotEnds, Wake, Block, Unblock, Stop, Start, dayVars, vars
<1>2. ASSUME NEW j \in Jobs, Slow(j) \/ JobRaises(j) PROVE [Promise!Next]_Promise!vars
  <2>1. CASE Slow(j)
    BY <2>1 DEF Slow
  <2>2. CASE JobRaises(j)
    <3>1. UNCHANGED <<rows, events>>
      BY <2>2 DEF JobRaises
    <3>2. CASE UNCHANGED <<message, shown>>
      BY <3>1, <3>2
    <3>3. CASE run[j].pc = "load" /\ Decided(j) /\ shown' = shown \cup run[j].got
      BY <3>1, <3>3, PostMapped DEF Runners
    <3> QED BY <2>2, <3>2, <3>3 DEF JobRaises
  <2> QED BY <1>2, <2>1, <2>2
<1>3. ASSUME NEW r \in Runners, BodyStep(r) PROVE [Promise!Next]_Promise!vars
  <2> USE <1>3
  <2>0. run[r] \in Calls
    BY DEF DayInv, TypeOK
  <2>1. CASE IngestStock(r) \/ IngestRaises(r) \/ FetchRaw(r) \/ ReadRows(r) \/ LoadEvents(r)
    BY <2>1 DEF IngestStock, IngestRaises, FetchRaw, ReadRows, LoadEvents
  <2>2. CASE CommitRows(r)
    <3>1. Item(r) \in Datasets
      BY <2>0, <2>2, CallItems, ElementTypes DEF CommitRows, AtStep, Item
    <3> QED BY <2>2, <3>1 DEF CommitRows, Promise!Next, Promise!RowArrives
  <2>3. CASE RecordEvent(r)
    <3>1. Item(r) \in Signals
      BY <2>0, <2>3, CallItems, ElementTypes DEF RecordEvent, AtStep, Item
    <3>2. Needs[Item(r)] \subseteq rows
      BY <2>3 DEF DayInv, AllGrounded, Grounded, RecordEvent, AtStep, Item
    <3> QED BY <2>3, <3>1, <3>2 DEF RecordEvent, Promise!Next, Promise!Detect
  <2>4. CASE Publish(r)
    BY <2>4, PostMapped DEF Publish, AtStep
  <2> QED BY <2>1, <2>2, <2>3, <2>4 DEF BodyStep
<1>4. ASSUME NEW c \in Commands, RunCommand(c) \/ CommandDies(c) PROVE [Promise!Next]_Promise!vars
  <2>1. UNCHANGED <<rows, events, message>>
    BY <1>4 DEF RunCommand, CommandDies
  <2>2. CASE UNCHANGED shown
    BY <2>1, <2>2
  <2>3. CASE run[c].pc = "load" /\ shown' = shown \cup run[c].got
    <3>1. run[c].got \subseteq events
      BY <2>3 DEF DayInv, AllGrounded, Grounded, Runners
    <3> QED BY <2>1, <2>3, <3>1 DEF Promise!Next, Promise!Repeat
  <2> QED BY <1>4, <2>2, <2>3 DEF RunCommand, CommandDies
<1> QED BY <1>1, <1>2, <1>3, <1>4 DEF Next

\* Whatever the jobs, their times and their grace, and however often the loop is
\* blocked, a job fails or is slow, the application stops and starts, and commands
\* run beside it: no event without the rows it needs, no more than one
\* notification of the day, and nothing in the channel that is not recorded.
THEOREM DayKeepsPromise == Spec => ImplementsPromise
<1>1. Init => Promise!Init
  BY PromiseInit
<1>2. Init => DayInv
  BY DayInvInit
<1>3. DayInv /\ [Next]_vars => DayInv'
  BY DayInvStep
<1>4. DayInv /\ [Next]_vars => [Promise!Next]_Promise!vars
  BY PromiseStep
<1> QED BY <1>1, <1>2, <1>3, <1>4, PTL DEF Spec, ImplementsPromise, Promise!Spec
-----------------------------------------------------------------------------
(***************************************************************************)
(* What only the clock orders: the bodies of the jobs, and, while neither  *)
(* a blocked loop nor a slow job lets a call outlast its slot, the slots   *)
(* they run in.                                                            *)
(***************************************************************************)

\* what an open call of a job is at, and for a transform, about
JobCall(j, c) ==
    /\ j = Evaluation => c.pc \in {"idle", "read", "record"}
    /\ j \in IntervalJobs /\ c.pc # "idle" =>
          c.pc \in {"fetch", "commit"} /\ Head(c.todo) = DatasetOf[j]

Bodies == \A j \in Jobs : JobCall(j, run[j])

\* a cron job is due in its slot or has been
OnSchedule(j) == due[j] = NoFire \/ (due[j] \in Nat /\ FireAt[j] = now + due[j])

\* evaluation and notification are over when their slot is
InItsSlot(j, c) ==
    /\ ~c.slow
    /\ j \in {Evaluation, Dispatch} /\ c.pc # "idle" => now = FireAt[j]

Punctual ==
    /\ ~blocked
    /\ \A j \in CronJobs : OnSchedule(j)
    /\ \A j \in Jobs : InItsSlot(j, run[j])

Plain == ~Happened("blocked") /\ ~Happened("slow")

PunctualInv == Bodies /\ (Plain => Punctual)

\* The fields of every call.
LEMMA CallFields ==
  ASSUME NEW c \in Calls
  PROVE  c \in [pc   : {"idle", "ingest", "fetch", "commit", "read", "record", "load"},
                todo : Seq(Datasets) \cup Seq(Signals),
                got  : SUBSET Signals,
                slow : BOOLEAN]
<1>1. CASE c = Idle
  BY <1>1 DEF Idle
<1>2. CASE c \in DataCalls
  BY <1>2 DEF DataCalls, CallOf, NonEmpty
<1>3. CASE c \in RuleCalls
  BY <1>3 DEF RuleCalls, CallOf, NonEmpty
<1>4. CASE c \in NotifyCalls
  BY <1>4 DEF NotifyCalls, CallOf
<1> QED BY <1>1, <1>2, <1>3, <1>4, Zenon DEF Calls

\* A step of a body takes one open call on to a step that can follow, or to its end.
LEMMA BodyMoves ==
  ASSUME TypeOK, NEW r \in Runners, BodyStep(r)
  PROVE  /\ run[r].pc # "idle"
         /\ r \in Jobs => ~blocked
         /\ UNCHANGED <<now, up, blocked, due, faults, calm>>
         /\ \E c : /\ run' = [run EXCEPT ![r] = c]
                   /\ c = Idle \/ /\ c.slow = run[r].slow
                                  /\ \/ c.pc = run[r].pc /\ c.pc \in {"ingest", "read", "load"}
                                     \/ run[r].pc = "record" /\ c.pc = "read"
                                     \/ /\ run[r].pc = "fetch" /\ c.pc = "commit"
                                        /\ c.todo = run[r].todo
                                     \/ run[r].pc = "read" /\ c.pc = "record"
<1>0. run[r] \in Calls
  BY DEF TypeOK
<1>5. run[r] \in [pc   : {"idle", "ingest", "fetch", "commit", "read", "record", "load"},
                  todo : Seq(Datasets) \cup Seq(Signals),
                  got  : SUBSET Signals,
                  slow : BOOLEAN]
  BY <1>0, CallFields
<1> DEFINE Goal(c) == \/ c = Idle
                      \/ /\ c.slow = run[r].slow
                         /\ \/ c.pc = run[r].pc /\ c.pc \in {"ingest", "read", "load"}
                            \/ run[r].pc = "record" /\ c.pc = "read"
                            \/ /\ run[r].pc = "fetch" /\ c.pc = "commit"
                               /\ c.todo = run[r].todo
                            \/ run[r].pc = "read" /\ c.pc = "record"
<1>1. /\ run[r].pc \in {"ingest", "fetch", "commit", "read", "record", "load"}
      /\ r \in Jobs => ~blocked
  BY DEF BodyStep, IngestStock, IngestRaises, FetchRaw, CommitRows, ReadRows, RecordEvent,
         LoadEvents, Publish, AtStep
<1>2. UNCHANGED <<now, up, blocked, due, faults, calm>>
  BY DEF BodyStep, IngestStock, IngestRaises, FetchRaw, CommitRows, ReadRows, RecordEvent,
         LoadEvents, Publish, schedulerVars, weather
<1>3. \E c : run' = [run EXCEPT ![r] = c] /\ Goal(c)
  <2>1. CASE run[r].pc \in {"ingest", "read", "record"} /\
             \E pc \in {"ingest", "read"} : /\ pc = run[r].pc \/ (run[r].pc = "record" /\ pc = "read")
                                            /\ run' = [run EXCEPT ![r] = After(run[r], pc)]
    <3>1. PICK pc \in {"ingest", "read"} :
             /\ pc = run[r].pc \/ (run[r].pc = "record" /\ pc = "read")
             /\ run' = [run EXCEPT ![r] = After(run[r], pc)]
      BY <2>1
    <3>2. Goal(After(run[r], pc))
      BY <1>1, <3>1, <1>5 DEF After
    <3> QED BY <3>1, <3>2
  <2>2. CASE run' = [run EXCEPT ![r] = Idle]
    BY <2>2
  <2>3. CASE \/ run[r].pc = "fetch" /\ run' = [run EXCEPT ![r] = [run[r] EXCEPT !.pc = "commit"]]
             \/ run[r].pc = "read" /\ run' = [run EXCEPT ![r] = [run[r] EXCEPT !.pc = "record"]]
    <3>1. run[r].pc = "fetch" => Goal([run[r] EXCEPT !.pc = "commit"])
      BY <1>1, <1>5
    <3>2. run[r].pc = "read" => Goal([run[r] EXCEPT !.pc = "record"])
      BY <1>1, <1>5
    <3> QED BY <2>3, <3>1, <3>2
  <2>4. CASE LoadEvents(r)
    <3>1. PICK got, todo : run' = [run EXCEPT ![r] = [run[r] EXCEPT !.got = got, !.todo = todo]]
      BY <2>4, Zenon DEF LoadEvents
    <3>2. Goal([run[r] EXCEPT !.got = got, !.todo = todo])
      BY <1>1, <1>5, <2>4 DEF LoadEvents, AtStep
    <3> QED BY <3>1, <3>2
  <2>5. CASE ~LoadEvents(r)
    <3>1. CASE IngestStock(r) \/ IngestRaises(r)
      BY <2>1, <2>2, <3>1 DEF IngestStock, IngestRaises, AtStep
    <3>2. CASE FetchRaw(r) \/ CommitRows(r) \/ Publish(r)
      BY <2>2, <2>3, <3>2 DEF FetchRaw, CommitRows, Publish, AtStep
    <3>3. CASE ReadRows(r) \/ RecordEvent(r)
      BY <2>1, <2>3, <3>3 DEF ReadRows, RecordEvent, AtStep
    <3> QED BY <2>5, <3>1, <3>2, <3>3 DEF BodyStep
  <2> QED BY <2>4, <2>5
<1> HIDE DEF Goal
<1>4. run[r].pc # "idle"
  BY <1>1
<1> QED BY <1>1, <1>2, <1>3, <1>4 DEF Goal

\* Disturbances are not forgotten.
LEMMA FaultShows ==
  ASSUME TypeOK, NEW kind \in FaultKinds, Fault(kind)
  PROVE  /\ Happened(kind)' /\ ~Undisturbed'
         /\ \A k : Happened(k) => Happened(k)'
         /\ calm' = 0
<1>1. faults \in Seq(FaultKinds) /\ faults' = Append(faults, kind)
  BY DEF TypeOK, Fault
<1>2. /\ DOMAIN faults = 1..Len(faults) /\ DOMAIN faults' = 1..(Len(faults) + 1)
      /\ faults'[Len(faults) + 1] = kind
      /\ \A n \in 1..Len(faults) : faults'[n] = faults[n]
      /\ Len(faults) \in Nat
  BY <1>1
<1>3. Happened(kind)' /\ \A k : Happened(k) => Happened(k)'
  BY <1>2 DEF Happened
<1>4. faults' # << >>
  BY <1>1
<1> QED BY <1>3, <1>4 DEF Undisturbed, Fault

LEMMA BodiesOne ==
  ASSUME TypeOK, Bodies, NEW r \in Runners, NEW c, run' = [run EXCEPT ![r] = c],
         r \in Jobs => JobCall(r, c)
  PROVE  Bodies'
<1> SUFFICES ASSUME NEW j \in Jobs PROVE JobCall(j, run'[j])
  BY DEF Bodies, JobCall
<1>1. run'[j] = IF j = r THEN c ELSE run[j]
  BY DEF TypeOK, Runners
<1> QED BY <1>1 DEF Bodies

LEMMA IdleCall == \A j : JobCall(j, Idle)
  BY DEF JobCall, Idle

LEMMA TickCall ==
  ASSUME NEW j \in Jobs
  PROVE  JobCall(j, Tick(j)) /\ ~Tick(j).slow /\ Tick(j).pc # "idle"
<1>1. j \in IntervalJobs => j # Evaluation /\ j # Dispatch
  BY JobsAssumption, JobKindsAssumption
<1>2. Evaluation # Dispatch
  BY DEF Evaluation, Dispatch
<1>3. Head(<<DatasetOf[j]>>) = DatasetOf[j]
  OBVIOUS
<1> QED BY <1>1, <1>2, <1>3 DEF JobCall, Tick, Call

LEMMA BodiesStep ==
  ASSUME TypeOK, Bodies, [Next]_vars
  PROVE  Bodies'
<1>0. ASSUME UNCHANGED run PROVE Bodies'
  BY <1>0 DEF Bodies, JobCall
<1>1. CASE SlotEnds \/ Block \/ Unblock \/ Start \/ UNCHANGED vars
  BY <1>0, <1>1 DEF SlotEnds, Block, Unblock, Start, dayVars, vars
<1>2. CASE Wake
  <2>1. \A j \in Jobs : run'[j] = run[j] \/ run'[j] = Tick(j)
    BY <1>2 DEF Wake, Runners
  <2>2. \A j \in Jobs : JobCall(j, run'[j])
    BY <2>1, TickCall DEF Bodies
  <2> QED BY <2>2 DEF Bodies, JobCall
<1>3. CASE Stop
  <2>1. \A j \in Jobs : run'[j] = Idle
    BY <1>3 DEF Stop, Runners
  <2>2. \A j \in Jobs : JobCall(j, run'[j])
    BY <2>1, IdleCall
  <2> QED BY <2>2 DEF Bodies, JobCall
<1>4. ASSUME NEW j \in Jobs, Slow(j) PROVE Bodies'
  <2>1. run[j] \in Calls /\ run[j].pc # "idle"
    BY <1>4 DEF Slow, Open, TypeOK, Runners
  <2>2. JobCall(j, [run[j] EXCEPT !.slow = TRUE])
    BY <2>1, CallFields DEF Bodies, JobCall
  <2> QED BY <1>4, <2>2, BodiesOne DEF Slow, Runners
<1>5. ASSUME NEW j \in Jobs, JobRaises(j) PROVE Bodies'
  BY <1>5, IdleCall, BodiesOne DEF JobRaises, Runners
<1>6. ASSUME NEW r \in Runners, BodyStep(r) PROVE Bodies'
  <2>1. PICK c : /\ run' = [run EXCEPT ![r] = c]
                 /\ c = Idle \/ \/ c.pc = run[r].pc /\ c.pc \in {"ingest", "read", "load"}
                                \/ run[r].pc = "record" /\ c.pc = "read"
                                \/ /\ run[r].pc = "fetch" /\ c.pc = "commit"
                                   /\ c.todo = run[r].todo
                                \/ run[r].pc = "read" /\ c.pc = "record"
    BY <1>6, BodyMoves
  <2>2. ASSUME r \in Jobs PROVE JobCall(r, c)
    <3>1. JobCall(r, run[r])
      BY <2>2 DEF Bodies
    <3> QED BY <2>1, <2>2, <3>1, IdleCall DEF JobCall
  <2> QED BY <2>1, <2>2, BodiesOne
<1>7. ASSUME NEW c \in Commands, RunCommand(c) \/ CommandDies(c) PROVE Bodies'
  <2>1. \E call : run' = [run EXCEPT ![c] = call]
    BY <1>7, Zenon DEF RunCommand, CommandDies
  <2>2. c \in Runners /\ c \notin Jobs
    BY CommandsAssumption DEF Runners
  <2> QED BY <2>1, <2>2, BodiesOne
<1> QED BY <1>1, <1>2, <1>3, <1>4, <1>5, <1>6, <1>7 DEF Next

LEMMA PunctualOne ==
  ASSUME TypeOK, Punctual, NEW r \in Runners, NEW c, run' = [run EXCEPT ![r] = c],
         r \in Jobs => InItsSlot(r, c),
         UNCHANGED <<now, blocked, due>>
  PROVE  Punctual'
<1>1. \A j \in Jobs : run'[j] = IF j = r THEN c ELSE run[j]
  BY DEF TypeOK, Runners
<1>2. \A j \in Jobs : InItsSlot(j, run'[j])
  BY <1>1 DEF Punctual
<1> QED BY <1>2 DEF Punctual, InItsSlot, OnSchedule

LEMMA PunctualInit == Init => Punctual
<1> SUFFICES ASSUME Init PROVE Punctual
  OBVIOUS
<1>1. \A j \in CronJobs : OnSchedule(j)
  BY FireAtAssumption, JobKindsAssumption, SlotsAssumption
     DEF Init, SchedulerInit, FirstDue, Jobs, OnSchedule
<1>2. \A j \in Jobs : InItsSlot(j, run[j])
  BY DEF Init, Runners, InItsSlot, Idle
<1> QED BY <1>1, <1>2 DEF Init, SchedulerInit, Punctual

\* When nothing blocks or is slow, the clock passes on only from a slot whose
\* cron jobs have been started, and whose evaluation and notification are over.
LEMMA PunctualTick ==
  ASSUME DayInv, Bodies, Punctual, SlotEnds
  PROVE  /\ Punctual'
         /\ \A j \in {Evaluation, Dispatch} \cap Jobs : run[j].pc = "idle"
<1>1. ~blocked /\ Due = {} /\ \A j \in Jobs \cap Open : IsIngest(j) \/ run[j].slow
  BY DEF SlotEnds, Punctual
<1>2. \A j \in {Evaluation, Dispatch} \cap Jobs : run[j].pc = "idle"
  <2>1. \A j \in {Evaluation, Dispatch} \cap Jobs : run[j].pc # "ingest" /\ ~run[j].slow
    BY DEF Bodies, JobCall, DayInv, OnceADay, OfDispatch, Punctual, InItsSlot
  <2> QED BY <1>1, <2>1 DEF Open, IsIngest, Runners
<1>3. \A j \in CronJobs : OnSchedule(j)'
  <2> SUFFICES ASSUME NEW j \in CronJobs, due[j] # NoFire PROVE OnSchedule(j)'
    BY DEF OnSchedule, SlotEnds, ClockTicks, Jobs
  <2>1. due[j] \in Nat /\ FireAt[j] = now + due[j] /\ FireAt[j] \in 1..LastSlot
    BY FireAtAssumption DEF Punctual, OnSchedule
  <2>2. due[j] > 0
    BY <1>1, <2>1 DEF Due, Jobs
  <2>3. now \in Int /\ LastSlot \in Int
    BY SlotsAssumption DEF DayInv, TypeOK, SchedulerTypeOK
  <2>4. now' = now + 1 /\ due'[j] = due[j] - 1
    BY <2>1, <2>2, <2>3 DEF SlotEnds, ClockTicks, Jobs
  <2> QED BY <2>1, <2>2, <2>3, <2>4 DEF OnSchedule
<1>4. UNCHANGED <<run, blocked>>
  BY DEF SlotEnds, dayVars
<1>5. \A j \in Jobs : InItsSlot(j, run[j])'
  BY <1>2, <1>4 DEF Punctual, InItsSlot
<1> QED BY <1>1, <1>2, <1>3, <1>4, <1>5 DEF Punctual

\* A cron job starts in the slot it fires in.
LEMMA StartsInItsSlot ==
  ASSUME TypeOK, Punctual, NEW j \in CronJobs, j \in Due
  PROVE  due[j] = 0 /\ FireAt[j] = now
<1>1. due[j] \in Nat /\ FireAt[j] = now + due[j] /\ due[j] <= 0
  BY DEF Due, Punctual, OnSchedule
<1> QED BY <1>1 DEF TypeOK, SchedulerTypeOK

LEMMA PunctualWake ==
  ASSUME TypeOK, Punctual, Wake
  PROVE  Punctual'
<1>1. due' = Rearmed(Open) /\ UNCHANGED <<now, blocked>>
  BY DEF Wake, Wakeup
<1>2. \A j \in CronJobs : due'[j] = NoFire \/ due'[j] = due[j]
  BY <1>1, JobKindsAssumption DEF Rearmed, Jobs
<1>3. \A j \in CronJobs : OnSchedule(j)'
  BY <1>1, <1>2 DEF OnSchedule, Punctual
<1>4. ASSUME NEW j \in Jobs PROVE InItsSlot(j, run'[j])
  <2>1. run'[j] = run[j] \/ (run'[j] = Tick(j) /\ j \in Due)
    BY DEF Wake, Fired, Runners
  <2>2. j \in {Evaluation, Dispatch} => j \in CronJobs
    BY <1>4, JobsAssumption DEF Jobs
  <2>3. CASE run'[j] = run[j]
    BY <2>3 DEF Punctual
  <2>4. CASE run'[j] = Tick(j) /\ j \in Due
    BY <2>2, <2>4, TickCall, StartsInItsSlot DEF InItsSlot
  <2> QED BY <2>1, <2>3, <2>4
<1>5. \A j \in Jobs : InItsSlot(j, run[j])'
  BY <1>1, <1>4 DEF InItsSlot
<1> QED BY <1>1, <1>3, <1>5 DEF Punctual

LEMMA PunctualInvInit == Init => PunctualInv
<1> SUFFICES ASSUME Init PROVE Bodies
  BY PunctualInit DEF PunctualInv
<1> QED BY IdleCall DEF Init, Bodies, Runners

\* What is not plain does not become plain again.
LEMMA PlainKept ==
  ASSUME TypeOK, [Next]_vars, Plain'
  PROVE  /\ Plain /\ ~Block
         /\ \A j \in Jobs : ~Slow(j)
<1>1. \A kind \in FaultKinds : Fault(kind) => kind \notin {"blocked", "slow"} /\ Plain
  BY FaultShows DEF Plain
<1>2. ~Block /\ \A j \in Jobs : ~Slow(j)
  BY <1>1 DEF Block, Slow, FaultKinds
<1> SUFFICES Plain
  BY <1>2
<1>3. ASSUME UNCHANGED faults PROVE Plain
  BY <1>3 DEF Plain, Happened
<1>4. CASE SlotEnds \/ Wake \/ Unblock \/ Start \/ UNCHANGED vars
  BY <1>3, <1>4 DEF SlotEnds, Wake, Unblock, Start, weather, vars
<1>5. CASE Stop \/ \E j \in Jobs : JobRaises(j)
  BY <1>1, <1>5 DEF Stop, JobRaises, FaultKinds
<1>6. ASSUME NEW r \in Runners, BodyStep(r) PROVE Plain
  BY <1>3, <1>6, BodyMoves
<1>7. ASSUME NEW c \in Commands, RunCommand(c) \/ CommandDies(c) PROVE Plain
  BY <1>3, <1>7 DEF RunCommand, CommandDies, weather
<1> QED BY <1>4, <1>5, <1>6, <1>7, <1>2 DEF Next

LEMMA PunctualStep ==
  ASSUME DayInv, PunctualInv, [Next]_vars
  PROVE  PunctualInv'
<1>0. TypeOK
  BY DEF DayInv
<1> SUFFICES ASSUME Plain' PROVE Punctual'
  BY <1>0, BodiesStep DEF PunctualInv
<1>p. Bodies /\ Punctual /\ ~Block /\ \A j \in Jobs : ~Slow(j)
  BY <1>0, PlainKept DEF PunctualInv
<1>1. CASE SlotEnds
  BY <1>1, <1>p, PunctualTick
<1>2. CASE Wake
  BY <1>0, <1>2, <1>p, PunctualWake
<1>3. CASE Unblock \/ UNCHANGED vars
  BY <1>3, <1>p DEF Unblock, vars, schedulerVars, dayVars, Punctual, InItsSlot, OnSchedule
<1>4. CASE Stop
  <2>1. \A j \in Jobs : run'[j] = Idle
    BY <1>4 DEF Stop, Runners
  <2>2. \A j \in CronJobs : due'[j] = NoFire
    BY <1>4 DEF Stop, SchedulerStop, NoneDue, Jobs
  <2>3. \A j \in Jobs : InItsSlot(j, run[j])'
    BY <2>1 DEF InItsSlot, Idle
  <2> QED BY <1>4, <2>2, <2>3 DEF Stop, SchedulerStop, Punctual, OnSchedule
<1>5. CASE Start
  <2>1. UNCHANGED <<now, run, blocked>> /\ due' = FirstDue(now)
    BY <1>5 DEF Start, SchedulerStart, dayVars
  <2>2. \A j \in CronJobs : OnSchedule(j)'
    BY <1>0, <2>1, FireAtAssumption, JobKindsAssumption
       DEF FirstDue, Jobs, OnSchedule, TypeOK, SchedulerTypeOK
  <2> QED BY <1>p, <2>1, <2>2 DEF Punctual, InItsSlot
<1>6. ASSUME NEW j \in Jobs, JobRaises(j) PROVE Punctual'
  <2>1. InItsSlot(j, Idle)
    BY DEF InItsSlot, Idle
  <2> QED BY <1>0, <1>6, <1>p, <2>1, PunctualOne DEF JobRaises, schedulerVars, Runners
<1>7. ASSUME NEW r \in Runners, BodyStep(r) PROVE Punctual'
  <2>1. PICK c : run' = [run EXCEPT ![r] = c] /\ (c = Idle \/ c.slow = run[r].slow)
    BY <1>0, <1>7, BodyMoves
  <2>2. UNCHANGED <<now, blocked, due>> /\ run[r].pc # "idle"
    BY <1>0, <1>7, BodyMoves
  <2>3. r \in Jobs => InItsSlot(r, c)
    BY <1>p, <2>1, <2>2 DEF Punctual, InItsSlot, Idle
  <2> QED BY <1>0, <1>p, <2>1, <2>2, <2>3, PunctualOne
<1>8. ASSUME NEW c \in Commands, RunCommand(c) \/ CommandDies(c) PROVE Punctual'
  <2>1. \E call : run' = [run EXCEPT ![c] = call]
    BY <1>8, Zenon DEF RunCommand, CommandDies
  <2>2. c \in Runners /\ c \notin Jobs /\ UNCHANGED <<now, blocked, due>>
    BY <1>8, CommandsAssumption DEF Runners, RunCommand, CommandDies, schedulerVars
  <2> QED BY <1>0, <1>p, <2>1, <2>2, PunctualOne
<1> QED BY <1>1, <1>2, <1>3, <1>4, <1>5, <1>6, <1>7, <1>8, <1>p DEF Next

-----------------------------------------------------------------------------
(***************************************************************************)
(* The notification covers the evaluation.                                 *)
(***************************************************************************)

Recorded == evaluated \cap SignalsOf(NotifiedSignals)

\* a call of the notification has loaded what is recorded, or is going to
WillCover(c) == c.pc # "idle" => Recorded \subseteq c.got \cup SignalsOf(c.todo)

Covered ==
    /\ evaluated \subseteq events
    /\ Dispatch \notin Jobs => NotDecided
    /\ Plain => /\ NotDecided \/ Recorded \subseteq message
                /\ Dispatch \in Jobs => WillCover(run[Dispatch])

CoverInv == DayInv /\ PunctualInv /\ Covered

\* One call moves, and is no notification, or one that covers what is recorded.
LEMMA CoveredOne ==
  ASSUME TypeOK, Covered, Plain' => Plain, UNCHANGED <<evaluated, message>>, events \subseteq events',
         NEW r \in Runners, NEW c, run' = [run EXCEPT ![r] = c],
         r = Dispatch /\ Plain => WillCover(c)
  PROVE  Covered'
<1>1. Dispatch \in Jobs => run'[Dispatch] = IF r = Dispatch THEN c ELSE run[Dispatch]
  BY DEF TypeOK, Runners
<1> QED BY <1>1 DEF Covered, WillCover, Recorded, NotDecided

LEMMA IdleCovers == WillCover(Idle)
  BY DEF WillCover, Idle

\* The notification's call is over, decided or not.
LEMMA CoveredAtEnd ==
  ASSUME CoverInv, Plain' => Plain, NEW r \in Runners, run' = [run EXCEPT ![r] = Idle],
         UNCHANGED <<evaluated, events>>,
         \/ UNCHANGED message
         \/ run[r].pc = "load" /\ run[r].todo = << >> /\ Decided(r)
  PROVE  Covered'
<1>1. CASE UNCHANGED message
  BY <1>1, IdleCovers, CoveredOne DEF CoverInv, DayInv
<1>2. CASE r # Dispatch
  BY <1>2, <1>1, IdleCovers, CoveredOne DEF CoverInv, DayInv, Decided
<1>3. CASE r = Dispatch /\ run[r].pc = "load" /\ run[r].todo = << >> /\ Decided(r)
  <2>1. Dispatch \in Jobs /\ message' = run[Dispatch].got
    BY <1>3, CommandsAssumption DEF Runners, Decided
  <2>2. run'[Dispatch] = Idle
    BY <1>3 DEF CoverInv, DayInv, TypeOK
  <2>3. Plain => Recorded \subseteq message'
    BY <1>3, <2>1 DEF CoverInv, Covered, WillCover, SignalsOf
  <2>4. WillCover(run[Dispatch])'
    BY <2>2 DEF WillCover, Idle
  <2> QED BY <2>1, <2>3, <2>4 DEF CoverInv, Covered, NotDecided, Recorded
<1> QED BY <1>1, <1>2, <1>3

\* Loading the head of the list moves it from the list to what is loaded.
LEMMA LoadingCovers ==
  ASSUME NEW S, NEW list \in NonEmpty(S)
  PROVE  SignalsOf(list) = {Head(list)} \cup SignalsOf(Tail(list))
<1>1. /\ Len(list) \in Nat \ {0} /\ Len(Tail(list)) = Len(list) - 1 /\ Head(list) = list[1]
      /\ Tail(list) \in Seq(S) /\ list \in Seq(S)
      /\ \A n \in 1..(Len(list) - 1) : Tail(list)[n] = list[n + 1]
  BY HeadTailProperties, EmptySeq, LenProperties DEF NonEmpty
<1>2. DOMAIN list = 1..Len(list) /\ DOMAIN Tail(list) = 1..(Len(list) - 1)
  BY <1>1, LenProperties
<1>3. \A n \in 1..Len(list) : n = 1 \/ (n - 1 \in 1..(Len(list) - 1) /\ list[n] = Tail(list)[n - 1])
  BY <1>1
<1>4. \A n \in 1..(Len(list) - 1) : n + 1 \in 1..Len(list) /\ Tail(list)[n] = list[n + 1]
  BY <1>1
<1>5. 1 \in DOMAIN list
  BY <1>1, <1>2
<1>6. SignalsOf(list) \subseteq {Head(list)} \cup SignalsOf(Tail(list))
  <2> SUFFICES ASSUME NEW n \in 1..Len(list), n # 1
               PROVE  list[n] \in SignalsOf(Tail(list))
    BY <1>1, <1>2 DEF SignalsOf
  <2>1. n - 1 \in DOMAIN Tail(list) /\ list[n] = Tail(list)[n - 1]
    BY <1>2, <1>3
  <2> QED BY <2>1 DEF SignalsOf
<1>7. {Head(list)} \cup SignalsOf(Tail(list)) \subseteq SignalsOf(list)
  BY <1>1, <1>2, <1>4, <1>5 DEF SignalsOf
<1> QED BY <1>6, <1>7

LEMMA CoveredInit == Init => Covered
  BY IdleCovers DEF Init, Covered, Recorded, WillCover, NotDecided, Runners

LEMMA CoveredStep ==
  ASSUME EvaluationFirst, CoverInv, [Next]_vars
  PROVE  Covered'
<1>0. TypeOK
  BY DEF CoverInv, DayInv
<1>p. Plain' => Plain
  BY <1>0, PlainKept
<1>1. CASE SlotEnds \/ Block \/ Unblock \/ Start \/ UNCHANGED vars
  <2>1. UNCHANGED <<run, events, message, evaluated>>
    BY <1>1 DEF SlotEnds, Block, Unblock, Start, dayVars, vars
  <2> QED BY <1>p, <2>1 DEF CoverInv, Covered, WillCover, Recorded, NotDecided
<1>2. CASE Wake
  <2>1. UNCHANGED <<events, message, evaluated>>
    BY <1>2 DEF Wake
  <2>2. Dispatch \in Jobs => run'[Dispatch] = run[Dispatch] \/ run'[Dispatch] = Tick(Dispatch)
    BY <1>2 DEF Wake, Runners
  <2>3. Tick(Dispatch) = Call("load", NotifiedSignals)
    BY DEF Tick, Evaluation, Dispatch
  <2>4. WillCover(Call("load", NotifiedSignals))
    BY DEF WillCover, Call, Recorded
  <2> QED BY <1>p, <2>1, <2>2, <2>3, <2>4 DEF CoverInv, Covered, WillCover, Recorded, NotDecided
<1>3. CASE Stop
  <2>1. UNCHANGED <<events, message, evaluated>> /\ (Dispatch \in Jobs => run'[Dispatch] = Idle)
    BY <1>3 DEF Stop, Runners
  <2> QED BY <1>p, <2>1 DEF CoverInv, Covered, WillCover, Recorded, NotDecided, Idle
<1>4. ASSUME NEW j \in Jobs, Slow(j) PROVE Covered'
  <2>1. ~Plain'
    BY <1>0, <1>4, PlainKept
  <2> QED BY <1>4, <2>1 DEF Slow, CoverInv, Covered, NotDecided
<1>5. ASSUME NEW j \in Jobs, JobRaises(j) PROVE Covered'
  BY <1>p, <1>5, CoveredAtEnd DEF JobRaises, Runners
<1>6. ASSUME NEW r \in Runners, BodyStep(r) PROVE Covered'
  <2>1. CASE RecordEvent(r)
    <3>1. CASE r # Evaluation
      <4>1. run[r].pc = "record" /\ UNCHANGED <<evaluated, message>> /\ events \subseteq events'
        BY <2>1, <3>1 DEF RecordEvent, AtStep
      <4>2. r # Dispatch
        BY <4>1, CommandsAssumption DEF CoverInv, DayInv, OnceADay, OfDispatch, Runners
      <4> QED BY <1>0, <1>p, <2>1, <4>1, <4>2, CoveredOne DEF RecordEvent, CoverInv
    <3>2. CASE r = Evaluation
      <4>1. Evaluation \in Jobs /\ Evaluation # Dispatch
        BY JobsAssumption DEF Jobs, Evaluation, Dispatch
      <4>2. Plain => now = FireAt[Evaluation]
        BY <2>1, <3>2, <4>1 DEF RecordEvent, AtStep, CoverInv, PunctualInv, Punctual, InItsSlot
      <4>3. Plain /\ Dispatch \in Jobs => NotDecided /\ run[Dispatch].pc = "idle"
        <5> SUFFICES ASSUME Plain, Dispatch \in Jobs PROVE NotDecided /\ run[Dispatch].pc = "idle"
          OBVIOUS
        <5>1. FireAt[Dispatch] \in Int /\ FireAt[Evaluation] \in Int
          BY <4>1, JobsAssumption, FireAtAssumption DEF Jobs
        <5>2. ~(FireAt[Dispatch] <= now)
          BY <4>2, <5>1 DEF EvaluationFirst
        <5> QED BY <5>2 DEF CoverInv, DayInv, OnceADay
      <4>4. Dispatch \in Jobs => run'[Dispatch] = run[Dispatch]
        BY <2>1, <3>2, <4>1 DEF RecordEvent, CoverInv, DayInv, TypeOK
      <4>5. UNCHANGED message /\ evaluated' \subseteq events'
        BY <2>1, <3>2 DEF RecordEvent, CoverInv, Covered
      <4> QED BY <1>p, <4>3, <4>4, <4>5 DEF CoverInv, Covered, NotDecided, WillCover
    <3> QED BY <3>1, <3>2
  <2>2. CASE LoadEvents(r)
    <3> DEFINE c == [run[r] EXCEPT !.got = run[r].got \cup ({Item(r)} \cap events),
                                   !.todo = Tail(run[r].todo)]
    <3>1. run' = [run EXCEPT ![r] = c] /\ UNCHANGED <<evaluated, events, message>>
      BY <2>2 DEF LoadEvents
    <3>2. run[r] \in Calls /\ run[r].pc = "load" /\ run[r].todo # << >>
      BY <1>0, <2>2 DEF TypeOK, LoadEvents, AtStep
    <3>3. /\ c.todo = Tail(run[r].todo)
          /\ c.got = run[r].got \cup ({Head(run[r].todo)} \cap events)
          /\ run[r].todo \in NonEmpty(Signals)
      BY <3>2, CallKinds DEF NotifyCalls, CallOf, NonEmpty, Item
    <3>4. SignalsOf(run[r].todo) = {Head(run[r].todo)} \cup SignalsOf(Tail(run[r].todo))
      BY <3>3, LoadingCovers
    <3>5. Recorded \subseteq events
      BY DEF CoverInv, Covered, Recorded
    <3> HIDE DEF c
    <3>6. r = Dispatch /\ Plain => WillCover(c)
      <4> SUFFICES ASSUME r = Dispatch, Plain PROVE Recorded \subseteq c.got \cup SignalsOf(c.todo)
        BY DEF WillCover
      <4>1. Dispatch \in Jobs
        BY CommandsAssumption DEF Runners
      <4>2. Recorded \subseteq run[r].got \cup SignalsOf(run[r].todo)
        BY <3>2, <4>1 DEF CoverInv, Covered, WillCover
      <4> QED BY <3>3, <3>4, <3>5, <4>2
    <3> QED BY <1>0, <1>p, <3>1, <3>6, CoveredOne DEF CoverInv
  <2>3. CASE Publish(r)
    BY <1>p, <2>3, CoveredAtEnd DEF Publish, AtStep
  <2>4. CASE IngestStock(r) \/ IngestRaises(r) \/ FetchRaw(r) \/ CommitRows(r) \/ ReadRows(r)
    <3>1. \E c : run' = [run EXCEPT ![r] = c]
      BY <1>0, <1>6, BodyMoves
    <3>2. UNCHANGED <<evaluated, events, message>> /\ run[r].pc \notin {"idle", "load"}
      BY <2>4 DEF IngestStock, IngestRaises, FetchRaw, CommitRows, ReadRows, AtStep
    <3>3. r # Dispatch
      BY <3>2, CommandsAssumption DEF CoverInv, DayInv, OnceADay, OfDispatch, Runners
    <3> QED BY <1>0, <1>p, <3>1, <3>2, <3>3, CoveredOne DEF CoverInv
  <2> QED BY <1>6, <2>1, <2>2, <2>3, <2>4 DEF BodyStep
<1>7. ASSUME NEW c \in Commands, RunCommand(c) \/ CommandDies(c) PROVE Covered'
  <2>1. \E call : run' = [run EXCEPT ![c] = call]
    BY <1>7, Zenon DEF RunCommand, CommandDies
  <2>2. c \in Runners /\ c # Dispatch /\ UNCHANGED <<evaluated, events, message>>
    BY <1>7, CommandsAssumption DEF Runners, RunCommand, CommandDies
  <2> QED BY <1>0, <1>p, <2>1, <2>2, CoveredOne DEF CoverInv
<1> QED BY <1>1, <1>2, <1>3, <1>4, <1>5, <1>6, <1>7 DEF Next

LEMMA CoverInvInit == Init => CoverInv
  BY DayInvInit, PunctualInvInit, CoveredInit DEF CoverInv

LEMMA CoverInvStep ==
  ASSUME EvaluationFirst, CoverInv, [Next]_vars
  PROVE  CoverInv'
  BY DayInvStep, PunctualStep, CoveredStep DEF CoverInv

\* If the evaluation's time of the day is before the notification's, and no loop
\* is blocked and no job slow, the message covers what the evaluation recorded,
\* through any restart, failure and command: the two are never open at once, and
\* nothing is recorded once the message is decided.
THEOREM DispatchCompleteHolds ==
  ASSUME EvaluationFirst
  PROVE  Spec => []DispatchComplete
<1>1. Init => CoverInv
  BY CoverInvInit
<1>2. CoverInv /\ [Next]_vars => CoverInv'
  BY CoverInvStep
<1>3. CoverInv => DispatchComplete
  BY DEF CoverInv, Covered, Plain, NotDecided, Recorded, DispatchComplete
<1> QED BY <1>1, <1>2, <1>3, PTL DEF Spec

-----------------------------------------------------------------------------
(***************************************************************************)
(* The latency of the transforms.  In a calm slot every transform runs     *)
(* once from its first step to its last, so what was committed before the  *)
(* slot is in its domain table when the slot ends.                         *)
(***************************************************************************)

\* the payloads of before this slot are in their table, or the transform's run
\* of this slot is yet to come, or at work
InHand(j) ==
    ByThen(DatasetOf[j], now - 1) => DatasetOf[j] \in rows \/ due[j] = 0 \/ run[j].pc # "idle"

CalmSlot ==
    /\ up /\ ~blocked
    /\ \A j \in Jobs : ~run[j].slow
    /\ \A j \in IntervalJobs : due[j] >= 0 /\ (due[j] = 0 => run[j].pc = "idle") /\ InHand(j)

\* the transforms are done with what was committed two slots ago
Settled ==
    \A j \in IntervalJobs : ByThen(DatasetOf[j], now - Settle) => DatasetOf[j] \in rows

Rearming == up => \A j \in IntervalJobs : due[j] # NoFire /\ due[j] <= 1

TransformInv ==
    /\ TypeOK /\ Bodies /\ Rearming
    /\ calm >= 1 => CalmSlot
    /\ calm = Settle => Settled

LEMMA TransformType ==
  ASSUME TypeOK, NEW j \in IntervalJobs
  PROVE  /\ j \in Jobs /\ j \in Runners /\ run[j] \in Calls /\ now \in Int /\ calm \in Int
         /\ DatasetOf[j] \in Datasets
         /\ rawAt[DatasetOf[j]] = NotYet \/ rawAt[DatasetOf[j]] \in Int
         /\ due[j] = NoFire \/ due[j] \in Int
<1>1. j \in Jobs \ {Evaluation, Dispatch}
  BY JobsAssumption, JobKindsAssumption DEF Jobs
<1>2. DatasetOf[j] \in Datasets
  BY <1>1, JobsAssumption
<1> QED BY <1>1, <1>2 DEF TypeOK, SchedulerTypeOK, Runners, Settle

\* The end of a calm slot: every transform has run in it.
LEMMA CalmTick ==
  ASSUME TransformInv, SlotEnds, calm' >= 1
  PROVE  CalmSlot' /\ (calm' = Settle => Settled')
<1>1. /\ up /\ ~blocked /\ (\A j \in Jobs : ~run[j].slow)
      /\ calm' = Settle => calm >= 1
  BY DEF SlotEnds, TransformInv, TypeOK, Settle
<1>2. Due = {} /\ \A j \in Jobs \cap Open : IsIngest(j)
  BY <1>1 DEF SlotEnds
<1>3. UNCHANGED <<run, up, blocked, rawAt, rows>> /\ now' <= now + 1 /\ now' \in Int
  <2>1. now \in Int /\ LastSlot \in Int
    BY SlotsAssumption DEF TransformInv, TypeOK, SchedulerTypeOK
  <2> QED BY <2>1 DEF SlotEnds, ClockTicks, dayVars
<1>4. ASSUME NEW j \in IntervalJobs
      PROVE  due[j] = 1 /\ due'[j] = 0 /\ run[j].pc = "idle"
  <2>1. due[j] # NoFire /\ due[j] <= 1 /\ due[j] \in Int
    BY <1>1, TransformType DEF TransformInv, Rearming
  <2>2. due[j] = 1
    BY <1>2, <2>1 DEF Due, Jobs
  <2>3. run[j].pc = "idle"
    BY <1>2, TransformType DEF Open, IsIngest, TransformInv, Bodies, JobCall
  <2> QED BY <2>1, <2>2, <2>3 DEF SlotEnds, ClockTicks, Jobs
<1>5. CalmSlot'
  BY <1>1, <1>3, <1>4 DEF CalmSlot, InHand
<1>6. ASSUME calm' = Settle PROVE Settled'
  <2> SUFFICES ASSUME NEW j \in IntervalJobs, ByThen(DatasetOf[j], now - Settle)'
               PROVE  DatasetOf[j] \in rows
    BY <1>3 DEF Settled
  <2>1. now \in Int /\ (rawAt[DatasetOf[j]] = NotYet \/ rawAt[DatasetOf[j]] \in Int)
    BY TransformType DEF TransformInv
  <2>2. ByThen(DatasetOf[j], now - 1)
    BY <1>3, <2>1 DEF ByThen, Settle
  <2>3. InHand(j)
    BY <1>1, <1>6 DEF TransformInv, CalmSlot
  <2> QED BY <1>4, <2>2, <2>3 DEF InHand
<1> QED BY <1>5, <1>6

LEMMA CalmWake ==
  ASSUME TransformInv, Wake, calm >= 1
  PROVE  CalmSlot'
<1>1. UNCHANGED <<now, up, blocked, rawAt, rows>> /\ due' = Rearmed(Open)
  BY DEF Wake, Wakeup
<1>2. \A j \in Jobs : run'[j] = IF j \in Fired(Open) THEN Tick(j) ELSE run[j]
  BY DEF Wake, Runners
<1>3. CalmSlot
  BY DEF TransformInv
<1>4. \A j \in Jobs : ~run'[j].slow
  BY <1>2, <1>3, TickCall DEF CalmSlot
<1>5. ASSUME NEW j \in IntervalJobs, j \notin Due
      PROVE  due'[j] = due[j] /\ run'[j] = run[j]
  BY <1>1, <1>2, <1>5 DEF Rearmed, Fired, Jobs
<1>6. ASSUME NEW j \in IntervalJobs, j \in Due
      PROVE  due'[j] = 1 /\ run'[j].pc # "idle"
  <2>1. due[j] = 0 /\ run[j].pc = "idle"
    <3>1. due[j] <= 0 /\ due[j] \in Int
      BY <1>6, TransformType DEF Due, TransformInv
    <3> QED BY <1>3, <3>1 DEF CalmSlot
  <2>2. j \in Fired(Open)
    BY <1>6, <2>1, JobKindsAssumption DEF Fired, Open, Missed
  <2> QED BY <1>1, <1>2, <1>6, <2>2, TickCall DEF Rearmed, Jobs
<1>7. ASSUME NEW j \in IntervalJobs
      PROVE  due'[j] >= 0 /\ (due'[j] = 0 => run'[j].pc = "idle") /\ InHand(j)'
  <2>1. CASE j \in Due
    BY <1>6, <2>1 DEF InHand
  <2>2. CASE j \notin Due
    <3>1. InHand(j)'
      BY <1>1, <1>3, <1>5, <2>2 DEF CalmSlot, InHand, ByThen
    <3> QED BY <1>3, <1>5, <2>2, <3>1 DEF CalmSlot
  <2> QED BY <2>1, <2>2
<1> QED BY <1>1, <1>3, <1>4, <1>7 DEF CalmSlot

\* A call that moves leaves the calm as it is, unless a transform is done early.
LEMMA CalmOne ==
  ASSUME TransformInv, UNCHANGED <<now, up, blocked, due, calm>>, rows \subseteq rows',
         \A d \in Datasets : rawAt'[d] = rawAt[d] \/ (rawAt[d] = NotYet /\ rawAt'[d] = now),
         NEW r \in Runners, NEW c, run' = [run EXCEPT ![r] = c],
         r \in Jobs => ~c.slow \/ c.slow = run[r].slow,
         r \in IntervalJobs => /\ run[r].pc # "idle"
                               /\ c.pc = "idle" /\ ByThen(DatasetOf[r], now - 1) => DatasetOf[r] \in rows'
  PROVE  (calm' >= 1 => CalmSlot') /\ (calm' = Settle => Settled')
<1>1. \A j \in Jobs : run'[j] = IF j = r THEN c ELSE run[j]
  BY DEF TransformInv, TypeOK, Runners
<1>2. ASSUME NEW j \in IntervalJobs
      PROVE  /\ ByThen(DatasetOf[j], now - 1)' => ByThen(DatasetOf[j], now - 1)
             /\ ByThen(DatasetOf[j], now - Settle)' => ByThen(DatasetOf[j], now - Settle)
  <2>1. DatasetOf[j] \in Datasets /\ now \in Int
    BY TransformType DEF TransformInv
  <2> QED BY <2>1 DEF ByThen, Settle
<1>3. ASSUME calm >= 1 PROVE CalmSlot'
  <2>1. CalmSlot
    BY <1>3 DEF TransformInv
  <2>2. \A j \in Jobs : ~run'[j].slow
    BY <1>1, <2>1 DEF CalmSlot
  <2>3. ASSUME NEW j \in IntervalJobs
        PROVE  due'[j] >= 0 /\ (due'[j] = 0 => run'[j].pc = "idle") /\ InHand(j)'
    <3>1. run'[j] = IF j = r THEN c ELSE run[j]
      BY <1>1 DEF Jobs
    <3>2. due[j] >= 0 /\ (due[j] = 0 => run[j].pc = "idle") /\ InHand(j)
      BY <2>1 DEF CalmSlot
    <3>3. due'[j] = 0 => run'[j].pc = "idle"
      BY <3>1, <3>2
    <3>4. InHand(j)'
      <4>1. CASE j = r
        BY <1>2, <3>1, <4>1 DEF InHand
      <4>2. CASE j # r
        BY <1>2, <3>1, <3>2, <4>2 DEF InHand
      <4> QED BY <4>1, <4>2
    <3> QED BY <3>2, <3>3, <3>4
  <2> QED BY <2>1, <2>2, <2>3 DEF CalmSlot
<1>4. ASSUME calm = Settle PROVE Settled'
  BY <1>2, <1>4 DEF TransformInv, Settled
<1> QED BY <1>3, <1>4 DEF Settle

LEMMA TransformInit == Init => TransformInv
<1> SUFFICES ASSUME Init PROVE TransformInv
  OBVIOUS
<1>1. TypeOK /\ Bodies
  BY InitType, PunctualInvInit DEF PunctualInv
<1>2. calm = 0
  BY DEF Init
<1>3. Rearming
  BY NoFireAssumption DEF Init, SchedulerInit, FirstDue, Rearming, Jobs
<1> QED BY <1>1, <1>2, <1>3 DEF TransformInv, Settle

\* What a step of a body does to the payloads and the rows.
LEMMA BodyFills ==
  ASSUME TypeOK, Bodies, NEW r \in Runners, BodyStep(r)
  PROVE  /\ rows \subseteq rows'
         /\ \A d \in Datasets : rawAt'[d] = rawAt[d] \/ (rawAt[d] = NotYet /\ rawAt'[d] = now)
         /\ r \in IntervalJobs /\ run'[r].pc = "idle" /\ ByThen(DatasetOf[r], now - 1) =>
               DatasetOf[r] \in rows'
<1>1. rows \subseteq rows'
  BY DEF BodyStep, IngestStock, IngestRaises, FetchRaw, CommitRows, ReadRows, RecordEvent,
         LoadEvents, Publish
<1>2. \A d \in Datasets : rawAt'[d] = rawAt[d] \/ (rawAt[d] = NotYet /\ rawAt'[d] = now)
  <2>1. CASE IngestStock(r)
    BY <2>1 DEF IngestStock, TypeOK
  <2>2. CASE ~IngestStock(r)
    BY <2>2 DEF BodyStep, IngestRaises, FetchRaw, CommitRows, ReadRows, RecordEvent,
                LoadEvents, Publish
  <2> QED BY <2>1, <2>2
<1>3. ASSUME r \in IntervalJobs, run'[r].pc = "idle", ByThen(DatasetOf[r], now - 1)
      PROVE  DatasetOf[r] \in rows'
  <2>1. run[r].pc # "idle"
    BY BodyMoves
  <2>2. run[r].pc \in {"fetch", "commit"} /\ Item(r) = DatasetOf[r] /\ run[r] \in Calls
    BY <1>3, <2>1 DEF Bodies, JobCall, Jobs, Item, TypeOK
  <2>3. CASE FetchRaw(r)
    <3>1. rawAt[Item(r)] # NotYet
      BY <1>3, <2>2 DEF ByThen
    <3>2. [run[r] EXCEPT !.pc = "commit"].pc = "commit"
      BY <2>2, CallFields
    <3>3. Item(r) \in rows
      BY <1>3, <2>3, <3>1, <3>2 DEF FetchRaw, TypeOK
    <3> QED BY <1>1, <2>2, <3>3
  <2>4. CASE CommitRows(r)
    BY <2>2, <2>4 DEF CommitRows
  <2>5. FetchRaw(r) \/ CommitRows(r)
    BY <2>2 DEF BodyStep, IngestStock, IngestRaises, ReadRows, RecordEvent, LoadEvents,
                Publish, AtStep
  <2> QED BY <2>3, <2>4, <2>5
<1> QED BY <1>1, <1>2, <1>3

LEMMA TransformStep ==
  ASSUME TransformInv, [Next]_vars
  PROVE  TransformInv'
<1>0. TypeOK /\ Bodies /\ TypeOK' /\ Bodies' /\ calm \in 0..Settle
  BY TypeStep, BodiesStep DEF TransformInv, TypeOK
<1> SUFFICES Rearming' /\ (calm' >= 1 => CalmSlot') /\ (calm' = Settle => Settled')
  BY <1>0 DEF TransformInv
<1>r. ASSUME UNCHANGED <<up, due>> PROVE Rearming'
  BY <1>r DEF TransformInv, Rearming
<1>1. CASE SlotEnds
  <2>1. Rearming'
    <3> SUFFICES ASSUME up, NEW j \in IntervalJobs PROVE due'[j] # NoFire /\ due'[j] <= 1
      BY <1>1 DEF SlotEnds, Rearming
    <3>1. due[j] # NoFire /\ due[j] <= 1 /\ due[j] \in Int
      BY TransformType DEF TransformInv, Rearming
    <3>2. due'[j] = due[j] - 1
      BY <1>1, <3>1 DEF SlotEnds, ClockTicks, Jobs
    <3> QED BY <3>1, <3>2, NoFireAssumption
  <2>2. calm' = Settle => calm' >= 1
    BY DEF Settle
  <2> QED BY <1>1, <2>1, <2>2, CalmTick
<1>2. CASE Wake
  <2>1. Rearming'
    <3> SUFFICES ASSUME up, NEW j \in IntervalJobs PROVE due'[j] # NoFire /\ due'[j] <= 1
      BY <1>2 DEF Wake, Rearming
    <3>1. due'[j] = IF j \in Due THEN 1 ELSE due[j]
      BY <1>2 DEF Wake, Wakeup, Rearmed, Jobs
    <3> QED BY <3>1, NoFireAssumption DEF TransformInv, Rearming
  <2>2. UNCHANGED <<now, rawAt, rows, calm>>
    BY <1>2 DEF Wake, weather
  <2>3. calm' = Settle => Settled'
    BY <2>2 DEF TransformInv, Settled, ByThen
  <2> QED BY <1>2, <2>1, <2>2, <2>3, CalmWake
<1>3. CASE Block \/ Stop \/ \E j \in Jobs : Slow(j) \/ JobRaises(j)
  <2>1. PICK kind \in FaultKinds : Fault(kind)
    BY <1>3 DEF Block, Stop, Slow, JobRaises, FaultKinds
  <2>2. calm' = 0
    BY <1>0, <2>1, FaultShows
  <2>3. Rearming'
    BY <1>3, <1>r DEF Block, Stop, Slow, JobRaises, SchedulerStop, schedulerVars, Rearming
  <2> QED BY <2>2, <2>3 DEF Settle
<1>4. CASE Unblock
  <2>1. calm = 0 /\ calm' = calm
    BY <1>0, <1>4 DEF Unblock, weather, TransformInv, CalmSlot, Settle
  <2> QED BY <1>4, <1>r, <2>1 DEF Unblock, Settle
<1>5. CASE Start
  <2>1. calm = 0 /\ calm' = calm
    BY <1>0, <1>5 DEF Start, SchedulerStart, weather, TransformInv, CalmSlot, Settle
  <2>2. Rearming'
    BY <1>5, NoFireAssumption DEF Start, SchedulerStart, FirstDue, Rearming, Jobs
  <2> QED BY <2>1, <2>2 DEF Settle
<1>6. ASSUME NEW r \in Runners, BodyStep(r)
      PROVE  Rearming' /\ (calm' >= 1 => CalmSlot') /\ (calm' = Settle => Settled')
  <2>1. PICK c : run' = [run EXCEPT ![r] = c] /\ (c = Idle \/ c.slow = run[r].slow)
    BY <1>0, <1>6, BodyMoves
  <2>2. UNCHANGED <<now, up, blocked, due, calm>> /\ run[r].pc # "idle"
    BY <1>0, <1>6, BodyMoves
  <2>3. run'[r] = c
    BY <1>0, <2>1 DEF TypeOK
  <2>4. ~c.slow \/ c.slow = run[r].slow
    BY <2>1 DEF Idle
  <2>5. /\ rows \subseteq rows'
        /\ \A d \in Datasets : rawAt'[d] = rawAt[d] \/ (rawAt[d] = NotYet /\ rawAt'[d] = now)
        /\ r \in IntervalJobs /\ c.pc = "idle" /\ ByThen(DatasetOf[r], now - 1) =>
              DatasetOf[r] \in rows'
    BY <1>0, <1>6, <2>3, BodyFills
  <2> HIDE DEF TransformInv, CalmSlot, Settled
  <2> QED BY <1>r, <2>1, <2>2, <2>4, <2>5, CalmOne
<1>7. ASSUME NEW c \in Commands, RunCommand(c) \/ CommandDies(c)
      PROVE  Rearming' /\ (calm' >= 1 => CalmSlot') /\ (calm' = Settle => Settled')
  <2>1. PICK call : run' = [run EXCEPT ![c] = call]
    BY <1>7, Zenon DEF RunCommand, CommandDies
  <2>2. c \in Runners /\ c \notin Jobs /\ c \notin IntervalJobs
    BY CommandsAssumption DEF Runners, Jobs
  <2>3. UNCHANGED <<now, up, blocked, due, calm, rows, rawAt>>
    BY <1>7 DEF RunCommand, CommandDies, schedulerVars, weather
  <2> QED BY <1>r, <2>1, <2>2, <2>3, CalmOne
<1>8. CASE UNCHANGED vars
  <2>1. UNCHANGED <<now, up, blocked, due, calm, rows, rawAt, run>>
    BY <1>8 DEF vars, schedulerVars, dayVars, weather
  <2> QED BY <1>r, <2>1 DEF TransformInv, CalmSlot, Settled, InHand, ByThen
<1> QED BY <1>1, <1>2, <1>3, <1>4, <1>5, <1>6, <1>7, <1>8 DEF Next

\* If every dataset has a transform job, a payload is in its domain table two
\* slots after it was committed, when those slots were calm: in the second the
\* transform starts, reads the payload, commits and ends.
THEOREM RowsInTimeHolds ==
  ASSUME EveryTransform
  PROVE  Spec => []RowsInTime
<1>1. Init => TransformInv
  BY TransformInit
<1>2. TransformInv /\ [Next]_vars => TransformInv'
  BY TransformStep
<1>3. TransformInv => RowsInTime
  BY DEF EveryTransform, TransformInv, Settled, RowsInTime
<1> QED BY <1>1, <1>2, <1>3, PTL DEF Spec

-----------------------------------------------------------------------------
(***************************************************************************)
(* The undisturbed day, from payload to message.                           *)
(***************************************************************************)

\* nothing has gone wrong: every slot was calm, a cron job is still due or has
\* fired, and the notification that has fired is open or decided
Smooth ==
    /\ up
    /\ calm >= now \/ calm = Settle
    /\ \A j \in {Evaluation, Dispatch} \cap Jobs :
          IF due[j] = NoFire THEN FireAt[j] <= now ELSE run[j].pc = "idle"
    /\ Dispatch \in Jobs /\ due[Dispatch] = NoFire => run[Dispatch].pc # "idle" \/ ~NotDecided

\* a call of the evaluation has still to come to the signal
WillEvaluate(c, s) == c.pc # "idle" /\ s \in SignalsOf(c.todo)

\* the evaluation has recorded what it could, or is going to
EvaluatedInTime ==
    due[Evaluation] = NoFire =>
        \A s \in SignalsOf(EvaluatedSignals) :
            InTime(s) => s \in evaluated \/ WillEvaluate(run[Evaluation], s)

SmoothInv == Undisturbed => Smooth /\ EvaluatedInTime

WholeInv == CoverInv /\ TransformInv /\ SmoothInv

LEMMA EvaluationIsCron ==
  /\ Evaluation \in CronJobs /\ Evaluation \in Jobs /\ Evaluation \in Runners
  /\ Evaluation # Dispatch /\ Evaluation \notin Commands
  /\ Dispatch \in Jobs => Dispatch \in CronJobs /\ Dispatch \in Runners
  /\ Dispatch \notin Commands
  BY JobsAssumption, CommandsAssumption DEF Jobs, Runners, Evaluation, Dispatch

LEMMA UndisturbedKept ==
  ASSUME TypeOK, [Next]_vars, Undisturbed'
  PROVE  /\ Undisturbed /\ ~Block /\ ~Stop
         /\ \A j \in Jobs : ~Slow(j) /\ ~JobRaises(j)
<1>1. \A kind \in FaultKinds : ~Fault(kind)
  BY FaultShows
<1>2. ~Block /\ ~Stop /\ \A j \in Jobs : ~Slow(j) /\ ~JobRaises(j)
  BY <1>1 DEF Block, Stop, Slow, JobRaises, FaultKinds
<1> SUFFICES Undisturbed
  BY <1>2
<1>3. CASE SlotEnds \/ Wake \/ Unblock \/ Start \/ UNCHANGED vars
  BY <1>3 DEF SlotEnds, Wake, Unblock, Start, weather, vars, Undisturbed
<1>4. ASSUME NEW r \in Runners, BodyStep(r) PROVE Undisturbed
  BY <1>4, BodyMoves DEF Undisturbed
<1>5. ASSUME NEW c \in Commands, RunCommand(c) \/ CommandDies(c) PROVE Undisturbed
  BY <1>5 DEF RunCommand, CommandDies, weather, Undisturbed
<1> QED BY <1>2, <1>3, <1>4, <1>5 DEF Next

LEMMA UndisturbedIsPlain == Undisturbed => Plain
  BY DEF Undisturbed, Plain, Happened

\* What came in time has its rows when the evaluation reads them.
LEMMA SeenInTime ==
  ASSUME EveryTransform, TransformInv, Smooth, now = FireAt[Evaluation],
         NEW s \in Signals, InTime(s)
  PROVE  Needs[s] \subseteq rows
<1> SUFFICES ASSUME NEW d \in Needs[s] PROVE d \in rows
  OBVIOUS
<1>1. d \in Datasets /\ ByThen(d, now - Settle)
  BY NeedsAssumption DEF InTime
<1>2. rawAt[d] \in Nat /\ rawAt[d] <= now - 2 /\ now \in Int /\ calm \in 0..2
  BY <1>1 DEF ByThen, TransformInv, TypeOK, SchedulerTypeOK, Settle
<1>3. calm = Settle
  BY <1>2 DEF Smooth, Settle
<1> QED BY <1>1, <1>3 DEF EveryTransform, TransformInv, Settled

\* From the evaluation's slot on, nothing comes in time any more.
LEMMA InTimeKept ==
  ASSUME TypeOK, FireAt[Evaluation] <= now, NEW s \in Signals, InTime(s)',
         \A d \in Datasets : rawAt'[d] = rawAt[d] \/ (rawAt[d] = NotYet /\ rawAt'[d] = now)
  PROVE  InTime(s)
<1> SUFFICES ASSUME NEW d \in Needs[s] PROVE ByThen(d, FireAt[Evaluation] - Settle)
  BY DEF InTime
<1>1. d \in Datasets /\ rawAt'[d] # NotYet /\ rawAt'[d] <= FireAt[Evaluation] - Settle
  BY NeedsAssumption DEF InTime, ByThen
<1>2. now \in Int /\ FireAt[Evaluation] \in Int
  BY EvaluationIsCron, FireAtAssumption DEF TypeOK, SchedulerTypeOK
<1>3. rawAt'[d] = rawAt[d]
  BY <1>1, <1>2 DEF Settle
<1> QED BY <1>1, <1>3 DEF ByThen

LEMMA SmoothInit == Init => SmoothInv
<1> SUFFICES ASSUME Init PROVE Smooth /\ EvaluatedInTime
  BY DEF SmoothInv
<1>1. \A j \in CronJobs : due[j] # NoFire
  BY FireAtAssumption, JobKindsAssumption, SlotsAssumption, NoFireAssumption
     DEF Init, SchedulerInit, FirstDue, Jobs
<1>2. \A j \in Jobs : run[j].pc = "idle"
  BY DEF Init, Runners, Idle
<1> QED BY <1>1, <1>2, EvaluationIsCron DEF Init, SchedulerInit, Smooth, EvaluatedInTime

LEMMA SmoothTick ==
  ASSUME WholeInv, Undisturbed, SlotEnds
  PROVE  Smooth' /\ EvaluatedInTime'
<1>1. TypeOK /\ Bodies /\ Punctual /\ Smooth /\ EvaluatedInTime
  BY UndisturbedIsPlain DEF WholeInv, CoverInv, DayInv, PunctualInv, SmoothInv
<1>2. UNCHANGED <<up, rawAt, run, message, evaluated>>
  BY DEF SlotEnds, dayVars
<1>3. calm' >= now' \/ calm' = Settle
  <2>1. now \in Int /\ LastSlot \in Int /\ calm \in 0..Settle
    BY <1>1, SlotsAssumption DEF TypeOK, SchedulerTypeOK
  <2>2. calm' = IF calm < Settle THEN calm + 1 ELSE calm
    BY <1>1 DEF SlotEnds, Punctual, InItsSlot, Smooth
  <2> QED BY <1>1, <2>1, <2>2 DEF SlotEnds, ClockTicks, Smooth, Settle
<1>4. now \in Int /\ now' \in Int /\ now <= now'
  BY <1>1, SlotsAssumption DEF SlotEnds, ClockTicks, TypeOK, SchedulerTypeOK
<1>5. ASSUME NEW j \in {Evaluation, Dispatch} \cap Jobs
      PROVE  /\ due'[j] = NoFire <=> due[j] = NoFire
             /\ IF due'[j] = NoFire THEN FireAt[j] <= now' ELSE run'[j].pc = "idle"
  <2>1. j \in CronJobs /\ FireAt[j] \in Int
    BY EvaluationIsCron, FireAtAssumption
  <2>2. due'[j] = IF due[j] = NoFire THEN NoFire ELSE due[j] - 1
    BY DEF SlotEnds, ClockTicks
  <2>3. due'[j] = NoFire <=> due[j] = NoFire
    BY <1>1, <2>1, <2>2, NoFireAssumption DEF Punctual, OnSchedule
  <2> QED BY <1>1, <1>2, <1>4, <2>1, <2>3 DEF Smooth
<1>6. Smooth'
  BY <1>1, <1>2, <1>3, <1>5 DEF Smooth, NotDecided
<1>7. EvaluatedInTime'
  BY <1>1, <1>2, <1>5, EvaluationIsCron DEF EvaluatedInTime, InTime, ByThen, WillEvaluate
<1> QED BY <1>6, <1>7

LEMMA SmoothWake ==
  ASSUME WholeInv, Undisturbed, Wake
  PROVE  Smooth' /\ EvaluatedInTime'
<1>1. TypeOK /\ Punctual /\ Smooth /\ EvaluatedInTime
  BY UndisturbedIsPlain DEF WholeInv, CoverInv, DayInv, PunctualInv, SmoothInv
<1>2. UNCHANGED <<now, up, rawAt, message, evaluated, calm>> /\ due' = Rearmed(Open)
  BY DEF Wake, Wakeup, weather
<1>3. ASSUME NEW j \in {Evaluation, Dispatch} \cap Jobs, j \in Due
      PROVE  due'[j] = NoFire /\ FireAt[j] <= now /\ run'[j] = Tick(j)
  <2>1. due[j] # NoFire /\ j \in CronJobs
    BY <1>3, EvaluationIsCron DEF Due
  <2>2. due[j] = 0 /\ FireAt[j] = now
    BY <1>1, <1>3, <2>1, StartsInItsSlot
  <2>3. j \in Fired(Open)
    BY <1>1, <1>3, <2>1, <2>2, SlotsAssumption DEF Smooth, Fired, Open, Missed
  <2>4. due'[j] = NoFire
    BY <1>2, <1>3, <2>1, JobKindsAssumption DEF Rearmed
  <2>5. FireAt[j] <= now
    BY <1>1, <2>2 DEF TypeOK, SchedulerTypeOK
  <2> QED BY <2>3, <2>4, <2>5 DEF Wake, Runners
<1>4. ASSUME NEW j \in {Evaluation, Dispatch} \cap Jobs, j \notin Due
      PROVE  due'[j] = due[j] /\ run'[j] = run[j]
  BY <1>2, <1>4 DEF Wake, Fired, Rearmed, Runners
<1>5. \A j \in {Evaluation, Dispatch} \cap Jobs :
         IF due'[j] = NoFire THEN FireAt[j] <= now' ELSE run'[j].pc = "idle"
  BY <1>1, <1>2, <1>3, <1>4 DEF Smooth
<1>6. ASSUME Dispatch \in Jobs, due'[Dispatch] = NoFire
      PROVE  run'[Dispatch].pc # "idle" \/ ~NotDecided'
  <2>1. CASE Dispatch \in Due
    BY <1>3, <1>6, <2>1, TickCall
  <2>2. CASE Dispatch \notin Due
    BY <1>1, <1>2, <1>4, <1>6, <2>2 DEF Smooth, NotDecided
  <2> QED BY <2>1, <2>2
<1>7. Smooth'
  BY <1>1, <1>2, <1>5, <1>6 DEF Smooth
<1>8. EvaluatedInTime'
  <2>1. CASE Evaluation \in Due
    <3>1. run'[Evaluation] = Call("read", EvaluatedSignals)
      BY <1>3, <2>1, EvaluationIsCron DEF Tick
    <3>2. \A s \in SignalsOf(EvaluatedSignals) : WillEvaluate(run'[Evaluation], s)
      BY <3>1 DEF WillEvaluate, Call
    <3> QED BY <3>2 DEF EvaluatedInTime, WillEvaluate
  <2>2. CASE Evaluation \notin Due
    BY <1>1, <1>2, <1>4, <2>2, EvaluationIsCron DEF EvaluatedInTime, InTime, ByThen, WillEvaluate
  <2> QED BY <2>1, <2>2
<1> QED BY <1>7, <1>8

\* A call that moves, of neither the evaluation nor the notification, or a step of one
\* of these that keeps to the day.
LEMMA SmoothOne ==
  ASSUME WholeInv, Undisturbed, UNCHANGED <<now, up, due, calm>>, evaluated \subseteq evaluated',
         \A d \in Datasets : rawAt'[d] = rawAt[d] \/ (rawAt[d] = NotYet /\ rawAt'[d] = now),
         NEW r \in Runners, NEW c, run' = [run EXCEPT ![r] = c],
         r \in {Evaluation, Dispatch} => run[r].pc # "idle",
         NotDecided' => NotDecided,
         r = Dispatch => c.pc # "idle" \/ ~NotDecided',
         r = Evaluation => \A s \in Signals : InTime(s) /\ WillEvaluate(run[r], s) =>
                              s \in evaluated' \/ WillEvaluate(c, s)
  PROVE  Smooth' /\ EvaluatedInTime'
<1>1. TypeOK /\ Smooth /\ EvaluatedInTime
  BY DEF WholeInv, CoverInv, DayInv, SmoothInv
<1>2. \A j \in Jobs : run'[j] = IF j = r THEN c ELSE run[j]
  BY <1>1 DEF TypeOK, Runners
<1>3. \A j \in {Evaluation, Dispatch} \cap Jobs :
         IF due'[j] = NoFire THEN FireAt[j] <= now' ELSE run'[j].pc = "idle"
  BY <1>1, <1>2 DEF Smooth
<1>4. Dispatch \in Jobs /\ due'[Dispatch] = NoFire => run'[Dispatch].pc # "idle" \/ ~NotDecided'
  BY <1>1, <1>2 DEF Smooth
<1>5. Smooth'
  BY <1>1, <1>3, <1>4 DEF Smooth
<1>6. ASSUME due[Evaluation] = NoFire, NEW s \in SignalsOf(EvaluatedSignals), InTime(s)'
      PROVE  s \in evaluated' \/ WillEvaluate(run'[Evaluation], s)
  <2>1. s \in Signals
    BY SignalListsAssumption DEF SignalsOf
  <2>2. FireAt[Evaluation] <= now
    BY <1>1, <1>6, EvaluationIsCron DEF Smooth
  <2>3. InTime(s)
    BY <1>1, <1>6, <2>1, <2>2, InTimeKept
  <2>4. s \in evaluated \/ WillEvaluate(run[Evaluation], s)
    BY <1>1, <1>6, <2>3 DEF EvaluatedInTime
  <2> QED BY <1>2, <2>1, <2>3, <2>4, EvaluationIsCron
<1>7. EvaluatedInTime'
  BY <1>6 DEF EvaluatedInTime, WillEvaluate
<1> QED BY <1>5, <1>7

\* The evaluation's call after a signal.
LEMMA AfterSignal ==
  ASSUME NEW c \in Calls, c.pc \in {"read", "record"}, NEW s \in Signals,
         WillEvaluate(c, s), s # Head(c.todo)
  PROVE  WillEvaluate(After(c, "read"), s)
<1>1. c \in RuleCalls /\ c.todo \in NonEmpty(Signals)
  BY CallKinds, CallItems
<1>2. s \in SignalsOf(Tail(c.todo))
  BY <1>1, LoadingCovers DEF WillEvaluate
<1>3. Tail(c.todo) # << >>
  BY <1>2 DEF SignalsOf
<1>4. After(c, "read").pc = "read" /\ After(c, "read").todo = Tail(c.todo)
  BY <1>1, <1>3 DEF After, RuleCalls, CallOf
<1> QED BY <1>2, <1>4 DEF WillEvaluate

LEMMA SmoothBody ==
  ASSUME EveryTransform, WholeInv, Undisturbed, NEW r \in Runners, BodyStep(r)
  PROVE  Smooth' /\ EvaluatedInTime'
<1>1. TypeOK /\ Bodies /\ Punctual /\ Smooth /\ TransformInv /\ OnceADay
  BY UndisturbedIsPlain DEF WholeInv, CoverInv, DayInv, PunctualInv, SmoothInv
<1>2. PICK c : run' = [run EXCEPT ![r] = c]
  BY <1>1, BodyMoves
<1>3. run'[r] = c /\ run[r] \in Calls
  BY <1>1, <1>2 DEF TypeOK
<1>4. run[r].pc # "idle" /\ UNCHANGED <<now, up, due, calm>>
  BY <1>1, BodyMoves
<1>5. \A d \in Datasets : rawAt'[d] = rawAt[d] \/ (rawAt[d] = NotYet /\ rawAt'[d] = now)
  BY <1>1, BodyFills
<1>6. evaluated \subseteq evaluated'
  BY DEF BodyStep, IngestStock, IngestRaises, FetchRaw, CommitRows, ReadRows, RecordEvent,
         LoadEvents, Publish
<1>7. ~Publish(r) => UNCHANGED message
  BY DEF BodyStep, IngestStock, IngestRaises, FetchRaw, CommitRows, ReadRows, RecordEvent,
         LoadEvents
<1>8. ASSUME Publish(r), r = Dispatch PROVE ~NotDecided'
  <2>1. message' = run[r].got /\ run[r].got \subseteq Signals
    BY <1>3, <1>8, CallItems DEF Publish, AtStep, Decided
  <2> QED BY <2>1, AbsentAssumption DEF NotDecided
<1>9. NotDecided' => NotDecided
  <2>1. CASE Publish(r) /\ r # Dispatch
    BY <2>1 DEF Publish, Decided, NotDecided
  <2> QED BY <1>7, <1>8, <2>1 DEF NotDecided
<1>10. ASSUME r = Dispatch PROVE c.pc # "idle" \/ ~NotDecided'
  <2>1. run[r].pc = "load"
    BY <1>1, <1>4, <1>10, EvaluationIsCron DEF OnceADay, OfDispatch, Runners
  <2>2. CASE LoadEvents(r)
    <3>1. run'[r].pc = "load"
      BY <1>1, <1>3, <2>1, <2>2, CallFields DEF LoadEvents, TypeOK
    <3> QED BY <1>3, <3>1
  <2>3. LoadEvents(r) \/ Publish(r)
    BY <2>1 DEF BodyStep, IngestStock, IngestRaises, FetchRaw, CommitRows, ReadRows,
                RecordEvent, AtStep
  <2> QED BY <1>8, <1>10, <2>2, <2>3
<1>11. ASSUME r = Evaluation, NEW s \in Signals, InTime(s), WillEvaluate(run[r], s)
       PROVE  s \in evaluated' \/ WillEvaluate(c, s)
  <2>1. run[r].pc \in {"read", "record"}
    BY <1>1, <1>4, <1>11, EvaluationIsCron DEF Bodies, JobCall
  <2>2. ReadRows(r) \/ RecordEvent(r)
    BY <2>1 DEF BodyStep, IngestStock, IngestRaises, FetchRaw, CommitRows, LoadEvents,
                Publish, AtStep
  <2>3. CASE s = Item(r) /\ RecordEvent(r)
    BY <1>11, <2>3 DEF RecordEvent
  <2>4. CASE s = Item(r) /\ ReadRows(r)
    <3>1. now = FireAt[Evaluation]
      BY <1>1, <1>4, <1>11, EvaluationIsCron DEF Punctual, InItsSlot
    <3>2. Needs[s] \subseteq rows
      BY <1>1, <1>11, <3>1, SeenInTime
    <3>3. run'[r] = [run[r] EXCEPT !.pc = "record"]
      BY <1>1, <2>4, <3>2 DEF ReadRows, TypeOK
    <3>4. c.pc = "record" /\ c.todo = run[r].todo
      BY <1>3, <3>3, CallFields
    <3> QED BY <1>11, <3>4 DEF WillEvaluate
  <2>5. CASE s # Item(r)
    <3>1. WillEvaluate(After(run[r], "read"), s)
      BY <1>3, <1>11, <2>1, <2>5, AfterSignal DEF Item
    <3>2. run'[r] = After(run[r], "read") \/
          (ReadRows(r) /\ run[r].pc = "read" /\ run'[r] = [run[r] EXCEPT !.pc = "record"])
      BY <1>1, <2>2 DEF ReadRows, RecordEvent, TypeOK, AtStep
    <3>3. [run[r] EXCEPT !.pc = "record"].pc = "record" /\ [run[r] EXCEPT !.pc = "record"].todo = run[r].todo
      BY <1>3, CallFields
    <3> QED BY <1>3, <1>11, <3>1, <3>2, <3>3 DEF WillEvaluate
  <2> QED BY <2>2, <2>3, <2>4, <2>5
<1> HIDE DEF WholeInv
<1> QED BY <1>2, <1>4, <1>5, <1>6, <1>9, <1>10, <1>11, SmoothOne

LEMMA SmoothStep ==
  ASSUME EveryTransform, WholeInv, [Next]_vars
  PROVE  SmoothInv'
<1>0. TypeOK
  BY DEF WholeInv, CoverInv, DayInv
<1> SUFFICES ASSUME Undisturbed' PROVE Smooth' /\ EvaluatedInTime'
  BY DEF SmoothInv
<1>1. /\ Undisturbed /\ ~Block /\ ~Stop
      /\ \A j \in Jobs : ~Slow(j) /\ ~JobRaises(j)
  BY <1>0, UndisturbedKept
<1>2. Punctual /\ Smooth /\ EvaluatedInTime
  BY <1>1, UndisturbedIsPlain DEF WholeInv, CoverInv, PunctualInv, SmoothInv
<1>3. CASE SlotEnds
  BY <1>1, <1>3, SmoothTick
<1>4. CASE Wake
  BY <1>1, <1>4, SmoothWake
<1>5. CASE Unblock \/ Start
  BY <1>2, <1>5 DEF Unblock, Start, SchedulerStart, Punctual, Smooth
<1>6. ASSUME NEW r \in Runners, BodyStep(r) PROVE Smooth' /\ EvaluatedInTime'
  BY <1>1, <1>6, SmoothBody
<1>7. ASSUME NEW c \in Commands, RunCommand(c) \/ CommandDies(c) PROVE Smooth' /\ EvaluatedInTime'
  <2>1. \E call : run' = [run EXCEPT ![c] = call]
    BY <1>7, Zenon DEF RunCommand, CommandDies
  <2>2. c \in Runners /\ c # Evaluation /\ c # Dispatch
    BY EvaluationIsCron DEF Runners
  <2>3. UNCHANGED <<now, up, due, calm, evaluated, rawAt, message>>
    BY <1>7 DEF RunCommand, CommandDies, schedulerVars, weather
  <2>4. NotDecided' => NotDecided
    BY <2>3 DEF NotDecided
  <2> QED BY <1>1, <2>1, <2>2, <2>3, <2>4, SmoothOne
<1>8. CASE UNCHANGED vars
  <2>1. UNCHANGED <<now, up, due, calm, evaluated, rawAt, message, run>>
    BY <1>8 DEF vars, schedulerVars, dayVars, weather
  <2> QED BY <1>2, <2>1 DEF Smooth, NotDecided, EvaluatedInTime, InTime, ByThen, WillEvaluate
<1> QED BY <1>1, <1>3, <1>4, <1>5, <1>6, <1>7, <1>8 DEF Next

\* On an undisturbed day, a notification that is over has sent all that came in time.
LEMMA WholeDay ==
  ASSUME EvaluationFirst, AllEvaluated, WholeInv
  PROVE  DayComplete
<1> SUFFICES ASSUME Undisturbed, IsOver, NEW s \in SignalsOf(NotifiedSignals), InTime(s)
             PROVE  message # NoMessage /\ s \in message
  BY DEF DayComplete
<1>1. TypeOK /\ Plain /\ Punctual /\ Smooth /\ EvaluatedInTime /\ Covered
  BY UndisturbedIsPlain DEF WholeInv, CoverInv, DayInv, PunctualInv, SmoothInv
<1>2. Dispatch \in Jobs /\ ~NotDecided /\ FireAt[Dispatch] <= now
  BY <1>1 DEF IsOver, Smooth
<1>3. FireAt[Evaluation] \in Int /\ FireAt[Dispatch] \in Int /\ now \in Int
  BY <1>1, <1>2, EvaluationIsCron, FireAtAssumption DEF TypeOK, SchedulerTypeOK
<1>4. FireAt[Evaluation] < now
  BY <1>2, <1>3 DEF EvaluationFirst
<1>5. due[Evaluation] = NoFire
  BY <1>1, <1>3, <1>4, EvaluationIsCron DEF Punctual, OnSchedule
<1>6. run[Evaluation].pc = "idle"
  BY <1>1, <1>3, <1>4, EvaluationIsCron DEF Punctual, InItsSlot
<1>7. s \in evaluated
  BY <1>1, <1>5, <1>6 DEF AllEvaluated, EvaluatedInTime, WillEvaluate
<1> QED BY <1>1, <1>2, <1>7 DEF Covered, Recorded, NotDecided

\* If every dataset has a transform, the evaluation is before the notification,
\* and what is notified is evaluated: on a day without disturbance the message
\* has every signal whose payloads came two slots before the evaluation.
THEOREM DayCompleteHolds ==
  ASSUME EvaluationFirst, EveryTransform, AllEvaluated
  PROVE  Spec => []DayComplete
<1>1. Init => WholeInv
  BY CoverInvInit, TransformInit, SmoothInit DEF WholeInv
<1>2. WholeInv /\ [Next]_vars => WholeInv'
  BY CoverInvStep, TransformStep, SmoothStep DEF WholeInv
<1>3. WholeInv => DayComplete
  BY WholeDay
<1> QED BY <1>1, <1>2, <1>3, PTL DEF Spec
=============================================================================
