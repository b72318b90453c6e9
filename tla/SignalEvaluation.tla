-------------------------- MODULE SignalEvaluation --------------------------
(***************************************************************************)
(* SignalEvaluationService.evaluate beside the transforms that fill and    *)
(* correct the domain tables: three queries, each in a session of its own, *)
(* the pure rule, and one upsert into signal_event.  An evaluator is the   *)
(* cron job, whose tick evaluates each registered signal on today, or a    *)
(* command: `evaluate`, or `backfill`, which evaluates each trading day of *)
(* a range, so also days with later rows in the tables.                    *)
(***************************************************************************)
EXTENDS SignalRules, SequencesExt

CONSTANTS
    Evaluators, \* processes that may call evaluate
    Registered, \* the registered signals, in order
    EvalDays,   \* the days evaluate is called for
    Spans,      \* the <<start, end>> of backfills
    OtherDays,  \* days on which other stocks have a price row
    Prices,     \* price rows
    Nets,       \* values of total_net
    Balances,   \* values of margin_today_balance
    Markets,    \* the contents the domain tables may start with
    WriteDays,  \* bound: the days the transforms write rows of after that
    MaxWrites,  \* bound: the rows they write
    MaxCalls,   \* bound: the calls
    NoReport    \* no backfill has returned that is still true of the tables

Market == [price : [Days -> Prices \cup {NoRow}],
           inst : [Days -> Nets \cup {NoRow}],
           margin : [Days -> Balances \cup {NoRow}]]

Signals == ToSet(Registered)
Event == Nat \X (Nat \ {0})
BackfillReport == [signal : Signals, start : Days, end : Days, total : Nat]

ASSUME SignalsAssumption ==
    Registered \in Seq({"volume_surge_red", "institutional_chase_warning"})
ASSUME EvalDaysAssumption ==
    EvalDays \cup WriteDays \cup OtherDays \subseteq Days /\ Spans \subseteq Days \X Days
\* nothing in the code keeps a volume from being negative; a number of shares is
\* not, and the rules' ratios are compared as if it could not be
ASSUME RowsAssumption ==
    /\ Prices \subseteq [open : Int, close : Int, volume : Nat]
    /\ Nets \cup Balances \subseteq Int
ASSUME MarketsAssumption == Markets \subseteq Market
ASSUME AbsentAssumption == NoEvent \notin Event /\ NoReport \notin BackfillReport
ASSUME BoundsAssumption == {MaxWrites, MaxCalls} \subseteq Nat

VARIABLES
    market,     \* stock_price, institutional_buysell and margin_transaction
    events,     \* signal_event, by signal and trade_date
    run,        \* per evaluator, its open call
    outcome,    \* history: what the last completed evaluation of a day emitted
    fresh,      \* history: it read the rows up to the day as they are now
    reported,   \* history: the last backfill no write raced
    writes, calls

vars == <<market, events, run, outcome, fresh, reported, writes, calls>>

NoTable == [d \in Days |-> NoRow]

\* a call evaluates the pairs <<signal, day>> of todo, the first one now
Idle == [pc |-> "idle", todo |-> << >>, touched |-> FALSE,
         price |-> NoTable, inst |-> NoTable, margin |-> NoTable,
         span |-> << >>, raced |-> FALSE, total |-> 0]

\* a call at the first of its pairs
Opened(todo, span, raced, total) ==
    [Idle EXCEPT !.pc = "price", !.todo = todo, !.span = span, !.raced = raced, !.total = total]

SignalOf(c) == Head(c.todo)[1]
AsOf(c) == Head(c.todo)[2]

PerDay(value) == [signal \in Signals |-> [d \in Days |-> value]]

EventTable == [Signals -> [Days -> Event \cup {NoEvent}]]

Call == [pc : {"idle", "price", "inst", "margin", "rule"}, todo : Seq(Signals \X Days),
         touched : BOOLEAN, price : [Days -> Prices \cup {NoRow}],
         inst : [Days -> Nets \cup {NoRow}], margin : [Days -> Balances \cup {NoRow}],
         span : (Days \X Days) \cup {<< >>}, raced : BOOLEAN, total : Nat]

TypeOK ==
    /\ market \in Market
    /\ events \in EventTable /\ outcome \in EventTable
    /\ run \in [Evaluators -> Call]
    /\ \A e \in Evaluators : run[e].pc = "idle" <=> run[e].todo = << >>
    /\ fresh \in [Signals -> [Days -> BOOLEAN]]
    /\ reported \in BackfillReport \cup {NoReport}
    /\ writes \in 0..MaxWrites /\ calls \in 0..MaxCalls

Init ==
    /\ market \in Markets
    /\ events = PerDay(NoEvent)
    /\ run = [e \in Evaluators |-> Idle]
    /\ outcome = PerDay(NoEvent)
    /\ fresh = PerDay(FALSE)
    /\ reported = NoReport
    /\ writes = 0 /\ calls = 0
-----------------------------------------------------------------------------
\* a new or corrected row of day d
Written(table, d) ==
    \/ table = "price" /\ \E p \in Prices : market' = [market EXCEPT !.price[d] = p]
    \/ table = "inst" /\ \E n \in Nets : market' = [market EXCEPT !.inst[d] = n]
    \/ table = "margin" /\ \E b \in Balances : market' = [market EXCEPT !.margin[d] = b]

\* the call has made its query of the table
HasRead(c, table) ==
    \/ c.pc = "rule"
    \/ c.pc = "margin" /\ table # "margin"
    \/ c.pc = "inst" /\ table = "price"

\* a transform commits a row: ended evaluations of its day and of later ones, and
\* open ones that are past the query of its table, have not seen it for certain
Transformed(d) ==
    /\ writes < MaxWrites
    /\ writes' = writes + 1
    /\ \E table \in {"price", "inst", "margin"} :
          /\ Written(table, d)
          /\ run' = [e \in Evaluators |->
                        IF run[e].pc = "idle" THEN run[e]
                        ELSE [run[e] EXCEPT
                                !.touched = @ \/ (HasRead(run[e], table) /\ AsOf(run[e]) >= d),
                                !.raced = @ \/ (run[e].span # << >> /\ run[e].span[2] >= d)]]
    /\ fresh' = [s \in Signals |-> [e \in Days |-> fresh[s][e] /\ e < d]]
    /\ reported' = IF reported # NoReport /\ reported.end >= d THEN NoReport ELSE reported
    /\ UNCHANGED <<events, outcome, calls>>

Started(e) ==
    /\ run[e].pc = "idle"
    /\ calls < MaxCalls
    /\ calls' = calls + 1

\* `evaluate`
StartEvaluate(e, signal, d) ==
    /\ Started(e)
    /\ run' = [run EXCEPT ![e] = Opened(<<<<signal, d>>>>, << >>, FALSE, 0)]
    /\ UNCHANGED <<market, events, outcome, fresh, reported, writes>>

\* the tick of the cron job: each signal, one after the other
StartTick(e, d) ==
    /\ Started(e)
    /\ Registered # << >>
    /\ run' = [run EXCEPT ![e] =
                  Opened([n \in DOMAIN Registered |-> <<Registered[n], d>>], << >>, FALSE, 0)]
    /\ UNCHANGED <<market, events, outcome, fresh, reported, writes>>

\* ORDER BY trade_date
InOrder(days) ==
    CHOOSE q \in [1..Cardinality(days) -> days] :
        \A m, n \in DOMAIN q : m < n => q[m] < q[n]

\* variant with a fault: WHERE trade_date < end
TradingDaysBefore(start, end) ==
    InOrder((Dates(market.price) \cup OtherDays) \cap (start..(end - 1)))

\* SELECT DISTINCT trade_date ... ORDER BY trade_date, over all stocks
TradingDays(start, end) ==
    InOrder((Dates(market.price) \cup OtherDays) \cap (start..end))

Report(signal, span, total) ==
    [signal |-> signal, start |-> span[1], end |-> span[2], total |-> total]

\* `backfill`: the trading days are read once; start > end is a ValueError
StartBackfill(e, signal, start, end) ==
    LET days == TradingDays(start, end)
    IN  /\ Started(e)
        /\ start <= end
        /\ run' = [run EXCEPT ![e] = IF days = << >> THEN Idle ELSE
                      Opened([n \in DOMAIN days |-> <<signal, days[n]>>], <<start, end>>, FALSE, 0)]
        /\ reported' = IF days = << >> THEN Report(signal, <<start, end>>, 0) ELSE reported
        /\ UNCHANGED <<market, events, outcome, fresh, writes>>

FetchPrices(e) ==
    /\ run[e].pc = "price"
    /\ run' = [run EXCEPT ![e].pc = "inst",
                          ![e].price = FetchWindow(SignalOf(run[e]), market.price, AsOf(run[e]))]
    /\ UNCHANGED <<market, events, outcome, fresh, reported, writes, calls>>

FetchInstitutional(e) ==
    /\ run[e].pc = "inst"
    /\ run' = [run EXCEPT ![e].pc = "margin",
                          ![e].inst = FetchWindow(SignalOf(run[e]), market.inst, AsOf(run[e]))]
    /\ UNCHANGED <<market, events, outcome, fresh, reported, writes, calls>>

FetchMargin(e) ==
    /\ run[e].pc = "margin"
    /\ run' = [run EXCEPT ![e].pc = "rule",
                          ![e].margin = FetchWindow(SignalOf(run[e]), market.margin, AsOf(run[e]))]
    /\ UNCHANGED <<market, events, outcome, fresh, reported, writes, calls>>

\* the look-ahead guard of evaluate() did not raise
GuardHolds(c) ==
    \A d \in Dates(c.price) \cup Dates(c.inst) \cup Dates(c.margin) : d <= AsOf(c)

\* variant with a fault: ON CONFLICT DO NOTHING
UpsertedOnce(signal, d, event) ==
    IF event = NoEvent \/ events[signal][d] # NoEvent THEN events
    ELSE [events EXCEPT ![signal][d] = event]

\* signal_event after the upsert: no event, no statement
Upserted(signal, d, event) ==
    IF event = NoEvent THEN events ELSE [events EXCEPT ![signal][d] = event]

\* the loop over the pairs goes on, or the call is over
NextPair(c, total) ==
    IF Tail(c.todo) = << >> THEN Idle
    ELSE Opened(Tail(c.todo), c.span, c.raced, total)

\* the rule and the upsert of its event, in a transaction of one statement
Evaluate(e) ==
    LET c      == run[e]
        signal == SignalOf(c)
        d      == AsOf(c)
        event  == RuleEvent(signal, c.price, c.inst, c.margin, d)
        total  == c.total + (IF event = NoEvent THEN 0 ELSE 1)
    IN  /\ c.pc = "rule"
        /\ GuardHolds(c)
        /\ events' = Upserted(signal, d, event)
        /\ outcome' = [outcome EXCEPT ![signal][d] = event]
        /\ fresh' = [fresh EXCEPT ![signal][d] = ~c.touched]
        /\ run' = [run EXCEPT ![e] = NextPair(c, total)]
        /\ reported' = IF c.span # << >> /\ ~c.raced /\ Tail(c.todo) = << >>
                       THEN Report(signal, c.span, total) ELSE reported
        /\ UNCHANGED <<market, writes, calls>>

\* the guard raised, a database error, a crash, or shutdown cancelling the job
Abandon(e) ==
    /\ run[e].pc # "idle"
    /\ run' = [run EXCEPT ![e] = Idle]
    /\ UNCHANGED <<market, events, outcome, fresh, reported, writes, calls>>
-----------------------------------------------------------------------------
Next ==
    \/ \E d \in WriteDays : Transformed(d)
    \/ \E e \in Evaluators :
          \/ \E d \in EvalDays : StartTick(e, d)
          \/ \E signal \in Signals :
                \/ \E d \in EvalDays : StartEvaluate(e, signal, d)
                \/ \E span \in Spans : StartBackfill(e, signal, span[1], span[2])
          \/ FetchPrices(e)
          \/ FetchInstitutional(e)
          \/ FetchMargin(e)
          \/ Evaluate(e)
          \/ Abandon(e)

Spec == Init /\ [][Next]_vars
-----------------------------------------------------------------------------
(***************************************************************************)
(* What the rules promise of the committed tables (spec signal-engine and  *)
(* the docstrings), in rows, each a trading day: a full window of volumes, *)
(* days of net buying in a row, and a growth since the row LookbackDays    *)
(* rows before.  Later rows play no part.                                  *)
(***************************************************************************)
RowsBefore(tbl, d, n) ==
    {e \in Dates(tbl) : e < d /\ Cardinality({f \in Dates(tbl) : e < f /\ f < d}) < n}

\* the row n rows before day d, if there is one
RowBack(tbl, d, n) == RowsBefore(tbl, d, n) \ RowsBefore(tbl, d, n - 1)

\* the rows of the window that ends with day d
MeanRows(d) == {d} \cup RowsBefore(market.price, d, SurgeWindow - 1)

\* red bar on day d whose volume is a multiple of the mean of a full window
IsSurge(d) ==
    LET volume == VolumeSum(market.price, MeanRows(d))
        bar    == market.price[d]
    IN  /\ d \in Dates(market.price)
        /\ Cardinality(MeanRows(d)) = SurgeWindow
        /\ IsRedBar(bar)
        /\ volume > 0
        /\ bar.volume * SurgeWindow >= VolumeMultiple * volume

\* net buying on day d and on the rows before it, margin and price above those
\* of the row LookbackDays rows before
IsChase(d) ==
    LET past == RowsBefore(market.inst, d, MinStreak - 1)
    IN  /\ d \in Dates(market.inst) \cap Dates(market.margin) \cap Dates(market.price)
        /\ Cardinality(past) = MinStreak - 1
        /\ \A e \in past \cup {d} : market.inst[e] > 0
        /\ \E e \in RowBack(market.margin, d, LookbackDays) :
              /\ market.margin[e] > 0
              /\ market.margin[d] * 100 >= market.margin[e] * (100 + MinGrowthPct)
        /\ \E e \in RowBack(market.price, d, LookbackDays) :
              market.price[e].close > 0 /\ market.price[d].close > market.price[e].close

Holds(signal, d) == IF signal = "volume_surge_red" THEN IsSurge(d) ELSE IsChase(d)

\* the severity of day d: volume over mean volume, or the growth of the margin
IsSeverity(signal, d, event) ==
    IF signal = "volume_surge_red"
    THEN event = <<market.price[d].volume * SurgeWindow, VolumeSum(market.price, MeanRows(d))>>
    ELSE \E e \in RowBack(market.margin, d, LookbackDays) :
            event = <<market.margin[d], market.margin[e]>>

(***************************************************************************)
(* The code departs from that where rows are missing or far apart: it      *)
(* takes the mean of a window that is not full, and it walks calendar      *)
(* days, so a reference row may be another trading day's and an old row    *)
(* may be out of reach.  On the days Agreed names, both readings are over  *)
(* the same rows.                                                          *)
(***************************************************************************)

\* the row to compare day d with by the calendar: the last one between
\* LookbackDays and four times as many days before
Reference(tbl, d) ==
    LET back == ((d - 4 * LookbackDays + 1)..(d - LookbackDays)) \cap Dates(tbl)
    IN  {e \in back : \A f \in back : f <= e}

Agreed(signal, d) ==
    \/ d \notin Dates(market.price)
    \/ /\ signal = "volume_surge_red"
       /\ Cardinality(MeanRows(d)) = SurgeWindow
       /\ \A e \in MeanRows(d) : d - e <= 3 * SurgeWindow
    \/ /\ signal # "volume_surge_red"
       /\ \A e \in RowsBefore(market.inst, d, MinStreak - 1) : d - e < 2 * ChaseWindow
       /\ Reference(market.margin, d) = RowBack(market.margin, d, LookbackDays)
       /\ Reference(market.price, d) = RowBack(market.price, d, LookbackDays)

\* An evaluation that read the rows up to its day as they are now emits an event
\* exactly when the rule holds of them, on the days where the documents and the
\* code mean the same rows: rows of later days (there are, in a backfill) change
\* nothing, what the rule needs is in the reach of the queries and the walks, and
\* a row committed between two of the queries is taken in by the later one.
LastEvaluationExact ==
    \A s \in Signals : \A d \in Days :
        fresh[s][d] /\ Agreed(s, d) => (outcome[s][d] # NoEvent <=> Holds(s, d))

\* If the rule holds, signal_event then shows the severity the committed rows
\* give: a replay over corrected rows replaces the event of the first evaluation.
StoredEventCurrent ==
    \A s \in Signals : \A d \in Days :
        fresh[s][d] /\ Agreed(s, d) /\ Holds(s, d) => IsSeverity(s, d, events[s][d])

\* A backfill that no write raced emits as many events as there are days in its
\* range on which the rule holds, but for days on which the documents and the code
\* disagree: the trading days of stock_price are enough for either signal, both
\* ends are in, and the order of evaluation and the rows of later days make no
\* difference.
BackfillExact ==
    reported # NoReport =>
        LET signal == reported.signal
            range  == reported.start..reported.end
        IN  /\ Cardinality({d \in range : Agreed(signal, d) /\ Holds(signal, d)}) <= reported.total
            /\ reported.total <= Cardinality({d \in range : Agreed(signal, d) => Holds(signal, d)})
=============================================================================
