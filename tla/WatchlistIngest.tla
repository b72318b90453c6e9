--------------------------- MODULE WatchlistIngest --------------------------
(***************************************************************************)
(* DailyWatchlistIngestService.run beside the weekly universe sync and the *)
(* operator's watchlist edits: load the stocks to fetch, and for each one  *)
(* fetch its day with retries, then commit one ingest_raw row, or one      *)
(* ingest_failure row if the client gave up with a FinMindError.  Any      *)
(* other error leaves the loop and the call.                               *)
(*                                                                         *)
(* A runner is a process that may run it for the dataset: the cron tick or *)
(* a `sync-...-today` CLI run.  Every call has a number; what it wrote is  *)
(* grouped by call and stock, which the tables do through request_args.    *)
(***************************************************************************)
EXTENDS UniverseSync, FinMindClient, FiniteSets, FiniteSetsExt

CONSTANTS
    Runners,    \* processes that may run the ingest
    MaxCalls,   \* bound: calls of run() in a behaviour
    NoStockYet, \* the loop is between two stocks
    NoReport    \* the call has not returned a result

Calls == 1..MaxCalls

ASSUME MaxCallsAssumption == MaxCalls \in Nat
ASSUME NoStockYetAssumption == NoStockYet \notin Stocks

VARIABLES
    run,        \* per runner, its open call
    watchlist,  \* history: the stocks each call loaded
    rows,       \* ingest_raw and ingest_failure rows, by call and stock
    ended,      \* how each call ended
    report,     \* the DailyPriceIngestResult of each call that returned
    calls       \* calls started so far

ingestVars == <<run, watchlist, rows, ended, report, calls>>
vars == <<universeVars, ingestVars>>

Idle == [pc |-> "idle", call |-> 0, todo |-> {}, stock |-> NoStockYet, made |-> 0,
         error |-> "none", written |-> 0, failures |-> 0]

RawRow == [table |-> "ingest_raw"]

\* attempts is the column; made and error are what really happened
FailureRow(error, attempts, made) ==
    [table |-> "ingest_failure", error |-> error, attempts |-> attempts, made |-> made]

Entries == {RawRow} \cup
    {FailureRow(e, MaxAttempts, m) : e \in FinMindErrors, m \in 1..MaxAttempts}

Report == [attempted : Nat, written : Nat, failures : Nat]

TypeOK ==
    /\ UniverseTypeOK
    /\ run \in [Runners ->
          [pc : {"idle", "loop", "fetch", "raw", "failure"}, call : 0..MaxCalls,
           todo : SUBSET Stocks, stock : Stocks \cup {NoStockYet}, made : 0..MaxAttempts,
           error : FinMindErrors \cup {"none"}, written : Nat, failures : Nat]]
    /\ watchlist \in [Calls -> SUBSET Stocks]
    /\ \A c \in Calls : \A s \in Stocks : rows[c][s] \in Seq(Entries)
    /\ ended \in [Calls -> {"no", "returned", "raised", "killed"}]
    /\ \A c \in Calls : report[c] = NoReport \/ report[c] \in Report
    /\ calls \in 0..MaxCalls

Init ==
    /\ UniverseInit
    /\ run = [r \in Runners |-> Idle]
    /\ watchlist = [c \in Calls |-> {}]
    /\ rows = [c \in Calls |-> [s \in Stocks |-> << >>]]
    /\ ended = [c \in Calls |-> "no"]
    /\ report = [c \in Calls |-> NoReport]
    /\ calls = 0
-----------------------------------------------------------------------------
LoadWatchlist(r) ==
    /\ run[r].pc = "idle"
    /\ calls < MaxCalls
    /\ calls' = calls + 1
    /\ watchlist' = [watchlist EXCEPT ![calls + 1] = Listed]
    /\ run' = [run EXCEPT ![r] = [Idle EXCEPT !.pc = "loop", !.call = calls + 1,
                                              !.todo = Listed]]
    /\ UNCHANGED <<universeVars, rows, ended, report>>

Turned(c, s) == [c EXCEPT !.pc = "fetch", !.stock = s, !.made = 0, !.todo = c.todo \ {s}]

\* the SELECT has no ORDER BY: any order of the stocks
NextStock(r) ==
    /\ run[r].pc = "loop"
    /\ \E s \in run[r].todo : run' = [run EXCEPT ![r] = Turned(run[r], s)]
    /\ UNCHANGED <<universeVars, watchlist, rows, ended, report, calls>>

EndCall(r, how) ==
    /\ ended' = [ended EXCEPT ![run[r].call] = how]
    /\ run' = [run EXCEPT ![r] = Idle]

\* variant with a fault: the count starts again where it should reach the maximum
AttemptWrapping(c) == (c.made + 1) % MaxAttempts

\* the number of the attempt under way
Attempt(c) == c.made + 1

Requested(c, made, pc, error) == [c EXCEPT !.made = made, !.pc = pc, !.error = error]

\* one GET inside the limiter, its reply, and what the retry makes of it
Request(r) ==
    /\ run[r].pc = "fetch"
    /\ \E reply \in Replies \cup {NoReply} :
          LET made   == Attempt(run[r])
              result == AttemptResult(reply, made)
          IN  \/ /\ result = "retry"
                 /\ run' = [run EXCEPT ![r] = Requested(run[r], made, "fetch", "none")]
                 /\ UNCHANGED ended
              \/ /\ result = "data"
                 /\ run' = [run EXCEPT ![r] = Requested(run[r], made, "raw", "none")]
                 /\ UNCHANGED ended
              \/ /\ result \in FinMindErrors
                 /\ run' = [run EXCEPT ![r] = Requested(run[r], made, "failure", result)]
                 /\ UNCHANGED ended
              \/ /\ result = "uncaught"
                 /\ EndCall(r, "raised")
    /\ UNCHANGED <<universeVars, watchlist, rows, report, calls>>

Write(r, row) == rows' = [rows EXCEPT ![run[r].call][run[r].stock] = Append(@, row)]

NextLoop(c, written, failures) ==
    [c EXCEPT !.pc = "loop", !.stock = NoStockYet, !.made = 0, !.error = "none",
              !.written = written, !.failures = failures]

RecordRaw(r) ==
    /\ run[r].pc = "raw"
    /\ Write(r, RawRow)
    /\ run' = [run EXCEPT ![r] = NextLoop(run[r], run[r].written + 1, run[r].failures)]
    /\ UNCHANGED <<universeVars, watchlist, ended, report, calls>>

\* variant with a fault: the loop body goes on after the failure is recorded
RecordFailureAndGoOn(r) ==
    /\ run[r].pc = "failure"
    /\ Write(r, FailureRow(run[r].error, MaxAttempts, run[r].made))
    /\ run' = [run EXCEPT ![r].pc = "raw", ![r].failures = @ + 1]
    /\ UNCHANGED <<universeVars, watchlist, ended, report, calls>>

\* attempts is always the configured maximum
RecordFailure(r) ==
    /\ run[r].pc = "failure"
    /\ Write(r, FailureRow(run[r].error, MaxAttempts, run[r].made))
    /\ run' = [run EXCEPT ![r] = NextLoop(run[r], run[r].written, run[r].failures + 1)]
    /\ UNCHANGED <<universeVars, watchlist, ended, report, calls>>

\* variant with a fault: the watchlist is counted again at the end
ReturnRecounting(r) ==
    /\ run[r].pc = "loop"
    /\ run[r].todo = {}
    /\ report' = [report EXCEPT ![run[r].call] =
                     [attempted |-> Cardinality(Listed),
                      written   |-> run[r].written,
                      failures  |-> run[r].failures]]
    /\ EndCall(r, "returned")
    /\ UNCHANGED <<universeVars, watchlist, rows, calls>>

Return(r) ==
    /\ run[r].pc = "loop"
    /\ run[r].todo = {}
    /\ report' = [report EXCEPT ![run[r].call] =
                     [attempted |-> Cardinality(watchlist[run[r].call]),
                      written   |-> run[r].written,
                      failures  |-> run[r].failures]]
    /\ EndCall(r, "returned")
    /\ UNCHANGED <<universeVars, watchlist, rows, calls>>

\* a database error, a crash, or shutdown cancelling the job
Killed(r) ==
    /\ run[r].pc # "idle"
    /\ EndCall(r, "killed")
    /\ UNCHANGED <<universeVars, watchlist, rows, report, calls>>
-----------------------------------------------------------------------------
RunStep(r) ==
    \/ NextStock(r)
    \/ Request(r)
    \/ RecordRaw(r)
    \/ RecordFailure(r)
    \/ Return(r)

Next ==
    \/ UniverseNext /\ UNCHANGED ingestVars
    \/ \E r \in Runners : LoadWatchlist(r) \/ RunStep(r) \/ Killed(r)

Spec == Init /\ [][Next]_vars

\* the event loop runs what is ready, and every request ends within the time-out
FairSpec == Spec /\ \A r \in Runners : WF_vars(RunStep(r))
-----------------------------------------------------------------------------
\* the stocks with a row of call c in table t
StoredIn(c, t) == {s \in Stocks : \E n \in DOMAIN rows[c][s] : rows[c][s][n].table = t}

\* The report of a call that returned tells the truth, though the watchlist may
\* have changed while it ran: every stock it loaded has exactly one row, in
\* ingest_raw or in ingest_failure, no other stock has any, and the three counts
\* are those of the rows.
ReportIsTrue ==
    \A c \in Calls : ended[c] = "returned" =>
        /\ \A s \in Stocks : Len(rows[c][s]) = IF s \in watchlist[c] THEN 1 ELSE 0
        /\ report[c] = [attempted |-> Cardinality(watchlist[c]),
                        written   |-> Cardinality(StoredIn(c, "ingest_raw")),
                        failures  |-> Cardinality(StoredIn(c, "ingest_failure"))]

\* Whatever interrupts a call, it leaves at most one row per stock, and only
\* stocks that were listed when it began.
NoDoubleRow ==
    \A c \in Calls : \A s \in Stocks :
        Len(rows[c][s]) <= IF s \in watchlist[c] THEN 1 ELSE 0

\* A stock goes to the failure table only when FinMind refused the request for
\* good, or when every one of max_attempts requests met a transient error.
FailureDeserved ==
    \A c \in Calls : \A s \in Stocks : \A n \in DOMAIN rows[c][s] :
        rows[c][s][n].table = "ingest_failure" =>
            rows[c][s][n].error = "request error" \/ rows[c][s][n].made = MaxAttempts

\* A started call comes to an end, however often FinMind asks to slow down.
CallEnds ==
    \A c \in Calls : calls >= c ~> ended[c] # "no"

\* What the stock-universe spec says: a fetch that fails is written to
\* ingest_failure and the loop goes on, so no loaded stock is left without a row.
EveryStockAccounted ==
    \A c \in Calls : ended[c] = "raised" =>
        \A s \in watchlist[c] : rows[c][s] # << >>
=============================================================================
