---------------------------- MODULE RowTransform ----------------------------
(***************************************************************************)
(* PriceTransformService.process_new and, with the same steps over other   *)
(* columns, MarginTransformService.process_new: read the dataset's cursor, *)
(* fetch the next raw rows, upsert one domain row per payload item, move   *)
(* the cursor, all in one READ COMMITTED transaction.                      *)
(*                                                                         *)
(* A transformer is a process that may run it: the scheduler tick (never   *)
(* overlapping itself, max_instances=1) or a `transform-...` CLI run.      *)
(* Each SQL statement is a step: it sees what is committed when it runs,   *)
(* its upserts stay private until the commit, and an upsert waits while    *)
(* another open transaction has written the same primary key.              *)
(***************************************************************************)
EXTENDS RawLedger

CONSTANTS
    Transformers,   \* processes that run process_new for this dataset
    MaxFailures     \* bound: crashes, cancellations and lost connections

ASSUME MaxFailuresAssumption == MaxFailures \in Nat

VARIABLES
    cursor,     \* ingest_cursor.last_raw_id, 0 without a row
    table,      \* the committed domain table (stock_price, margin_transaction)
    txn,        \* per transformer, its open process_new call
    failures

vars == <<nextId, raw, inserting, cursor, table, txn, failures>>

NoWrites == [k \in Keys |-> NoRow]

Idle == [pc |-> "idle", last |-> 0, top |-> 0, todo |-> {}, item |-> 1,
         writes |-> NoWrites]

Call == [pc : {"idle", "fetch", "apply"}, last : 0..MaxId, top : 0..MaxId,
         todo : SUBSET Ids, item : Nat \ {0}, writes : Table]

TypeOK ==
    /\ LedgerTypeOK
    /\ cursor \in 0..MaxId
    /\ table \in Table
    /\ txn \in [Transformers -> Call]
    /\ failures \in 0..MaxFailures

Init ==
    /\ LedgerInit
    /\ cursor = 0
    /\ table = NoWrites
    /\ txn = [t \in Transformers |-> Idle]
    /\ failures = 0
-----------------------------------------------------------------------------
\* the raw row the loop is at, as a relation: ascending ids
IsFirst(i, S) == i \in S /\ \A j \in S : i <= j

\* t's next upsert needs a key some other open transaction has written
WaitsFor(t, u) ==
    /\ t # u
    /\ txn[t].pc = "apply"
    /\ \E i \in txn[t].todo :
          /\ IsFirst(i, txn[t].todo)
          /\ txn[t].item \in DOMAIN raw[i]
          /\ \E k \in Keys : /\ HasKey(raw, <<i, txn[t].item>>, k)
                             /\ txn[u].writes[k] # NoRow

\* variant with a fault: ON CONFLICT DO NOTHING
OverlayKeeping(writes) == [k \in Keys |-> IF table[k] = NoRow THEN writes[k] ELSE table[k]]

\* variant with a fault: the batch replaces the table
OverlayReplacing(writes) == writes

\* the table a transaction sees, and leaves when it commits
Overlay(writes) == [k \in Keys |-> IF writes[k] = NoRow THEN table[k] ELSE writes[k]]

\* variant with a fault: `id > last_id + 1`
StartedPastNext(id) == [Idle EXCEPT !.pc = "fetch", !.last = id + 1]

\* the states of a call: the fields a statement changes, the others as they were
Started(id)           == [Idle EXCEPT !.pc = "fetch", !.last = id]
Fetched(c, id, batch) == [c EXCEPT !.pc = "apply", !.top = id, !.todo = batch]
Skipped(c)            == [c EXCEPT !.item = c.item + 1]
Upserted(c, k, row)   == [c EXCEPT !.item = c.item + 1,
                                   !.writes = [c.writes EXCEPT ![k] = row]]
Finished(c, i)        == [c EXCEPT !.item = 1, !.todo = c.todo \ {i}]

ReadCursor(t) ==
    /\ txn[t].pc = "idle"
    /\ txn' = [txn EXCEPT ![t] = Started(cursor)]
    /\ UNCHANGED <<ledgerVars, cursor, table, failures>>

FetchNewRaw(t) ==
    /\ txn[t].pc = "fetch"
    /\ LET new == {i \in Committed : i > txn[t].last}
       IN  \/ new = {} /\ txn' = [txn EXCEPT ![t] = Idle]
           \/ \E top \in new :
                 /\ IsBatchTop(top, new)
                 /\ txn' = [txn EXCEPT ![t] = Fetched(@, top, {i \in new : i <= top})]
    /\ UNCHANGED <<ledgerVars, cursor, table, failures>>

\* variant with a fault: source_raw_id is the batch's last id
UpsertCitingTop(t, k, row) ==
    /\ \A u \in Transformers \ {t} : txn[u].writes[k] = NoRow
    /\ txn' = [txn EXCEPT ![t] = Upserted(@, k, [row EXCEPT !.src = txn[t].top])]

\* INSERT ... ON CONFLICT (stock_id, trade_date) DO UPDATE, in the transaction
Upsert(t, k, row) ==
    /\ \A u \in Transformers \ {t} : txn[u].writes[k] = NoRow
    /\ txn' = [txn EXCEPT ![t] = Upserted(@, k, row)]

\* variant with a fault: the ValidationError of an item is swallowed
TransformItemSwallowing(t) ==
    /\ txn[t].pc = "apply"
    /\ \E i \in txn[t].todo :
          /\ IsFirst(i, txn[t].todo)
          /\ txn[t].item \in DOMAIN raw[i]
          /\ LET p    == <<i, txn[t].item>>
                 item == ItemAt(raw, p)
             IN  \/ item \notin PayloadRow /\ txn' = [txn EXCEPT ![t] = Skipped(@)]
                 \/ item \in PayloadRow /\ Upsert(t, item.key, RowOf(raw, p))
    /\ UNCHANGED <<ledgerVars, cursor, table, failures>>

\* one item of the current raw row: skipped, upserted, or fatal to the batch
TransformItem(t) ==
    /\ txn[t].pc = "apply"
    /\ \E i \in txn[t].todo :
          /\ IsFirst(i, txn[t].todo)
          /\ txn[t].item \in DOMAIN raw[i]
          /\ LET p    == <<i, txn[t].item>>
                 item == ItemAt(raw, p)
             IN  \/ item = NonDict /\ txn' = [txn EXCEPT ![t] = Skipped(@)]
                 \/ item = Malformed /\ txn' = [txn EXCEPT ![t] = Idle]
                 \/ item \in PayloadRow /\ Upsert(t, item.key, RowOf(raw, p))
    /\ UNCHANGED <<ledgerVars, cursor, table, failures>>

NextRaw(t) ==
    /\ txn[t].pc = "apply"
    /\ \E i \in txn[t].todo :
          /\ IsFirst(i, txn[t].todo)
          /\ txn[t].item \notin DOMAIN raw[i]
          /\ txn' = [txn EXCEPT ![t] = Finished(@, i)]
    /\ UNCHANGED <<ledgerVars, cursor, table, failures>>

\* variant with a fault: the cursor holds the next id to read
AdvanceCursorToNext(t) ==
    /\ txn[t].pc = "apply"
    /\ txn[t].todo = {}
    /\ cursor' = txn[t].top + 1
    /\ table' = Overlay(txn[t].writes)
    /\ txn' = [txn EXCEPT ![t] = Idle]
    /\ UNCHANGED <<ledgerVars, failures>>

\* _advance_cursor with the batch's largest id, then COMMIT
AdvanceCursor(t) ==
    /\ txn[t].pc = "apply"
    /\ txn[t].todo = {}
    /\ cursor' = txn[t].top
    /\ table' = Overlay(txn[t].writes)
    /\ txn' = [txn EXCEPT ![t] = Idle]
    /\ UNCHANGED <<ledgerVars, failures>>

\* variant with a fault: statements commit one by one
FailKeepingWrites(t) ==
    /\ txn[t].pc # "idle"
    /\ failures < MaxFailures
    /\ failures' = failures + 1
    /\ table' = Overlay(txn[t].writes)
    /\ txn' = [txn EXCEPT ![t] = Idle]
    /\ UNCHANGED <<ledgerVars, cursor>>

\* the process dies, shutdown cancels the job, or the connection is lost
Fail(t) ==
    /\ txn[t].pc # "idle"
    /\ failures < MaxFailures
    /\ failures' = failures + 1
    /\ txn' = [txn EXCEPT ![t] = Idle]
    /\ UNCHANGED <<ledgerVars, cursor, table>>

\* PostgreSQL breaks a circular wait by rolling one of its members back
DeadlockVictim(t) ==
    /\ \E S \in SUBSET Transformers :
          t \in S /\ \A u \in S : \E v \in S : WaitsFor(u, v)
    /\ txn' = [txn EXCEPT ![t] = Idle]
    /\ UNCHANGED <<ledgerVars, cursor, table, failures>>
-----------------------------------------------------------------------------
TransformStep(t) ==
    \/ ReadCursor(t)
    \/ FetchNewRaw(t)
    \/ TransformItem(t)
    \/ NextRaw(t)
    \/ AdvanceCursor(t)
    \/ DeadlockVictim(t)

Next ==
    \/ LedgerNext /\ UNCHANGED <<cursor, table, txn, failures>>
    \/ \E t \in Transformers : TransformStep(t) \/ Fail(t)

Spec == Init /\ [][Next]_vars

\* the scheduler ticks for ever and every started call goes on; an upsert that
\* waits for a row lock is queued, so it gets the lock when the holders end
FairSpec ==
    /\ Spec
    /\ \A t \in Transformers : WF_vars(TransformStep(t)) /\ SF_vars(TransformItem(t))
-----------------------------------------------------------------------------
(***************************************************************************)
(* For any writers and any transformers.                                   *)
(***************************************************************************)

\* A domain row cites the raw row it came from (source_raw_id, a foreign key
\* to ingest_raw), and that raw row really holds an item with its key and value.
Provenance ==
    \A k \in Keys : table[k] # NoRow =>
        /\ table[k].src \in Committed
        /\ \E n \in DOMAIN raw[table[k].src] :
              raw[table[k].src][n] = [key |-> k, val |-> table[k].val]

\* A committed raw row is passed by the cursor in the end, unless some committed
\* raw row is malformed: ticks, crashes and deadlocks only delay it.
EventuallyConsumed ==
    \A i \in Ids :
        i \in Committed ~> cursor >= i \/ \E j \in Committed : Poisoned(raw, j)

(***************************************************************************)
(* For one writer (the ids then commit in order) and any transformers.     *)
(***************************************************************************)

\* The cursor is a high-water mark: every key that a raw row at or below it names
\* has a domain row, of that raw row or of another one (with a second transformer
\* it may be of an older one).
HighWaterMark ==
    \A i \in Upto(raw, cursor) : \A n \in DOMAIN raw[i] :
        raw[i][n] \in PayloadRow => table[raw[i][n].key] # NoRow

\* The cursor never moves past a raw row the row model rejects.
NoPoisonPassed == \A i \in Upto(raw, cursor) : ~Poisoned(raw, i)

(***************************************************************************)
(* For one writer and one transformer: the application as it runs alone.   *)
(***************************************************************************)

\* The domain table is the last-write-wins view of the raw rows up to the
\* cursor: the values are those of the latest payload, under any batching,
\* crash and replay.  A stale call of a second transformer can break it for good.
LatestWins == IsView(table, raw, Positions(raw, Upto(raw, cursor)))

\* The cursor never goes back, a domain row never disappears and is never
\* replaced by one from an older raw row.
MovesForward ==
    /\ cursor' >= cursor
    /\ \A k \in Keys : table[k] # NoRow =>
          table'[k] # NoRow /\ table'[k].src >= table[k].src
NeverBack == [][MovesForward]_vars

\* The transaction of statements implements the one-step catch-up.
View == INSTANCE DomainView WITH log <- raw, mark <- cursor, view <- table
ImplementsDomainView == View!Spec
=============================================================================
