----------------------- MODULE InstitutionalTransform -----------------------
(***************************************************************************)
(* InstitutionalTransformService.process_new: read the cursor, fetch the   *)
(* next raw rows, sum their items per (stock, date) and investor category  *)
(* in memory, upsert one domain row per key, move the cursor, all in one   *)
(* READ COMMITTED transaction.  Items are parsed before the first upsert,  *)
(* so one malformed item rolls the whole batch back.                       *)
(***************************************************************************)
EXTENDS RawLedger, FiniteSetsExt

CONSTANTS
    DealerNames,    \* names that start with "Dealer" or "Foreign_Dealer"
    UnknownNames,   \* names of no category
    Transformers,   \* processes that run process_new for the dataset
    MaxFailures     \* bound: crashes, cancellations and lost connections

Names == {"Foreign_Investor", "Investment_Trust"} \cup DealerNames \cup UnknownNames

ASSUME ValsAssumption == Vals \subseteq [name : Names, buy : Int, sell : Int]
ASSUME NamesAssumption ==
    /\ "Foreign_Investor" \notin DealerNames \cup UnknownNames
    /\ "Investment_Trust" \notin DealerNames \cup UnknownNames
    /\ DealerNames \cap UnknownNames = {}
ASSUME MaxFailuresAssumption == MaxFailures \in Nat

VARIABLES
    cursor,     \* ingest_cursor.last_raw_id, 0 without a row
    table,      \* the committed institutional_buysell table
    txn,        \* per transformer, its open process_new call
    failures

vars == <<nextId, raw, inserting, cursor, table, txn, failures>>

AggRow   == [foreign : Int, trust : Int, dealer : Int, total : Int, src : Ids]
NoWrites == [k \in Keys |-> NoRow]

Idle == [pc |-> "idle", last |-> 0, batch |-> {}, writes |-> NoWrites]

IsAggTable(tbl) == DOMAIN tbl = Keys /\ \A k \in Keys : tbl[k] = NoRow \/ tbl[k] \in AggRow

TypeOK ==
    /\ LedgerTypeOK
    /\ cursor \in 0..MaxId
    /\ IsAggTable(table)
    /\ \A t \in Transformers :
          /\ txn[t].pc \in {"idle", "fetch", "upsert"}
          /\ txn[t].last \in 0..MaxId
          /\ txn[t].batch \subseteq Committed
          /\ IsAggTable(txn[t].writes)
    /\ failures \in 0..MaxFailures

Init ==
    /\ LedgerInit
    /\ cursor = 0
    /\ table = NoWrites
    /\ txn = [t \in Transformers |-> Idle]
    /\ failures = 0
-----------------------------------------------------------------------------
(***************************************************************************)
(* The accumulators a batch leaves in `aggs`.                              *)
(***************************************************************************)
\* variant with a fault: whatever is not foreign or trust is a dealer
CategorizeElseDealer(name) ==
    CASE name = "Foreign_Investor" -> "foreign"
      [] name = "Investment_Trust" -> "trust"
      [] OTHER -> "dealer"

Categorize(name) ==
    CASE name = "Foreign_Investor" -> "foreign"
      [] name = "Investment_Trust" -> "trust"
      [] name \in DealerNames -> "dealer"
      [] OTHER -> "unknown"

Naming(batch, k) == {p \in Positions(raw, batch) : HasKey(raw, p, k)}

\* what each position that names k adds to its accumulator
BuyMinusSell(batch, k) ==
    [p \in Naming(batch, k) |-> ItemAt(raw, p).val.buy - ItemAt(raw, p).val.sell]

\* buy - sell over the positions that name k, for one category
Net(batch, k, category) ==
    SumFunctionOnSet(BuyMinusSell(batch, k),
        {p \in Naming(batch, k) : Categorize(ItemAt(raw, p).val.name) = category})

\* variant with a fault: source_raw_id stays the first raw id
AggCitingFirst(batch, k) ==
    LET foreign == Net(batch, k, "foreign")
        trust   == Net(batch, k, "trust")
        dealer  == Net(batch, k, "dealer")
    IN  [foreign |-> foreign, trust |-> trust, dealer |-> dealer,
         total   |-> foreign + trust + dealer,
         src     |-> Min({p[1] : p \in Naming(batch, k)})]

\* the accumulator of k with its total, and the largest raw id that names k
Agg(batch, k) ==
    LET foreign == Net(batch, k, "foreign")
        trust   == Net(batch, k, "trust")
        dealer  == Net(batch, k, "dealer")
    IN  [foreign |-> foreign, trust |-> trust, dealer |-> dealer,
         total   |-> foreign + trust + dealer,
         src     |-> Max({p[1] : p \in Naming(batch, k)})]

\* dict order: a key stands where the batch names it first
NamedBefore(batch, k, l) ==
    \E p \in Naming(batch, k) : \A q \in Naming(batch, l) : Before(p, q)

ToUpsert(c) == {k \in Keys : Naming(c.batch, k) # {} /\ c.writes[k] = NoRow}

IsNextKey(c, k) ==
    /\ k \in ToUpsert(c)
    /\ \A l \in ToUpsert(c) \ {k} : NamedBefore(c.batch, k, l)

\* t's next upsert needs a key u has written
WaitsFor(t, u) ==
    /\ t # u
    /\ txn[t].pc = "upsert"
    /\ \E k \in Keys : IsNextKey(txn[t], k) /\ txn[u].writes[k] # NoRow
-----------------------------------------------------------------------------
\* variant with a fault: `id > last_id + 1`
StartedPastNext(id) == [Idle EXCEPT !.pc = "fetch", !.last = id + 1]

\* the states of a call: the fields a statement changes, the others as they were
Started(id)         == [Idle EXCEPT !.pc = "fetch", !.last = id]
Fetched(c, batch)   == [c EXCEPT !.pc = "upsert", !.batch = batch]
Upserted(c, k, row) == [c EXCEPT !.writes = [c.writes EXCEPT ![k] = row]]

ReadCursor(t) ==
    /\ txn[t].pc = "idle"
    /\ txn' = [txn EXCEPT ![t] = Started(cursor)]
    /\ UNCHANGED <<ledgerVars, cursor, table, failures>>

\* variant with a fault: malformed items are dropped
FetchNewRawDropping(t) ==
    /\ txn[t].pc = "fetch"
    /\ LET new == {i \in Committed : i > txn[t].last}
       IN  \/ new = {} /\ txn' = [txn EXCEPT ![t] = Idle]
           \/ \E top \in new :
                 /\ IsBatchTop(top, new)
                 /\ txn' = [txn EXCEPT ![t] = Fetched(txn[t], {i \in new : i <= top})]
    /\ UNCHANGED <<ledgerVars, cursor, table, failures>>

\* fetch and, with no await in between, parse and sum: nothing to do and a
\* malformed item both end the call
FetchNewRaw(t) ==
    /\ txn[t].pc = "fetch"
    /\ LET new == {i \in Committed : i > txn[t].last}
       IN  \/ new = {} /\ txn' = [txn EXCEPT ![t] = Idle]
           \/ \E top \in new :
                 /\ IsBatchTop(top, new)
                 /\ LET batch == {i \in new : i <= top}
                    IN  txn' = [txn EXCEPT ![t] =
                                  IF \E i \in batch : Poisoned(raw, i) THEN Idle
                                  ELSE Fetched(txn[t], batch)]
    /\ UNCHANGED <<ledgerVars, cursor, table, failures>>

\* INSERT ... ON CONFLICT DO UPDATE of one aggregate; waits for a row lock
UpsertKey(t) ==
    /\ txn[t].pc = "upsert"
    /\ \E k \in Keys :
          /\ IsNextKey(txn[t], k)
          /\ \A u \in Transformers \ {t} : txn[u].writes[k] = NoRow
          /\ txn' = [txn EXCEPT ![t] = Upserted(txn[t], k, Agg(txn[t].batch, k))]
    /\ UNCHANGED <<ledgerVars, cursor, table, failures>>

\* variant with a fault: the cursor holds the next id to read
AdvanceCursorToNext(t) ==
    /\ txn[t].pc = "upsert"
    /\ ToUpsert(txn[t]) = {}
    /\ cursor' = Max(txn[t].batch) + 1
    /\ table' = [k \in Keys |-> IF txn[t].writes[k] = NoRow THEN table[k]
                                ELSE txn[t].writes[k]]
    /\ txn' = [txn EXCEPT ![t] = Idle]
    /\ UNCHANGED <<ledgerVars, failures>>

\* _advance_cursor with the batch's largest id, then COMMIT
AdvanceCursor(t) ==
    /\ txn[t].pc = "upsert"
    /\ ToUpsert(txn[t]) = {}
    /\ cursor' = Max(txn[t].batch)
    /\ table' = [k \in Keys |-> IF txn[t].writes[k] = NoRow THEN table[k]
                                ELSE txn[t].writes[k]]
    /\ txn' = [txn EXCEPT ![t] = Idle]
    /\ UNCHANGED <<ledgerVars, failures>>

\* the process dies, shutdown cancels the job, or the connection is lost
Fail(t) ==
    /\ txn[t].pc # "idle"
    /\ failures < MaxFailures
    /\ failures' = failures + 1
    /\ txn' = [txn EXCEPT ![t] = Idle]
    /\ UNCHANGED <<ledgerVars, cursor, table>>

\* PostgreSQL breaks a circular wait by rolling one of its members back
DeadlockVictim(t) ==
    /\ \E S \in SUBSET Transformers :
          t \in S /\ \A u \in S : \E v \in S : WaitsFor(u, v)
    /\ txn' = [txn EXCEPT ![t] = Idle]
    /\ UNCHANGED <<ledgerVars, cursor, table, failures>>
-----------------------------------------------------------------------------
TransformStep(t) ==
    \/ ReadCursor(t)
    \/ FetchNewRaw(t)
    \/ UpsertKey(t)
    \/ AdvanceCursor(t)
    \/ DeadlockVictim(t)

Next ==
    \/ LedgerNext /\ UNCHANGED <<cursor, table, txn, failures>>
    \/ \E t \in Transformers : TransformStep(t) \/ Fail(t)

Spec == Init /\ [][Next]_vars
-----------------------------------------------------------------------------
NamedBy(k, i) == \E n \in DOMAIN raw[i] : HasKey(raw, <<i, n>>, k)

\* buy - sell over the items of raw row i with one of the names
NetOf(i, k, names) ==
    SumFunctionOnSet(BuyMinusSell({i}, k),
        {p \in Naming({i}, k) : ItemAt(raw, p).val.name \in names})

\* A key that one raw row names, whatever was crashed, rolled back, replayed or
\* run twice over it, holds exactly that raw row's buy - sell per category, and
\* their total.
OneFetchExact ==
    \A k \in Keys : \A i \in Committed :
        (\A j \in Committed : NamedBy(k, j) <=> j = i) /\ table[k] # NoRow =>
            /\ table[k].src = i
            /\ table[k].foreign = NetOf(i, k, {"Foreign_Investor"})
            /\ table[k].trust = NetOf(i, k, {"Investment_Trust"})
            /\ table[k].dealer = NetOf(i, k, DealerNames)
            /\ table[k].total = NetOf(i, k, Names \ UnknownNames)

\* For one writer: a domain row sums one contiguous run of raw rows, that ends
\* at the row it cites; no raw row is left out of the middle of a sum and none
\* is added that came before the run.
SumsOneRun ==
    \A k \in Keys : table[k] # NoRow =>
        \E first \in Ids :
            LET run == {i \in Upto(raw, table[k].src) : i >= first}
            IN  Naming(run, k) # {} /\ table[k] = Agg(run, k)

\* For one writer: the cursor is a high-water mark: every key that a raw row at
\* or below it names has a row, though a transformer with an older batch may
\* commit last.
HighWaterMark ==
    \A i \in Upto(raw, cursor) : \A k \in Keys : NamedBy(k, i) => table[k] # NoRow

\* For one writer: the cursor never passes a raw row with a malformed item.
NoPoisonPassed == \A i \in Upto(raw, cursor) : ~Poisoned(raw, i)

\* What the chip-data spec says of a row (`foreign_net` is buy - sell of the
\* category, replay is idempotent): a second fetch of the same stock and date
\* corrects the row.  The code adds the two when one batch holds both.
LatestFetchOnly ==
    \A k \in Keys : table[k] # NoRow => table[k] = Agg({table[k].src}, k)
=============================================================================
