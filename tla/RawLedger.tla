----------------------------- MODULE RawLedger ------------------------------
(***************************************************************************)
(* The append-only `ingest_raw` table as its writers use it: each writer   *)
(* (the scheduled ingest, an ingest CLI run) inserts one row per           *)
(* transaction.  The id comes from the bigserial sequence when the INSERT  *)
(* runs, the row becomes visible when the transaction commits, and ids of  *)
(* aborted transactions (or of other datasets) leave gaps.                 *)
(***************************************************************************)
EXTENDS LedgerView

CONSTANTS
    Writers,    \* processes that insert raw rows of this dataset
    NoInsert,   \* the writer has no insert transaction open
    BatchSize   \* batch_size of the transforms, 500 in the code

ASSUME NoInsertAssumption == NoInsert \notin [id : Ids, payload : Payloads]
ASSUME BatchSizeAssumption == BatchSize \in Nat \ {0}

VARIABLES
    nextId,     \* next value of the sequence behind ingest_raw.id
    raw,        \* committed rows, by id
    inserting   \* per writer, the inserted but uncommitted row

ledgerVars == <<nextId, raw, inserting>>

LedgerTypeOK ==
    /\ nextId \in 1..(MaxId + 1)
    /\ raw \in Ledger
    /\ inserting \in [Writers -> [id : Ids, payload : Payloads] \cup {NoInsert}]

LedgerInit ==
    /\ nextId = 1
    /\ raw = [i \in Ids |-> NoRaw]
    /\ inserting = [w \in Writers |-> NoInsert]

Committed == Stored(raw)

\* variant with a fault: waits until batch_size rows are there
IsFullBatchTop(top, new) == Cardinality({i \in new : i <= top}) = BatchSize

\* ORDER BY id LIMIT batch_size over the new rows: top is the id of the
\* batch_size-th of them, or of the last one if there are fewer
IsBatchTop(top, new) ==
    \/ Cardinality({i \in new : i <= top}) = BatchSize
    \/ Cardinality(new) < BatchSize /\ \A i \in new : i <= top

\* RawPayloadStore.record: INSERT ... RETURNING id
Insert(w) ==
    /\ inserting[w] = NoInsert
    /\ nextId <= MaxId
    /\ \E p \in Payloads :
           inserting' = [inserting EXCEPT ![w] = [id |-> nextId, payload |-> p]]
    /\ nextId' = nextId + 1
    /\ UNCHANGED raw

\* the end of the `async with session.begin()` block around the insert
CommitInsert(w) ==
    /\ inserting[w] # NoInsert
    /\ raw' = [raw EXCEPT ![inserting[w].id] = inserting[w].payload]
    /\ inserting' = [inserting EXCEPT ![w] = NoInsert]
    /\ UNCHANGED nextId

\* the process dies or the connection drops between INSERT and COMMIT
AbortInsert(w) ==
    /\ inserting[w] # NoInsert
    /\ inserting' = [inserting EXCEPT ![w] = NoInsert]
    /\ UNCHANGED <<nextId, raw>>

LedgerNext ==
    \E w \in Writers : Insert(w) \/ CommitInsert(w) \/ AbortInsert(w)
=============================================================================
