------------------------ MODULE RowTransform_proofs -------------------------
(***************************************************************************)
(* Theorems about RowTransform, for every value of its constants, and      *)
(* their proofs.                                                           *)
(***************************************************************************)
EXTENDS RowTransform, RawLedger_proofs, FiniteSetTheorems

(***************************************************************************)
(* Type correctness.                                                       *)
(***************************************************************************)

LEMMA IdleType == Idle \in Call
  BY MaxIdAssumption DEF Idle, Call, NoWrites, Table

LEMMA OverlayType ==
  ASSUME TypeOK, NEW t \in Transformers
  PROVE  Overlay(txn[t].writes) \in Table
  BY DEF TypeOK, Overlay, Table, Call

\* The row an item turns into is a well-typed domain row.
LEMMA RowOfType ==
  ASSUME NEW log, NEW i \in Ids, NEW n, ItemAt(log, <<i, n>>) \in PayloadRow
  PROVE  /\ RowOf(log, <<i, n>>) \in DomainRow
         /\ RowOf(log, <<i, n>>) # NoRow
         /\ ItemAt(log, <<i, n>>).key \in Keys
  BY AbsentAssumption DEF RowOf, DomainRow, PayloadRow

(***************************************************************************)
(* What each statement makes of a call, field by field.                    *)
(***************************************************************************)

LEMMA StartedFields ==
  ASSUME NEW id \in 0..MaxId
  PROVE  /\ Started(id) \in Call
         /\ Started(id).pc = "fetch"
         /\ Started(id).last = id
         /\ Started(id).todo = {}
         /\ Started(id).item = 1
         /\ Started(id).writes = NoWrites
  BY IdleType DEF Started, Idle, Call

LEMMA FetchedFields ==
  ASSUME NEW c \in Call, NEW id \in 0..MaxId, NEW batch \in SUBSET Ids
  PROVE  /\ Fetched(c, id, batch) \in Call
         /\ Fetched(c, id, batch).pc = "apply"
         /\ Fetched(c, id, batch).last = c.last
         /\ Fetched(c, id, batch).top = id
         /\ Fetched(c, id, batch).todo = batch
         /\ Fetched(c, id, batch).item = c.item
         /\ Fetched(c, id, batch).writes = c.writes
  BY DEF Fetched, Call

LEMMA SkippedFields ==
  ASSUME NEW c \in Call
  PROVE  /\ Skipped(c) \in Call
         /\ Skipped(c).pc = c.pc
         /\ Skipped(c).last = c.last
         /\ Skipped(c).top = c.top
         /\ Skipped(c).todo = c.todo
         /\ Skipped(c).item = c.item + 1
         /\ Skipped(c).writes = c.writes
  BY DEF Skipped, Call

LEMMA UpsertedFields ==
  ASSUME NEW c \in Call, NEW k \in Keys, NEW row \in DomainRow
  PROVE  /\ Upserted(c, k, row) \in Call
         /\ Upserted(c, k, row).pc = c.pc
         /\ Upserted(c, k, row).last = c.last
         /\ Upserted(c, k, row).top = c.top
         /\ Upserted(c, k, row).todo = c.todo
         /\ Upserted(c, k, row).item = c.item + 1
         /\ Upserted(c, k, row).writes = [c.writes EXCEPT ![k] = row]
<1> DEFINE ws == [c.writes EXCEPT ![k] = row]
<1>1. ws \in Table /\ c.item + 1 \in Nat \ {0}
  BY DEF Call, Table
<1> HIDE DEF ws
<1>2. Upserted(c, k, row) = [c EXCEPT !.item = c.item + 1, !.writes = ws]
  BY DEF Upserted, ws
<1>3. Upserted(c, k, row) \in Call
  BY <1>1, <1>2 DEF Call
<1>4. /\ Upserted(c, k, row).pc = c.pc
      /\ Upserted(c, k, row).last = c.last
      /\ Upserted(c, k, row).top = c.top
      /\ Upserted(c, k, row).todo = c.todo
      /\ Upserted(c, k, row).item = c.item + 1
      /\ Upserted(c, k, row).writes = ws
  BY <1>2 DEF Call
<1> QED BY <1>3, <1>4 DEF ws

LEMMA FinishedFields ==
  ASSUME NEW c \in Call, NEW i
  PROVE  /\ Finished(c, i) \in Call
         /\ Finished(c, i).pc = c.pc
         /\ Finished(c, i).last = c.last
         /\ Finished(c, i).top = c.top
         /\ Finished(c, i).todo = c.todo \ {i}
         /\ Finished(c, i).item = 1
         /\ Finished(c, i).writes = c.writes
<1> DEFINE S == c.todo \ {i}
<1>1. S \in SUBSET Ids /\ 1 \in Nat \ {0}
  BY DEF Call
<1> HIDE DEF S
<1>2. Finished(c, i) = [c EXCEPT !.item = 1, !.todo = S]
  BY DEF Finished, S
<1>3. Finished(c, i) \in Call
  BY <1>1, <1>2 DEF Call
<1>4. /\ Finished(c, i).pc = c.pc
      /\ Finished(c, i).last = c.last
      /\ Finished(c, i).top = c.top
      /\ Finished(c, i).todo = S
      /\ Finished(c, i).item = 1
      /\ Finished(c, i).writes = c.writes
  BY <1>2 DEF Call
<1> QED BY <1>3, <1>4 DEF S

\* A step that only replaces one call by a well-typed one keeps the type.
LEMMA CallStep ==
  ASSUME TypeOK, NEW t \in Transformers, NEW c \in Call,
         txn' = [txn EXCEPT ![t] = c],
         UNCHANGED <<ledgerVars, cursor, table, failures>>
  PROVE  TypeOK'
  BY DEF TypeOK, ledgerVars, LedgerTypeOK

LEMMA TypeStep ==
  ASSUME TypeOK, [Next]_vars
  PROVE  TypeOK'
<1>1. CASE LedgerNext /\ UNCHANGED <<cursor, table, txn, failures>>
  BY <1>1, LedgerTypeStep DEF TypeOK
<1>2. ASSUME NEW t \in Transformers, TransformStep(t) \/ Fail(t)
      PROVE  TypeOK'
  <2>0. txn[t] \in Call
    BY DEF TypeOK
  <2>1. CASE ReadCursor(t)
    BY <2>1, StartedFields, CallStep DEF ReadCursor, TypeOK
  <2>2. CASE FetchNewRaw(t)
    <3> DEFINE new == {i \in Committed : i > txn[t].last}
    <3>1. CASE txn' = [txn EXCEPT ![t] = Idle]
      BY <3>1, <2>2, IdleType, CallStep DEF FetchNewRaw
    <3>2. ASSUME NEW top \in new,
                 txn' = [txn EXCEPT ![t] = Fetched(@, top, {i \in new : i <= top})]
          PROVE  TypeOK'
      <4>1. top \in 0..MaxId /\ {i \in new : i <= top} \in SUBSET Ids
        BY MaxIdAssumption DEF Committed, Stored, Ids
      <4> QED BY <4>1, <3>2, <2>0, <2>2, FetchedFields, CallStep DEF FetchNewRaw
    <3> QED BY <2>2, <3>1, <3>2 DEF FetchNewRaw
  <2>3. CASE TransformItem(t)
    <3>0. UNCHANGED <<ledgerVars, cursor, table, failures>>
      BY <2>3 DEF TransformItem
    <3>1. PICK i \in txn[t].todo :
             LET p    == <<i, txn[t].item>>
                 item == ItemAt(raw, p)
             IN  \/ item = NonDict /\ txn' = [txn EXCEPT ![t] = Skipped(@)]
                 \/ item = Malformed /\ txn' = [txn EXCEPT ![t] = Idle]
                 \/ item \in PayloadRow /\ Upsert(t, item.key, RowOf(raw, p))
      BY <2>3 DEF TransformItem
    <3> DEFINE p == <<i, txn[t].item>>
    <3>2. i \in Ids
      BY <2>0 DEF Call
    <3>3. CASE txn' = [txn EXCEPT ![t] = Skipped(@)]
      BY <2>0, <3>0, <3>3, SkippedFields, CallStep
    <3>4. CASE txn' = [txn EXCEPT ![t] = Idle]
      BY <3>0, <3>4, IdleType, CallStep
    <3>5. CASE /\ ItemAt(raw, p) \in PayloadRow
               /\ Upsert(t, ItemAt(raw, p).key, RowOf(raw, p))
      <4>1. ItemAt(raw, p).key \in Keys /\ RowOf(raw, p) \in DomainRow
        BY <3>5, <3>2, RowOfType
      <4> HIDE DEF p
      <4> QED BY <4>1, <2>0, <3>0, <3>5, UpsertedFields, CallStep DEF Upsert
    <3> QED BY <3>1, <3>3, <3>4, <3>5
  <2>4. CASE NextRaw(t)
    BY <2>0, <2>4, FinishedFields, CallStep DEF NextRaw
  <2>5. CASE AdvanceCursor(t)
    <3>1. cursor' \in 0..MaxId
      BY <2>5, <2>0 DEF AdvanceCursor, Call
    <3>2. txn' \in [Transformers -> Call]
      BY <2>5, IdleType DEF AdvanceCursor, TypeOK
    <3> QED BY <3>1, <3>2, <2>5, OverlayType
            DEF AdvanceCursor, ledgerVars, LedgerTypeOK, TypeOK
  <2>6. CASE DeadlockVictim(t)
    BY <2>6, IdleType, CallStep DEF DeadlockVictim
  <2>7. CASE Fail(t)
    <3>1. txn' \in [Transformers -> Call]
      BY <2>7, IdleType DEF Fail, TypeOK
    <3> QED BY <3>1, <2>7, MaxFailuresAssumption
            DEF Fail, ledgerVars, LedgerTypeOK, TypeOK
  <2> QED BY <1>2, <2>1, <2>2, <2>3, <2>4, <2>5, <2>6, <2>7 DEF TransformStep
<1>3. CASE UNCHANGED vars
  BY <1>3 DEF vars, LedgerTypeOK, TypeOK
<1> QED BY <1>1, <1>2, <1>3 DEF Next

LEMMA TypeInit ==
  ASSUME Init
  PROVE  TypeOK
  BY IdleType, MaxIdAssumption, MaxFailuresAssumption
  DEF Init, TypeOK, LedgerInit, LedgerTypeOK, Ledger, NoWrites, Table

\* Type correctness of the whole transform, for any writers and transformers.
THEOREM TypeCorrect == Spec => []TypeOK
<1>1. Init => TypeOK
  BY TypeInit
<1>2. TypeOK /\ [Next]_vars => TypeOK'
  BY TypeStep
<1> QED BY <1>1, <1>2, PTL DEF Spec

(***************************************************************************)
(* Provenance, for any number of writers and transformers.  The open calls *)
(* must satisfy it too, and work only on committed raw rows.               *)
(***************************************************************************)

Cited(tbl) ==
    \A k \in Keys : tbl[k] # NoRow =>
        /\ tbl[k].src \in Committed
        /\ \E n \in DOMAIN raw[tbl[k].src] :
              raw[tbl[k].src][n] = [key |-> k, val |-> tbl[k].val]

ProvenanceInv ==
    /\ TypeOK
    /\ LedgerFresh
    /\ Cited(table)
    /\ \A t \in Transformers :
          txn[t].todo \subseteq Committed /\ Cited(txn[t].writes)

LEMMA CitedStable ==
  ASSUME \A j \in Committed : j \in Committed' /\ raw'[j] = raw[j],
         NEW tbl, Cited(tbl)
  PROVE  \A k \in Keys : tbl[k] # NoRow =>
            /\ tbl[k].src \in Committed'
            /\ \E n \in DOMAIN raw'[tbl[k].src] :
                  raw'[tbl[k].src][n] = [key |-> k, val |-> tbl[k].val]
  BY DEF Cited

LEMMA CitedNoWrites == Cited(NoWrites)
  BY DEF Cited, NoWrites

\* Only the call of one transformer changes, into one that is cited.
LEMMA ProvenanceCallStep ==
  ASSUME ProvenanceInv, TypeOK', NEW t \in Transformers, NEW c \in Call,
         txn' = [txn EXCEPT ![t] = c],
         UNCHANGED <<ledgerVars, table>>,
         c.todo \subseteq Committed, Cited(c.writes)
  PROVE  ProvenanceInv'
<1>1. txn'[t] = c /\ \A u \in Transformers \ {t} : txn'[u] = txn[u]
  BY DEF ProvenanceInv, TypeOK
<1>2. LedgerFresh' /\ Cited(table)' /\ Committed' = Committed /\ raw' = raw
  BY DEF ProvenanceInv, LedgerFresh, Cited, ledgerVars, Committed
<1>3. \A u \in Transformers : txn'[u].todo \subseteq Committed /\ Cited(txn'[u].writes)
  BY <1>1 DEF ProvenanceInv
<1>4. \A u \in Transformers : (txn[u].todo \subseteq Committed /\ Cited(txn[u].writes))'
  BY <1>2, <1>3 DEF Cited
<1> QED BY <1>2, <1>4 DEF ProvenanceInv

LEMMA ProvenanceStep ==
  ASSUME ProvenanceInv, [Next]_vars
  PROVE  ProvenanceInv'
<1>0. TypeOK /\ TypeOK' /\ \A t \in Transformers : txn[t] \in Call
  BY TypeStep DEF ProvenanceInv, TypeOK
<1>i. Idle \in Call /\ Idle.todo \subseteq Committed /\ Cited(Idle.writes)
  BY IdleType, CitedNoWrites DEF Idle
<1>1. CASE LedgerNext /\ UNCHANGED <<cursor, table, txn, failures>>
  <2>1. LedgerFresh' /\ \A j \in Committed : j \in Committed' /\ raw'[j] = raw[j]
    BY <1>1, LedgerGrows DEF ProvenanceInv, TypeOK
  <2>2. Cited(table)'
    BY <2>1, <1>1, CitedStable DEF ProvenanceInv, Cited
  <2>3. ASSUME NEW t \in Transformers
        PROVE  (txn[t].todo \subseteq Committed /\ Cited(txn[t].writes))'
    BY <2>1, <1>1, CitedStable DEF ProvenanceInv, Cited
  <2> QED BY <1>0, <2>1, <2>2, <2>3 DEF ProvenanceInv
<1>2. ASSUME NEW t \in Transformers, TransformStep(t) \/ Fail(t)
      PROVE  ProvenanceInv'
  <2>0. /\ txn[t] \in Call /\ txn[t].todo \subseteq Committed
        /\ Cited(txn[t].writes) /\ Cited(table)
    BY <1>0 DEF ProvenanceInv
  <2>1. CASE ReadCursor(t)
    <3>1. Started(cursor).todo \subseteq Committed
      BY DEF Started, Idle
    <3>2. Started(cursor) \in Call /\ Cited(Started(cursor).writes)
      BY <1>0, StartedFields, CitedNoWrites DEF TypeOK
    <3> QED BY <1>0, <2>1, <3>1, <3>2, ProvenanceCallStep DEF ReadCursor
  <2>2. CASE FetchNewRaw(t)
    <3> DEFINE new == {i \in Committed : i > txn[t].last}
    <3>1. CASE txn' = [txn EXCEPT ![t] = Idle]
      BY <1>0, <1>i, <2>2, <3>1, ProvenanceCallStep DEF FetchNewRaw
    <3>2. ASSUME NEW top \in new,
                 txn' = [txn EXCEPT ![t] = Fetched(@, top, {i \in new : i <= top})]
          PROVE  ProvenanceInv'
      <4> DEFINE c == Fetched(txn[t], top, {i \in new : i <= top})
      <4>1. top \in 0..MaxId /\ {i \in new : i <= top} \in SUBSET Ids
        BY MaxIdAssumption DEF Committed, Stored, Ids
      <4>2. c \in Call /\ c.todo \subseteq Committed /\ c.writes = txn[t].writes
        BY <4>1, <2>0, FetchedFields
      <4> HIDE DEF c
      <4> QED BY <1>0, <2>0, <2>2, <3>2, <4>2, ProvenanceCallStep
              DEF FetchNewRaw, c
    <3> QED BY <2>2, <3>1, <3>2 DEF FetchNewRaw
  <2>3. CASE TransformItem(t)
    <3>0. UNCHANGED <<ledgerVars, table>>
      BY <2>3 DEF TransformItem
    <3>1. PICK i \in txn[t].todo :
             /\ txn[t].item \in DOMAIN raw[i]
             /\ LET p    == <<i, txn[t].item>>
                    item == ItemAt(raw, p)
                IN  \/ item = NonDict /\ txn' = [txn EXCEPT ![t] = Skipped(@)]
                    \/ item = Malformed /\ txn' = [txn EXCEPT ![t] = Idle]
                    \/ item \in PayloadRow /\ Upsert(t, item.key, RowOf(raw, p))
      BY <2>3 DEF TransformItem
    <3> DEFINE p   == <<i, txn[t].item>>
               k   == ItemAt(raw, p).key
               row == RowOf(raw, p)
    <3>2. CASE txn' = [txn EXCEPT ![t] = Skipped(@)]
      BY <1>0, <2>0, <3>0, <3>2, SkippedFields, ProvenanceCallStep
    <3>3. CASE txn' = [txn EXCEPT ![t] = Idle]
      BY <1>0, <1>i, <3>0, <3>3, ProvenanceCallStep
    <3>4. CASE ItemAt(raw, p) \in PayloadRow /\ Upsert(t, k, row)
      <4>1. i \in Ids /\ i \in Committed
        BY <2>0 DEF Call
      <4>2. k \in Keys /\ row \in DomainRow
        BY <3>4, <4>1, RowOfType
      <4>3. /\ row.src = i /\ row.val = raw[i][txn[t].item].val
            /\ raw[i][txn[t].item] = [key |-> k, val |-> row.val]
        BY <3>4 DEF RowOf, ItemAt, PayloadRow
      <4> HIDE DEF p, k, row
      <4>4. Upserted(txn[t], k, row).writes = [txn[t].writes EXCEPT ![k] = row]
        BY <2>0, <4>2, UpsertedFields
      <4>5. txn[t].writes \in Table
        BY <2>0 DEF Call
      <4> DEFINE c == Upserted(txn[t], k, row)
      <4>6. c \in Call /\ c.todo = txn[t].todo
        BY <2>0, <4>2, UpsertedFields
      <4>7. txn' = [txn EXCEPT ![t] = c]
        BY <3>4 DEF Upsert
      <4> HIDE DEF c
      <4>8. Cited(c.writes)
        <5> SUFFICES ASSUME NEW l \in Keys, c.writes[l] # NoRow
                     PROVE  /\ c.writes[l].src \in Committed
                            /\ \E n \in DOMAIN raw[c.writes[l].src] :
                                  raw[c.writes[l].src][n]
                                    = [key |-> l, val |-> c.writes[l].val]
          BY DEF Cited
        <5>1. CASE l = k
          <6>1. c.writes[l] = row
            BY <5>1, <4>4, <4>5, <4>2 DEF Table, c
          <6> QED BY <5>1, <6>1, <4>1, <4>3, <3>1
        <5>2. CASE l # k
          <6>1. c.writes[l] = txn[t].writes[l]
            BY <5>2, <4>4, <4>5 DEF Table, c
          <6> QED BY <6>1, <2>0 DEF Cited
        <5> QED BY <5>1, <5>2
      <4> QED BY <1>0, <2>0, <3>0, <4>6, <4>7, <4>8, ProvenanceCallStep
    <3> QED BY <3>1, <3>2, <3>3, <3>4
  <2>4. CASE NextRaw(t)
    <3>1. PICK i \in txn[t].todo : txn' = [txn EXCEPT ![t] = Finished(@, i)]
      BY <2>4 DEF NextRaw
    <3> DEFINE c == Finished(txn[t], i)
    <3>2. c \in Call /\ c.todo \subseteq Committed /\ c.writes = txn[t].writes
      BY <2>0, FinishedFields
    <3> HIDE DEF c
    <3> QED BY <1>0, <2>0, <2>4, <3>1, <3>2, ProvenanceCallStep DEF NextRaw, c
  <2>5. CASE AdvanceCursor(t)
    <3>1. Cited(Overlay(txn[t].writes))
      BY <2>0 DEF Cited, Overlay
    <3>2. UNCHANGED <<ledgerVars>> /\ table' = Overlay(txn[t].writes)
      BY <2>5 DEF AdvanceCursor
    <3>3. Cited(table)' /\ LedgerFresh'
      BY <3>1, <3>2 DEF Cited, LedgerFresh, ProvenanceInv, ledgerVars, Committed
    <3>4. txn'[t] = Idle /\ \A u \in Transformers \ {t} : txn'[u] = txn[u]
      BY <2>5, <1>0 DEF AdvanceCursor, TypeOK
    <3>5. \A u \in Transformers :
             (txn[u].todo \subseteq Committed /\ Cited(txn[u].writes))'
      BY <1>i, <3>2, <3>4 DEF ProvenanceInv, ledgerVars, Cited, Committed
    <3> QED BY <1>0, <3>3, <3>5 DEF ProvenanceInv
  <2>6. CASE DeadlockVictim(t)
    BY <1>0, <1>i, <2>6, ProvenanceCallStep DEF DeadlockVictim
  <2>7. CASE Fail(t)
    BY <1>0, <1>i, <2>7, ProvenanceCallStep DEF Fail
  <2> QED BY <1>2, <2>1, <2>2, <2>3, <2>4, <2>5, <2>6, <2>7 DEF TransformStep
<1>3. CASE UNCHANGED vars
  BY <1>0, <1>3 DEF vars, ProvenanceInv, LedgerFresh, Cited, Committed
<1> QED BY <1>1, <1>2, <1>3 DEF Next

\* Every domain row cites the committed raw row it came from, and that row
\* holds its key and value, whatever runs beside whatever else.
THEOREM ProvenanceHolds == Spec => []Provenance
<1>1. Init => ProvenanceInv
  <2> SUFFICES ASSUME Init PROVE ProvenanceInv
    OBVIOUS
  <2>1. Committed = {} /\ \A w \in Writers : inserting[w] = NoInsert
    BY DEF Init, LedgerInit, Committed, Stored
  <2>2. \A t \in Transformers : txn[t].todo = {} /\ txn[t].writes = NoWrites
    BY DEF Init, Idle
  <2> QED BY <2>1, <2>2, TypeInit, CitedNoWrites
          DEF ProvenanceInv, LedgerFresh, Init
<1>2. ProvenanceInv /\ [Next]_vars => ProvenanceInv'
  BY ProvenanceStep
<1>3. ProvenanceInv => Provenance
  BY DEF ProvenanceInv, Cited, Provenance
<1> QED BY <1>1, <1>2, <1>3, PTL DEF Spec

-----------------------------------------------------------------------------
(***************************************************************************)
(* What RowTransform guarantees when the raw rows have one writer, so that *)
(* ids commit in order: the high-water mark for any number of transformers *)
(* and, for one transformer, the last-write-wins view and its refinement   *)
(* of DomainView.                                                          *)
(***************************************************************************)

SingleTransformer == \A t, u \in Transformers : t = u

(***************************************************************************)
(* The loop of one call.  Done(c) is what the call has turned into upserts *)
(* or found already done: everything up to the last raw row, in the order  *)
(* of positions, before the item the loop is at.                           *)
(***************************************************************************)

Shape(c) ==
    /\ c.pc # "idle" => c.last \in {0} \cup Committed
    /\ c.pc = "fetch" => c.item = 1 /\ c.writes = NoWrites
    /\ c.pc = "apply" =>
          /\ c.top \in Committed /\ c.last < c.top
          /\ \A i \in c.todo : i \in Committed /\ c.last < i /\ i <= c.top
          /\ \A i \in c.todo, j \in Committed : i <= j /\ j <= c.top => j \in c.todo

Done(c) ==
    IF c.pc = "apply"
    THEN {q \in Positions(raw, Upto(raw, c.top)) :
             q[1] \notin c.todo \/ (IsFirst(q[1], c.todo) /\ q[2] < c.item)}
    ELSE Positions(raw, Upto(raw, c.last))

\* what a statement makes of call b, apart from the commit
Move(b, c) ==
    \/ c = Idle
    \/ c = Started(cursor)
    \/ /\ b.pc = "fetch"
       /\ \E top \in Committed :
             /\ top > b.last
             /\ c = Fetched(b, top, {i \in Committed : i > b.last /\ i <= top})
    \/ /\ b.pc = "apply"
       /\ \E i \in b.todo :
             /\ IsFirst(i, b.todo)
             /\ \/ /\ b.item \in DOMAIN raw[i]
                   /\ ItemAt(raw, <<i, b.item>>) = NonDict
                   /\ c = Skipped(b)
                \/ /\ b.item \in DOMAIN raw[i]
                   /\ ItemAt(raw, <<i, b.item>>) \in PayloadRow
                   /\ c = Upserted(b, ItemAt(raw, <<i, b.item>>).key,
                                      RowOf(raw, <<i, b.item>>))
                \/ b.item \notin DOMAIN raw[i] /\ c = Finished(b, i)

LEMMA StepIsMove ==
  ASSUME TypeOK, NEW t \in Transformers, TransformStep(t) \/ Fail(t), ~AdvanceCursor(t)
  PROVE  /\ UNCHANGED <<nextId, raw, inserting, cursor, table>>
         /\ \E c : Move(txn[t], c) /\ txn' = [txn EXCEPT ![t] = c]
<1>1. CASE ReadCursor(t)
  BY <1>1 DEF ReadCursor, Move, ledgerVars
<1>2. CASE FetchNewRaw(t)
  <2> DEFINE new == {i \in Committed : i > txn[t].last}
  <2>1. CASE txn' = [txn EXCEPT ![t] = Idle]
    BY <1>2, <2>1 DEF FetchNewRaw, Move, ledgerVars
  <2>2. ASSUME NEW top \in new,
               txn' = [txn EXCEPT ![t] = Fetched(@, top, {i \in new : i <= top})]
        PROVE  \E c : Move(txn[t], c) /\ txn' = [txn EXCEPT ![t] = c]
    <3>1. {i \in new : i <= top} = {i \in Committed : i > txn[t].last /\ i <= top}
      OBVIOUS
    <3>2. txn[t].pc = "fetch" /\ top \in Committed /\ top > txn[t].last
      BY <1>2 DEF FetchNewRaw
    <3> QED BY <2>2, <3>1, <3>2 DEF Move
  <2> QED BY <1>2, <2>1, <2>2 DEF FetchNewRaw, ledgerVars
<1>3. CASE TransformItem(t)
  <2>1. PICK i \in txn[t].todo :
           /\ IsFirst(i, txn[t].todo)
           /\ txn[t].item \in DOMAIN raw[i]
           /\ LET p    == <<i, txn[t].item>>
                  item == ItemAt(raw, p)
              IN  \/ item = NonDict /\ txn' = [txn EXCEPT ![t] = Skipped(@)]
                  \/ item = Malformed /\ txn' = [txn EXCEPT ![t] = Idle]
                  \/ item \in PayloadRow /\ Upsert(t, item.key, RowOf(raw, p))
    BY <1>3 DEF TransformItem
  <2>2. txn[t].pc = "apply" /\ UNCHANGED <<nextId, raw, inserting, cursor, table>>
    BY <1>3 DEF TransformItem, ledgerVars
  <2> QED BY <2>1, <2>2 DEF Move, Upsert
<1>4. CASE NextRaw(t)
  BY <1>4 DEF NextRaw, Move, ledgerVars
<1>5. CASE DeadlockVictim(t) \/ Fail(t)
  BY <1>5 DEF DeadlockVictim, Fail, Move, ledgerVars
<1> QED BY <1>1, <1>2, <1>3, <1>4, <1>5 DEF TransformStep

LEMMA CommittedType ==
  ASSUME raw \in Ledger
  PROVE  /\ Committed \subseteq Ids /\ Ids \subseteq 0..MaxId /\ Ids \subseteq Int
         /\ \A c : Upto(raw, c) \subseteq Committed
         /\ \A i \in Committed : \A n \in DOMAIN raw[i] : n \in Nat \ {0}
<1>1. \A i \in Committed : raw[i] \in Seq(Item)
  BY PayloadsAssumption DEF Committed, Stored, Ledger
<1> QED BY <1>1, MaxIdAssumption DEF Committed, Stored, Ids, Upto

\* Every move keeps the shape of the loop.
LEMMA ShapeMove ==
  ASSUME raw \in Ledger, cursor \in {0} \cup Committed, NEW b \in Call, Shape(b),
         NEW c, Move(b, c)
  PROVE  c \in Call /\ Shape(c)
<1>0. 0 \in 0..MaxId /\ cursor \in 0..MaxId
  BY CommittedType, MaxIdAssumption
<1>1. CASE c = Idle
  BY <1>1, IdleType DEF Idle, Shape
<1>2. CASE c = Started(cursor)
  BY <1>0, <1>2, StartedFields DEF Shape
<1>3. ASSUME b.pc = "fetch", NEW top \in Committed, top > b.last,
             c = Fetched(b, top, {i \in Committed : i > b.last /\ i <= top})
      PROVE  c \in Call /\ Shape(c)
  <2> DEFINE batch == {i \in Committed : i > b.last /\ i <= top}
  <2>1. top \in 0..MaxId /\ batch \in SUBSET Ids
    BY CommittedType
  <2>2. /\ c \in Call /\ c.pc = "apply" /\ c.last = b.last /\ c.top = top
        /\ c.todo = batch
    BY <1>3, <2>1, FetchedFields
  <2>3. \A i \in batch, j \in Committed : i <= j /\ j <= top => j \in batch
    BY <1>3, CommittedType DEF Call
  <2>4. \A i \in batch : i \in Committed /\ b.last < i /\ i <= top
    BY CommittedType DEF Call
  <2>5. b.last < top /\ b.last \in {0} \cup Committed
    BY <1>3, CommittedType DEF Call, Shape
  <2> HIDE DEF batch
  <2> QED BY <2>2, <2>3, <2>4, <2>5 DEF Shape
<1>4. ASSUME b.pc = "apply", NEW i \in b.todo, IsFirst(i, b.todo)
      PROVE  /\ c = Skipped(b) => c \in Call /\ Shape(c)
             /\ ItemAt(raw, <<i, b.item>>) \in PayloadRow
                /\ c = Upserted(b, ItemAt(raw, <<i, b.item>>).key, RowOf(raw, <<i, b.item>>))
                => c \in Call /\ Shape(c)
             /\ c = Finished(b, i) => c \in Call /\ Shape(c)
  <2>1. CASE c = Skipped(b)
    BY <1>4, <2>1, SkippedFields DEF Shape
  <2>2. CASE /\ ItemAt(raw, <<i, b.item>>) \in PayloadRow
             /\ c = Upserted(b, ItemAt(raw, <<i, b.item>>).key, RowOf(raw, <<i, b.item>>))
    <3>1. i \in Ids
      BY DEF Call
    <3>2. /\ ItemAt(raw, <<i, b.item>>).key \in Keys
          /\ RowOf(raw, <<i, b.item>>) \in DomainRow
      BY <2>2, <3>1, RowOfType
    <3>3. /\ c \in Call /\ c.pc = b.pc /\ c.last = b.last /\ c.top = b.top
          /\ c.todo = b.todo
      BY <2>2, <3>2, UpsertedFields
    <3> QED BY <1>4, <3>3 DEF Shape
  <2>3. CASE c = Finished(b, i)
    <3>1. /\ c \in Call /\ c.pc = b.pc /\ c.last = b.last /\ c.top = b.top
          /\ c.todo = b.todo \ {i}
      BY <2>3, FinishedFields
    <3>2. \A k \in c.todo : k \in b.todo /\ k > i /\ k \in Int
      BY <1>4, <3>1 DEF IsFirst, Call, Ids
    <3>3. \A k \in c.todo, j \in Committed : k <= j /\ j <= b.top => j \in c.todo
      <4> TAKE k \in c.todo, j \in Committed
      <4> HAVE k <= j /\ j <= b.top
      <4>1. i \in Int /\ j \in Int
        BY CommittedType DEF Call
      <4>2. j # i
        BY <3>2, <4>1
      <4>3. j \in b.todo
        BY <1>4, <3>2 DEF Shape
      <4> QED BY <3>1, <4>2, <4>3
    <3> QED BY <1>4, <3>1, <3>2, <3>3 DEF Shape
  <2> QED BY <2>1, <2>2, <2>3
<1> QED BY <1>1, <1>2, <1>3, <1>4 DEF Move

\* How Done moves with the loop.
LEMMA UptoPositions ==
  ASSUME raw \in Ledger, NEW c, NEW q
  PROVE  q \in Positions(raw, Upto(raw, c)) <=> q \in Positions(raw, Committed) /\ q[1] <= c
<1>1. \A i \in Committed : i \in Upto(raw, c) <=> i <= c
  BY DEF Upto, Committed
<1>2. Upto(raw, c) \subseteq Committed
  BY CommittedType
<1> QED BY <1>1, <1>2, PositionElements

LEMMA CommittedPosition ==
  ASSUME raw \in Ledger, NEW q \in Positions(raw, Committed)
  PROVE  /\ q[1] \in Committed /\ q[1] \in Int
         /\ q[2] \in Nat \ {0} /\ q[2] \in DOMAIN raw[q[1]]
         /\ q = <<q[1], q[2]>>
<1>1. Committed \in SUBSET Stored(raw)
  BY DEF Committed
<1> QED BY <1>1, PositionType, CommittedType

LEMMA DoneFetched ==
  ASSUME raw \in Ledger, NEW b \in Call, Shape(b), b.pc = "fetch",
         NEW top \in Committed, top > b.last,
         NEW c, c = Fetched(b, top, {i \in Committed : i > b.last /\ i <= top})
  PROVE  Done(c) = Done(b)
<1> DEFINE batch == {i \in Committed : i > b.last /\ i <= top}
<1>1. top \in 0..MaxId /\ batch \in SUBSET Ids
  BY CommittedType
<1>2. c.pc = "apply" /\ c.top = top /\ c.todo = batch /\ c.item = 1
  BY <1>1, FetchedFields DEF Shape
<1>3. b.last \in Int /\ top \in Int
  BY <1>1 DEF Call
<1>4. Done(c) = {q \in Positions(raw, Upto(raw, top)) :
                   q[1] \notin batch \/ (IsFirst(q[1], batch) /\ q[2] < 1)}
  BY <1>2 DEF Done
<1>5. Done(b) = Positions(raw, Upto(raw, b.last))
  BY DEF Done
<1>6. ASSUME NEW q
      PROVE  q \in Done(c) <=> q \in Done(b)
  <2>1. CASE q \notin Positions(raw, Committed)
    BY <2>1, <1>4, <1>5, UptoPositions
  <2>2. CASE q \in Positions(raw, Committed)
    <3>1. q[1] \in Committed /\ q[1] \in Int /\ ~(q[2] < 1)
      BY <2>2, CommittedPosition
    <3>2. q \in Done(c) <=> q[1] <= top /\ q[1] \notin batch
      BY <2>2, <3>1, <1>4, UptoPositions
    <3>3. q \in Done(b) <=> q[1] <= b.last
      BY <2>2, <1>5, UptoPositions
    <3> QED BY <3>1, <3>2, <3>3, <1>3
  <2> QED BY <2>1, <2>2
<1> QED BY <1>6, <1>4, <1>5

LEMMA DoneItem ==
  ASSUME raw \in Ledger, NEW b \in Call, Shape(b), b.pc = "apply",
         NEW i \in b.todo, IsFirst(i, b.todo), b.item \in DOMAIN raw[i],
         NEW c, c.pc = b.pc, c.top = b.top, c.todo = b.todo, c.item = b.item + 1
  PROVE  /\ Done(c) = Done(b) \cup {<<i, b.item>>}
         /\ \A q \in Done(b) : Before(q, <<i, b.item>>)
<1>1. i \in Committed /\ i <= b.top /\ b.top \in Int /\ b.item \in Int
  BY DEF Shape, Call
<1>2. <<i, b.item>> \in Positions(raw, Committed)
  BY <1>1, PositionElements
<1>3. \A j : IsFirst(j, b.todo) <=> j = i
  BY DEF IsFirst, Call, Ids
<1>d. /\ Done(b) = {r \in Positions(raw, Upto(raw, b.top)) :
                      r[1] \notin b.todo \/ (IsFirst(r[1], b.todo) /\ r[2] < b.item)}
      /\ Done(c) = {r \in Positions(raw, Upto(raw, b.top)) :
                      r[1] \notin b.todo \/ (IsFirst(r[1], b.todo) /\ r[2] < b.item + 1)}
  BY DEF Done
<1>4. ASSUME NEW q
      PROVE  /\ q \in Done(c) <=> q \in Done(b) \cup {<<i, b.item>>}
             /\ q \in Done(b) => Before(q, <<i, b.item>>)
  <2>1. CASE q \notin Positions(raw, Committed)
    BY <2>1, <1>2, UptoPositions DEF Done
  <2>2. CASE q \in Positions(raw, Committed)
    <3>1. /\ q[1] \in Committed /\ q[1] \in Int /\ q[2] \in Int
          /\ q = <<q[1], q[2]>>
      BY <2>2, CommittedPosition
    <3>f. IsFirst(q[1], b.todo) <=> q[1] = i
      BY <1>3
    <3>u. q \in Positions(raw, Upto(raw, b.top)) <=> q[1] <= b.top
      BY <2>2, UptoPositions
    <3>2. q \in Done(c) <=> /\ q[1] <= b.top
                            /\ q[1] \notin b.todo \/ (q[1] = i /\ q[2] < b.item + 1)
      BY <3>f, <3>u, <1>d
    <3>3. q \in Done(b) <=> /\ q[1] <= b.top
                            /\ q[1] \notin b.todo \/ (q[1] = i /\ q[2] < b.item)
      BY <3>f, <3>u, <1>d
    <3>4. q = <<i, b.item>> <=> q[1] = i /\ q[2] = b.item
      BY <3>1
    <3>5. q[1] <= b.top /\ q[1] \notin b.todo => q[1] < i
      BY <3>1, <1>1, CommittedType DEF Shape
    <3>6. q \in Done(b) => Before(q, <<i, b.item>>)
      BY <3>3, <3>5 DEF Before
    <3> QED BY <3>1, <3>2, <3>3, <3>4, <3>6, <1>1
  <2> QED BY <2>1, <2>2
<1> QED BY <1>4

LEMMA DoneFinished ==
  ASSUME raw \in Ledger, NEW b \in Call, Shape(b), b.pc = "apply",
         NEW i \in b.todo, IsFirst(i, b.todo), b.item \notin DOMAIN raw[i],
         NEW c, c = Finished(b, i)
  PROVE  Done(c) = Done(b)
<1>1. i \in Committed /\ b.top \in Int /\ b.item \in Int
  BY DEF Shape, Call
<1>2. c.pc = "apply" /\ c.top = b.top /\ c.todo = b.todo \ {i} /\ c.item = 1
  BY FinishedFields
<1>3. \A j : IsFirst(j, b.todo) <=> j = i
  BY DEF IsFirst, Call, Ids
<1>4. \A n \in DOMAIN raw[i] : n < b.item
  <2>1. raw[i] \in Seq(Item)
    BY <1>1, PayloadsAssumption DEF Committed, Stored, Ledger
  <2> QED BY <2>1 DEF Call
<1>d. /\ Done(b) = {r \in Positions(raw, Upto(raw, b.top)) :
                      r[1] \notin b.todo \/ (IsFirst(r[1], b.todo) /\ r[2] < b.item)}
      /\ Done(c) = {r \in Positions(raw, Upto(raw, b.top)) :
                      \/ r[1] \notin b.todo \ {i}
                      \/ IsFirst(r[1], b.todo \ {i}) /\ r[2] < 1}
  BY <1>2 DEF Done
<1>5. ASSUME NEW q
      PROVE  q \in Done(c) <=> q \in Done(b)
  <2>1. CASE q \notin Positions(raw, Committed)
    BY <2>1, <1>2, UptoPositions DEF Done
  <2>2. CASE q \in Positions(raw, Committed)
    <3>1. /\ q[1] \in Committed /\ q[1] \in Int /\ ~(q[2] < 1)
          /\ q[1] = i => q[2] < b.item
      BY <2>2, <1>4, CommittedPosition
    <3>f. IsFirst(q[1], b.todo) <=> q[1] = i
      BY <1>3
    <3>u. q \in Positions(raw, Upto(raw, b.top)) <=> q[1] <= b.top
      BY <2>2, UptoPositions
    <3>2. q \in Done(c) <=> q[1] <= b.top /\ q[1] \notin b.todo \ {i}
      BY <3>1, <3>u, <1>d
    <3>3. q \in Done(b) <=> /\ q[1] <= b.top
                            /\ q[1] \notin b.todo \/ (q[1] = i /\ q[2] < b.item)
      BY <3>f, <3>u, <1>d
    <3> QED BY <3>1, <3>2, <3>3
  <2> QED BY <2>1, <2>2
<1>6. \A q : q \in Done(c) <=> q \in Done(b)
  BY <1>5
<1> QED BY <1>2, <1>6 DEF Done

LEMMA DoneEnd ==
  ASSUME NEW b, b.pc = "apply", b.todo = {}
  PROVE  Done(b) = Positions(raw, Upto(raw, b.top))
  BY DEF Done

(***************************************************************************)
(* Order: with one writer the cursor and every open call stand at          *)
(* committed raw rows, and the loops walk the ledger in id order.          *)
(***************************************************************************)

OrderInv ==
    /\ TypeOK
    /\ LedgerOrder
    /\ cursor \in {0} \cup Committed
    /\ \A t \in Transformers : Shape(txn[t])

LEMMA OrderFacts ==
  ASSUME OrderInv
  PROVE  /\ raw \in Ledger /\ table \in Table /\ cursor \in {0} \cup Committed
         /\ \A t \in Transformers : txn[t] \in Call /\ Shape(txn[t])
  BY DEF OrderInv, TypeOK, LedgerTypeOK

LEMMA IdleShape == Shape(Idle)
  BY DEF Shape, Idle

\* A ledger step leaves the shape and the positions done of every call alone.
LEMMA CallStable ==
  ASSUME raw \in Ledger, AppendsRaw, NEW c \in Call, Shape(c)
  PROVE  /\ Shape(c)'
         /\ c.pc # "idle" =>
               /\ Done(c)' = Done(c)
               /\ \A q \in Done(c) : ItemAt(raw', q) = ItemAt(raw, q)
<1>1. c.pc \in {"idle", "fetch", "apply"}
  BY DEF Call
<1>2. Committed \subseteq Committed'
  <2>1. 0 \in {0} \cup Committed
    OBVIOUS
  <2> QED BY <2>1, RawStable
<1>3. CASE c.pc = "apply"
  <2>1. c.top \in {0} \cup Committed
    BY <1>3 DEF Shape
  <2>2. /\ \A j \in Committed' : j <= c.top => j \in Committed
        /\ Positions(raw', Upto(raw', c.top)) = Positions(raw, Upto(raw, c.top))
        /\ \A q \in Positions(raw, Upto(raw, c.top)) : ItemAt(raw', q) = ItemAt(raw, q)
    BY <2>1, RawStable
  <2>3. Shape(c)'
    BY <1>2, <1>3, <2>2 DEF Shape
  <2>4. Done(c)' = Done(c) /\ Done(c) \subseteq Positions(raw, Upto(raw, c.top))
    BY <1>3, <2>2 DEF Done
  <2> QED BY <2>2, <2>3, <2>4
<1>4. CASE c.pc = "fetch"
  <2>1. c.last \in {0} \cup Committed
    BY <1>4 DEF Shape
  <2>2. /\ Positions(raw', Upto(raw', c.last)) = Positions(raw, Upto(raw, c.last))
        /\ \A q \in Positions(raw, Upto(raw, c.last)) : ItemAt(raw', q) = ItemAt(raw, q)
    BY <2>1, RawStable
  <2>3. Shape(c)'
    BY <1>2, <1>4 DEF Shape
  <2> QED BY <1>4, <2>2, <2>3 DEF Done
<1>5. CASE c.pc = "idle"
  BY <1>5 DEF Shape
<1> QED BY <1>1, <1>3, <1>4, <1>5

LEMMA OrderInvStep ==
  ASSUME SingleWriter, OrderInv, [Next]_vars
  PROVE  OrderInv'
<1>0. TypeOK' /\ raw \in Ledger /\ \A t \in Transformers : txn[t] \in Call
  BY TypeStep DEF OrderInv, TypeOK, LedgerTypeOK
<1>1. CASE LedgerNext /\ UNCHANGED <<cursor, table, txn, failures>>
  <2>1. LedgerOrder' /\ AppendsRaw
    BY <1>1, OrderStep DEF OrderInv, TypeOK
  <2>2. cursor' \in {0} \cup Committed'
    BY <1>0, <1>1, <2>1, RawStable DEF OrderInv
  <2>3. ASSUME NEW t \in Transformers PROVE Shape(txn[t])'
    <3>1. PICK c \in Call : c = txn[t]
      BY <1>0
    <3>2. Shape(c)'
      BY <1>0, <2>1, <3>1, CallStable DEF OrderInv
    <3> QED BY <1>1, <3>1, <3>2 DEF Shape
  <2> QED BY <1>0, <2>1, <2>2, <2>3 DEF OrderInv
<1>2. ASSUME NEW t \in Transformers, TransformStep(t) \/ Fail(t)
      PROVE  OrderInv'
  <2>1. CASE AdvanceCursor(t)
    <3>1. UNCHANGED <<nextId, raw, inserting>> /\ cursor' = txn[t].top
      BY <2>1 DEF AdvanceCursor, ledgerVars
    <3>2. LedgerOrder' /\ Committed' = Committed
      BY <3>1 DEF OrderInv, LedgerOrder, Committed
    <3>3. cursor' \in {0} \cup Committed'
      BY <2>1, <3>1, <3>2 DEF AdvanceCursor, OrderInv, Shape
    <3>4. txn'[t] = Idle /\ \A u \in Transformers \ {t} : txn'[u] = txn[u]
      BY <2>1 DEF AdvanceCursor, OrderInv, TypeOK
    <3>5. \A u \in Transformers : Shape(txn[u])'
      BY <3>2, <3>4, IdleShape DEF OrderInv, Shape
    <3> QED BY <1>0, <3>2, <3>3, <3>5 DEF OrderInv
  <2>2. CASE ~AdvanceCursor(t)
    <3>1. UNCHANGED <<nextId, raw, inserting, cursor, table>>
      BY <1>2, <2>2, StepIsMove DEF OrderInv
    <3>2. PICK c : Move(txn[t], c) /\ txn' = [txn EXCEPT ![t] = c]
      BY <1>2, <2>2, StepIsMove DEF OrderInv
    <3>3. Shape(c)
      BY <1>0, <3>2, ShapeMove DEF OrderInv
    <3>4. LedgerOrder' /\ Committed' = Committed /\ cursor' = cursor
      BY <3>1 DEF OrderInv, LedgerOrder, Committed
    <3>5. txn'[t] = c /\ \A u \in Transformers \ {t} : txn'[u] = txn[u]
      BY <3>2 DEF OrderInv, TypeOK
    <3>6. \A u \in Transformers : Shape(txn[u])'
      BY <3>3, <3>4, <3>5 DEF OrderInv, Shape
    <3> QED BY <1>0, <3>4, <3>6 DEF OrderInv
  <2> QED BY <2>1, <2>2
<1>3. CASE UNCHANGED vars
  BY <1>0, <1>3 DEF vars, OrderInv, LedgerOrder, Committed, Shape
<1> QED BY <1>1, <1>2, <1>3 DEF Next

LEMMA OrderInvInit ==
  ASSUME Init
  PROVE  OrderInv /\ Committed = {}
<1>1. Committed = {} /\ (\A w \in Writers : inserting[w] = NoInsert) /\ cursor = 0
  BY DEF Init, LedgerInit, Committed, Stored
<1>2. \A t \in Transformers : txn[t] = Idle
  BY DEF Init
<1> QED BY <1>1, <1>2, TypeInit, IdleShape DEF OrderInv, LedgerOrder

(***************************************************************************)
(* The high-water mark, for any number of transformers: what is below the  *)
(* cursor, or done by an open call, is clean and has its domain rows.      *)
(***************************************************************************)

Prefix(id) == Positions(raw, Upto(raw, id))

Clean(P)        == \A q \in P : ItemAt(raw, q) # Malformed
Covered(tbl, P) == \A q \in P : ItemAt(raw, q) \in PayloadRow =>
                                    tbl[ItemAt(raw, q).key] # NoRow

CallCovered(c) ==
    c.pc # "idle" => Clean(Done(c)) /\ Covered(Overlay(c.writes), Done(c))

CoverInv ==
    /\ OrderInv
    /\ Clean(Prefix(cursor)) /\ Covered(table, Prefix(cursor))
    /\ \A t \in Transformers : CallCovered(txn[t])

LEMMA OverlayNothing ==
  ASSUME table \in Table
  PROVE  Overlay(NoWrites) = table
  BY DEF Overlay, NoWrites, Table

LEMMA OverlayUpsert ==
  ASSUME NEW ws \in Table, NEW k \in Keys, NEW row \in DomainRow
  PROVE  Overlay([ws EXCEPT ![k] = row]) = [Overlay(ws) EXCEPT ![k] = row]
<1>1. row # NoRow
  BY AbsentAssumption
<1>2. ASSUME NEW l \in Keys
      PROVE  Overlay([ws EXCEPT ![k] = row])[l] = [Overlay(ws) EXCEPT ![k] = row][l]
  BY <1>1 DEF Overlay, Table
<1> QED BY <1>2 DEF Overlay

LEMMA CoverMove ==
  ASSUME raw \in Ledger, table \in Table, cursor \in {0} \cup Committed,
         Clean(Prefix(cursor)), Covered(table, Prefix(cursor)),
         NEW b \in Call, Shape(b), CallCovered(b),
         NEW c, Move(b, c)
  PROVE  CallCovered(c)
<1>1. CASE c = Idle
  BY <1>1 DEF CallCovered, Idle
<1>2. CASE c = Started(cursor)
  <2>1. cursor \in 0..MaxId
    BY CommittedType, MaxIdAssumption
  <2>2. c.pc = "fetch" /\ c.last = cursor /\ c.writes = NoWrites
    BY <1>2, <2>1, StartedFields
  <2>3. Done(c) = Prefix(cursor)
    BY <2>2 DEF Done, Prefix
  <2> QED BY <2>2, <2>3, OverlayNothing DEF CallCovered
<1>3. ASSUME b.pc = "fetch", NEW top \in Committed, top > b.last,
             c = Fetched(b, top, {i \in Committed : i > b.last /\ i <= top})
      PROVE  CallCovered(c)
  <2>1. top \in 0..MaxId /\ {i \in Committed : i > b.last /\ i <= top} \in SUBSET Ids
    BY CommittedType
  <2>2. c.writes = b.writes
    BY <1>3, <2>1, FetchedFields
  <2>3. Done(c) = Done(b)
    BY <1>3, DoneFetched
  <2> QED BY <1>3, <2>2, <2>3 DEF CallCovered
<1>4. ASSUME b.pc = "apply", NEW i \in b.todo, IsFirst(i, b.todo),
             b.item \in DOMAIN raw[i], ItemAt(raw, <<i, b.item>>) = NonDict, c = Skipped(b)
      PROVE  CallCovered(c)
  <2>1. /\ c.pc = b.pc /\ c.top = b.top /\ c.todo = b.todo /\ c.item = b.item + 1
        /\ c.writes = b.writes
    BY <1>4, SkippedFields
  <2>2. Done(c) = Done(b) \cup {<<i, b.item>>}
    BY <1>4, <2>1, DoneItem
  <2> QED BY <1>4, <2>1, <2>2, ItemAssumption DEF CallCovered, Clean, Covered
<1>5. ASSUME b.pc = "apply", NEW i \in b.todo, IsFirst(i, b.todo),
             b.item \in DOMAIN raw[i], ItemAt(raw, <<i, b.item>>) \in PayloadRow,
             c = Upserted(b, ItemAt(raw, <<i, b.item>>).key, RowOf(raw, <<i, b.item>>))
      PROVE  CallCovered(c)
  <2> DEFINE p == <<i, b.item>>  k == ItemAt(raw, p).key  row == RowOf(raw, p)
  <2>1. i \in Ids /\ b.writes \in Table
    BY DEF Call
  <2>2. k \in Keys /\ row \in DomainRow /\ row # NoRow
    BY <1>5, <2>1, RowOfType
  <2>3. /\ c.pc = b.pc /\ c.top = b.top /\ c.todo = b.todo /\ c.item = b.item + 1
        /\ c.writes = [b.writes EXCEPT ![k] = row]
    BY <1>5, <2>2, UpsertedFields
  <2>4. Done(c) = Done(b) \cup {p}
    BY <1>5, <2>3, DoneItem
  <2>5. ItemAt(raw, p) \in PayloadRow
    BY <1>5
  <2> HIDE DEF row, p
  <2>6. Overlay(c.writes) = [Overlay(b.writes) EXCEPT ![k] = row]
    BY <2>1, <2>2, <2>3, OverlayUpsert
  <2>7. ASSUME NEW l \in Keys, Overlay(b.writes)[l] # NoRow \/ l = k
        PROVE  Overlay(c.writes)[l] # NoRow
    BY <2>2, <2>6, <2>7 DEF Overlay
  <2>8. Clean(Done(c))
    BY <1>5, <2>4, <2>5, ItemAssumption DEF CallCovered, Clean
  <2>9. Covered(Overlay(c.writes), Done(c))
    BY <1>5, <2>4, <2>7 DEF CallCovered, Covered, PayloadRow
  <2> QED BY <2>8, <2>9 DEF CallCovered
<1>6. ASSUME b.pc = "apply", NEW i \in b.todo, IsFirst(i, b.todo),
             b.item \notin DOMAIN raw[i], c = Finished(b, i)
      PROVE  CallCovered(c)
  <2>1. c.writes = b.writes /\ Done(c) = Done(b)
    BY <1>6, FinishedFields, DoneFinished
  <2> QED BY <1>6, <2>1 DEF CallCovered
<1> QED BY <1>1, <1>2, <1>3, <1>4, <1>5, <1>6 DEF Move

LEMMA CoverStep ==
  ASSUME SingleWriter, CoverInv, [Next]_vars
  PROVE  CoverInv'
<1>0. /\ OrderInv' /\ raw \in Ledger /\ table \in Table /\ cursor \in {0} \cup Committed
      /\ \A t \in Transformers : txn[t] \in Call /\ Shape(txn[t])
  BY OrderInvStep, OrderFacts DEF CoverInv
<1>1. CASE LedgerNext /\ UNCHANGED <<cursor, table, txn, failures>>
  <2>1. AppendsRaw
    BY <1>1, OrderStep DEF CoverInv, OrderInv, TypeOK
  <2>2. (Clean(Prefix(cursor)) /\ Covered(table, Prefix(cursor)))'
    <3>1. /\ Positions(raw', Upto(raw', cursor)) = Positions(raw, Upto(raw, cursor))
          /\ \A q \in Positions(raw, Upto(raw, cursor)) : ItemAt(raw', q) = ItemAt(raw, q)
      BY <1>0, <2>1, RawStable
    <3> QED BY <1>1, <3>1 DEF CoverInv, Prefix, Clean, Covered
  <2>3. ASSUME NEW t \in Transformers PROVE CallCovered(txn[t])'
    <3>1. PICK c \in Call : c = txn[t]
      BY <1>0
    <3>2. c.pc # "idle" => /\ Done(c)' = Done(c)
                           /\ \A q \in Done(c) : ItemAt(raw', q) = ItemAt(raw, q)
      BY <1>0, <2>1, <3>1, CallStable
    <3>3. CallCovered(c) /\ Overlay(c.writes)' = Overlay(c.writes)
      BY <1>1, <3>1 DEF CoverInv, Overlay
    <3>4. CallCovered(c)'
      BY <3>2, <3>3 DEF CallCovered, Clean, Covered
    <3> QED BY <1>1, <3>1, <3>4 DEF CallCovered, Done, Overlay
  <2> QED BY <1>0, <2>2, <2>3 DEF CoverInv
<1>2. ASSUME NEW t \in Transformers, TransformStep(t) \/ Fail(t)
      PROVE  CoverInv'
  <2>1. CASE AdvanceCursor(t)
    <3>1. /\ raw' = raw /\ cursor' = txn[t].top /\ table' = Overlay(txn[t].writes)
          /\ txn[t].pc = "apply" /\ txn[t].todo = {} /\ txn' = [txn EXCEPT ![t] = Idle]
      BY <2>1 DEF AdvanceCursor, ledgerVars
    <3>2. Prefix(cursor)' = Done(txn[t]) /\ CallCovered(txn[t])
      BY <3>1, DoneEnd DEF Prefix, CoverInv
    <3>3. (Clean(Prefix(cursor)) /\ Covered(table, Prefix(cursor)))'
      BY <3>1, <3>2 DEF CallCovered, Clean, Covered
    <3>4. \A k \in Keys : table[k] # NoRow => table'[k] # NoRow
      BY <3>1 DEF Overlay
    <3>5. ASSUME NEW u \in Transformers PROVE CallCovered(txn[u])'
      <4>1. CASE u = t
        <5>1. txn'[u] = Idle
          BY <1>0, <3>1, <4>1 DEF CoverInv, OrderInv, TypeOK
        <5> QED BY <5>1 DEF CallCovered, Idle
      <4>2. CASE u # t
        <5>1. txn'[u] = txn[u] /\ Done(txn[u])' = Done(txn[u])
          BY <1>0, <3>1, <4>2 DEF CoverInv, OrderInv, TypeOK, Done
        <5>2. \A k \in Keys : Overlay(txn[u].writes)[k] # NoRow =>
                                  Overlay(txn[u].writes)'[k] # NoRow
          BY <3>4, <5>1 DEF Overlay
        <5>3. CallCovered(txn[u])
          BY DEF CoverInv
        <5> QED BY <3>1, <5>1, <5>2, <5>3 DEF CallCovered, Clean, Covered, PayloadRow
      <4> QED BY <4>1, <4>2
    <3> QED BY <1>0, <3>3, <3>5 DEF CoverInv
  <2>2. CASE ~AdvanceCursor(t)
    <3>1. UNCHANGED <<nextId, raw, inserting, cursor, table>>
      BY <1>2, <2>2, StepIsMove DEF CoverInv, OrderInv
    <3>2. PICK c : Move(txn[t], c) /\ txn' = [txn EXCEPT ![t] = c]
      BY <1>2, <2>2, StepIsMove DEF CoverInv, OrderInv
    <3>3. CallCovered(c)
      BY <1>0, <3>2, CoverMove DEF CoverInv
    <3>4. txn'[t] = c /\ \A u \in Transformers \ {t} : txn'[u] = txn[u]
      BY <3>2 DEF CoverInv, OrderInv, TypeOK
    <3>5. \A u \in Transformers : CallCovered(txn'[u])
      BY <3>3, <3>4 DEF CoverInv
    <3>6. \A u \in Transformers : CallCovered(txn[u])'
      BY <3>1, <3>5 DEF CallCovered, Clean, Covered, Done, Overlay
    <3>7. (Clean(Prefix(cursor)) /\ Covered(table, Prefix(cursor)))'
      BY <3>1 DEF CoverInv, Clean, Covered, Prefix
    <3> QED BY <1>0, <3>6, <3>7 DEF CoverInv
  <2> QED BY <2>1, <2>2
<1>3. CASE UNCHANGED vars
  <2>1. /\ raw' = raw /\ cursor' = cursor /\ table' = table /\ txn' = txn
    BY <1>3 DEF vars
  <2> QED BY <1>0, <2>1
          DEF CoverInv, CallCovered, Clean, Covered, Done, Overlay, Prefix, Committed
<1> QED BY <1>1, <1>2, <1>3 DEF Next

LEMMA EmptyPrefix ==
  ASSUME Init
  PROVE  Prefix(cursor) = {}
<1>1. Upto(raw, cursor) = {}
  BY OrderInvInit DEF Committed, Upto
<1> QED BY <1>1 DEF Prefix, Positions

LEMMA CoverInit ==
  ASSUME Init
  PROVE  CoverInv
<1>1. \A t \in Transformers : txn[t] = Idle
  BY DEF Init
<1>2. \A t \in Transformers : CallCovered(txn[t])
  BY <1>1 DEF CallCovered, Idle
<1> QED BY <1>2, OrderInvInit, EmptyPrefix DEF CoverInv, Clean, Covered

\* An item of a raw row at or below the cursor is a position of the prefix.
LEMMA PrefixItem ==
  ASSUME NEW i \in Upto(raw, cursor), NEW n \in DOMAIN raw[i]
  PROVE  <<i, n>> \in Prefix(cursor) /\ ItemAt(raw, <<i, n>>) = raw[i][n]
  BY PositionElements DEF Prefix, ItemAt

\* With one writer every key that a raw row at or below the cursor names has a
\* domain row, however many transformers run.
THEOREM HighWaterMarkHolds ==
  ASSUME SingleWriter
  PROVE  Spec => []HighWaterMark
<1>1. Init => CoverInv
  BY CoverInit
<1>2. CoverInv /\ [Next]_vars => CoverInv'
  BY CoverStep
<1>3. CoverInv => HighWaterMark
  BY PrefixItem DEF CoverInv, Covered, HighWaterMark
<1> QED BY <1>1, <1>2, <1>3, PTL DEF Spec

\* With one writer the cursor never passes a raw row with a malformed item.
THEOREM NoPoisonPassedHolds ==
  ASSUME SingleWriter
  PROVE  Spec => []NoPoisonPassed
<1>1. Init => CoverInv
  BY CoverInit
<1>2. CoverInv /\ [Next]_vars => CoverInv'
  BY CoverStep
<1>3. CoverInv => NoPoisonPassed
  BY PrefixItem DEF CoverInv, Clean, NoPoisonPassed, Poisoned
<1> QED BY <1>1, <1>2, <1>3, PTL DEF Spec

(***************************************************************************)
(* One writer and one transformer: the table is the last-write-wins view   *)
(* of the prefix, and the open call's own view, its writes over the table, *)
(* that of the positions it has done.                                      *)
(***************************************************************************)

CallView(c) ==
    c.pc # "idle" => c.last = cursor /\ IsView(Overlay(c.writes), raw, Done(c))

ViewInv ==
    /\ CoverInv
    /\ IsView(table, raw, Prefix(cursor))
    /\ \A t \in Transformers : CallView(txn[t])

LEMMA ViewMove ==
  ASSUME raw \in Ledger, table \in Table, cursor \in {0} \cup Committed,
         IsView(table, raw, Prefix(cursor)),
         NEW b \in Call, Shape(b), CallView(b),
         NEW c, Move(b, c)
  PROVE  CallView(c)
<1>1. CASE c = Idle
  BY <1>1 DEF CallView, Idle
<1>2. CASE c = Started(cursor)
  <2>1. cursor \in 0..MaxId
    BY CommittedType, MaxIdAssumption
  <2>2. c.pc = "fetch" /\ c.last = cursor /\ c.writes = NoWrites
    BY <1>2, <2>1, StartedFields
  <2>3. Done(c) = Prefix(cursor)
    BY <2>2 DEF Done, Prefix
  <2> QED BY <2>2, <2>3, OverlayNothing DEF CallView
<1>3. ASSUME b.pc = "fetch", NEW top \in Committed, top > b.last,
             c = Fetched(b, top, {i \in Committed : i > b.last /\ i <= top})
      PROVE  CallView(c)
  <2>1. top \in 0..MaxId /\ {i \in Committed : i > b.last /\ i <= top} \in SUBSET Ids
    BY CommittedType
  <2>2. c.writes = b.writes /\ c.last = b.last
    BY <1>3, <2>1, FetchedFields
  <2>3. Done(c) = Done(b)
    BY <1>3, DoneFetched
  <2> QED BY <1>3, <2>2, <2>3 DEF CallView
<1>4. ASSUME b.pc = "apply", NEW i \in b.todo, IsFirst(i, b.todo),
             b.item \in DOMAIN raw[i], ItemAt(raw, <<i, b.item>>) = NonDict, c = Skipped(b)
      PROVE  CallView(c)
  <2>1. /\ c.pc = b.pc /\ c.top = b.top /\ c.todo = b.todo /\ c.item = b.item + 1
        /\ c.writes = b.writes /\ c.last = b.last
    BY <1>4, SkippedFields
  <2>2. Done(c) = Done(b) \cup {<<i, b.item>>}
    BY <1>4, <2>1, DoneItem
  <2>3. ItemAt(raw, <<i, b.item>>) \notin PayloadRow
    BY <1>4, ItemAssumption
  <2>4. IsView(Overlay(b.writes), raw, Done(b)) /\ b.last = cursor
    BY <1>4 DEF CallView
  <2> QED BY <2>1, <2>2, <2>3, <2>4, ViewSkip DEF CallView
<1>5. ASSUME b.pc = "apply", NEW i \in b.todo, IsFirst(i, b.todo),
             b.item \in DOMAIN raw[i], ItemAt(raw, <<i, b.item>>) \in PayloadRow,
             c = Upserted(b, ItemAt(raw, <<i, b.item>>).key, RowOf(raw, <<i, b.item>>))
      PROVE  CallView(c)
  <2> DEFINE p == <<i, b.item>>  k == ItemAt(raw, p).key  row == RowOf(raw, p)
  <2>1. i \in Ids /\ b.writes \in Table
    BY DEF Call
  <2>2. k \in Keys /\ row \in DomainRow
    BY <1>5, <2>1, RowOfType
  <2>3. /\ c.pc = b.pc /\ c.top = b.top /\ c.todo = b.todo /\ c.item = b.item + 1
        /\ c.writes = [b.writes EXCEPT ![k] = row] /\ c.last = b.last
    BY <1>5, <2>2, UpsertedFields
  <2>4. Done(c) = Done(b) \cup {p} /\ \A q \in Done(b) : Before(q, p)
    BY <1>5, <2>3, DoneItem
  <2>5. ItemAt(raw, p) \in PayloadRow
    BY <1>5
  <2>6. IsView(Overlay(b.writes), raw, Done(b)) /\ b.last = cursor
    BY <1>5 DEF CallView
  <2>7. Overlay(b.writes) \in Table
    BY <2>1 DEF Overlay, Table
  <2> HIDE DEF p
  <2>8. IsView([Overlay(b.writes) EXCEPT ![k] = row], raw, Done(b) \cup {p})
    BY <2>4, <2>5, <2>6, <2>7, ViewUpsert
  <2> HIDE DEF k, row
  <2>9. Overlay(c.writes) = [Overlay(b.writes) EXCEPT ![k] = row]
    BY <2>1, <2>2, <2>3, OverlayUpsert
  <2> QED BY <2>3, <2>4, <2>6, <2>8, <2>9 DEF CallView
<1>6. ASSUME b.pc = "apply", NEW i \in b.todo, IsFirst(i, b.todo),
             b.item \notin DOMAIN raw[i], c = Finished(b, i)
      PROVE  CallView(c)
  <2>1. c.writes = b.writes /\ c.last = b.last /\ Done(c) = Done(b)
    BY <1>6, FinishedFields, DoneFinished
  <2> QED BY <1>6, <2>1 DEF CallView
<1> QED BY <1>1, <1>2, <1>3, <1>4, <1>5, <1>6 DEF Move

\* The commit moves the cursor forward, to a prefix the new table is a view of.
LEMMA AdvanceFacts ==
  ASSUME ViewInv, NEW t \in Transformers, AdvanceCursor(t)
  PROVE  /\ raw' = raw /\ cursor' \in Committed /\ cursor' > cursor
         /\ table' = Overlay(txn[t].writes) /\ table' \in Table
         /\ Prefix(cursor)' = Done(txn[t])
         /\ IsView(table', raw, Done(txn[t]))
         /\ txn' = [txn EXCEPT ![t] = Idle]
<1>1. /\ raw' = raw /\ cursor' = txn[t].top /\ table' = Overlay(txn[t].writes)
      /\ txn[t].pc = "apply" /\ txn[t].todo = {} /\ txn' = [txn EXCEPT ![t] = Idle]
  BY DEF AdvanceCursor, ledgerVars
<1>2. OrderInv /\ txn[t] \in Call /\ Shape(txn[t]) /\ CallView(txn[t])
  BY OrderFacts DEF ViewInv, CoverInv
<1>3. txn[t].top \in Committed /\ txn[t].last = cursor /\ txn[t].last < txn[t].top
  BY <1>1, <1>2 DEF Shape, CallView
<1>4. Prefix(cursor)' = Done(txn[t]) /\ IsView(Overlay(txn[t].writes), raw, Done(txn[t]))
  BY <1>1, <1>2, DoneEnd DEF Prefix, CallView
<1>5. table' \in Table
  BY <1>1, <1>2, OverlayType DEF OrderInv
<1> QED BY <1>1, <1>2, <1>3, <1>4, <1>5 DEF Call

LEMMA ViewStep ==
  ASSUME SingleWriter, SingleTransformer, ViewInv, [Next]_vars
  PROVE  ViewInv'
<1>0. /\ CoverInv' /\ raw \in Ledger /\ table \in Table /\ cursor \in {0} \cup Committed
      /\ \A t \in Transformers : txn[t] \in Call /\ Shape(txn[t])
  BY CoverStep, OrderFacts DEF ViewInv, CoverInv
<1>1. CASE LedgerNext /\ UNCHANGED <<cursor, table, txn, failures>>
  <2>1. AppendsRaw
    BY <1>1, OrderStep DEF ViewInv, CoverInv, OrderInv, TypeOK
  <2>2. IsView(table, raw, Prefix(cursor))'
    <3>1. /\ Positions(raw', Upto(raw', cursor)) = Positions(raw, Upto(raw, cursor))
          /\ \A q \in Positions(raw, Upto(raw, cursor)) : ItemAt(raw', q) = ItemAt(raw, q)
      BY <1>0, <2>1, RawStable
    <3>2. IsView(table, raw, Positions(raw, Upto(raw, cursor)))
      BY DEF ViewInv, Prefix
    <3>3. IsView(table, raw', Positions(raw, Upto(raw, cursor)))
      BY <3>1, <3>2, ViewStable
    <3>4. table' = table /\ Prefix(cursor)' = Positions(raw, Upto(raw, cursor))
      BY <1>1, <3>1 DEF Prefix
    <3> QED BY <3>3, <3>4
  <2>3. ASSUME NEW t \in Transformers PROVE CallView(txn[t])'
    <3>1. PICK c \in Call : c = txn[t]
      BY <1>0
    <3>2. c.pc # "idle" => /\ Done(c)' = Done(c)
                           /\ \A q \in Done(c) : ItemAt(raw', q) = ItemAt(raw, q)
      BY <1>0, <2>1, <3>1, CallStable
    <3>3. CallView(c) /\ Overlay(c.writes)' = Overlay(c.writes) /\ cursor' = cursor
      BY <1>1, <3>1 DEF ViewInv, Overlay
    <3>4. ASSUME c.pc # "idle"
          PROVE  IsView(Overlay(c.writes), raw', Done(c))
      BY <3>2, <3>3, <3>4, ViewStable DEF CallView
    <3>5. CallView(c)'
      BY <3>2, <3>3, <3>4 DEF CallView
    <3>6. txn'[t] = c
      BY <1>1, <3>1
    <3> QED BY <3>5, <3>6 DEF CallView, Done, Overlay
  <2> QED BY <1>0, <2>2, <2>3 DEF ViewInv
<1>2. ASSUME NEW t \in Transformers, TransformStep(t) \/ Fail(t)
      PROVE  ViewInv'
  <2>0. \A u \in Transformers : u = t
    BY DEF SingleTransformer
  <2>1. CASE AdvanceCursor(t)
    <3>1. txn'[t] = Idle
      BY <1>0, <2>1, AdvanceFacts DEF ViewInv, CoverInv, OrderInv, TypeOK
    <3>2. \A u \in Transformers : CallView(txn[u])'
      BY <2>0, <3>1 DEF CallView, Idle
    <3>3. IsView(table, raw, Prefix(cursor))'
      BY <2>1, AdvanceFacts
    <3> QED BY <1>0, <3>2, <3>3 DEF ViewInv
  <2>2. CASE ~AdvanceCursor(t)
    <3>1. UNCHANGED <<nextId, raw, inserting, cursor, table>>
      BY <1>2, <2>2, StepIsMove DEF ViewInv, CoverInv, OrderInv
    <3>2. PICK c : Move(txn[t], c) /\ txn' = [txn EXCEPT ![t] = c]
      BY <1>2, <2>2, StepIsMove DEF ViewInv, CoverInv, OrderInv
    <3>3. CallView(c)
      BY <1>0, <3>2, ViewMove DEF ViewInv
    <3>4. txn'[t] = c
      BY <3>2 DEF ViewInv, CoverInv, OrderInv, TypeOK
    <3>5. \A u \in Transformers : CallView(txn[u])'
      BY <2>0, <3>1, <3>3, <3>4 DEF CallView, Done, Overlay
    <3>6. IsView(table, raw, Prefix(cursor))'
      BY <3>1 DEF ViewInv, Prefix
    <3> QED BY <1>0, <3>5, <3>6 DEF ViewInv
  <2> QED BY <2>1, <2>2
<1>3. CASE UNCHANGED vars
  <2>1. /\ raw' = raw /\ cursor' = cursor /\ table' = table /\ txn' = txn
    BY <1>3 DEF vars
  <2> QED BY <1>0, <2>1 DEF ViewInv, CallView, Done, Overlay, Prefix
<1> QED BY <1>1, <1>2, <1>3 DEF Next

LEMMA ViewInit ==
  ASSUME Init
  PROVE  ViewInv
<1>1. \A t \in Transformers : txn[t] = Idle
  BY DEF Init
<1>2. \A t \in Transformers : CallView(txn[t])
  BY <1>1 DEF CallView, Idle
<1>3. IsView(table, raw, {})
  BY DEF Init, NoWrites, IsView
<1> QED BY <1>2, <1>3, CoverInit, EmptyPrefix DEF ViewInv

\* With one writer and one transformer the domain table is, in every state, the
\* last-write-wins view of the raw rows up to the cursor.
THEOREM LatestWinsHolds ==
  ASSUME SingleWriter, SingleTransformer
  PROVE  Spec => []LatestWins
<1>1. Init => ViewInv
  BY ViewInit
<1>2. ViewInv /\ [Next]_vars => ViewInv'
  BY ViewStep
<1>3. ViewInv => LatestWins
  BY DEF ViewInv, LatestWins, Prefix
<1> QED BY <1>1, <1>2, <1>3, PTL DEF Spec

LEMMA ForwardStep ==
  ASSUME ViewInv, [Next]_vars
  PROVE  [MovesForward]_vars
<1>0. /\ raw \in Ledger /\ table \in Table /\ cursor \in {0} \cup Committed
      /\ OrderInv /\ Committed \subseteq Int
  BY OrderFacts, CommittedType DEF ViewInv, CoverInv
<1>1. CASE UNCHANGED <<cursor, table>>
  <2>1. ASSUME NEW k \in Keys, table[k] # NoRow
        PROVE  table[k].src >= table[k].src
    BY <1>0, <2>1 DEF Table, DomainRow, Ids
  <2>2. cursor' >= cursor
    BY <1>0, <1>1
  <2>3. \A k \in Keys : table[k] # NoRow =>
            table'[k] # NoRow /\ table'[k].src >= table[k].src
    BY <1>1, <2>1
  <2> QED BY <2>2, <2>3 DEF MovesForward
<1>2. ASSUME NEW t \in Transformers, AdvanceCursor(t)
      PROVE  MovesForward
  <2> DEFINE top == txn[t].top
  <2>1. /\ cursor' > cursor /\ cursor' = top /\ top \in Committed
        /\ table' \in Table /\ IsView(table', raw, Positions(raw, Upto(raw, top)))
    BY <1>2, AdvanceFacts, DoneEnd DEF AdvanceCursor
  <2>2. IsView(table, raw, Prefix(cursor))
    BY DEF ViewInv
  <2>3. Upto(raw, top) \in SUBSET Stored(raw)
    BY DEF Upto
  <2>4. Prefix(cursor) \in SUBSET Positions(raw, Upto(raw, top))
    <3>1. ASSUME NEW q \in Prefix(cursor)
          PROVE  q \in Positions(raw, Upto(raw, top))
      <4>1. q \in Positions(raw, Committed) /\ q[1] <= cursor
        BY <1>0, UptoPositions DEF Prefix
      <4>2. q[1] \in Int /\ cursor \in Int /\ top \in Int
        BY <1>0, <2>1, <4>1, CommittedPosition
      <4>3. q[1] <= top
        BY <2>1, <4>1, <4>2
      <4> QED BY <1>0, <4>1, <4>3, UptoPositions
    <3> QED BY <3>1
  <2> DEFINE P == Prefix(cursor)  Q == Positions(raw, Upto(raw, top))
  <2>5. P \in SUBSET Q /\ IsView(table, raw, P) /\ Q = Positions(raw, Upto(raw, top))
    BY <2>2, <2>4
  <2> HIDE DEF P, Q
  <2>6. PICK new : new = table'
    OBVIOUS
  <2>7. new \in Table /\ IsView(new, raw, Q)
    BY <2>1, <2>5, <2>6
  <2>8. ASSUME NEW k \in Keys, table[k] # NoRow
        PROVE  new[k] # NoRow /\ new[k].src >= table[k].src
    BY <1>0, <2>3, <2>5, <2>7, <2>8, ViewGrows
  <2>9. cursor' >= cursor
    <3>1. cursor \in Int
      BY <1>0
    <3>2. top \in Int /\ cursor' = top
      BY <1>0, <2>1
    <3>3. cursor' > cursor
      BY <2>1
    <3> HIDE DEF top
    <3> QED BY <3>1, <3>2, <3>3
  <2>10. \A k \in Keys : table[k] # NoRow =>
            table'[k] # NoRow /\ table'[k].src >= table[k].src
    BY <2>6, <2>8
  <2> QED BY <2>9, <2>10 DEF MovesForward
<1>3. ASSUME NEW t \in Transformers, TransformStep(t) \/ Fail(t), ~AdvanceCursor(t)
      PROVE  UNCHANGED <<cursor, table>>
  BY <1>0, <1>3, StepIsMove DEF OrderInv
<1> QED BY <1>1, <1>2, <1>3 DEF Next, vars

\* With one writer and one transformer the cursor never goes back and no domain
\* row disappears or is replaced by one from an older raw row.
THEOREM NeverBackHolds ==
  ASSUME SingleWriter, SingleTransformer
  PROVE  Spec => NeverBack
<1>1. Init => ViewInv
  BY ViewInit
<1>2. ViewInv /\ [Next]_vars => ViewInv'
  BY ViewStep
<1>3. ViewInv /\ [Next]_vars => [MovesForward]_vars
  BY ForwardStep
<1> QED BY <1>1, <1>2, <1>3, PTL DEF Spec, NeverBack

(***************************************************************************)
(* Refinement of DomainView.                                               *)
(***************************************************************************)

\* The instance's data operators are those of LedgerView.
LEMMA SameData ==
  /\ View!Ids = Ids
  /\ View!Table = Table
  /\ \A log : View!Stored(log) = Stored(log)
  /\ \A log, c : View!Upto(log, c) = Upto(log, c)
  /\ \A log, S : View!Positions(log, S) = Positions(log, S)
  /\ \A log, i : View!Poisoned(log, i) <=> Poisoned(log, i)
<1>1. View!Ids = Ids
  BY DEF View!Ids, Ids
<1>2. View!DomainRow = DomainRow
  BY <1>1 DEF View!DomainRow, DomainRow
<1>3. View!Table = Table
  BY <1>2 DEF View!Table, Table
<1>4. \A log : View!Stored(log) = Stored(log)
  BY <1>1 DEF View!Stored, Stored
<1>5. \A log, c : View!Upto(log, c) = Upto(log, c)
  BY <1>4 DEF View!Upto, Upto
<1>6. \A log, S : View!Positions(log, S) = Positions(log, S)
  BY DEF View!Positions, Positions
<1>7. \A log, i : View!Poisoned(log, i) <=> Poisoned(log, i)
  BY DEF View!Poisoned, Poisoned
<1> QED BY <1>1, <1>3, <1>4, <1>5, <1>6, <1>7

LEMMA SameView ==
  ASSUME NEW tbl, NEW log, NEW P, IsView(tbl, log, P)
  PROVE  View!IsView(tbl, log, P)
<1>1. \A p : View!ItemAt(log, p) = ItemAt(log, p) /\ View!PayloadRow = PayloadRow
  BY DEF View!ItemAt, ItemAt, View!PayloadRow, PayloadRow
<1>2. \A p, k : View!HasKey(log, p, k) <=> HasKey(log, p, k)
  BY <1>1 DEF View!HasKey, HasKey
<1>3. \A p, q : View!Before(p, q) <=> Before(p, q)
  BY DEF View!Before, Before
<1>4. \A p : View!RowOf(log, p) = RowOf(log, p)
  BY <1>1 DEF View!RowOf, RowOf
<1>5. \A k : {p \in P : View!HasKey(log, p, k)} = {p \in P : HasKey(log, p, k)}
  BY <1>2
<1> QED BY <1>3, <1>4, <1>5 DEF View!IsView, IsView

LEMMA RefinementInit ==
  ASSUME Init
  PROVE  View!Init
<1>1. raw = [i \in View!Ids |-> NoRaw]
  BY SameData DEF Init, LedgerInit
<1> QED BY <1>1 DEF Init, NoWrites, View!Init

LEMMA RefinementStep ==
  ASSUME SingleWriter, ViewInv, [Next]_vars
  PROVE  [View!Next]_View!vars
<1>0. OrderInv /\ CoverInv /\ raw \in Ledger
  BY OrderFacts DEF ViewInv, CoverInv
<1>1. CASE LedgerNext /\ UNCHANGED <<cursor, table, txn, failures>>
  <2>1. AppendsRaw
    BY <1>0, <1>1, OrderStep DEF OrderInv, TypeOK
  <2>2. CASE raw' = raw
    BY <1>1, <2>2 DEF View!vars
  <2>3. ASSUME NEW i \in Ids, NEW p \in Payloads, \A j \in Committed : j < i,
               raw' = [raw EXCEPT ![i] = p]
        PROVE  View!AppendRaw(i)
    BY <1>1, <2>3, SameData DEF View!AppendRaw, Committed
  <2> QED BY <2>1, <2>2, <2>3, SameData DEF AppendsRaw, View!Next
<1>2. ASSUME NEW t \in Transformers, AdvanceCursor(t)
      PROVE  View!Next
  <2> DEFINE top == txn[t].top
  <2>1. /\ raw' = raw /\ cursor' = top /\ top \in Committed /\ top > cursor
        /\ table' \in Table /\ IsView(table', raw, Positions(raw, Upto(raw, top)))
    BY <1>2, AdvanceFacts, DoneEnd DEF AdvanceCursor
  <2>2. Done(txn[t]) = Positions(raw, Upto(raw, top)) /\ Clean(Done(txn[t]))
    BY <1>0, <1>2, DoneEnd DEF AdvanceCursor, CoverInv, CallCovered
  <2> HIDE DEF top
  <2>3. \A i \in Upto(raw, top) : ~Poisoned(raw, i)
    <3>1. ASSUME NEW i \in Upto(raw, top), NEW n \in DOMAIN raw[i]
          PROVE  raw[i][n] # Malformed
      <4>1. <<i, n>> \in Positions(raw, Upto(raw, top))
        BY PositionElements
      <4>2. ItemAt(raw, <<i, n>>) # Malformed
        BY <2>2, <4>1 DEF Clean
      <4> QED BY <4>2 DEF ItemAt
    <3> QED BY <3>1 DEF Poisoned
  <2>4. View!CatchUp(top)
    <3>1. View!IsView(table', raw, View!Positions(raw, View!Upto(raw, top)))
      BY <2>1, SameData, SameView
    <3> QED BY <2>1, <2>3, <3>1, SameData DEF View!CatchUp
  <2> QED BY <2>1, <2>4, SameData DEF View!Next, Committed
<1>3. ASSUME NEW t \in Transformers, TransformStep(t) \/ Fail(t), ~AdvanceCursor(t)
      PROVE  UNCHANGED View!vars
  BY <1>0, <1>3, StepIsMove DEF OrderInv, View!vars
<1>4. CASE UNCHANGED vars
  BY <1>4 DEF vars, View!vars
<1> QED BY <1>1, <1>2, <1>3, <1>4 DEF Next

\* With one writer and one transformer the statements of process_new implement
\* DomainView: cursor and table change together, in order, never past a
\* malformed raw row, and the table is the view of the prefix.
THEOREM DomainViewImplemented ==
  ASSUME SingleWriter, SingleTransformer
  PROVE  Spec => ImplementsDomainView
<1>1. Init => ViewInv /\ View!Init
  BY ViewInit, RefinementInit
<1>2. ViewInv /\ [Next]_vars => ViewInv'
  BY ViewStep
<1>3. ViewInv /\ [Next]_vars => [View!Next]_View!vars
  BY RefinementStep
<1> QED BY <1>1, <1>2, <1>3, PTL DEF Spec, ImplementsDomainView, View!Spec
=============================================================================
