-------------------- MODULE InstitutionalTransform_proofs -------------------
(***************************************************************************)
(* Theorems about InstitutionalTransform, for every value of its constants,*)
(* and their proofs: what the sums are, for any writers and transformers,  *)
(* and what the cursor promises when the raw rows have one writer.         *)
(***************************************************************************)
EXTENDS InstitutionalTransform, RawLedger_proofs, FoldLemmas

(***************************************************************************)
(* The aggregate of a batch.                                               *)
(***************************************************************************)

LEMMA CommittedInt == Committed \subseteq Ids /\ Ids \subseteq Int /\ {0} \cup Committed \subseteq Int
  BY DEF Committed, Stored, Ids

LEMMA NamingElements ==
  ASSUME NEW batch, NEW k, NEW p
  PROVE  p \in Naming(batch, k) <=>
            \E i \in batch : \E n \in DOMAIN raw[i] : p = <<i, n>> /\ HasKey(raw, p, k)
  BY PositionElements DEF Naming

LEMMA NamedByNaming ==
  ASSUME NEW batch, NEW k
  PROVE  /\ \A i \in batch : NamedBy(k, i) => \E p \in Naming(batch, k) : p[1] = i
         /\ \A p \in Naming(batch, k) : p[1] \in batch /\ NamedBy(k, p[1])
<1>1. ASSUME NEW p \in Naming(batch, k)
      PROVE  p[1] \in batch /\ NamedBy(k, p[1])
  BY NamingElements DEF NamedBy
<1>2. ASSUME NEW i \in batch, NamedBy(k, i)
      PROVE  \E p \in Naming(batch, k) : p[1] = i
  <2>1. PICK n \in DOMAIN raw[i] : HasKey(raw, <<i, n>>, k)
    BY <1>2 DEF NamedBy
  <2>2. <<i, n>> \in Naming(batch, k)
    BY <2>1, NamingElements
  <2> QED BY <2>2
<1> QED BY <1>1, <1>2

\* The positions that name a key do not depend on the raw rows that do not.
LEMMA NamingSame ==
  ASSUME NEW S, NEW T, NEW k,
         \A i : NamedBy(k, i) => (i \in S <=> i \in T)
  PROVE  Naming(S, k) = Naming(T, k) /\ Agg(S, k) = Agg(T, k)
<1>1. \A p : p \in Naming(S, k) <=> p \in Naming(T, k)
  BY NamingElements DEF NamedBy
<1>2. Naming(S, k) = Naming(T, k)
  BY <1>1
<1> QED BY <1>2 DEF Agg, Net, BuyMinusSell

\* The items of raw rows that do not change add up to what they added up to.
LEMMA AggStable ==
  ASSUME NEW batch, \A j \in batch : raw'[j] = raw[j], NEW k
  PROVE  Naming(batch, k)' = Naming(batch, k) /\ Agg(batch, k)' = Agg(batch, k)
<1> DEFINE N == Naming(batch, k)
<1>1. \A p : p \in N' <=> p \in N
  BY DEF Naming, Positions, HasKey, ItemAt
<1>2. N' = N
  BY <1>1
<1>3. \A p \in N : ItemAt(raw', p) = ItemAt(raw, p)
  BY NamingElements DEF ItemAt
<1>4. BuyMinusSell(batch, k)' = BuyMinusSell(batch, k)
  BY <1>2, <1>3 DEF BuyMinusSell
<1>5. \A category : Net(batch, k, category)' = Net(batch, k, category)
  BY <1>2, <1>3, <1>4 DEF Net
<1> QED BY <1>2, <1>5 DEF Agg

\* What a position adds is an integer, in one of the four categories.
LEMMA ItemTypes ==
  ASSUME raw \in Ledger, NEW batch \in SUBSET Committed, NEW k,
         NEW p \in Naming(batch, k)
  PROVE  /\ p[1] \in batch /\ p[1] \in Ids
         /\ BuyMinusSell(batch, k)[p] \in Int
         /\ ItemAt(raw, p).val.name \in Names
<1>1. p \in Positions(raw, batch) /\ HasKey(raw, p, k)
  BY DEF Naming
<1>2. ItemAt(raw, p).val \in [name : Names, buy : Int, sell : Int]
  BY <1>1, ValsAssumption DEF HasKey, PayloadRow
<1>3. p[1] \in batch /\ p[1] \in Ids
  BY <1>1, PositionType DEF Committed
<1> QED BY <1>2, <1>3 DEF BuyMinusSell

LEMMA PayloadFinite ==
  ASSUME raw \in Ledger, NEW i \in Committed
  PROVE  IsFiniteSet({i} \X DOMAIN raw[i])
<1> DEFINE n == Len(raw[i])
           f == [m \in 1..n |-> <<i, m>>]
<1>1. raw[i] \in Seq(Item)
  BY PayloadsAssumption DEF Ledger, Committed, Stored
<1>2. n \in Nat /\ DOMAIN raw[i] = 1..n
  BY <1>1
<1> HIDE DEF n
<1>3. f \in Surjection(1..n, {i} \X (1..n))
  BY DEF Surjection
<1>4. 1 \in Int /\ n \in Int
  BY <1>2
<1>5. IsFiniteSet(1..n)
  BY <1>4, FS_Interval
<1> HIDE DEF f
<1>6. IsFiniteSet({i} \X (1..n))
  BY <1>3, <1>5, FS_Surjection
<1> QED BY <1>2, <1>6

\* A batch has finitely many positions: payloads are finite, and a batch is.
LEMMA NamingFinite ==
  ASSUME raw \in Ledger, NEW batch \in SUBSET Committed, NEW k
  PROVE  IsFiniteSet(Naming(batch, k))
<1> DEFINE P(s) == Positions(raw, s)
           C    == {s \in SUBSET batch : ~IsFiniteSet(P(s))}
<1>1. IsFiniteSet(batch)
  <2>1. batch \subseteq 1..MaxId /\ 1 \in Int /\ MaxId \in Int
    BY CommittedInt, MaxIdAssumption DEF Ids
  <2>2. IsFiniteSet(1..MaxId)
    BY <2>1, FS_Interval
  <2> QED BY <2>1, <2>2, FS_Subset
<1>2. C = {}
  <2>1. CASE C # {}
    <3>1. C \in SUBSET SUBSET batch
      OBVIOUS
    <3>2. PICK T \in C : \A U \in C : U \subseteq T => U = T
      <4> HIDE DEF C
      <4> QED BY <1>1, <2>1, <3>1, MinimalSet
    <3>3. T # {}
      <4>1. P({}) = {}
        BY DEF Positions
      <4>2. IsFiniteSet(P({}))
        BY <4>1, FS_EmptySet
      <4> QED BY <4>2
    <3>4. PICK i \in T : TRUE
      BY <3>3
    <3>5. IsFiniteSet(P(T \ {i}))
      <4>1. T \ {i} \in SUBSET batch /\ T \ {i} # T
        BY <3>4
      <4> QED BY <4>1, <3>2
    <3>6. IsFiniteSet({i} \X DOMAIN raw[i])
      <4>1. i \in Committed
        BY <3>4
      <4> QED BY <4>1, PayloadFinite
    <3>7. P(T) = P(T \ {i}) \cup ({i} \X DOMAIN raw[i])
      <4> SUFFICES \A p : p \in P(T) <=> p \in P(T \ {i}) \/ p \in {i} \X DOMAIN raw[i]
        OBVIOUS
      <4>1. \A p : p \in {i} \X DOMAIN raw[i] <=> \E n \in DOMAIN raw[i] : p = <<i, n>>
        OBVIOUS
      <4> QED BY <3>4, <4>1, PositionElements
    <3>8. IsFiniteSet(P(T))
      <4> DEFINE A == P(T \ {i})
                 B == {i} \X DOMAIN raw[i]
      <4>1. IsFiniteSet(A) /\ IsFiniteSet(B) /\ P(T) = A \cup B
        BY <3>5, <3>6, <3>7
      <4>2. IsFiniteSet(A \cup B)
        <5> HIDE DEF A, B, P
        <5> QED BY <4>1, FS_Union
      <4> QED BY <4>1, <4>2
    <3> QED BY <3>8
  <2> QED BY <2>1
<1>3. IsFiniteSet(P(batch))
  BY <1>2
<1>4. Naming(batch, k) \in SUBSET P(batch)
  BY DEF Naming
<1> HIDE DEF P
<1> QED BY <1>3, <1>4, FS_Subset

LEMMA NetType ==
  ASSUME raw \in Ledger, NEW batch \in SUBSET Committed, NEW k, NEW category
  PROVE  Net(batch, k, category) \in Int
<1> DEFINE S == {p \in Naming(batch, k) : Categorize(ItemAt(raw, p).val.name) = category}
           f == BuyMinusSell(batch, k)
<1>1. IsFiniteSet(S)
  <2>1. S \in SUBSET Naming(batch, k)
    OBVIOUS
  <2> HIDE DEF S
  <2> QED BY <2>1, NamingFinite, FS_Subset
<1>2. \A p \in S : f[p] \in Int
  BY ItemTypes
<1>3. SumFunctionOnSet(f, S) \in Int
  <2> HIDE DEF S, f
  <2> QED BY <1>1, <1>2, SumStep
<1> QED BY <1>3 DEF Net

LEMMA BatchMax ==
  ASSUME NEW S \in SUBSET Ids, S # {}
  PROVE  Max(S) \in S /\ \A x \in S : Max(S) >= x
<1>1. IsFiniteSet(Ids)
  <2>1. 1 \in Int /\ MaxId \in Int
    BY MaxIdAssumption
  <2> QED BY <2>1, FS_Interval DEF Ids
<1>2. \A x \in S : x \in Int
  BY DEF Ids
<1>3. IsFiniteSet(S)
  BY <1>1, FS_Subset
<1> QED BY <1>2, <1>3, MaxExists

\* The largest raw id that names k is one of them.
LEMMA SourceType ==
  ASSUME raw \in Ledger, NEW batch \in SUBSET Committed, NEW k, Naming(batch, k) # {}
  PROVE  /\ Agg(batch, k).src \in batch /\ Agg(batch, k).src \in Ids
         /\ NamedBy(k, Agg(batch, k).src)
         /\ \A i \in batch : NamedBy(k, i) => i <= Agg(batch, k).src
<1> DEFINE S == {p[1] : p \in Naming(batch, k)}
<1>1. \A i : i \in S <=> i \in batch /\ NamedBy(k, i)
  BY NamedByNaming
<1>2. S \in SUBSET Ids /\ S # {}
  BY <1>1, CommittedInt
<1>5. Max(S) \in S /\ \A x \in S : Max(S) >= x
  <2> HIDE DEF S
  <2> QED BY <1>2, BatchMax
<1>6. Agg(batch, k).src = Max(S)
  BY DEF Agg
<1> HIDE DEF S
<1> QED BY <1>1, <1>2, <1>5, <1>6 DEF Ids

LEMMA AggType ==
  ASSUME raw \in Ledger, NEW batch \in SUBSET Committed, NEW k, Naming(batch, k) # {}
  PROVE  Agg(batch, k) \in AggRow
<1>1. \A category : Net(batch, k, category) \in Int
  BY NetType
<1>2. Agg(batch, k).src \in Ids
  BY SourceType
<1> QED BY <1>1, <1>2 DEF Agg, AggRow

(***************************************************************************)
(* Any writers and transformers.  What an open call has upserted are the   *)
(* aggregates of its batch, and what the table holds are aggregates of     *)
(* batches of committed raw rows, which never change.                      *)
(***************************************************************************)

AggTable == [Keys -> AggRow \cup {NoRow}]

Call == [pc : {"idle", "fetch", "upsert"}, last : 0..MaxId, batch : SUBSET Ids,
         writes : AggTable]

Sums(tbl, batch) ==
    \A k \in Keys : tbl[k] # NoRow => Naming(batch, k) # {} /\ tbl[k] = Agg(batch, k)

CallSums(c) ==
    /\ c \in Call
    /\ c.batch \subseteq Committed
    /\ c.pc = "upsert" <=> c.batch # {}
    /\ Sums(c.writes, c.batch)

TableSums ==
    \A k \in Keys : table[k] # NoRow =>
        \E batch \in SUBSET Committed : Naming(batch, k) # {} /\ table[k] = Agg(batch, k)

SumInv ==
    /\ LedgerTypeOK
    /\ LedgerFresh
    /\ cursor \in 0..MaxId
    /\ failures \in 0..MaxFailures
    /\ table \in AggTable
    /\ TableSums
    /\ txn \in [Transformers -> Call]
    /\ \A t \in Transformers : CallSums(txn[t])

LEMMA SumInvTypes ==
  ASSUME SumInv
  PROVE  TypeOK
<1>1. \A tbl \in AggTable : IsAggTable(tbl)
  BY DEF AggTable, IsAggTable
<1>2. \A t \in Transformers : CallSums(txn[t])
  BY DEF SumInv
<1> QED BY <1>1, <1>2 DEF SumInv, TypeOK, CallSums, Call

LEMMA IdleSums == CallSums(Idle) /\ Idle \in Call
  BY MaxIdAssumption DEF CallSums, Call, AggTable, Idle, NoWrites, Sums

\* The aggregates of committed rows stay what they are while rows commit.
LEMMA TableSumsStay ==
  ASSUME \A j \in Committed : j \in Committed' /\ raw'[j] = raw[j],
         TableSums, table' = table
  PROVE  TableSums'
<1>1. ASSUME NEW batch \in SUBSET Committed, NEW k
      PROVE  Naming(batch, k)' = Naming(batch, k) /\ Agg(batch, k)' = Agg(batch, k)
  BY AggStable
<1>2. ASSUME NEW k \in Keys, table[k] # NoRow
      PROVE  \E batch \in SUBSET Committed' :
                Naming(batch, k)' # {} /\ table[k] = Agg(batch, k)'
  <2>1. PICK batch \in SUBSET Committed : Naming(batch, k) # {} /\ table[k] = Agg(batch, k)
    BY <1>2 DEF TableSums
  <2>2. batch \in SUBSET Committed'
    BY <2>1
  <2> QED BY <1>1, <2>1, <2>2
<1> QED BY <1>2 DEF TableSums

LEMMA CallSumsStay ==
  ASSUME \A j \in Committed : j \in Committed' /\ raw'[j] = raw[j],
         NEW c, CallSums(c), NEW t, txn'[t] = c
  PROVE  CallSums(txn[t])'
<1>1. ASSUME NEW k
      PROVE  Naming(c.batch, k)' = Naming(c.batch, k) /\ Agg(c.batch, k)' = Agg(c.batch, k)
  BY AggStable DEF CallSums
<1>2. c.batch \subseteq Committed'
  BY DEF CallSums
<1> QED BY <1>1, <1>2 DEF CallSums, Sums

\* A step of one transformer that leaves ledger and table alone.
LEMMA SumCallMoves ==
  ASSUME SumInv, NEW t \in Transformers, NEW c, CallSums(c),
         txn' = [txn EXCEPT ![t] = c], failures' \in 0..MaxFailures,
         UNCHANGED <<ledgerVars, cursor, table>>
  PROVE  SumInv'
<1>1. UNCHANGED <<nextId, raw, inserting, cursor, table>>
  BY DEF ledgerVars
<1>2. Committed' = Committed
  BY <1>1 DEF Committed
<1>3. TableSums'
  BY <1>1, <1>2, TableSumsStay DEF SumInv
<1>4. \A u \in Transformers : txn'[u] = IF u = t THEN c ELSE txn[u]
  BY DEF SumInv
<1>5. txn' \in [Transformers -> Call]
  BY DEF SumInv, CallSums
<1>6. ASSUME NEW u \in Transformers
      PROVE  CallSums(txn[u])'
  <2>1. CallSums(txn'[u])
    BY <1>4 DEF SumInv
  <2> QED BY <1>1, <1>2, <2>1, CallSumsStay
<1>7. LedgerTypeOK' /\ LedgerFresh'
  BY <1>1, <1>2 DEF SumInv, LedgerTypeOK, LedgerFresh
<1> QED BY <1>1, <1>3, <1>5, <1>6, <1>7 DEF SumInv

\* The calls that the steps leave behind.
LEMMA StartedCall ==
  ASSUME NEW id \in 0..MaxId
  PROVE  /\ Started(id) \in Call
         /\ Started(id).pc = "fetch" /\ Started(id).last = id
         /\ Started(id).batch = {} /\ Started(id).writes = NoWrites
  BY IdleSums DEF Started, Idle, Call

LEMMA FetchedCall ==
  ASSUME NEW c \in Call, NEW batch \in SUBSET Ids
  PROVE  /\ Fetched(c, batch) \in Call
         /\ Fetched(c, batch).pc = "upsert" /\ Fetched(c, batch).last = c.last
         /\ Fetched(c, batch).batch = batch /\ Fetched(c, batch).writes = c.writes
  BY DEF Fetched, Call

LEMMA UpsertedCall ==
  ASSUME NEW c \in Call, NEW k \in Keys, NEW row \in AggRow
  PROVE  /\ Upserted(c, k, row) \in Call
         /\ Upserted(c, k, row).pc = c.pc /\ Upserted(c, k, row).last = c.last
         /\ Upserted(c, k, row).batch = c.batch
         /\ \A l \in Keys :
               Upserted(c, k, row).writes[l] = IF l = k THEN row ELSE c.writes[l]
<1> DEFINE w == [c.writes EXCEPT ![k] = row]
<1>1. w \in AggTable /\ \A l \in Keys : w[l] = IF l = k THEN row ELSE c.writes[l]
  BY DEF Call, AggTable
<1>2. Upserted(c, k, row) = [c EXCEPT !.writes = w]
  BY DEF Upserted
<1> HIDE DEF w
<1> QED BY <1>1, <1>2 DEF Call

LEMMA SumStepHolds ==
  ASSUME SumInv, [Next]_vars
  PROVE  SumInv'
<1>0. raw \in Ledger /\ failures \in 0..MaxFailures
  BY DEF SumInv, LedgerTypeOK
<1>1. CASE LedgerNext /\ UNCHANGED <<cursor, table, txn, failures>>
  <2>1. LedgerFresh' /\ \A j \in Committed : j \in Committed' /\ raw'[j] = raw[j]
    BY <1>1, LedgerGrows DEF SumInv
  <2>2. TableSums'
    BY <1>1, <2>1, TableSumsStay DEF SumInv
  <2>3. LedgerTypeOK'
    BY <1>1, LedgerTypeStep DEF SumInv
  <2>4. ASSUME NEW t \in Transformers
        PROVE  CallSums(txn[t])'
    BY <1>1, <2>1, CallSumsStay DEF SumInv
  <2> QED BY <1>1, <2>1, <2>2, <2>3, <2>4 DEF SumInv
<1>2. ASSUME NEW t \in Transformers, TransformStep(t) \/ Fail(t)
      PROVE  SumInv'
  <2>0. CallSums(txn[t]) /\ txn[t] \in Call
    BY DEF SumInv, CallSums
  <2>1. CASE ReadCursor(t)
    <3>1. CallSums(Started(cursor))
      BY StartedCall DEF SumInv, CallSums, Sums, NoWrites
    <3> QED BY <1>0, <2>1, <3>1, SumCallMoves DEF ReadCursor
  <2>2. CASE FetchNewRaw(t)
    <3> DEFINE new == {i \in Committed : i > txn[t].last}
               batch(top) == {i \in new : i <= top}
    <3>0. UNCHANGED <<ledgerVars, cursor, table, failures>> /\ txn[t].pc = "fetch"
      BY <2>2 DEF FetchNewRaw
    <3>1. CASE txn' = [txn EXCEPT ![t] = Idle]
      BY <1>0, <3>0, <3>1, IdleSums, SumCallMoves
    <3>2. ASSUME NEW top \in new,
                 txn' = [txn EXCEPT ![t] = Fetched(txn[t], batch(top))]
          PROVE  SumInv'
      <4> DEFINE b == batch(top)
                 c == Fetched(txn[t], b)
      <4>1. b \subseteq Committed /\ top \in b /\ b \in SUBSET Ids
        <5>1. top \in Int /\ b \subseteq Committed
          BY CommittedInt
        <5>2. top \in b
          BY <5>1
        <5>3. \A i \in b : i \in Ids
          BY <5>1, CommittedInt
        <5> HIDE DEF b
        <5> QED BY <5>1, <5>2, <5>3
      <4>2. txn' = [txn EXCEPT ![t] = c]
        BY <3>2
      <4> HIDE DEF b
      <4>4. /\ c \in Call /\ c.pc = "upsert" /\ c.batch = b
            /\ c.writes = txn[t].writes
        BY <2>0, <4>1, FetchedCall
      <4> HIDE DEF c
      <4>5. \A k \in Keys : txn[t].writes[k] = NoRow
        <5>1. \A k : Naming({}, k) = {}
          BY DEF Naming, Positions
        <5> QED BY <5>1, <2>0, <3>0 DEF CallSums, Sums
      <4>6. CallSums(c)
        <5>1. \A k \in Keys : c.writes[k] = NoRow
          BY <4>4, <4>5
        <5>2. Sums(c.writes, c.batch)
          BY <5>1 DEF Sums
        <5> QED BY <4>1, <4>4, <5>2 DEF CallSums
      <4> QED BY <1>0, <3>0, <4>2, <4>6, SumCallMoves
    <3> QED BY <2>2, <3>1, <3>2 DEF FetchNewRaw
  <2>3. CASE UpsertKey(t)
    <3>1. PICK k \in Keys :
             /\ IsNextKey(txn[t], k)
             /\ txn' = [txn EXCEPT ![t] = Upserted(txn[t], k, Agg(txn[t].batch, k))]
      BY <2>3 DEF UpsertKey
    <3> DEFINE row == Agg(txn[t].batch, k)
               c   == Upserted(txn[t], k, row)
    <3>2. Naming(txn[t].batch, k) # {}
      BY <3>1 DEF IsNextKey, ToUpsert
    <3>3. UNCHANGED <<ledgerVars, cursor, table, failures>>
      BY <2>3 DEF UpsertKey
    <3>4. row \in AggRow
      BY <1>0, <2>0, <3>2, AggType DEF CallSums
    <3>5. CallSums(c)
      <4>1. /\ c \in Call /\ c.pc = txn[t].pc /\ c.batch = txn[t].batch
            /\ \A l \in Keys : c.writes[l] = IF l = k THEN row ELSE txn[t].writes[l]
        <5> HIDE DEF row
        <5> QED BY <2>0, <3>4, UpsertedCall
      <4> HIDE DEF c
      <4> QED BY <2>0, <3>2, <4>1 DEF CallSums, Sums
    <3> QED BY <1>0, <3>1, <3>3, <3>5, SumCallMoves
  <2>4. CASE AdvanceCursor(t)
    <3>1. /\ UNCHANGED <<nextId, raw, inserting, failures>>
          /\ cursor' = Max(txn[t].batch) /\ txn' = [txn EXCEPT ![t] = Idle]
          /\ table' = [k \in Keys |-> IF txn[t].writes[k] = NoRow THEN table[k]
                                      ELSE txn[t].writes[k]]
          /\ txn[t].pc = "upsert"
      BY <2>4 DEF AdvanceCursor, ledgerVars
    <3>2. Committed' = Committed /\ LedgerTypeOK' /\ LedgerFresh'
      BY <3>1 DEF Committed, SumInv, LedgerTypeOK, LedgerFresh
    <3>3. cursor' \in 0..MaxId
      <4> DEFINE b == txn[t].batch
      <4>1. b \subseteq Ids /\ b # {}
        BY <2>0, <3>1, CommittedInt DEF CallSums
      <4> HIDE DEF b
      <4>2. Max(b) \in b
        BY <4>1, BatchMax
      <4> QED BY <3>1, <4>1, <4>2, MaxIdAssumption DEF b, Ids
    <3>4. ASSUME NEW k \in Keys, table'[k] # NoRow
          PROVE  \E batch \in SUBSET Committed :
                    Naming(batch, k) # {} /\ table'[k] = Agg(batch, k)
      <4>1. CASE txn[t].writes[k] = NoRow
        BY <3>1, <3>4, <4>1 DEF SumInv, TableSums
      <4>2. CASE txn[t].writes[k] # NoRow
        BY <2>0, <3>1, <4>2 DEF CallSums, Sums
      <4> QED BY <4>1, <4>2
    <3>5. ASSUME NEW batch \in SUBSET Committed, NEW k
          PROVE  Naming(batch, k)' = Naming(batch, k) /\ Agg(batch, k)' = Agg(batch, k)
      BY <3>1, AggStable
    <3>6. TableSums'
      BY <3>2, <3>4, <3>5 DEF TableSums
    <3>7. ASSUME NEW u \in Transformers
          PROVE  CallSums(txn[u])'
      <4>1. CallSums(txn'[u])
        BY <3>1, IdleSums DEF SumInv
      <4> QED BY <3>1, <3>2, <4>1, CallSumsStay
    <3>8. table' \in AggTable /\ txn' \in [Transformers -> Call]
      BY <2>0, <3>1, IdleSums DEF SumInv, AggTable, Call
    <3> QED BY <1>0, <3>1, <3>2, <3>3, <3>6, <3>7, <3>8 DEF SumInv
  <2>5. CASE DeadlockVictim(t)
    BY <1>0, <2>5, IdleSums, SumCallMoves DEF DeadlockVictim
  <2>6. CASE Fail(t)
    <3>1. failures' \in 0..MaxFailures
      BY <1>0, <2>6, MaxFailuresAssumption DEF Fail
    <3> QED BY <2>6, <3>1, IdleSums, SumCallMoves DEF Fail
  <2> QED BY <1>2, <2>1, <2>2, <2>3, <2>4, <2>5, <2>6 DEF TransformStep
<1>3. CASE UNCHANGED vars
  <2>1. UNCHANGED <<nextId, raw, inserting, cursor, table, txn, failures>>
    BY <1>3 DEF vars
  <2>2. Committed' = Committed /\ LedgerTypeOK' /\ LedgerFresh'
    BY <2>1 DEF Committed, SumInv, LedgerTypeOK, LedgerFresh
  <2>3. TableSums'
    BY <2>1, <2>2, TableSumsStay DEF SumInv
  <2>4. ASSUME NEW u \in Transformers
        PROVE  CallSums(txn[u])'
    BY <2>1, <2>2, CallSumsStay DEF SumInv
  <2> QED BY <2>1, <2>2, <2>3, <2>4 DEF SumInv
<1> QED BY <1>1, <1>2, <1>3 DEF Next

LEMMA SumInit ==
  ASSUME Init
  PROVE  SumInv
<1>1. Committed = {} /\ \A w \in Writers : inserting[w] = NoInsert
  BY DEF Init, LedgerInit, Committed, Stored
<1>2. LedgerTypeOK /\ LedgerFresh
  BY <1>1, MaxIdAssumption DEF Init, LedgerInit, LedgerTypeOK, LedgerFresh, Ledger
<1>3. TableSums /\ \A t \in Transformers : CallSums(txn[t])
  BY IdleSums DEF Init, TableSums, NoWrites
<1> QED BY <1>2, <1>3, MaxIdAssumption, MaxFailuresAssumption, IdleSums DEF Init, SumInv, NoWrites, AggTable

\* Type correctness: whatever runs beside whatever else, the stored sums are
\* integers, their source a raw id, and the cursor an id or 0.
THEOREM TypeCorrect == Spec => []TypeOK
<1>1. Init => SumInv
  BY SumInit
<1>2. SumInv /\ [Next]_vars => SumInv'
  BY SumStepHolds
<1>3. SumInv => TypeOK
  BY SumInvTypes
<1> QED BY <1>1, <1>2, <1>3, PTL DEF Spec

(***************************************************************************)
(* The categories split the named items into disjoint parts.               *)
(***************************************************************************)

LEMMA CategorizeNames ==
  ASSUME NEW name \in Names
  PROVE  /\ Categorize(name) = "foreign" <=> name \in {"Foreign_Investor"}
         /\ Categorize(name) = "trust" <=> name \in {"Investment_Trust"}
         /\ Categorize(name) = "dealer" <=> name \in DealerNames
<1>1. /\ "Foreign_Investor" \notin DealerNames /\ "Investment_Trust" \notin DealerNames
  BY NamesAssumption
<1> QED BY <1>1 DEF Categorize, Names

LEMMA NetIsNetOf ==
  ASSUME raw \in Ledger, NEW i \in Committed, NEW k
  PROVE  /\ Net({i}, k, "foreign") = NetOf(i, k, {"Foreign_Investor"})
         /\ Net({i}, k, "trust") = NetOf(i, k, {"Investment_Trust"})
         /\ Net({i}, k, "dealer") = NetOf(i, k, DealerNames)
<1> DEFINE N == Naming({i}, k)
           name(p) == ItemAt(raw, p).val.name
<1>1. ASSUME NEW p \in N
      PROVE  name(p) \in Names
  BY ItemTypes
<1>2. {p \in N : Categorize(name(p)) = "foreign"} = {p \in N : name(p) \in {"Foreign_Investor"}}
  BY <1>1, CategorizeNames
<1>3. {p \in N : Categorize(name(p)) = "trust"} = {p \in N : name(p) \in {"Investment_Trust"}}
  BY <1>1, CategorizeNames
<1>4. {p \in N : Categorize(name(p)) = "dealer"} = {p \in N : name(p) \in DealerNames}
  BY <1>1, CategorizeNames
<1> QED BY <1>2, <1>3, <1>4 DEF Net, NetOf

\* A set of names in two disjoint parts nets the sum of what the parts net.
LEMMA NetOfSplit ==
  ASSUME raw \in Ledger, NEW i \in Committed, NEW k, NEW A, NEW B, A \cap B = {}
  PROVE  NetOf(i, k, A \cup B) = NetOf(i, k, A) + NetOf(i, k, B)
<1> DEFINE N == Naming({i}, k)
           f == BuyMinusSell({i}, k)
           Of(S) == {p \in N : ItemAt(raw, p).val.name \in S}
<1>1. IsFiniteSet(N)
  BY NamingFinite
<1>2. \A p \in N : f[p] \in Int
  BY ItemTypes
<1>3. Of(A) \in SUBSET N /\ Of(B) \in SUBSET N
  OBVIOUS
<1>4. Of(A \cup B) = Of(A) \cup Of(B) /\ Of(A) \cap Of(B) = {}
  OBVIOUS
<1>5. NetOf(i, k, A \cup B) = SumFunctionOnSet(f, Of(A) \cup Of(B))
  BY <1>4 DEF NetOf
<1>6. /\ NetOf(i, k, A) = SumFunctionOnSet(f, Of(A))
      /\ NetOf(i, k, B) = SumFunctionOnSet(f, Of(B))
  BY DEF NetOf
<1>7. /\ IsFiniteSet(Of(A)) /\ IsFiniteSet(Of(B))
      /\ \A p \in Of(A) \cup Of(B) : f[p] \in Int
  <2> HIDE DEF N, f, Of
  <2> QED BY <1>1, <1>2, <1>3, FS_Subset
<1>8. SumFunctionOnSet(f, Of(A) \cup Of(B))
        = SumFunctionOnSet(f, Of(A)) + SumFunctionOnSet(f, Of(B))
  <2> DEFINE X == Of(A)
             Y == Of(B)
  <2>1. /\ IsFiniteSet(X) /\ IsFiniteSet(Y) /\ X \cap Y = {}
        /\ \A p \in X \cup Y : f[p] \in Int
    BY <1>4, <1>7
  <2> HIDE DEF X, Y, f
  <2>2. SumFunctionOnSet(f, X \cup Y) = SumFunctionOnSet(f, X) + SumFunctionOnSet(f, Y)
    BY <2>1, SumSplit
  <2> QED BY <2>2 DEF X, Y
<1> QED BY <1>5, <1>6, <1>8

\* A key that exactly one committed raw row names has that row's sums.
LEMMA SumInvExact ==
  ASSUME SumInv
  PROVE  OneFetchExact
<1>0. raw \in Ledger
  BY DEF SumInv, LedgerTypeOK
<1> SUFFICES ASSUME NEW k \in Keys, NEW i \in Committed,
                    \A j \in Committed : NamedBy(k, j) <=> j = i, table[k] # NoRow
             PROVE  /\ table[k].src = i
                    /\ table[k].foreign = NetOf(i, k, {"Foreign_Investor"})
                    /\ table[k].trust = NetOf(i, k, {"Investment_Trust"})
                    /\ table[k].dealer = NetOf(i, k, DealerNames)
                    /\ table[k].total = NetOf(i, k, Names \ UnknownNames)
  BY DEF OneFetchExact
<1>1. PICK batch \in SUBSET Committed : Naming(batch, k) # {} /\ table[k] = Agg(batch, k)
  BY DEF SumInv, TableSums
<1>2. i \in batch
  BY <1>1, NamedByNaming
<1>3. Naming(batch, k) = Naming({i}, k) /\ Agg(batch, k) = Agg({i}, k)
  <2>1. \A p \in Naming(batch, k) : p \in Naming({i}, k)
    BY <1>1, NamingElements DEF NamedBy
  <2>2. \A p \in Naming({i}, k) : p \in Naming(batch, k)
    BY <1>2, NamingElements
  <2>3. Naming(batch, k) = Naming({i}, k)
    BY <2>1, <2>2
  <2> QED BY <2>3 DEF Agg, Net, BuyMinusSell
<1>4. Agg({i}, k).src = i
  <2>1. {i} \in SUBSET Committed /\ Naming({i}, k) # {}
    BY <1>1, <1>3
  <2>2. Agg({i}, k).src \in {i}
    BY <1>0, <2>1, SourceType
  <2> QED BY <2>2
<1>5. /\ Agg({i}, k).foreign = NetOf(i, k, {"Foreign_Investor"})
      /\ Agg({i}, k).trust = NetOf(i, k, {"Investment_Trust"})
      /\ Agg({i}, k).dealer = NetOf(i, k, DealerNames)
      /\ Agg({i}, k).total = NetOf(i, k, {"Foreign_Investor"}) + NetOf(i, k, {"Investment_Trust"})
                                + NetOf(i, k, DealerNames)
  BY <1>0, NetIsNetOf DEF Agg
<1>6. NetOf(i, k, Names \ UnknownNames)
        = NetOf(i, k, {"Foreign_Investor"}) + NetOf(i, k, {"Investment_Trust"})
            + NetOf(i, k, DealerNames)
  <2> DEFINE F == {"Foreign_Investor"}
             T == {"Investment_Trust"}
  <2>1. Names \ UnknownNames = (F \cup T) \cup DealerNames
    BY NamesAssumption DEF Names
  <2>2. F \cap T = {} /\ (F \cup T) \cap DealerNames = {}
    BY NamesAssumption
  <2> HIDE DEF F, T
  <2>3. NetOf(i, k, (F \cup T) \cup DealerNames) = NetOf(i, k, F \cup T) + NetOf(i, k, DealerNames)
    BY <1>0, <2>2, NetOfSplit
  <2>4. NetOf(i, k, F \cup T) = NetOf(i, k, F) + NetOf(i, k, T)
    BY <1>0, <2>2, NetOfSplit
  <2> QED BY <2>1, <2>3, <2>4 DEF F, T
<1> QED BY <1>1, <1>3, <1>4, <1>5, <1>6

\* A key that one raw row names holds exactly that row's buy - sell per
\* category and their total, whatever was crashed, rolled back, replayed or run
\* twice over it, by any number of transformers.
THEOREM OneFetchExactHolds == Spec => []OneFetchExact
<1>1. Init => SumInv
  BY SumInit
<1>2. SumInv /\ [Next]_vars => SumInv'
  BY SumStepHolds
<1>3. SumInv => OneFetchExact
  BY SumInvExact
<1> QED BY <1>1, <1>2, <1>3, PTL DEF Spec

(***************************************************************************)
(* One writer, any number of transformers, whose batches may overlap and   *)
(* whose commits may move the cursor back.  A raw row is dealt with when   *)
(* it is well formed and its keys have rows.  An open call began at a      *)
(* cursor below which all was dealt with, and still is; its batch is all   *)
(* that is committed between that and the batch's last row.                *)
(***************************************************************************)

Between(last, top) == {i \in Committed : last < i /\ i <= top}

CoversRow(i) ==
    /\ ~Poisoned(raw, i)
    /\ \A k \in Keys : NamedBy(k, i) => table[k] # NoRow

Covered(c) == \A i \in Upto(raw, c) : CoversRow(i)

CallCovers(c) ==
    /\ c.pc # "idle" => c.last \in {0} \cup Committed /\ Covered(c.last)
    /\ c.pc = "upsert" =>
          \E top \in Committed :
             /\ c.batch = Between(c.last, top)
             /\ top \in c.batch
             /\ \A i \in c.batch : ~Poisoned(raw, i)

TableRuns ==
    \A k \in Keys : table[k] # NoRow =>
        \E last \in {0} \cup Committed : \E top \in Committed :
            /\ Naming(Between(last, top), k) # {}
            /\ table[k] = Agg(Between(last, top), k)

CoverInv ==
    /\ SumInv
    /\ LedgerOrder
    /\ cursor \in {0} \cup Committed
    /\ Covered(cursor)
    /\ TableRuns
    /\ \A t \in Transformers : CallCovers(txn[t])

TableGrows == \A k \in Keys : table[k] # NoRow => table'[k] # NoRow

LEMMA BetweenStable ==
  ASSUME raw \in Ledger, AppendsRaw, NEW last, NEW top \in Committed
  PROVE  /\ Between(last, top)' = Between(last, top)
         /\ \A i \in Between(last, top) : raw'[i] = raw[i]
<1>1. Committed \subseteq Committed' /\ \A j \in Committed' : j <= top => j \in Committed
  BY RawStable
<1>2. Between(last, top)' = Between(last, top)
  BY <1>1 DEF Between
<1> QED BY <1>2, RowsStay DEF Between

\* What was dealt with stays so, if no row is lost from the table.
LEMMA CoveredStays ==
  ASSUME raw \in Ledger, AppendsRaw, TableGrows,
         NEW c \in {0} \cup Committed, Covered(c)
  PROVE  c \in {0} \cup Committed' /\ \A i \in Upto(raw', c) : CoversRow(i)'
<1>1. Committed \subseteq Committed' /\ Upto(raw', c) = Upto(raw, c)
  BY RawStable
<1>2. \A i \in Upto(raw, c) : raw'[i] = raw[i]
  BY RowsStay DEF Upto, Committed
<1>3. ASSUME NEW i \in Upto(raw, c)
      PROVE  CoversRow(i)'
  <2>1. raw'[i] = raw[i] /\ CoversRow(i)
    BY <1>2 DEF Covered
  <2> QED BY <2>1 DEF CoversRow, Poisoned, NamedBy, HasKey, ItemAt, TableGrows
<1> QED BY <1>1, <1>3

LEMMA CallCoversStay ==
  ASSUME raw \in Ledger, AppendsRaw, TableGrows,
         NEW c, CallCovers(c), NEW t, txn'[t] = c
  PROVE  CallCovers(txn[t])'
<1>1. c.pc # "idle" => c.last \in {0} \cup Committed' /\ \A i \in Upto(raw', c.last) : CoversRow(i)'
  BY CoveredStays DEF CallCovers
<1>2. ASSUME c.pc = "upsert"
      PROVE  \E top \in Committed' :
                /\ c.batch = Between(c.last, top)'
                /\ top \in c.batch
                /\ \A i \in c.batch : ~Poisoned(raw', i)
  <2>1. PICK top \in Committed :
             /\ c.batch = Between(c.last, top)
             /\ top \in c.batch
             /\ \A i \in c.batch : ~Poisoned(raw, i)
    BY <1>2 DEF CallCovers
  <2>2. top \in Committed' /\ Between(c.last, top)' = Between(c.last, top)
    BY RowsStay, BetweenStable
  <2>3. \A i \in c.batch : raw'[i] = raw[i]
    BY <2>1, BetweenStable
  <2>4. \A i \in c.batch : ~Poisoned(raw', i)
    BY <2>1, <2>3 DEF Poisoned
  <2> QED BY <2>1, <2>2, <2>4
<1> QED BY <1>1, <1>2 DEF CallCovers, Covered

LEMMA RunStays ==
  ASSUME raw \in Ledger, AppendsRaw, NEW k,
         NEW last \in {0} \cup Committed, NEW top \in Committed,
         Naming(Between(last, top), k) # {}
  PROVE  /\ last \in {0} \cup Committed' /\ top \in Committed'
         /\ Naming(Between(last, top), k)' # {}
         /\ Agg(Between(last, top), k)' = Agg(Between(last, top), k)
<1> DEFINE b == Between(last, top)
<1>1. b' = b /\ \A i \in b : raw'[i] = raw[i]
  BY BetweenStable
<1>2. \A p : p \in Naming(b, k)' <=> p \in Naming(b, k)
  BY <1>1 DEF Naming, Positions, HasKey, ItemAt
<1>3. Naming(b, k)' = Naming(b, k)
  BY <1>2
<1>4. \A p \in Naming(b, k) : ItemAt(raw', p) = ItemAt(raw, p)
  BY <1>1, NamingElements DEF ItemAt
<1>5. BuyMinusSell(b, k)' = BuyMinusSell(b, k)
  BY <1>3, <1>4 DEF BuyMinusSell
<1>6. \A category : Net(b, k, category)' = Net(b, k, category)
  BY <1>3, <1>4, <1>5 DEF Net
<1>7. Agg(b, k)' = Agg(b, k)
  BY <1>3, <1>6 DEF Agg
<1> QED BY <1>3, <1>7, RowsStay

LEMMA TableRunsStay ==
  ASSUME raw \in Ledger, AppendsRaw, TableRuns, table' = table
  PROVE  TableRuns'
  BY RunStays DEF TableRuns

\* A step of one transformer that leaves ledger, cursor and table alone.
LEMMA CoverCallMoves ==
  ASSUME CoverInv, SumInv', NEW t \in Transformers, NEW c, CallCovers(c),
         txn' = [txn EXCEPT ![t] = c], UNCHANGED <<ledgerVars, cursor, table>>
  PROVE  CoverInv'
<1>1. UNCHANGED <<nextId, raw, inserting, cursor, table>>
  BY DEF ledgerVars
<1>2. raw \in Ledger /\ AppendsRaw /\ TableGrows
  BY <1>1 DEF CoverInv, SumInv, LedgerTypeOK, AppendsRaw, TableGrows
<1>3. \A u \in Transformers : txn'[u] = IF u = t THEN c ELSE txn[u]
  BY DEF CoverInv, SumInv
<1>4. ASSUME NEW u \in Transformers
      PROVE  CallCovers(txn[u])'
  <2>1. CallCovers(txn'[u])
    BY <1>3 DEF CoverInv
  <2> QED BY <1>2, <2>1, CallCoversStay
<1>5. cursor' \in {0} \cup Committed' /\ Covered(cursor)'
  BY <1>1, <1>2, CoveredStays DEF CoverInv, Covered
<1>6. TableRuns'
  BY <1>1, <1>2, TableRunsStay DEF CoverInv
<1>7. LedgerOrder'
  BY <1>1 DEF CoverInv, LedgerOrder, Committed
<1> QED BY <1>4, <1>5, <1>6, <1>7 DEF CoverInv

LEMMA CoverStep ==
  ASSUME SingleWriter, CoverInv, [Next]_vars
  PROVE  CoverInv'
<1>0. raw \in Ledger /\ LedgerTypeOK /\ SumInv /\ SumInv'
  BY SumStepHolds DEF CoverInv, SumInv, LedgerTypeOK
<1>1. CASE LedgerNext /\ UNCHANGED <<cursor, table, txn, failures>>
  <2>1. LedgerOrder' /\ AppendsRaw
    BY <1>0, <1>1, OrderStep DEF CoverInv
  <2>2. TableGrows
    BY <1>1 DEF TableGrows
  <2>3. ASSUME NEW t \in Transformers
        PROVE  CallCovers(txn[t])'
    BY <1>0, <1>1, <2>1, <2>2, CallCoversStay DEF CoverInv
  <2>4. cursor' \in {0} \cup Committed' /\ Covered(cursor)'
    BY <1>0, <1>1, <2>1, <2>2, CoveredStays DEF CoverInv, Covered
  <2>5. TableRuns'
    BY <1>0, <1>1, <2>1, TableRunsStay DEF CoverInv
  <2> QED BY <1>0, <2>1, <2>3, <2>4, <2>5 DEF CoverInv
<1>2. ASSUME NEW t \in Transformers, TransformStep(t) \/ Fail(t)
      PROVE  CoverInv'
  <2>0. CallCovers(txn[t]) /\ CallSums(txn[t]) /\ txn[t] \in Call
    BY DEF CoverInv, SumInv, CallSums
  <2>i. CallCovers(Idle)
    BY DEF CallCovers, Idle
  <2>1. CASE ReadCursor(t)
    <3>1. cursor \in 0..MaxId /\ cursor \in {0} \cup Committed /\ Covered(cursor)
      BY DEF CoverInv, SumInv
    <3>2. CallCovers(Started(cursor))
      BY <3>1, StartedCall DEF CallCovers
    <3> QED BY <1>0, <2>1, <3>2, CoverCallMoves DEF ReadCursor
  <2>2. CASE FetchNewRaw(t)
    <3> DEFINE new == {i \in Committed : i > txn[t].last}
               batch(top) == {i \in new : i <= top}
    <3>0. UNCHANGED <<ledgerVars, cursor, table>> /\ txn[t].pc = "fetch"
      BY <2>2 DEF FetchNewRaw
    <3>1. CASE txn' = [txn EXCEPT ![t] = Idle]
      BY <1>0, <2>i, <3>0, <3>1, CoverCallMoves
    <3>2. ASSUME NEW top \in new, \A i \in batch(top) : ~Poisoned(raw, i),
                 txn' = [txn EXCEPT ![t] = Fetched(txn[t], batch(top))]
          PROVE  CoverInv'
      <4> DEFINE b == batch(top)
                 c == Fetched(txn[t], b)
      <4>1. top \in Committed /\ txn[t].last \in Int /\ Committed \subseteq Int
        BY <2>0, CommittedInt DEF Call
      <4>2. b = Between(txn[t].last, top) /\ top \in b
        BY <4>1, <3>2 DEF Between
      <4>3. txn' = [txn EXCEPT ![t] = c] /\ \A i \in b : ~Poisoned(raw, i)
        BY <3>2
      <4>4. b \in SUBSET Ids
        BY CommittedInt
      <4> HIDE DEF b
      <4>5. /\ c.pc = "upsert" /\ c.batch = b /\ c.last = txn[t].last
        BY <2>0, <4>4, FetchedCall
      <4> HIDE DEF c
      <4>6. CallCovers(c)
        BY <2>0, <3>0, <4>1, <4>2, <4>3, <4>5 DEF CallCovers
      <4> QED BY <1>0, <3>0, <4>3, <4>6, CoverCallMoves
    <3> QED BY <2>2, <3>1, <3>2 DEF FetchNewRaw
  <2>3. CASE UpsertKey(t)
    <3>1. PICK k \in Keys :
             /\ IsNextKey(txn[t], k)
             /\ txn' = [txn EXCEPT ![t] = Upserted(txn[t], k, Agg(txn[t].batch, k))]
      BY <2>3 DEF UpsertKey
    <3> DEFINE row == Agg(txn[t].batch, k)
               c   == Upserted(txn[t], k, row)
    <3>2. Naming(txn[t].batch, k) # {}
      BY <3>1 DEF IsNextKey, ToUpsert
    <3>3. row \in AggRow
      BY <1>0, <2>0, <3>2, AggType DEF CallSums
    <3>4. UNCHANGED <<ledgerVars, cursor, table>>
      BY <2>3 DEF UpsertKey
    <3>5. CallCovers(c)
      <4>1. c.pc = txn[t].pc /\ c.batch = txn[t].batch /\ c.last = txn[t].last
        <5> HIDE DEF row
        <5> QED BY <2>0, <3>3, UpsertedCall
      <4> HIDE DEF c
      <4> QED BY <2>0, <4>1 DEF CallCovers
    <3> HIDE DEF c, row
    <3>6. txn' = [txn EXCEPT ![t] = c]
      BY <3>1 DEF c, row
    <3> QED BY <1>0, <3>4, <3>5, <3>6, CoverCallMoves
  <2>4. CASE AdvanceCursor(t)
    <3>1. /\ UNCHANGED <<nextId, raw, inserting, failures>>
          /\ cursor' = Max(txn[t].batch) /\ txn' = [txn EXCEPT ![t] = Idle]
          /\ \A k \in Keys : table'[k] = IF txn[t].writes[k] = NoRow THEN table[k]
                                         ELSE txn[t].writes[k]
          /\ txn[t].pc = "upsert" /\ ToUpsert(txn[t]) = {}
      BY <2>4 DEF AdvanceCursor, ledgerVars
    <3>2. AppendsRaw /\ TableGrows /\ Committed' = Committed
      BY <3>1 DEF AppendsRaw, TableGrows, Committed
    <3>3. PICK top \in Committed :
             /\ txn[t].batch = Between(txn[t].last, top)
             /\ top \in txn[t].batch
             /\ \A i \in txn[t].batch : ~Poisoned(raw, i)
      BY <2>0, <3>1 DEF CallCovers
    <3>4. cursor' = top
      <4> DEFINE b == txn[t].batch
      <4>1. b \in SUBSET Ids /\ b # {}
        BY <2>0, <3>3 DEF Call
      <4> HIDE DEF b
      <4>2. Max(b) \in b /\ \A x \in b : Max(b) >= x
        BY <4>1, BatchMax
      <4>3. top \in b /\ (\A x \in b : x <= top) /\ b \subseteq Int
        BY <3>3, CommittedInt DEF b, Between
      <4>4. Max(b) >= top /\ Max(b) <= top /\ Max(b) \in Int /\ top \in Int
        BY <4>2, <4>3
      <4> QED BY <3>1, <4>4 DEF b
    <3>5. ASSUME NEW i \in Upto(raw, top)
          PROVE  CoversRow(i)'
      <4>1. i \in Committed /\ i \in Int /\ txn[t].last \in Int /\ i <= top
        BY <2>0, CommittedInt DEF Call, Upto, Committed
      <4>2. CASE i <= txn[t].last
        <5>1. CoversRow(i)
          BY <2>0, <3>1, <4>1, <4>2 DEF CallCovers, Covered, Upto, Committed
        <5> QED BY <3>1, <3>2, <5>1 DEF CoversRow, NamedBy, HasKey, TableGrows
      <4>3. CASE i > txn[t].last
        <5>1. i \in txn[t].batch
          BY <3>3, <4>1, <4>3 DEF Between
        <5>2. ASSUME NEW k \in Keys, NamedBy(k, i)
              PROVE  table'[k] # NoRow
          <6>1. Naming(txn[t].batch, k) # {}
            BY <5>1, <5>2, NamedByNaming
          <6>2. txn[t].writes[k] # NoRow
            BY <3>1, <6>1 DEF ToUpsert
          <6> QED BY <3>1, <6>2
        <5>3. ~Poisoned(raw', i)
          BY <3>1, <3>3, <5>1
        <5> QED BY <3>1, <5>2, <5>3 DEF CoversRow, NamedBy, HasKey
      <4> QED BY <4>1, <4>2, <4>3
    <3>6. cursor' \in {0} \cup Committed' /\ Covered(cursor)'
      BY <3>1, <3>2, <3>4, <3>5 DEF Covered
    <3>7. ASSUME NEW k \in Keys, table'[k] # NoRow
          PROVE  \E last \in {0} \cup Committed : \E to \in Committed :
                    /\ Naming(Between(last, to), k) # {}
                    /\ table'[k] = Agg(Between(last, to), k)
      <4>1. CASE txn[t].writes[k] = NoRow
        BY <3>1, <3>7, <4>1 DEF CoverInv, TableRuns
      <4>2. CASE txn[t].writes[k] # NoRow
        <5>1. /\ Naming(txn[t].batch, k) # {}
              /\ table'[k] = Agg(txn[t].batch, k)
          BY <2>0, <3>1, <4>2 DEF CallSums, Sums
        <5>2. txn[t].last \in {0} \cup Committed
          BY <2>0, <3>1 DEF CallCovers
        <5> QED BY <3>3, <5>1, <5>2
      <4> QED BY <4>1, <4>2
    <3>8. TableRuns'
      BY <1>0, <3>2, <3>7, RunStays DEF TableRuns
    <3>9. ASSUME NEW u \in Transformers
          PROVE  CallCovers(txn[u])'
      <4>1. txn'[u] = IF u = t THEN Idle ELSE txn[u]
        BY <1>0, <3>1 DEF SumInv
      <4>2. CallCovers(txn'[u])
        BY <2>i, <4>1 DEF CoverInv
      <4> QED BY <1>0, <3>2, <4>2, CallCoversStay
    <3>10. LedgerOrder'
      BY <3>1, <3>2 DEF CoverInv, LedgerOrder
    <3> QED BY <1>0, <3>6, <3>8, <3>9, <3>10 DEF CoverInv
  <2>5. CASE DeadlockVictim(t)
    BY <1>0, <2>5, <2>i, CoverCallMoves DEF DeadlockVictim
  <2>6. CASE Fail(t)
    BY <1>0, <2>6, <2>i, CoverCallMoves DEF Fail
  <2> QED BY <1>2, <2>1, <2>2, <2>3, <2>4, <2>5, <2>6 DEF TransformStep
<1>3. CASE UNCHANGED vars
  <2>1. UNCHANGED <<nextId, raw, inserting, cursor, table, txn, failures>>
    BY <1>3 DEF vars
  <2>2. AppendsRaw /\ TableGrows
    BY <2>1 DEF AppendsRaw, TableGrows
  <2>3. ASSUME NEW u \in Transformers
        PROVE  CallCovers(txn[u])'
    BY <1>0, <2>1, <2>2, CallCoversStay DEF CoverInv
  <2>4. cursor' \in {0} \cup Committed' /\ Covered(cursor)'
    BY <1>0, <2>1, <2>2, CoveredStays DEF CoverInv, Covered
  <2>5. TableRuns'
    BY <1>0, <2>1, <2>2, TableRunsStay DEF CoverInv
  <2>6. LedgerOrder'
    BY <2>1 DEF CoverInv, LedgerOrder, Committed
  <2> QED BY <1>0, <2>3, <2>4, <2>5, <2>6 DEF CoverInv
<1> QED BY <1>1, <1>2, <1>3 DEF Next

LEMMA CoverInit ==
  ASSUME Init
  PROVE  CoverInv
<1>1. Committed = {} /\ \A w \in Writers : inserting[w] = NoInsert
  BY DEF Init, LedgerInit, Committed, Stored
<1>2. LedgerOrder /\ Covered(cursor) /\ cursor = 0
  BY <1>1 DEF LedgerOrder, Covered, Upto, Committed, Init
<1>3. TableRuns /\ \A t \in Transformers : CallCovers(txn[t])
  BY DEF Init, TableRuns, NoWrites, CallCovers, Idle
<1> QED BY <1>2, <1>3, SumInit DEF CoverInv

LEMMA CoverInvariant ==
  ASSUME SingleWriter
  PROVE  Spec => []CoverInv
<1>1. Init => CoverInv
  BY CoverInit
<1>2. CoverInv /\ [Next]_vars => CoverInv'
  BY CoverStep
<1> QED BY <1>1, <1>2, PTL DEF Spec

\* One writer: the cursor is a high-water mark, though a transformer with an
\* older batch may commit last: every key that a raw row at or below it names
\* has a row.
THEOREM HighWaterMarkHolds ==
  ASSUME SingleWriter
  PROVE  Spec => []HighWaterMark
<1>1. CoverInv => HighWaterMark
  BY DEF CoverInv, Covered, CoversRow, HighWaterMark
<1> QED BY <1>1, CoverInvariant, PTL

\* One writer: the cursor never passes a raw row with a malformed item.
THEOREM NoPoisonPassedHolds ==
  ASSUME SingleWriter
  PROVE  Spec => []NoPoisonPassed
<1>1. CoverInv => NoPoisonPassed
  BY DEF CoverInv, Covered, CoversRow, NoPoisonPassed
<1> QED BY <1>1, CoverInvariant, PTL

LEMMA CoverInvRuns ==
  ASSUME CoverInv
  PROVE  SumsOneRun
<1>0. raw \in Ledger
  BY DEF CoverInv, SumInv, LedgerTypeOK
<1> SUFFICES ASSUME NEW k \in Keys, table[k] # NoRow
             PROVE  \E first \in Ids :
                       LET run == {i \in Upto(raw, table[k].src) : i >= first}
                       IN  Naming(run, k) # {} /\ table[k] = Agg(run, k)
  BY DEF SumsOneRun
<1>1. PICK last \in {0} \cup Committed : \E top \in Committed :
         /\ Naming(Between(last, top), k) # {}
         /\ table[k] = Agg(Between(last, top), k)
  BY DEF CoverInv, TableRuns
<1>2. PICK top \in Committed :
         /\ Naming(Between(last, top), k) # {}
         /\ table[k] = Agg(Between(last, top), k)
  BY <1>1
<1> DEFINE b   == Between(last, top)
           src == table[k].src
           run == {i \in Upto(raw, src) : i >= last + 1}
<1>3. b \in SUBSET Committed
  BY DEF Between
<1>4. /\ src \in b /\ src \in Ids
      /\ \A i \in b : NamedBy(k, i) => i <= src
  BY <1>0, <1>2, <1>3, SourceType
<1>5. last \in Int /\ top \in Int /\ src \in Int /\ last < src /\ src <= top /\ src <= MaxId
  BY <1>4, CommittedInt, MaxIdAssumption DEF Between, Ids
<1>6. last + 1 \in Ids
  <2>1. last >= 0
    BY CommittedInt DEF Ids
  <2> QED BY <1>5, <2>1, MaxIdAssumption DEF Ids
<1>7. ASSUME NEW i, NamedBy(k, i)
      PROVE  i \in b <=> i \in run
  <2>1. i \in Committed => i \in Int
    BY CommittedInt
  <2>2. i \in b => i \in run
    BY <1>4, <1>5, <1>7, <2>1 DEF Between, Upto, Committed
  <2>3. i \in run => i \in b
    BY <1>5, <2>1 DEF Between, Upto, Committed
  <2> QED BY <2>2, <2>3
<1>8. Naming(run, k) = Naming(b, k) /\ Agg(run, k) = Agg(b, k)
  <2> HIDE DEF run, b
  <2> QED BY <1>7, NamingSame
<1> QED BY <1>2, <1>6, <1>8

\* One writer: a domain row sums one contiguous run of raw rows that ends at the
\* row it cites, though the cursor may move back and batches be redone.
THEOREM SumsOneRunHolds ==
  ASSUME SingleWriter
  PROVE  Spec => []SumsOneRun
<1>1. CoverInv => SumsOneRun
  BY CoverInvRuns
<1> QED BY <1>1, CoverInvariant, PTL
=============================================================================
