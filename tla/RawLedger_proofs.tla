-------------------------- MODULE RawLedger_proofs --------------------------
(***************************************************************************)
(* Lemmas about positions, last-write-wins views and the steps of the raw  *)
(* ledger, used by the proofs about the transforms.                        *)
(***************************************************************************)
EXTENDS RawLedger, TLAPS

LEMMA PositionElements ==
  ASSUME NEW log, NEW S, NEW q
  PROVE  q \in Positions(log, S) <=> \E i \in S : \E n \in DOMAIN log[i] : q = <<i, n>>
  BY DEF Positions

\* The items of a stored payload are rows, malformed dicts or not dicts.
LEMMA PositionType ==
  ASSUME NEW log \in Ledger, NEW S \in SUBSET Stored(log), NEW q \in Positions(log, S)
  PROVE  /\ q[1] \in S /\ q[1] \in Ids
         /\ q[2] \in Nat \ {0} /\ q[2] \in DOMAIN log[q[1]]
         /\ q = <<q[1], q[2]>>
         /\ ItemAt(log, q) \in Item
<1>1. PICK i \in S : \E n \in DOMAIN log[i] : q = <<i, n>>
  BY PositionElements
<1>2. PICK n \in DOMAIN log[i] : q = <<i, n>>
  BY <1>1
<1>3. log[i] \in Seq(Item) /\ i \in Ids
  BY PayloadsAssumption DEF Ledger, Stored
<1>4. n \in 1..Len(log[i]) /\ log[i][n] \in Item
  BY <1>3
<1> QED BY <1>2, <1>3, <1>4 DEF ItemAt

\* Storing one more row leaves the stored rows as they are.
LEMMA AppendStored ==
  ASSUME NEW log \in Ledger, NEW i \in Ids, NEW p \in Payloads, i \notin Stored(log)
  PROVE  /\ [log EXCEPT ![i] = p] \in Ledger
         /\ Stored([log EXCEPT ![i] = p]) = Stored(log) \cup {i}
         /\ \A j \in Stored(log) : [log EXCEPT ![i] = p][j] = log[j]
  BY AbsentAssumption DEF Ledger, Stored

\* Rows stored after the prefix up to c do not change the prefix.
LEMMA PrefixStable ==
  ASSUME NEW log \in Ledger, NEW new, NEW c,
         Upto(new, c) = Upto(log, c),
         \A j \in Upto(log, c) : new[j] = log[j]
  PROVE  /\ Positions(new, Upto(new, c)) = Positions(log, Upto(log, c))
         /\ \A q \in Positions(log, Upto(log, c)) : ItemAt(new, q) = ItemAt(log, q)
<1> DEFINE U == Upto(log, c)
<1>1. \A j \in U : new[j] = log[j]
  OBVIOUS
<1>2. U \in SUBSET Stored(log)
  BY DEF Upto
<1> HIDE DEF U
<1>3. \A j \in U : {j} \X DOMAIN new[j] = {j} \X DOMAIN log[j]
  BY <1>1
<1>4. {{j} \X DOMAIN new[j] : j \in U} = {{j} \X DOMAIN log[j] : j \in U}
  BY <1>3
<1>5. Positions(new, U) = Positions(log, U)
  BY <1>4 DEF Positions
<1>6. ASSUME NEW q \in Positions(log, U)
      PROVE  ItemAt(new, q) = ItemAt(log, q)
  BY <1>1, <1>2, PositionType DEF ItemAt
<1> QED BY <1>5, <1>6 DEF U

\* A view does not change when a position without a row is added ...
LEMMA ViewSkip ==
  ASSUME NEW tbl, NEW log, NEW P, IsView(tbl, log, P),
         NEW p, ItemAt(log, p) \notin PayloadRow
  PROVE  IsView(tbl, log, P \cup {p})
<1>1. ASSUME NEW k \in Keys
      PROVE  {q \in P \cup {p} : HasKey(log, q, k)} = {q \in P : HasKey(log, q, k)}
  BY DEF HasKey
<1> QED BY <1>1 DEF IsView

\* ... and the upsert of a row extends it by the row's position.
LEMMA ViewUpsert ==
  ASSUME NEW tbl \in Table, NEW log, NEW P, IsView(tbl, log, P),
         NEW p, ItemAt(log, p) \in PayloadRow, \A q \in P : Before(q, p)
  PROVE  IsView([tbl EXCEPT ![ItemAt(log, p).key] = RowOf(log, p)], log, P \cup {p})
<1> DEFINE new == [tbl EXCEPT ![ItemAt(log, p).key] = RowOf(log, p)]
<1> SUFFICES ASSUME NEW k \in Keys
             PROVE  LET Pk == {q \in P \cup {p} : HasKey(log, q, k)}
                    IN  \/ Pk = {} /\ new[k] = NoRow
                        \/ \E m \in Pk : /\ \A q \in Pk \ {m} : Before(q, m)
                                         /\ new[k] = RowOf(log, m)
  BY DEF IsView
<1> DEFINE Pk == {q \in P \cup {p} : HasKey(log, q, k)}
<1>1. CASE ItemAt(log, p).key = k
  <2>1. p \in Pk /\ \A q \in Pk \ {p} : Before(q, p)
    BY <1>1 DEF HasKey
  <2>2. new[k] = RowOf(log, p)
    BY <1>1 DEF Table
  <2> QED BY <2>1, <2>2
<1>2. CASE ItemAt(log, p).key # k
  <2>1. Pk = {q \in P : HasKey(log, q, k)} /\ new[k] = tbl[k]
    BY <1>2 DEF HasKey, Table
  <2> QED BY <2>1 DEF IsView
<1> QED BY <1>1, <1>2

\* A view depends on the ledger only through the items of its positions.
LEMMA ViewStable ==
  ASSUME NEW tbl, NEW log, NEW new, NEW P, IsView(tbl, log, P),
         \A q \in P : ItemAt(new, q) = ItemAt(log, q)
  PROVE  IsView(tbl, new, P)
<1>1. ASSUME NEW k \in Keys
      PROVE  {q \in P : HasKey(new, q, k)} = {q \in P : HasKey(log, q, k)}
  BY DEF HasKey
<1>2. \A q \in P : RowOf(new, q) = RowOf(log, q)
  BY DEF RowOf
<1>3. ASSUME NEW k \in Keys
      PROVE  LET Pk == {q \in P : HasKey(new, q, k)}
             IN  \/ Pk = {} /\ tbl[k] = NoRow
                 \/ \E m \in Pk : /\ \A q \in Pk \ {m} : Before(q, m)
                                  /\ tbl[k] = RowOf(new, m)
  <2>1. CASE {q \in P : HasKey(log, q, k)} = {} /\ tbl[k] = NoRow
    BY <1>1, <2>1
  <2>2. ASSUME NEW m \in {q \in P : HasKey(log, q, k)},
               \A q \in {r \in P : HasKey(log, r, k)} \ {m} : Before(q, m),
               tbl[k] = RowOf(log, m)
        PROVE  \E l \in {q \in P : HasKey(new, q, k)} :
                  /\ \A q \in {r \in P : HasKey(new, r, k)} \ {l} : Before(q, l)
                  /\ tbl[k] = RowOf(new, l)
    BY <1>1, <1>2, <2>2
  <2> QED BY <2>1, <2>2 DEF IsView
<1> QED BY <1>3 DEF IsView

\* The view of more positions has a row wherever the view of fewer has one,
\* from a raw row that is not older.
LEMMA ViewGrows ==
  ASSUME NEW log \in Ledger, NEW S \in SUBSET Stored(log),
         NEW Q, Q = Positions(log, S), NEW P \in SUBSET Q,
         NEW tbl \in Table, NEW new \in Table, IsView(tbl, log, P), IsView(new, log, Q),
         NEW k \in Keys, tbl[k] # NoRow
  PROVE  new[k] # NoRow /\ new[k].src >= tbl[k].src
<1> DEFINE Pk == {q \in P : HasKey(log, q, k)}
           Qk == {q \in Q : HasKey(log, q, k)}
<1>1. PICK p \in Pk : tbl[k] = RowOf(log, p)
  BY DEF IsView
<1>2. PICK m \in Qk : (\A q \in Qk \ {m} : Before(q, m)) /\ new[k] = RowOf(log, m)
  BY <1>1 DEF IsView
<1>3. p \in Q /\ m \in Q /\ p \in Qk
  BY <1>1, <1>2
<1>4. p[1] \in Ids /\ m[1] \in Ids /\ p[1] <= m[1]
  BY <1>2, <1>3, PositionType DEF Before, Ids
<1>5. tbl[k].src = p[1] /\ new[k].src = m[1]
  BY <1>1, <1>2 DEF RowOf
<1>6. RowOf(log, m) \in DomainRow
  BY <1>2, <1>4 DEF RowOf, DomainRow, HasKey, PayloadRow
<1> QED BY <1>2, <1>4, <1>5, <1>6, AbsentAssumption DEF Ids

(***************************************************************************)
(* What the steps of RawLedger do to the rows.                             *)
(***************************************************************************)

\* Type correctness of every ledger step: what RawPayloadStore.record and its
\* transaction do keeps the sequence, the rows and the open inserts well typed.
LEMMA LedgerTypeStep ==
  ASSUME LedgerTypeOK, LedgerNext
  PROVE  LedgerTypeOK'
<1>1. PICK w \in Writers : Insert(w) \/ CommitInsert(w) \/ AbortInsert(w)
  BY DEF LedgerNext
<1>2. CASE Insert(w)
  BY <1>2, MaxIdAssumption DEF Insert, LedgerTypeOK, Ids
<1>3. CASE CommitInsert(w)
  BY <1>3 DEF CommitInsert, LedgerTypeOK, Ledger
<1>4. CASE AbortInsert(w)
  BY <1>4 DEF AbortInsert, LedgerTypeOK
<1> QED BY <1>1, <1>2, <1>3, <1>4

(***************************************************************************)
(* The ledger: an id is handed out once, and a committed row never changes.*)
(* Holds for any number of writers.                                        *)
(***************************************************************************)

LedgerFresh ==
    /\ \A i \in Committed : i < nextId
    /\ \A w \in Writers : inserting[w] # NoInsert =>
          /\ inserting[w].id < nextId
          /\ inserting[w].id \notin Committed
          /\ \A v \in Writers \ {w} :
                inserting[v] # NoInsert => inserting[v].id # inserting[w].id

LEMMA LedgerGrows ==
  ASSUME LedgerTypeOK, LedgerFresh, LedgerNext
  PROVE  /\ LedgerFresh'
         /\ \A j \in Committed : j \in Committed' /\ raw'[j] = raw[j]
<1> USE DEF LedgerTypeOK, Committed, Stored
<1>1. PICK w \in Writers : Insert(w) \/ CommitInsert(w) \/ AbortInsert(w)
  BY DEF LedgerNext
<1>2. CASE Insert(w)
  <2>1. PICK p \in Payloads :
           inserting' = [inserting EXCEPT ![w] = [id |-> nextId, payload |-> p]]
    BY <1>2 DEF Insert
  <2>2. inserting'[w].id = nextId /\ nextId' = nextId + 1 /\ raw' = raw
    BY <1>2, <2>1 DEF Insert
  <2>3. \A v \in Writers \ {w} : inserting'[v] = inserting[v]
    BY <2>1
  <2> QED BY <2>2, <2>3 DEF LedgerFresh, Ids
<1>3. CASE CommitInsert(w)
  <2> DEFINE i == inserting[w].id
  <2>1. i \in Ids /\ raw' = [raw EXCEPT ![i] = inserting[w].payload]
    BY <1>3 DEF CommitInsert
  <2>2. inserting'[w] = NoInsert /\ nextId' = nextId
    BY <1>3 DEF CommitInsert
  <2>3. \A v \in Writers \ {w} : inserting'[v] = inserting[v]
    BY <1>3 DEF CommitInsert
  <2>4. i \notin Committed /\ i < nextId
    BY <1>3 DEF CommitInsert, LedgerFresh
  <2>5. Committed' \subseteq Committed \cup {i}
    BY <2>1 DEF Ledger
  <2>6. \A j \in Committed : j \in Committed' /\ raw'[j] = raw[j]
    BY <2>1, <2>4 DEF Ledger
  <2>7. LedgerFresh'
    BY <1>3, <2>2, <2>3, <2>4, <2>5 DEF CommitInsert, LedgerFresh
  <2> QED BY <2>6, <2>7
<1>4. CASE AbortInsert(w)
  <2>1. inserting'[w] = NoInsert /\ nextId' = nextId /\ raw' = raw
    BY <1>4 DEF AbortInsert
  <2>2. \A v \in Writers \ {w} : inserting'[v] = inserting[v]
    BY <1>4 DEF AbortInsert
  <2> QED BY <2>1, <2>2 DEF LedgerFresh
<1> QED BY <1>1, <1>2, <1>3, <1>4

(***************************************************************************)
(* One writer: a row that commits is newer than every committed row.       *)
(***************************************************************************)

SingleWriter == \A v, w \in Writers : v = w

LedgerOrder ==
    /\ \A i \in Committed : i < nextId
    /\ \A w \in Writers : inserting[w] # NoInsert =>
          inserting[w].id < nextId /\ \A i \in Committed : i < inserting[w].id

AppendsRaw ==
    \/ raw' = raw
    \/ \E i \in Ids, p \in Payloads :
          (\A j \in Committed : j < i) /\ raw' = [raw EXCEPT ![i] = p]

LEMMA OrderStep ==
  ASSUME SingleWriter, LedgerTypeOK, LedgerOrder, LedgerNext
  PROVE  LedgerOrder' /\ AppendsRaw
<1> USE DEF LedgerTypeOK, Committed, Stored
<1>1. PICK w \in Writers : Insert(w) \/ CommitInsert(w) \/ AbortInsert(w)
  BY DEF LedgerNext
<1>0. \A v \in Writers : v = w
  BY DEF SingleWriter
<1>2. CASE Insert(w)
  <2>1. inserting'[w].id = nextId /\ nextId' = nextId + 1 /\ raw' = raw
    BY <1>2 DEF Insert
  <2> QED BY <2>1, <1>0 DEF LedgerOrder, AppendsRaw, Ids
<1>3. CASE CommitInsert(w)
  <2> DEFINE i == inserting[w].id
  <2>1. i \in Ids /\ raw' = [raw EXCEPT ![i] = inserting[w].payload]
    BY <1>3 DEF CommitInsert
  <2>2. inserting'[w] = NoInsert /\ nextId' = nextId /\ inserting[w].payload \in Payloads
    BY <1>3 DEF CommitInsert
  <2>3. i < nextId /\ \A j \in Committed : j < i
    BY <1>3 DEF CommitInsert, LedgerOrder
  <2>4. Committed' \subseteq Committed \cup {i}
    BY <2>1 DEF Ledger
  <2> QED BY <2>1, <2>2, <2>3, <2>4, <1>0 DEF LedgerOrder, AppendsRaw
<1>4. CASE AbortInsert(w)
  BY <1>4, <1>0 DEF AbortInsert, LedgerOrder, AppendsRaw
<1> QED BY <1>1, <1>2, <1>3, <1>4

LEMMA RowsStay ==
  ASSUME raw \in Ledger, AppendsRaw
  PROVE  \A j \in Committed : j \in Committed' /\ raw'[j] = raw[j]
<1>1. CASE raw' = raw
  BY <1>1 DEF Committed
<1>2. ASSUME NEW i \in Ids, NEW p \in Payloads, \A j \in Committed : j < i,
             raw' = [raw EXCEPT ![i] = p]
      PROVE  \A j \in Committed : j \in Committed' /\ raw'[j] = raw[j]
  BY <1>2, AppendStored DEF Committed, Stored, Ids
<1> QED BY <1>1, <1>2 DEF AppendsRaw

\* Such a row leaves the prefix up to a committed id as it is.
LEMMA RawStable ==
  ASSUME raw \in Ledger, AppendsRaw, NEW c \in {0} \cup Committed
  PROVE  /\ Committed \subseteq Committed'
         /\ \A j \in Committed' : j <= c => j \in Committed
         /\ Upto(raw', c) = Upto(raw, c)
         /\ Positions(raw', Upto(raw', c)) = Positions(raw, Upto(raw, c))
         /\ \A q \in Positions(raw, Upto(raw, c)) : ItemAt(raw', q) = ItemAt(raw, q)
<1>1. CASE raw' = raw
  BY <1>1 DEF Committed
<1>2. ASSUME NEW i \in Ids, NEW p \in Payloads, \A j \in Committed : j < i,
             raw' = [raw EXCEPT ![i] = p]
      PROVE  /\ Committed' = Committed \cup {i} /\ c < i
             /\ Upto(raw', c) = Upto(raw, c)
             /\ \A j \in Committed : raw'[j] = raw[j]
  <2>1. i \notin Stored(raw) /\ c < i
    BY <1>2 DEF Committed, Ids
  <2>2. Stored(raw') = Stored(raw) \cup {i}
    BY <1>2, <2>1, AppendStored
  <2>3. \A j \in Stored(raw) : raw'[j] = raw[j]
    BY <1>2, <2>1, AppendStored
  <2>4. c \in Int /\ i \in Int
    BY DEF Committed, Stored, Ids
  <2> QED BY <2>1, <2>2, <2>3, <2>4 DEF Upto, Committed
<1>3. /\ Committed \subseteq Committed'
      /\ \A j \in Committed' : j <= c => j \in Committed
      /\ Upto(raw', c) = Upto(raw, c)
      /\ \A j \in Upto(raw, c) : raw'[j] = raw[j]
  <2>1. c \in Int /\ Ids \subseteq Int
    BY DEF Committed, Stored, Ids
  <2> QED BY <1>1, <1>2, <2>1 DEF AppendsRaw, Upto, Committed, Stored
<1> QED BY <1>3, PrefixStable
=============================================================================
