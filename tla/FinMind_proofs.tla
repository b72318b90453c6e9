---------------------------- MODULE FinMind_proofs ---------------------------
(***************************************************************************)
(* Theorems about the callers of FinMind.  UniverseSync and, extending it, *)
(* WatchlistIngest, for any number of syncers, runners, calls, stocks and  *)
(* attempts, any snapshots and edits: the universe is the view of the last *)
(* snapshot; a call leaves at most one row per stock, a stock is written   *)
(* off only when it deserves it, and what a call returns is true.  And     *)
(* FinMindFetch, for every rate and period, any number of tasks and        *)
(* whatever FinMind replies: how many GETs may leave, that the limiter     *)
(* does not hold them up, and how late a fetch gives up.                   *)
(***************************************************************************)
EXTENDS WatchlistIngest, FinMindFetch, FoldLemmas

(***************************************************************************)
(* DedupLatest, a fold over a sequence, one row at a time.                 *)
(***************************************************************************)

Latest == [Stocks -> InfoRow \cup {NoStock}]

NoLatest == [s \in Stocks |-> NoStock]

Rows == Seq(InfoRow \cup {Invalid})

LEMMA KeepType ==
  ASSUME NEW latest \in Latest, NEW row \in InfoRow \cup {Invalid}
  PROVE  Keep(latest, row) \in Latest
<1>1. CASE row = Invalid
  BY <1>1 DEF Keep
<1>2. CASE row \in InfoRow
  <2>1. row.stock \in Stocks
    BY <1>2 DEF InfoRow
  <2>2. [latest EXCEPT ![row.stock] = row] \in Latest
    BY <1>2, <2>1 DEF Latest
  <2> QED BY <2>2 DEF Keep
<1> QED BY <1>1, <1>2

\* What the loop holds after each row.
LEMMA DedupSteps ==
  ASSUME NEW list \in Rows
  PROVE  \E g : /\ g[0] = NoLatest
                /\ \A n \in 1..Len(list) : g[n] = Keep(g[n - 1], list[n])
                /\ DedupLatest(list) = g[Len(list)]
<1> DEFINE S == 1..Len(list)
           pick == [s \in SUBSET S |-> Max(s)]
           step == [p \in S \X Latest |-> Keep(p[2], list[p[1]])]
           Body(h) == [s \in SUBSET S |->
                          IF s = {} THEN NoLatest
                          ELSE Keep(h[s \ {Max(s)}], list[Max(s)])]
           iter == CHOOSE h : h = Body(h)
<1>1. DOMAIN list = S /\ Len(list) \in Nat /\ IsFiniteSet(S)
      /\ \A n \in S : list[n] \in InfoRow \cup {Invalid}
  BY FS_Interval DEF Rows
<1>2. DedupLatest(list) = iter[S]
  BY <1>1 DEF DedupLatest, FoldLeft, MapThenFoldSet, NoLatest
<1>3. Picks(pick, S)
  <2>1. ASSUME NEW s \in SUBSET S, s # {}
        PROVE  Max(s) \in s
    <3>1. \A x \in s : x \in Int
      OBVIOUS
    <3> HIDE DEF S
    <3>2. IsFiniteSet(s)
      BY <1>1, FS_Subset
    <3> QED BY <2>1, <3>1, <3>2, MaxExists
  <2> QED BY <2>1 DEF Picks
<1>4. NoLatest \in Latest /\ step \in [S \X Latest -> Latest]
  <2>1. ASSUME NEW p \in S \X Latest PROVE Keep(p[2], list[p[1]]) \in Latest
    BY <1>1, KeepType
  <2> QED BY <2>1 DEF NoLatest, Latest
<1>5. PICK f : IsFold(f, S, Latest, NoLatest, step, pick)
  <2> HIDE DEF S, pick, step
  <2> QED BY <1>1, <1>3, <1>4, FoldExists
<1>6. f = Body(f)
  <2>1. ASSUME NEW s \in SUBSET S
        PROVE  f[s] = Body(f)[s]
    <3>1. CASE s = {}
      BY <3>1, <1>5 DEF IsFold
    <3>2. CASE s # {}
      <4>1. pick[s] = Max(s) /\ Max(s) \in S
        BY <3>2, <1>3 DEF Picks
      <4>2. Rest(pick, s) = s \ {Max(s)} /\ Rest(pick, s) \in SUBSET S
        BY <4>1 DEF Rest
      <4>3. f[s] = step[<<Max(s), f[s \ {Max(s)}]>>] /\ f[s \ {Max(s)}] \in Latest
        <5> HIDE DEF step
        <5> QED BY <4>1, <4>2, <3>2, <1>5 DEF IsFold
      <4> QED BY <4>1, <4>3, <3>2
    <3> QED BY <3>1, <3>2
  <2>2. f = [s \in SUBSET S |-> f[s]]
    BY <1>5 DEF IsFold
  <2> QED BY <2>1, <2>2
<1>7. iter = Body(iter)
  BY <1>6
<1> HIDE DEF iter
<1> DEFINE g == [n \in 0..Len(list) |-> iter[1..n]]
<1>8. g[0] = NoLatest
  <2>1. 1..0 = {} /\ {} \in SUBSET S /\ 0 \in 0..Len(list)
    BY <1>1
  <2> QED BY <2>1, <1>7
<1>9. ASSUME NEW n \in 1..Len(list)
      PROVE  g[n] = Keep(g[n - 1], list[n])
  <2>1. 1..n \in SUBSET S /\ 1..n # {} /\ n - 1 \in 0..Len(list) /\ n \in 0..Len(list)
    BY <1>1
  <2>2. IsFiniteSet(1..n) /\ \A x \in 1..n : x \in Int
    BY <2>1, <1>1, FS_Subset
  <2>3. Max(1..n) = n
    <3>1. Max(1..n) \in 1..n /\ \A x \in 1..n : Max(1..n) >= x
      BY <2>1, <2>2, MaxExists
    <3> QED BY <3>1
  <2>4. (1..n) \ {n} = 1..(n - 1)
    OBVIOUS
  <2>5. iter[1..n] = Keep(iter[(1..n) \ {Max(1..n)}], list[Max(1..n)])
    BY <2>1, <1>7
  <2> QED BY <2>1, <2>3, <2>4, <2>5
<1>10. g[Len(list)] = iter[S]
  BY <1>1
<1> HIDE DEF g
<1> QED BY <1>2, <1>8, <1>9, <1>10


\* row n is the one to keep of the first k, and so is what the loop holds then
IsLatestOf(list, k, n) ==
    /\ list[n] # Invalid
    /\ \A m \in (1..k) \ {n} :
          list[m] # Invalid /\ list[m].stock = list[n].stock =>
              \/ list[m].date < list[n].date
              \/ list[m].date = list[n].date /\ n < m

HoldsLatest(list, k, latest) ==
    \A s \in Stocks :
        \/ /\ latest[s] = NoStock
           /\ \A m \in 1..k : list[m] = Invalid \/ list[m].stock # s
        \/ \E n \in 1..k :
              /\ latest[s] = list[n] /\ list[n].stock = s
              /\ IsLatestOf(list, k, n)

LEMMA KeepHolds ==
  ASSUME NEW list \in Rows, NEW k \in 1..Len(list), NEW latest \in Latest,
         HoldsLatest(list, k - 1, latest)
  PROVE  HoldsLatest(list, k, Keep(latest, list[k]))
<1> DEFINE row == list[k]
           new == Keep(latest, row)
<1>1. /\ k \in Nat /\ k >= 1 /\ 1..k = (1..(k - 1)) \cup {k} /\ k \notin 1..(k - 1)
      /\ \A m \in 1..k : list[m] = Invalid \/ list[m] \in InfoRow
  BY DEF Rows
<1>2. row = Invalid \/ (row \in InfoRow /\ row.stock \in Stocks /\ row.date \in Nat)
  BY <1>1 DEF InfoRow
<1>3. Invalid \notin InfoRow /\ NoStock \notin InfoRow
  BY AbsentStockAssumption
<1>4. row # Invalid => \A s \in Stocks : s # row.stock => new[s] = latest[s]
  BY <1>2 DEF Keep, Latest
<1> HIDE DEF row, new
<1> SUFFICES ASSUME NEW s \in Stocks
             PROVE  \/ /\ new[s] = NoStock
                       /\ \A m \in 1..k : list[m] = Invalid \/ list[m].stock # s
                    \/ \E n \in 1..k :
                          /\ new[s] = list[n] /\ list[n].stock = s
                          /\ IsLatestOf(list, k, n)
  BY DEF HoldsLatest, row, new
<1>5. CASE row = Invalid \/ row.stock # s
  <2>1. new[s] = latest[s]
    BY <1>4, <1>5 DEF new, Keep
  <2>2. CASE latest[s] = NoStock /\ \A m \in 1..(k - 1) : list[m] = Invalid \/ list[m].stock # s
    BY <1>1, <1>5, <2>1, <2>2 DEF row
  <2>3. CASE \E n \in 1..(k - 1) : /\ latest[s] = list[n] /\ list[n].stock = s
                                   /\ IsLatestOf(list, k - 1, n)
    <3>1. PICK n \in 1..(k - 1) : /\ latest[s] = list[n] /\ list[n].stock = s
                                  /\ IsLatestOf(list, k - 1, n)
      BY <2>3
    <3>2. IsLatestOf(list, k, n)
      BY <1>1, <1>5, <3>1 DEF IsLatestOf, row
    <3> QED BY <1>1, <2>1, <3>1, <3>2
  <2> QED BY <2>2, <2>3 DEF HoldsLatest
<1>6. CASE row # Invalid /\ row.stock = s
  <2>1. new[s] = IF latest[s] = NoStock \/ row.date > latest[s].date THEN row ELSE latest[s]
    BY <1>2, <1>6 DEF new, Keep, Latest
  <2>2. CASE latest[s] = NoStock /\ \A m \in 1..(k - 1) : list[m] = Invalid \/ list[m].stock # s
    <3>1. IsLatestOf(list, k, k)
      BY <1>1, <1>6, <2>2 DEF IsLatestOf, row
    <3> QED BY <1>1, <1>6, <2>1, <2>2, <3>1 DEF row
  <2>3. CASE \E n \in 1..(k - 1) : /\ latest[s] = list[n] /\ list[n].stock = s
                                   /\ IsLatestOf(list, k - 1, n)
    <3>1. PICK n \in 1..(k - 1) : /\ latest[s] = list[n] /\ list[n].stock = s
                                  /\ IsLatestOf(list, k - 1, n)
      BY <2>3
    <3>2. list[n] \in InfoRow /\ list[n].date \in Nat /\ n < k /\ n \in Nat /\ n \in 1..k
      BY <1>1, <3>1 DEF InfoRow, IsLatestOf
    <3>3. ASSUME NEW m \in 1..k, list[m] # Invalid
          PROVE  list[m].date \in Nat
      BY <1>1, <3>3 DEF InfoRow
    <3>4. CASE row.date > list[n].date
      <4>1. IsLatestOf(list, k, k)
        BY <1>1, <1>2, <1>6, <3>1, <3>2, <3>3, <3>4 DEF IsLatestOf, row
      <4> QED BY <1>1, <1>6, <2>1, <3>1, <3>4, <4>1 DEF row
    <3>5. CASE ~(row.date > list[n].date)
      <4>1. IsLatestOf(list, k, n)
        BY <1>1, <1>2, <1>6, <3>1, <3>2, <3>5 DEF IsLatestOf, row
      <4> QED BY <1>3, <2>1, <3>1, <3>2, <3>5, <4>1
    <3> QED BY <3>4, <3>5
  <2> QED BY <2>2, <2>3 DEF HoldsLatest
<1> QED BY <1>5, <1>6

\* What _dedup_latest returns: per stock the valid row of the latest date, the
\* first one of equal dates, if there is a valid row at all.
LEMMA DedupHolds ==
  ASSUME NEW list \in Rows
  PROVE  /\ DedupLatest(list) \in Latest
         /\ HoldsLatest(list, Len(list), DedupLatest(list))
<1>1. PICK g : /\ g[0] = NoLatest
               /\ \A n \in 1..Len(list) : g[n] = Keep(g[n - 1], list[n])
               /\ DedupLatest(list) = g[Len(list)]
  BY DedupSteps
<1> DEFINE Good(n) == g[n] \in Latest /\ HoldsLatest(list, n, g[n])
           Bad == {n \in 0..Len(list) : ~Good(n)}
<1>2. Len(list) \in Nat /\ \A n \in 1..Len(list) : list[n] \in InfoRow \cup {Invalid}
  BY DEF Rows
<1>3. Good(0)
  BY <1>1 DEF NoLatest, Latest, HoldsLatest
<1>4. CASE Bad = {}
  BY <1>1, <1>2, <1>4
<1>5. CASE Bad # {}
  <2>1. PICK n \in Bad : \A m \in Bad : n <= m
    <3>1. Bad \in SUBSET Nat
      BY <1>2
    <3> HIDE DEF Bad
    <3> QED BY <3>1, <1>5, LeastNatural
  <2>2. n \in 1..Len(list) /\ n - 1 \in 0..Len(list) /\ n - 1 < n
    <3>1. n # 0
      BY <1>3, <2>1
    <3> QED BY <1>2, <2>1, <3>1
  <2>3. Good(n - 1)
    BY <2>1, <2>2
  <2>4. g[n] = Keep(g[n - 1], list[n])
    BY <1>1, <2>2
  <2>5. Good(n)
    BY <1>2, <2>2, <2>3, <2>4, KeepType, KeepHolds
  <2> QED BY <2>1, <2>5
<1> QED BY <1>4, <1>5

(***************************************************************************)
(* The universe table.  FetchingInv adds what an open sync holds, and that *)
(* the watchlist is the operator's, before the first sync too.             *)
(***************************************************************************)

Row == Universe \cup {NoStock}

FetchingInv ==
    /\ found \in [Syncers -> (SUBSET Stocks) \cup {NotBegun}]
    /\ \A y \in Syncers : found[y] # NotBegun => fetched[y] # NoSnapshot
    /\ \A s \in Stocks : s \in chosen <=> s \in Watched

UniverseInv == UniverseTypeOK /\ FetchingInv /\ IsSnapshotView

LEMMA DeactivatedRow ==
  ASSUME NEW row \in Row
  PROVE  /\ Deactivate(row) \in Row
         /\ Deactivate(row) = NoStock <=> row = NoStock
         /\ row # NoStock => /\ Deactivate(row).active = FALSE
                             /\ Deactivate(row).watched = row.watched
<1>1. NoStock \notin Universe
  BY AbsentStockAssumption
<1>2. CASE row = NoStock
  BY <1>2 DEF Deactivate, Row
<1>3. CASE row \in Universe
  <2> DEFINE new == [row EXCEPT !.active = FALSE]
  <2>1. new \in Universe /\ new.active = FALSE /\ new.watched = row.watched
    BY <1>3 DEF Universe
  <2>2. row # NoStock
    BY <1>1, <1>3
  <2>3. Deactivate(row) = new
    BY <2>2 DEF Deactivate
  <2> HIDE DEF new
  <2> QED BY <1>1, <2>1, <2>2, <2>3 DEF Row
<1> QED BY <1>2, <1>3 DEF Row

LEMMA UpsertedRow ==
  ASSUME NEW row \in Row, NEW new \in InfoRow
  PROVE  /\ UpsertRow(row, new) \in Universe
         /\ UpsertRow(row, new) # NoStock
         /\ UpsertRow(row, new).active = TRUE
         /\ UpsertRow(row, new).info = new.info
         /\ UpsertRow(row, new).watched = IF row = NoStock THEN FALSE ELSE row.watched
<1>1. NoStock \notin Universe /\ new.info \in Infos
  BY AbsentStockAssumption DEF InfoRow
<1>2. CASE row = NoStock
  <2> DEFINE r == [active |-> TRUE, watched |-> FALSE, info |-> new.info]
  <2>1. r \in Universe /\ r.active = TRUE /\ r.info = new.info /\ r.watched = FALSE
    BY <1>1 DEF Universe
  <2>2. UpsertRow(row, new) = r
    BY <1>2 DEF UpsertRow
  <2> HIDE DEF r
  <2> QED BY <1>1, <1>2, <2>1, <2>2
<1>3. CASE row # NoStock
  <2>0. row \in Universe
    BY <1>3 DEF Row
  <2> DEFINE r == [row EXCEPT !.active = TRUE, !.info = new.info]
  <2>1. r \in Universe
    BY <1>1, <2>0 DEF Universe
  <2>2. r.active = TRUE /\ r.info = new.info /\ r.watched = row.watched
    BY <2>0 DEF Universe
  <2>3. UpsertRow(row, new) = r
    BY <1>3 DEF UpsertRow
  <2> HIDE DEF r
  <2> QED BY <1>1, <1>3, <2>1, <2>2, <2>3
<1> QED BY <1>2, <1>3

LEMMA SeededRow ==
  ASSUME NEW info \in Infos
  PROVE  Seeded(info) \in Universe /\ Seeded(info).watched = TRUE
  BY DEF Seeded, Universe

LEMMA UniverseStart == UniverseInit => UniverseInv
<1> SUFFICES ASSUME UniverseInit PROVE UniverseInv
  OBVIOUS
<1>1. PICK info \in Infos, seeds \in (SUBSET Stocks) \ {{}} :
          /\ universe = [s \in Stocks |-> IF s \in seeds THEN Seeded(info) ELSE NoStock]
          /\ chosen = seeds
  BY DEF UniverseInit
<1>2. /\ fetched = [y \in Syncers |-> NoSnapshot] /\ found = [y \in Syncers |-> NotBegun]
      /\ applied = NoSnapshot /\ missed = {}
  BY DEF UniverseInit
<1>3. Seeded(info) \in Universe /\ Seeded(info).watched = TRUE /\ Seeded(info) # NoStock
  BY SeededRow, AbsentStockAssumption
<1>4. universe \in [Stocks -> Universe \cup {NoStock}]
  BY <1>1, <1>3
<1>5. UniverseTypeOK
  BY <1>1, <1>2, <1>4 DEF UniverseTypeOK
<1>6. \A s \in Stocks : s \in chosen <=> s \in Watched
  BY <1>1, <1>3 DEF Watched, Known
<1> QED BY <1>2, <1>5, <1>6 DEF UniverseInv, FetchingInv, IsSnapshotView

\* The table a sync leaves, stock by stock.
LEMMA AppliedRows ==
  ASSUME UniverseInv, NEW y \in Syncers, ApplySnapshot(y)
  PROVE  /\ fetched[y] \in Rows
         /\ universe' \in [Stocks -> Row]
         /\ \A s \in Stocks :
               LET latest == DedupLatest(fetched[y])[s]
               IN  /\ (universe'[s] # NoStock /\ universe'[s].watched)
                        <=> (universe[s] # NoStock /\ universe[s].watched)
                   /\ latest = NoStock =>
                         \/ universe'[s] = NoStock
                         \/ ~universe'[s].active
                         \/ s \in missed'
                   /\ latest # NoStock =>
                         /\ universe'[s] # NoStock /\ universe'[s].active
                         /\ universe'[s].info = latest.info
<1> DEFINE latest == DedupLatest(fetched[y])
           updated == [s \in Stocks |-> IF s \in found[y] THEN Deactivate(universe[s])
                                                          ELSE universe[s]]
<1>1. /\ found[y] # NotBegun /\ missed' = Known \ found[y]
      /\ universe' = [s \in Stocks |-> IF latest[s] = NoStock THEN updated[s]
                                       ELSE UpsertRow(updated[s], latest[s])]
  BY DEF ApplySnapshot
<1>2. universe \in [Stocks -> Row] /\ fetched[y] \in Rows
  <2>1. fetched[y] # NoSnapshot /\ fetched[y] \in Snapshots \cup {NoSnapshot}
    BY <1>1 DEF UniverseInv, FetchingInv, UniverseTypeOK
  <2> QED BY <2>1, SnapshotsAssumption DEF Rows, UniverseInv, UniverseTypeOK, Row
<1>3. latest \in Latest
  BY <1>2, DedupHolds
<1> HIDE DEF latest
<1>4. ASSUME NEW s \in Stocks
      PROVE  /\ updated[s] \in Row
             /\ updated[s] = NoStock <=> universe[s] = NoStock
             /\ updated[s] # NoStock => updated[s].watched = universe[s].watched
             /\ updated[s] = NoStock \/ updated[s].active = FALSE \/ s \in missed'
  <2>1. universe[s] \in Row
    BY <1>2
  <2>2. CASE s \in found[y]
    BY <2>1, <2>2, DeactivatedRow
  <2>3. CASE s \notin found[y]
    BY <1>1, <2>1, <2>3 DEF Known
  <2> QED BY <2>2, <2>3
<1> HIDE DEF updated
<1>5. \A s \in Stocks : latest[s] = NoStock \/ latest[s] \in InfoRow
  BY <1>3 DEF Latest
<1>6. ASSUME NEW s \in Stocks
      PROVE  /\ universe'[s] \in Row
             /\ (universe'[s] # NoStock /\ universe'[s].watched)
                   <=> (universe[s] # NoStock /\ universe[s].watched)
             /\ latest[s] = NoStock =>
                   universe'[s] = NoStock \/ ~universe'[s].active \/ s \in missed'
             /\ latest[s] # NoStock =>
                   /\ universe'[s] # NoStock /\ universe'[s].active
                   /\ universe'[s].info = latest[s].info
  <2>1. CASE latest[s] = NoStock
    <3>1. universe'[s] = updated[s]
      BY <1>1, <2>1
    <3> QED BY <1>4, <2>1, <3>1
  <2>2. CASE latest[s] # NoStock
    <3>1. universe'[s] = UpsertRow(updated[s], latest[s]) /\ latest[s] \in InfoRow
      BY <1>1, <1>5, <2>2
    <3>2. /\ universe'[s] \in Row /\ universe'[s] # NoStock /\ universe'[s].active = TRUE
          /\ universe'[s].info = latest[s].info
          /\ universe'[s].watched = IF updated[s] = NoStock THEN FALSE ELSE updated[s].watched
      <4> DEFINE row == updated[s]
                 new == latest[s]
      <4>1. row \in Row /\ new \in InfoRow /\ universe'[s] = UpsertRow(row, new)
        BY <1>4, <3>1
      <4> HIDE DEF row, new
      <4>2. /\ UpsertRow(row, new) \in Universe
            /\ UpsertRow(row, new) # NoStock
            /\ UpsertRow(row, new).active = TRUE
            /\ UpsertRow(row, new).info = new.info
            /\ UpsertRow(row, new).watched = IF row = NoStock THEN FALSE ELSE row.watched
        BY <4>1, UpsertedRow
      <4>3. UpsertRow(row, new) \in Row
        BY <4>2 DEF Row
      <4> QED BY <4>1, <4>2, <4>3 DEF row, new
    <3> QED BY <1>4, <2>2, <3>2
  <2> QED BY <2>1, <2>2
<1>7. universe' \in [Stocks -> Row]
  BY <1>1, <1>6
<1> QED BY <1>2, <1>6, <1>7 DEF latest


\* Two rows of a snapshot cannot both be the one to keep for a stock.
LEMMA OneLatest ==
  ASSUME NEW list \in Rows, NEW n \in DOMAIN list, NEW m \in DOMAIN list,
         IsLatest(list, n), IsLatest(list, m), list[n].stock = list[m].stock
  PROVE  n = m
<1>1. /\ n \in Int /\ m \in Int /\ list[n] \in InfoRow /\ list[m] \in InfoRow
  BY DEF Rows, IsLatest
<1>2. list[n].date \in Nat /\ list[m].date \in Nat
  BY <1>1 DEF InfoRow
<1> QED BY <1>1, <1>2 DEF IsLatest

LEMMA SyncedView ==
  ASSUME UniverseInv, NEW y \in Syncers, ApplySnapshot(y)
  PROVE  IsSnapshotView'
<1> DEFINE list == fetched[y]
           latest == DedupLatest(list)
<1>1. /\ list \in Rows /\ applied' = list /\ chosen' = chosen
      /\ latest \in Latest /\ HoldsLatest(list, Len(list), latest)
  BY AppliedRows, DedupHolds DEF ApplySnapshot
<1>2. DOMAIN list = 1..Len(list)
  BY <1>1 DEF Rows
<1>3. ASSUME NEW s \in Stocks
      PROVE  /\ (universe'[s] # NoStock /\ universe'[s].watched)
                   <=> (universe[s] # NoStock /\ universe[s].watched)
             /\ latest[s] = NoStock =>
                   universe'[s] = NoStock \/ ~universe'[s].active \/ s \in missed'
             /\ latest[s] # NoStock =>
                   /\ universe'[s] # NoStock /\ universe'[s].active
                   /\ universe'[s].info = latest[s].info
  BY AppliedRows
<1> HIDE DEF list, latest
<1> SUFFICES ASSUME NEW s \in Stocks
             PROVE  LET at == {n \in DOMAIN list : IsLatest(list, n) /\ list[n].stock = s}
                    IN  /\ s \in chosen <=> s \in Watched'
                        /\ at = {} => s \notin Known' \/ ~universe'[s].active \/ s \in missed'
                        /\ \A n \in at : /\ s \in Known' /\ universe'[s].active
                                         /\ universe'[s].info = list[n].info
  BY <1>1 DEF IsSnapshotView, IsLatest
<1> DEFINE at == {n \in DOMAIN list : IsLatest(list, n) /\ list[n].stock = s}
<1>4. s \in chosen <=> s \in Watched'
  BY <1>3 DEF UniverseInv, FetchingInv, Watched, Known
<1>5. \A n : IsLatestOf(list, Len(list), n) <=> IsLatest(list, n)
  BY <1>2 DEF IsLatestOf, IsLatest
<1>6. CASE /\ latest[s] = NoStock
           /\ \A m \in 1..Len(list) : list[m] = Invalid \/ list[m].stock # s
  <2>1. at = {}
    BY <1>2, <1>6 DEF IsLatest
  <2> QED BY <1>3, <1>4, <1>6, <2>1 DEF Known
<1>7. CASE \E n \in 1..Len(list) : /\ latest[s] = list[n] /\ list[n].stock = s
                                   /\ IsLatestOf(list, Len(list), n)
  <2>1. PICK n \in 1..Len(list) : latest[s] = list[n] /\ list[n].stock = s /\ IsLatest(list, n)
    BY <1>5, <1>7
  <2>2. latest[s] # NoStock
    BY <1>1, <1>2, <2>1, AbsentStockAssumption DEF Rows, IsLatest
  <2>3. \A m \in at : m = n
    BY <1>1, <1>2, <2>1, OneLatest
  <2>4. n \in at
    BY <1>2, <2>1
  <2> QED BY <1>3, <1>4, <2>1, <2>2, <2>3, <2>4 DEF Known
<1> QED BY <1>1, <1>6, <1>7 DEF HoldsLatest

LEMMA UniverseStep ==
  ASSUME UniverseInv, [UniverseNext]_universeVars
  PROVE  UniverseInv'
<1> USE DEF UniverseInv
<1>1. ASSUME NEW y \in Syncers, FetchSnapshot(y) PROVE UniverseInv'
  <2>1. /\ fetched[y] = NoSnapshot /\ UNCHANGED <<universe, found, applied, missed, chosen>>
        /\ \E list \in Snapshots : fetched' = [fetched EXCEPT ![y] = list]
    BY <1>1 DEF FetchSnapshot
  <2>2. UniverseTypeOK'
    BY <2>1 DEF UniverseTypeOK
  <2>3. FetchingInv'
    BY <2>1, AbsentStockAssumption DEF FetchingInv, UniverseTypeOK, Watched, Known
  <2> QED BY <2>1, <2>2, <2>3 DEF IsSnapshotView, Watched, Known
<1>2. ASSUME NEW y \in Syncers, BeginUpdate(y) PROVE UniverseInv'
  <2>1. /\ fetched[y] # NoSnapshot /\ found' = [found EXCEPT ![y] = Known]
        /\ UNCHANGED <<universe, fetched, applied, missed, chosen>> /\ Known \subseteq Stocks
    BY <1>2 DEF BeginUpdate, Known
  <2>2. UniverseTypeOK'
    BY <2>1 DEF UniverseTypeOK, FetchingInv
  <2>3. FetchingInv'
    BY <2>1 DEF FetchingInv, Watched, Known
  <2> QED BY <2>1, <2>2, <2>3 DEF IsSnapshotView, Watched, Known
<1>3. ASSUME NEW y \in Syncers, EndSync(y), universe' \in [Stocks -> Row],
             \A s \in Stocks : s \in chosen' <=> s \in Watched',
             missed' \subseteq Stocks, applied' \in Snapshots \cup {NoSnapshot}, chosen' = chosen
      PROVE  UniverseTypeOK' /\ FetchingInv'
  <2>1. /\ fetched' = [fetched EXCEPT ![y] = NoSnapshot] /\ found' = [found EXCEPT ![y] = NotBegun]
    BY <1>3 DEF EndSync
  <2>2. /\ found' \in [Syncers -> (SUBSET Stocks) \cup {NotBegun}]
        /\ \A z \in Syncers : found'[z] # NotBegun => fetched'[z] # NoSnapshot
    BY <2>1 DEF FetchingInv, UniverseTypeOK
  <2>3. FetchingInv'
    BY <1>3, <2>2 DEF FetchingInv
  <2>4. UniverseTypeOK'
    BY <1>3, <2>1, <2>2 DEF UniverseTypeOK, Row
  <2> QED BY <2>3, <2>4
<1>4. ASSUME NEW y \in Syncers, ApplySnapshot(y) PROVE UniverseInv'
  <2>1. /\ EndSync(y) /\ chosen' = chosen /\ missed' = Known \ found[y] /\ applied' = fetched[y]
        /\ missed' \subseteq Stocks
    BY <1>4 DEF ApplySnapshot, Known
  <2>2. universe' \in [Stocks -> Row] /\ IsSnapshotView'
    BY <1>4, AppliedRows, SyncedView
  <2>3. \A s \in Stocks : s \in chosen' <=> s \in Watched'
    <3>1. \A s \in Stocks : (universe'[s] # NoStock /\ universe'[s].watched)
                               <=> (universe[s] # NoStock /\ universe[s].watched)
      BY <1>4, AppliedRows
    <3> QED BY <2>1, <3>1 DEF FetchingInv, Watched, Known
  <2>4. applied' \in Snapshots \cup {NoSnapshot}
    BY <2>1 DEF UniverseTypeOK
  <2> QED BY <1>3, <2>1, <2>2, <2>3, <2>4
<1>5. ASSUME NEW y \in Syncers, AbandonSync(y) PROVE UniverseInv'
  <2>1. EndSync(y) /\ UNCHANGED <<universe, applied, missed, chosen>>
    BY <1>5 DEF AbandonSync
  <2>2. UniverseTypeOK' /\ FetchingInv'
    <3>1. /\ universe' \in [Stocks -> Row] /\ missed' \subseteq Stocks
          /\ applied' \in Snapshots \cup {NoSnapshot}
      BY <2>1 DEF UniverseTypeOK, Row
    <3>2. \A s \in Stocks : s \in chosen' <=> s \in Watched'
      BY <2>1 DEF FetchingInv, Watched, Known
    <3> QED BY <1>3, <2>1, <3>1, <3>2
  <2> QED BY <2>1, <2>2 DEF IsSnapshotView, Watched, Known
<1>6. ASSUME NEW s \in Stocks, EditWatchlist(s) PROVE UniverseInv'
  <2> DEFINE new == [universe[s] EXCEPT !.watched = ~@]
  <2>1. /\ universe[s] # NoStock /\ universe' = [universe EXCEPT ![s] = new]
        /\ chosen' = IF s \in chosen THEN chosen \ {s} ELSE chosen \cup {s}
        /\ UNCHANGED <<fetched, found, applied, missed>>
    BY <1>6 DEF EditWatchlist, Known
  <2>2. universe[s] \in Universe
    BY <2>1 DEF UniverseTypeOK
  <2>3. new \in Universe /\ (new.watched <=> ~universe[s].watched)
    BY <2>2 DEF Universe
  <2>4. new.active = universe[s].active /\ new.info = universe[s].info
    BY <2>2 DEF Universe
  <2> HIDE DEF new
  <2>5. /\ universe' \in [Stocks -> Universe \cup {NoStock}] /\ universe'[s] = new
        /\ \A t \in Stocks : t # s => universe'[t] = universe[t]
    BY <2>1, <2>3 DEF UniverseTypeOK
  <2>6. new # NoStock
    BY <2>3, AbsentStockAssumption
  <2>7. \A t \in Stocks : t \in chosen' <=> t \in Watched'
    <3>1. s \in chosen <=> universe[s].watched
      BY <2>1 DEF FetchingInv, Watched, Known
    <3>2. s \in chosen' <=> s \in Watched'
      BY <2>1, <2>3, <2>5, <2>6, <3>1 DEF Watched, Known
    <3>3. \A t \in Stocks : t # s => (t \in chosen' <=> t \in Watched')
      BY <2>1, <2>5 DEF FetchingInv, Watched, Known
    <3> QED BY <3>2, <3>3
  <2>8. UniverseTypeOK' /\ FetchingInv'
    BY <2>1, <2>5, <2>7 DEF UniverseTypeOK, FetchingInv
  <2>9. IsSnapshotView'
    <3>1. \A t \in Stocks : /\ universe'[t] = NoStock <=> universe[t] = NoStock
                            /\ universe'[t].active = universe[t].active
                            /\ universe'[t].info = universe[t].info
      BY <2>1, <2>4, <2>5, <2>6
    <3>2. \A n : IsLatest(applied, n)' <=> IsLatest(applied, n)
      BY <2>1 DEF IsLatest
    <3> QED BY <2>1, <2>7, <3>1, <3>2 DEF IsSnapshotView, Known
  <2> QED BY <2>8, <2>9
<1>7. CASE UNCHANGED universeVars
  BY <1>7 DEF universeVars, UniverseTypeOK, FetchingInv, IsSnapshotView, Watched, Known, IsLatest
<1> QED BY <1>1, <1>2, <1>4, <1>5, <1>6, <1>7 DEF UniverseNext

\* For any syncers, snapshots and edits, with any overlap: the universe's type.
THEOREM UniverseTypeCorrect == UniverseSpec => []UniverseTypeOK
<1>1. UniverseInv /\ [UniverseNext]_universeVars => UniverseInv'
  BY UniverseStep
<1>2. UniverseInv => UniverseTypeOK
  BY DEF UniverseInv
<1> QED BY <1>1, <1>2, UniverseStart, PTL DEF UniverseSpec

\* For any syncers, snapshots and edits, with any overlap: the universe is the last
\* snapshot's, but for stocks another sync added meanwhile, and watched is what the
\* operator wants watched.
THEOREM IsSnapshotViewHolds == UniverseSpec => []IsSnapshotView
<1>1. UniverseInv /\ [UniverseNext]_universeVars => UniverseInv'
  BY UniverseStep
<1>2. UniverseInv => IsSnapshotView
  BY DEF UniverseInv
<1> QED BY <1>1, <1>2, UniverseStart, PTL DEF UniverseSpec
-----------------------------------------------------------------------------
(***************************************************************************)
(* The daily ingest: the rows of a call, and when a stock is written off.  *)
(***************************************************************************)

RunType ==
    [pc : {"idle", "loop", "fetch", "raw", "failure"}, call : 0..MaxCalls,
     todo : SUBSET Stocks, stock : Stocks \cup {NoStockYet}, made : 0..MaxAttempts,
     error : FinMindErrors \cup {"none"}, written : Nat, failures : Nat]

\* what TypeOK says of the tables and the calls, without the universe
IngestTypeOK ==
    /\ run \in [Runners -> RunType]
    /\ watchlist \in [Calls -> SUBSET Stocks]
    /\ rows \in [Calls -> [Stocks -> Seq(Entries)]]
    /\ calls \in 0..MaxCalls

Open(r) == run[r].pc # "idle"

\* an open call has a number that was given out, to it alone
OwnCall ==
    /\ \A r \in Runners : Open(r) => run[r].call \in 1..calls
    /\ \A r, q \in Runners : Open(r) /\ Open(q) /\ r # q => run[r].call # run[q].call

\* the stock the loop is at
Busy(r) == run[r].pc \in {"fetch", "raw", "failure"}

\* the loop has yet to write the rows of the stocks before it
ToWrite ==
    \A r \in Runners : Open(r) =>
        /\ run[r].todo \subseteq watchlist[run[r].call]
        /\ \A s \in run[r].todo : rows[run[r].call][s] = << >>
        /\ Busy(r) => /\ run[r].stock \in watchlist[run[r].call] \ run[r].todo
                      /\ rows[run[r].call][run[r].stock] = << >>

NotStarted == \A c \in Calls : \A s \in Stocks : c > calls => rows[c][s] = << >>

RowsInv ==
    /\ IngestTypeOK
    /\ OwnCall
    /\ ToWrite
    /\ NotStarted
    /\ NoDoubleRow

\* an attempt is left while the client fetches, and none when it has given up
Attempts ==
    \A r \in Runners :
        /\ run[r].pc = "fetch" => run[r].made < MaxAttempts
        /\ run[r].pc = "failure" =>
              /\ run[r].error \in FinMindErrors /\ run[r].made >= 1
              /\ run[r].error = "request error" \/ run[r].made = MaxAttempts

DeservedInv == RowsInv /\ Attempts /\ FailureDeserved
-----------------------------------------------------------------------------
LEMMA CallsNat == MaxCalls \in Nat /\ MaxAttempts \in Nat \ {0} /\ NoStockYet \notin Stocks
BY MaxCallsAssumption, MaxAttemptsAssumption, NoStockYetAssumption

LEMMA IdleType == Idle \in RunType /\ Idle.pc = "idle"
BY CallsNat DEF Idle, RunType

LEMMA ListedStocks == Listed \subseteq Stocks
BY DEF Listed, Watched, Known

LEMMA InitRows == Init => DeservedInv
<1> SUFFICES ASSUME Init PROVE DeservedInv
    OBVIOUS
<1>1. /\ run = [r \in Runners |-> Idle]
      /\ rows = [c \in Calls |-> [s \in Stocks |-> << >>]]
      /\ watchlist = [c \in Calls |-> {}] /\ calls = 0
    BY DEF Init
<1>2. IngestTypeOK
    BY <1>1, CallsNat, IdleType DEF IngestTypeOK, Calls
<1>3. OwnCall /\ ToWrite /\ Attempts
    BY <1>1, IdleType DEF OwnCall, ToWrite, Attempts, Open
<1>4. NotStarted /\ NoDoubleRow /\ FailureDeserved
    <2>1. \A c \in Calls : \A s \in Stocks : rows[c][s] = << >>
        BY <1>1
    <2>2. \A c \in Calls : \A s \in Stocks : Len(rows[c][s]) = 0 /\ DOMAIN rows[c][s] = {}
        BY <2>1
    <2>3. NotStarted
        BY <2>1 DEF NotStarted
    <2>4. NoDoubleRow
        BY <2>2 DEF NoDoubleRow
    <2>5. FailureDeserved
        BY <2>2 DEF FailureDeserved
    <2> QED
        BY <2>3, <2>4, <2>5
<1> QED
    BY <1>2, <1>3, <1>4 DEF DeservedInv, RowsInv

\* A runner that ends its call only frees its number.
LEMMA EndedRows ==
    ASSUME DeservedInv, NEW r \in Runners, run' = [run EXCEPT ![r] = Idle],
           UNCHANGED <<watchlist, rows, calls>>
    PROVE  DeservedInv'
<1> USE DEF DeservedInv, RowsInv
<1>1. /\ run' \in [Runners -> RunType]
      /\ ~Open(r)'
      /\ \A q \in Runners : q # r => run'[q] = run[q]
    BY IdleType DEF IngestTypeOK, Open
<1>2. IngestTypeOK'
    BY <1>1 DEF IngestTypeOK
<1>3. OwnCall'
    BY <1>1 DEF OwnCall, Open
<1>4. ToWrite'
    BY <1>1 DEF ToWrite, Open, Busy
<1>5. NotStarted' /\ NoDoubleRow' /\ FailureDeserved'
    BY DEF NotStarted, NoDoubleRow, FailureDeserved
<1>6. Attempts'
    BY <1>1 DEF Attempts, Open
<1> QED
    BY <1>2, <1>3, <1>4, <1>5, <1>6

\* A call begins with the listed stocks to do.
LEMMA NewCall ==
    ASSUME NEW c \in Calls
    PROVE  LET new == [Idle EXCEPT !.pc = "loop", !.call = c, !.todo = Listed]
           IN  /\ new \in RunType /\ new.pc = "loop" /\ new.call = c /\ new.todo = Listed
               /\ new.written = 0 /\ new.failures = 0
<1> DEFINE new == [Idle EXCEPT !.pc = "loop", !.call = c, !.todo = Listed]
           one == [Idle EXCEPT !.pc = "loop"]
           two == [one EXCEPT !.call = c]
<1>1. one = [pc |-> "loop", call |-> 0, todo |-> {}, stock |-> NoStockYet,
             made |-> 0, error |-> "none", written |-> 0, failures |-> 0]
    BY DEF Idle
<1>2. new = [two EXCEPT !.todo = Listed]
    OBVIOUS
<1> HIDE DEF one, new
<1>3. two = [pc |-> "loop", call |-> c, todo |-> {}, stock |-> NoStockYet,
             made |-> 0, error |-> "none", written |-> 0, failures |-> 0]
    BY <1>1
<1> HIDE DEF two
<1>4. new = [pc |-> "loop", call |-> c, todo |-> Listed, stock |-> NoStockYet,
             made |-> 0, error |-> "none", written |-> 0, failures |-> 0]
    BY <1>2, <1>3
<1>5. c \in 0..MaxCalls
    BY CallsNat DEF Calls
<1>6. /\ new \in RunType /\ new.pc = "loop" /\ new.call = c /\ new.todo = Listed
      /\ new.written = 0 /\ new.failures = 0
    BY <1>4, <1>5, CallsNat, ListedStocks DEF RunType
<1> QED
    BY <1>6 DEF new

LEMMA LoadRows ==
    ASSUME DeservedInv, NEW r \in Runners, LoadWatchlist(r)
    PROVE  DeservedInv'
<1> USE DEF DeservedInv, RowsInv
<1> DEFINE new == [Idle EXCEPT !.pc = "loop", !.call = calls + 1, !.todo = Listed]
<1>1. /\ calls' = calls + 1 /\ calls + 1 \in Calls /\ calls \in Nat
      /\ run[r].pc = "idle" /\ run' = [run EXCEPT ![r] = new]
      /\ watchlist' = [watchlist EXCEPT ![calls + 1] = Listed]
      /\ rows' = rows
    BY CallsNat DEF LoadWatchlist, IngestTypeOK, Calls
<1>2. /\ new \in RunType /\ new.pc = "loop" /\ new.call = calls + 1 /\ new.todo = Listed
      /\ new.written = 0 /\ new.failures = 0
    BY <1>1, NewCall
<1> HIDE DEF new
<1>3. /\ run'[r] = new
      /\ \A q \in Runners : q # r => run'[q] = run[q]
      /\ watchlist'[calls + 1] = Listed
      /\ \A c \in Calls : c # calls + 1 => watchlist'[c] = watchlist[c]
    BY <1>1 DEF IngestTypeOK
<1>4. IngestTypeOK'
    BY <1>1, <1>2, ListedStocks, CallsNat DEF IngestTypeOK, Calls
<1>5. OwnCall'
    BY <1>1, <1>2, <1>3 DEF OwnCall, Open
<1>6. \A s \in Stocks : rows[calls + 1][s] = << >>
    BY <1>1 DEF NotStarted
<1>7. ToWrite'
    <2> SUFFICES ASSUME NEW q \in Runners, Open(q)'
                 PROVE  /\ run'[q].todo \subseteq watchlist'[run'[q].call]
                        /\ \A s \in run'[q].todo : rows[run'[q].call][s] = << >>
                        /\ Busy(q)' => /\ run'[q].stock \in watchlist'[run'[q].call] \ run'[q].todo
                                       /\ rows[run'[q].call][run'[q].stock] = << >>
        BY <1>1 DEF ToWrite
    <2>1. CASE q = r
        BY <2>1, <1>2, <1>3, <1>6, ListedStocks DEF Busy
    <2>2. CASE q # r
        <3>1. Open(q) /\ run'[q] = run[q] /\ run[q].call \in 1..calls
            BY <2>2, <1>3 DEF OwnCall, Open
        <3>2. run[q].call # calls + 1 /\ run[q].call \in Calls
            BY <3>1, <1>1, CallsNat DEF Calls
        <3>3. watchlist'[run[q].call] = watchlist[run[q].call]
            BY <3>2, <1>3
        <3> QED
            BY <3>1, <3>3 DEF ToWrite, Busy
    <2> QED
        BY <2>1, <2>2
<1>8. NotStarted'
    BY <1>1 DEF NotStarted, Calls
<1>9. NoDoubleRow'
    <2>1. \A s \in Stocks : Len(rows[calls + 1][s]) = 0
        BY <1>6
    <2> QED
        BY <2>1, <1>1, <1>3 DEF NoDoubleRow
<1>10. Attempts'
    BY <1>2, <1>3 DEF Attempts
<1>11. FailureDeserved'
    BY <1>1 DEF FailureDeserved
<1> QED
    BY <1>4, <1>5, <1>7, <1>8, <1>9, <1>10, <1>11

\* the record a runner may go on with, for the attempts it has left
Fair(c) ==
    /\ c.pc = "fetch" => c.made < MaxAttempts
    /\ c.pc = "failure" =>
          /\ c.error \in FinMindErrors /\ c.made >= 1
          /\ c.error = "request error" \/ c.made = MaxAttempts

\* A runner that writes nothing goes on in its call, perhaps with the next stock.
LEMMA QuietRows ==
    ASSUME DeservedInv, NEW r \in Runners, Open(r), NEW new \in RunType, Fair(new),
           run' = [run EXCEPT ![r] = new], new.pc # "idle", new.call = run[r].call,
           new.todo \subseteq run[r].todo,
           new.pc \in {"fetch", "raw", "failure"} =>
               (Busy(r) /\ new.stock = run[r].stock) \/ new.stock \in run[r].todo \ new.todo,
           UNCHANGED <<watchlist, rows, calls>>
    PROVE  DeservedInv'
<1> USE DEF DeservedInv, RowsInv
<1>1. /\ run' \in [Runners -> RunType] /\ run'[r] = new
      /\ \A q \in Runners : q # r => run'[q] = run[q]
    BY DEF IngestTypeOK
<1>2. IngestTypeOK'
    BY <1>1 DEF IngestTypeOK
<1>3. OwnCall'
    BY <1>1 DEF OwnCall, Open
<1>4. ToWrite'
    <2> SUFFICES ASSUME NEW q \in Runners, Open(q)'
                 PROVE  /\ run'[q].todo \subseteq watchlist[run'[q].call]
                        /\ \A s \in run'[q].todo : rows[run'[q].call][s] = << >>
                        /\ Busy(q)' => /\ run'[q].stock \in watchlist[run'[q].call] \ run'[q].todo
                                       /\ rows[run'[q].call][run'[q].stock] = << >>
        BY DEF ToWrite
    <2>1. CASE q = r
        BY <2>1, <1>1 DEF ToWrite, Busy
    <2>2. CASE q # r
        BY <2>2, <1>1 DEF ToWrite, Busy, Open
    <2> QED
        BY <2>1, <2>2
<1>5. NotStarted' /\ NoDoubleRow' /\ FailureDeserved'
    BY DEF NotStarted, NoDoubleRow, FailureDeserved
<1>6. Attempts'
    BY <1>1 DEF Attempts, Fair
<1> QED
    BY <1>2, <1>3, <1>4, <1>5, <1>6

IsDeserved(row) ==
    row.table = "ingest_failure" => row.error = "request error" \/ row.made = MaxAttempts

\* A runner that writes the row of its stock, the first one of it in its call.
LEMMA WriteRows ==
    ASSUME DeservedInv, NEW r \in Runners, Busy(r), NEW new \in RunType, Fair(new),
           run' = [run EXCEPT ![r] = new], new.pc = "loop", new.call = run[r].call,
           new.todo = run[r].todo, NEW row \in Entries, IsDeserved(row), Write(r, row),
           UNCHANGED <<watchlist, calls>>
    PROVE  DeservedInv'
<1> USE DEF DeservedInv, RowsInv
<1> DEFINE c == run[r].call
           s == run[r].stock
<1>1. /\ run' \in [Runners -> RunType] /\ run'[r] = new
      /\ \A q \in Runners : q # r => run'[q] = run[q]
    BY DEF IngestTypeOK
<1>2. Open(r) /\ c \in 1..calls /\ c \in Calls /\ calls \in Nat
    BY CallsNat DEF Busy, Open, OwnCall, IngestTypeOK, Calls
<1>3. /\ s \in watchlist[c] \ run[r].todo /\ s \in Stocks
      /\ rows[c][s] = << >>
    BY <1>2 DEF ToWrite, IngestTypeOK
<1>4. /\ rows' \in [Calls -> [Stocks -> Seq(Entries)]]
      /\ rows'[c][s] = <<row>>
      /\ \A d \in Calls : \A t \in Stocks : (d # c \/ t # s) => rows'[d][t] = rows[d][t]
    <2>1. rows' = [rows EXCEPT ![c] = [rows[c] EXCEPT ![s] = Append(rows[c][s], row)]]
        BY DEF Write
    <2>2. Append(rows[c][s], row) = <<row>> /\ <<row>> \in Seq(Entries)
        BY <1>3
    <2>3. rows[c] \in [Stocks -> Seq(Entries)]
        BY <1>2 DEF IngestTypeOK
    <2> QED
        BY <2>1, <2>2, <2>3, <1>2, <1>3 DEF IngestTypeOK
<1>5. Len(rows'[c][s]) = 1 /\ DOMAIN rows'[c][s] = {1} /\ rows'[c][s][1] = row
    BY <1>4
<1> HIDE DEF c, s
<1>6. IngestTypeOK'
    BY <1>1, <1>4 DEF IngestTypeOK
<1>7. OwnCall'
    BY <1>1, <1>2 DEF OwnCall, Open, c
<1>8. ToWrite'
    <2> SUFFICES ASSUME NEW q \in Runners, Open(q)'
                 PROVE  /\ run'[q].todo \subseteq watchlist[run'[q].call]
                        /\ \A t \in run'[q].todo : rows'[run'[q].call][t] = << >>
                        /\ Busy(q)' => /\ run'[q].stock \in watchlist[run'[q].call] \ run'[q].todo
                                       /\ rows'[run'[q].call][run'[q].stock] = << >>
        BY DEF ToWrite
    <2>1. CASE q = r
        <3>0. run[r].todo \subseteq Stocks
            BY DEF IngestTypeOK, RunType
        <3>1. \A t \in run[r].todo : t \in Stocks /\ t # s
            BY <3>0, <1>3
        <3>2. \A t \in run[r].todo : rows'[c][t] = << >>
            <4>1. \A t \in run[r].todo : rows[c][t] = << >>
                BY <1>2 DEF ToWrite, c
            <4> QED
                BY <4>1, <3>1, <1>2, <1>4
        <3>3. run[r].todo \subseteq watchlist[c]
            BY <1>2 DEF ToWrite, c
        <3>4. run'[q] = new /\ new.call = c /\ new.todo = run[r].todo /\ ~Busy(q)'
            BY <2>1, <1>1 DEF Busy, c
        <3> QED
            BY <3>2, <3>3, <3>4
    <2>2. CASE q # r
        <3>1. Open(q) /\ run'[q] = run[q] /\ run[q].call # c
            BY <2>2, <1>1, <1>2 DEF OwnCall, Open, c
        <3>2. run[q].call \in Calls /\ run[q].todo \subseteq Stocks
            <4>1. run[q].call \in 1..calls /\ calls \in 0..MaxCalls
                BY <3>1 DEF OwnCall, IngestTypeOK
            <4>2. run[q].todo \subseteq Stocks
                BY DEF IngestTypeOK, RunType
            <4> QED
                BY <4>1, <4>2, CallsNat DEF Calls
        <3>3. watchlist[run[q].call] \subseteq Stocks
            BY <3>2 DEF IngestTypeOK
        <3>4. \A t \in Stocks : rows'[run[q].call][t] = rows[run[q].call][t]
            BY <3>1, <3>2, <1>4
        <3>5. /\ run[q].todo \subseteq watchlist[run[q].call]
              /\ \A t \in run[q].todo : rows[run[q].call][t] = << >>
              /\ Busy(q) => /\ run[q].stock \in watchlist[run[q].call] \ run[q].todo
                            /\ rows[run[q].call][run[q].stock] = << >>
            BY <3>1 DEF ToWrite
        <3>6. Busy(q)' <=> Busy(q)
            BY <3>1 DEF Busy
        <3> QED
            BY <3>1, <3>2, <3>3, <3>4, <3>5, <3>6
    <2> QED
        BY <2>1, <2>2
<1>9. NotStarted'
    <2> SUFFICES ASSUME NEW d \in Calls, NEW t \in Stocks, d > calls
                 PROVE  rows'[d][t] = << >>
        BY DEF NotStarted
    <2>1. d # c
        BY <1>2 DEF Calls
    <2>2. rows[d][t] = << >>
        BY DEF NotStarted
    <2> QED
        BY <2>1, <2>2, <1>4
<1>10. NoDoubleRow'
    <2> SUFFICES ASSUME NEW d \in Calls, NEW t \in Stocks
                 PROVE  Len(rows'[d][t]) <= IF t \in watchlist[d] THEN 1 ELSE 0
        BY DEF NoDoubleRow
    <2>1. CASE d = c /\ t = s
        BY <2>1, <1>3, <1>5
    <2>2. CASE d # c \/ t # s
        BY <2>2, <1>4 DEF NoDoubleRow
    <2> QED
        BY <2>1, <2>2
<1>11. FailureDeserved'
    <2> SUFFICES ASSUME NEW d \in Calls, NEW t \in Stocks, NEW n \in DOMAIN rows'[d][t]
                 PROVE  IsDeserved(rows'[d][t][n])
        BY DEF FailureDeserved, IsDeserved
    <2>1. CASE d = c /\ t = s
        <3>1. rows'[d][t][n] = row
            BY <2>1, <1>5
        <3> QED
            BY <3>1
    <2>2. CASE d # c \/ t # s
        <3>1. rows'[d][t] = rows[d][t]
            BY <2>2, <1>4
        <3>2. n \in DOMAIN rows[d][t]
            BY <3>1
        <3>3. IsDeserved(rows[d][t][n])
            BY <3>2 DEF FailureDeserved, IsDeserved
        <3> QED
            BY <3>1, <3>3
    <2> QED
        BY <2>1, <2>2
<1>12. Attempts'
    BY <1>1 DEF Attempts, Fair
<1> QED
    BY <1>6, <1>7, <1>8, <1>9, <1>10, <1>11, <1>12
-----------------------------------------------------------------------------
LEMMA TurnedType ==
    ASSUME NEW c \in RunType, NEW s \in c.todo
    PROVE  /\ Turned(c, s) \in RunType
           /\ Turned(c, s).pc = "fetch" /\ Turned(c, s).made = 0
           /\ Turned(c, s).stock = s /\ Turned(c, s).todo = c.todo \ {s}
           /\ Turned(c, s).call = c.call
           /\ Turned(c, s).written = c.written /\ Turned(c, s).failures = c.failures
<1> DEFINE rest == c.todo \ {s}
           new == Turned(c, s)
<1>1. rest \in SUBSET Stocks /\ s \in Stocks /\ 0 \in 0..MaxAttempts
    BY CallsNat DEF RunType
<1>2. new = [c EXCEPT !.pc = "fetch", !.stock = s, !.made = 0, !.todo = rest]
    BY DEF Turned
<1> HIDE DEF rest, new
<1>3. /\ new.pc = "fetch" /\ new.made = 0
      /\ new.stock = s /\ new.todo = rest /\ new.call = c.call
    BY <1>2 DEF RunType
<1>4. new \in RunType
    BY <1>1, <1>2 DEF RunType
<1>5. new.written = c.written /\ new.failures = c.failures
    BY <1>2 DEF RunType
<1> QED
    BY <1>3, <1>4, <1>5 DEF new, rest

LEMMA RequestedType ==
    ASSUME NEW c \in RunType, NEW made \in 0..MaxAttempts, NEW pc \in {"fetch", "raw", "failure"},
           NEW error \in FinMindErrors \cup {"none"}
    PROVE  LET new == Requested(c, made, pc, error)
           IN  /\ new \in RunType
               /\ new.pc = pc /\ new.made = made /\ new.error = error
               /\ new.stock = c.stock /\ new.todo = c.todo /\ new.call = c.call
               /\ new.written = c.written /\ new.failures = c.failures
<1> DEFINE new == Requested(c, made, pc, error)
<1>1. new = [c EXCEPT !.made = made, !.pc = pc, !.error = error]
    BY DEF Requested
<1> HIDE DEF new
<1>2. new \in RunType
    BY <1>1 DEF RunType
<1>3. new.pc = pc /\ new.made = made /\ new.error = error
    BY <1>1 DEF RunType
<1>4. new.stock = c.stock /\ new.todo = c.todo /\ new.call = c.call
    BY <1>1 DEF RunType
<1>5. new.written = c.written /\ new.failures = c.failures
    BY <1>1 DEF RunType
<1> QED
    BY <1>2, <1>3, <1>4, <1>5 DEF new

LEMMA NextLoopType ==
    ASSUME NEW c \in RunType, NEW written \in Nat, NEW failures \in Nat,
           NEW new, new = NextLoop(c, written, failures)
    PROVE  /\ new \in RunType
           /\ new.pc = "loop" /\ new.todo = c.todo /\ new.call = c.call
           /\ new.written = written /\ new.failures = failures
<1>1. new = [c EXCEPT !.pc = "loop", !.stock = NoStockYet, !.made = 0, !.error = "none",
                      !.written = written, !.failures = failures]
    BY DEF NextLoop
<1>2. new.pc = "loop" /\ new.todo = c.todo /\ new.call = c.call
    BY <1>1 DEF RunType
<1>3. 0 \in 0..MaxAttempts
    BY CallsNat
<1>4. new \in RunType
    BY <1>1, <1>3 DEF RunType
<1>5. new.written = written /\ new.failures = failures
    BY <1>1 DEF RunType
<1> QED
    BY <1>2, <1>4, <1>5

LEMMA StockRows ==
    ASSUME DeservedInv, NEW r \in Runners, NextStock(r)
    PROVE  DeservedInv'
<1>1. PICK s \in run[r].todo : run' = [run EXCEPT ![r] = Turned(run[r], s)]
    BY DEF NextStock
<1>2. run[r] \in RunType
    BY DEF DeservedInv, RowsInv, IngestTypeOK
<1>3. /\ Turned(run[r], s) \in RunType
      /\ Turned(run[r], s).pc = "fetch" /\ Turned(run[r], s).made = 0
      /\ Turned(run[r], s).stock = s /\ Turned(run[r], s).todo = run[r].todo \ {s}
      /\ Turned(run[r], s).call = run[r].call
    BY <1>2, TurnedType
<1>4. Fair(Turned(run[r], s))
    BY <1>3, CallsNat DEF Fair
<1>5. Open(r) /\ UNCHANGED <<watchlist, rows, calls>>
    BY DEF NextStock, Open
<1> QED
    BY <1>1, <1>3, <1>4, <1>5, QuietRows

LEMMA RequestRows ==
    ASSUME DeservedInv, NEW r \in Runners, Request(r)
    PROVE  DeservedInv'
<1>0. MaxAttempts \in Nat \ {0}
    BY CallsNat
<1>1. /\ run[r] \in RunType /\ run[r].pc = "fetch" /\ run[r].made < MaxAttempts
      /\ Busy(r) /\ Open(r) /\ UNCHANGED <<watchlist, rows, calls>>
    BY DEF DeservedInv, RowsInv, IngestTypeOK, Attempts, Request, Busy, Open
<1>2. Attempt(run[r]) = run[r].made + 1 /\ Attempt(run[r]) \in 1..MaxAttempts
    <2>1. run[r].made \in 0..MaxAttempts
        BY <1>1 DEF RunType
    <2> QED
        BY <2>1, <1>0, <1>1 DEF Attempt
<1>3. PICK reply : LET made == Attempt(run[r])
                       result == AttemptResult(reply, made)
                   IN  \/ /\ result = "retry"
                          /\ run' = [run EXCEPT ![r] = Requested(run[r], made, "fetch", "none")]
                       \/ /\ result = "data"
                          /\ run' = [run EXCEPT ![r] = Requested(run[r], made, "raw", "none")]
                       \/ /\ result \in FinMindErrors
                          /\ run' = [run EXCEPT ![r] = Requested(run[r], made, "failure", result)]
                       \/ run' = [run EXCEPT ![r] = Idle]
    BY DEF Request, EndCall
<1> DEFINE made == Attempt(run[r])
           result == AttemptResult(reply, made)
<1>4. /\ result = "retry" => made < MaxAttempts
      /\ result = "rate limit error" => made = MaxAttempts
    <2>1. ParseResponse(reply) # "retry"
        BY DEF ParseResponse
    <2>2. ParseResponse(reply) # "rate limit error"
        BY DEF ParseResponse
    <2>3. made \in Int /\ MaxAttempts \in Int /\ made <= MaxAttempts
        BY <1>0, <1>2
    <2>4. CASE made < MaxAttempts
        BY <2>1, <2>2, <2>3, <2>4 DEF AttemptResult
    <2>5. CASE ~(made < MaxAttempts)
        <3>1. made = MaxAttempts
            BY <2>3, <2>5
        <3>2. result # "retry"
            BY <2>1, <2>5 DEF AttemptResult
        <3> QED
            BY <3>1, <3>2
    <2> QED
        BY <2>4, <2>5
<1> HIDE DEF made, result
<1>5. made \in 0..MaxAttempts /\ made >= 1
    BY <1>0, <1>2 DEF made
<1>6. ASSUME NEW pc \in {"fetch", "raw", "failure"}, NEW error \in FinMindErrors \cup {"none"},
             run' = [run EXCEPT ![r] = Requested(run[r], made, pc, error)],
             pc = "fetch" => made < MaxAttempts,
             pc = "failure" => /\ error \in FinMindErrors /\ made >= 1
                               /\ error = "request error" \/ made = MaxAttempts
      PROVE  DeservedInv'
    <2> DEFINE new == Requested(run[r], made, pc, error)
    <2>1. /\ new \in RunType
          /\ new.pc = pc /\ new.made = made /\ new.error = error
          /\ new.stock = run[r].stock /\ new.todo = run[r].todo /\ new.call = run[r].call
        BY <1>1, <1>5, RequestedType
    <2>2. run' = [run EXCEPT ![r] = new]
        BY <1>6
    <2> HIDE DEF new
    <2>3. Fair(new) /\ new.pc # "idle"
        BY <1>6, <2>1 DEF Fair
    <2> QED
        BY <1>1, <2>1, <2>2, <2>3, QuietRows
<1>7. CASE result = "retry" /\ run' = [run EXCEPT ![r] = Requested(run[r], made, "fetch", "none")]
    BY <1>4, <1>6, <1>7
<1>8. CASE result = "data" /\ run' = [run EXCEPT ![r] = Requested(run[r], made, "raw", "none")]
    BY <1>6, <1>8
<1>9. CASE /\ result \in FinMindErrors
           /\ run' = [run EXCEPT ![r] = Requested(run[r], made, "failure", result)]
    <2>1. result = "request error" \/ made = MaxAttempts
        BY <1>4, <1>9 DEF FinMindErrors
    <2> QED
        BY <1>5, <1>6, <1>9, <2>1
<1>10. CASE run' = [run EXCEPT ![r] = Idle]
    BY <1>1, <1>10, EndedRows
<1> QED
    BY <1>3, <1>7, <1>8, <1>9, <1>10 DEF made, result

LEMMA RecordRows ==
    ASSUME DeservedInv, NEW r \in Runners, RecordRaw(r) \/ RecordFailure(r)
    PROVE  DeservedInv'
<1>1. /\ run[r] \in RunType /\ Busy(r) /\ UNCHANGED <<watchlist, calls>>
      /\ run[r].written \in Nat /\ run[r].failures \in Nat
    BY DEF DeservedInv, RowsInv, IngestTypeOK, RecordRaw, RecordFailure, Busy, RunType
<1>2. PICK written \in Nat, failures \in Nat :
          run' = [run EXCEPT ![r] = NextLoop(run[r], written, failures)]
    BY <1>1 DEF RecordRaw, RecordFailure
<1> DEFINE new == NextLoop(run[r], written, failures)
<1>3. /\ new \in RunType
      /\ new.pc = "loop" /\ new.todo = run[r].todo /\ new.call = run[r].call
      /\ new.written = written /\ new.failures = failures
    <2>1. run[r] \in RunType /\ written \in Nat /\ failures \in Nat
        BY <1>1
    <2>2. new = NextLoop(run[r], written, failures)
        OBVIOUS
    <2> HIDE DEF new
    <2> QED
        BY ONLY <2>1, <2>2, NextLoopType
<1>4. run' = [run EXCEPT ![r] = new]
    BY <1>2
<1> HIDE DEF new
<1>5. Fair(new)
    BY <1>3 DEF Fair
<1>6. PICK row \in Entries : Write(r, row) /\ IsDeserved(row)
    <2>1. CASE RecordRaw(r)
        <3>1. RawRow \in Entries /\ IsDeserved(RawRow)
            BY DEF Entries, IsDeserved, RawRow
        <3> QED
            BY <2>1, <3>1 DEF RecordRaw
    <2>2. CASE RecordFailure(r)
        <3> DEFINE row == FailureRow(run[r].error, MaxAttempts, run[r].made)
        <3>1. run[r].pc = "failure" /\ Write(r, row)
            BY <2>2 DEF RecordFailure
        <3>2. run[r].error = "request error" \/ run[r].made = MaxAttempts
            BY <3>1 DEF DeservedInv, Attempts
        <3>3. IsDeserved(row)
            BY <3>2 DEF IsDeserved, FailureRow
        <3>4. run[r].error \in FinMindErrors /\ run[r].made \in 1..MaxAttempts
            <4>1. run[r].error \in FinMindErrors /\ run[r].made >= 1
                BY <3>1 DEF DeservedInv, Attempts
            <4>2. run[r].made \in 0..MaxAttempts
                BY <1>1 DEF RunType
            <4> QED
                BY <4>1, <4>2, CallsNat
        <3> QED
            BY <3>1, <3>3, <3>4 DEF Entries
    <2> QED
        BY <2>1, <2>2
<1> QED
    BY <1>1, <1>3, <1>4, <1>5, <1>6, WriteRows
-----------------------------------------------------------------------------
LEMMA SameRows ==
    ASSUME DeservedInv, UNCHANGED <<run, watchlist, rows, calls>>
    PROVE  DeservedInv'
<1> USE DEF DeservedInv, RowsInv
<1>1. IngestTypeOK' /\ OwnCall' /\ Attempts'
    BY DEF IngestTypeOK, OwnCall, Attempts, Open
<1>2. ToWrite'
    BY DEF ToWrite, Open, Busy
<1>3. NotStarted' /\ NoDoubleRow' /\ FailureDeserved'
    BY DEF NotStarted, NoDoubleRow, FailureDeserved
<1> QED
    BY <1>1, <1>2, <1>3

LEMMA StepRows ==
    ASSUME DeservedInv, [Next]_vars
    PROVE  DeservedInv'
<1>1. CASE UniverseNext /\ UNCHANGED ingestVars
    BY <1>1, SameRows DEF ingestVars
<1>2. ASSUME NEW r \in Runners, LoadWatchlist(r)
      PROVE  DeservedInv'
    BY <1>2, LoadRows
<1>3. ASSUME NEW r \in Runners, RunStep(r)
      PROVE  DeservedInv'
    <2>1. CASE NextStock(r)
        BY <2>1, StockRows
    <2>2. CASE Request(r)
        BY <2>2, RequestRows
    <2>3. CASE RecordRaw(r) \/ RecordFailure(r)
        BY <2>3, RecordRows
    <2>4. CASE Return(r)
        BY <2>4, EndedRows DEF Return, EndCall
    <2> QED
        BY <1>3, <2>1, <2>2, <2>3, <2>4 DEF RunStep
<1>4. ASSUME NEW r \in Runners, Killed(r)
      PROVE  DeservedInv'
    BY <1>4, EndedRows DEF Killed, EndCall
<1>5. CASE UNCHANGED vars
    BY <1>5, SameRows DEF vars, ingestVars
<1> QED
    BY <1>1, <1>2, <1>3, <1>4, <1>5 DEF Next

LEMMA IngestInvariant == Spec => []DeservedInv
<1>1. Init => DeservedInv
    BY InitRows
<1>2. DeservedInv /\ [Next]_vars => DeservedInv'
    BY StepRows
<1> QED
    BY <1>1, <1>2, PTL DEF Spec

\* However many runners, calls, stocks and attempts there are, and whatever
\* syncs, edits, errors and crashes come in between, a call of run() leaves at
\* most one row per stock, and none of a stock it did not load.
THEOREM NoDoubleRowHolds == Spec => []NoDoubleRow
<1>1. DeservedInv => NoDoubleRow
    BY DEF DeservedInv, RowsInv
<1> QED
    BY <1>1, IngestInvariant, PTL

\* A stock is written to ingest_failure only after a request FinMind refused for
\* good, or after max_attempts requests that met a transient error.
THEOREM FailureDeservedHolds == Spec => []FailureDeserved
<1>1. DeservedInv => FailureDeserved
    BY DEF DeservedInv
<1> QED
    BY <1>1, IngestInvariant, PTL
-----------------------------------------------------------------------------
(***************************************************************************)
(* What a call returns.  ReportInv adds what an open call has counted: the *)
(* stocks the loop has behind it have a row each, and its counters are     *)
(* those of its rows.                                                      *)
(***************************************************************************)

Counts(c, written, failures) ==
    /\ IsFiniteSet(StoredIn(c, "ingest_raw"))
    /\ written = Cardinality(StoredIn(c, "ingest_raw"))
    /\ IsFiniteSet(StoredIn(c, "ingest_failure"))
    /\ failures = Cardinality(StoredIn(c, "ingest_failure"))

Accounted(r) ==
    LET c == run[r].call
    IN  /\ ended[c] = "no"
        /\ \A s \in watchlist[c] \ run[r].todo :
              (Busy(r) /\ s = run[r].stock) \/ Len(rows[c][s]) = 1
        /\ Counts(c, run[r].written, run[r].failures)

TrueOf(c) ==
    ended[c] = "returned" =>
        /\ \A s \in Stocks : Len(rows[c][s]) = IF s \in watchlist[c] THEN 1 ELSE 0
        /\ report[c] = [attempted |-> Cardinality(watchlist[c]),
                        written   |-> Cardinality(StoredIn(c, "ingest_raw")),
                        failures  |-> Cardinality(StoredIn(c, "ingest_failure"))]

ResultType ==
    /\ ended \in [Calls -> {"no", "returned", "raised", "killed"}]
    /\ report \in [Calls -> Report \cup {NoReport}]

ReportInv ==
    /\ DeservedInv
    /\ ResultType
    /\ \A c \in Calls : c > calls => ended[c] = "no"
    /\ \A r \in Runners : Open(r) => Accounted(r)
    /\ \A c \in Calls : TrueOf(c)

LEMMA InitReport == Init => ReportInv
<1> SUFFICES ASSUME Init PROVE ReportInv
    OBVIOUS
<1>1. /\ run = [r \in Runners |-> Idle] /\ ended = [c \in Calls |-> "no"]
      /\ report = [c \in Calls |-> NoReport]
    BY DEF Init
<1>2. ResultType /\ \A c \in Calls : ended[c] = "no"
    BY <1>1 DEF ResultType
<1>3. \A r \in Runners : ~Open(r)
    BY <1>1, IdleType DEF Open
<1> QED
    BY <1>2, <1>3, InitRows DEF ReportInv, TrueOf

\* A step in call n of runner r leaves the other calls, and what is known of them.
LEMMA OtherCalls ==
    ASSUME ReportInv, DeservedInv', ResultType', NEW r \in Runners, NEW n \in Calls,
           calls' >= calls, n <= calls',
           \A q \in Runners : q # r => run'[q] = run[q] /\ (Open(q) => run[q].call # n),
           \A c \in Calls : c # n => /\ watchlist'[c] = watchlist[c] /\ rows'[c] = rows[c]
                                     /\ ended'[c] = ended[c] /\ report'[c] = report[c],
           Open(r)' => Accounted(r)', TrueOf(n)'
    PROVE  ReportInv'
<1>1. /\ calls \in Nat /\ calls' \in Nat
      /\ \A q \in Runners : Open(q) => run[q].call \in Calls
    BY CallsNat DEF ReportInv, DeservedInv, RowsInv, IngestTypeOK, OwnCall, Calls
<1>2. \A c \in Calls : c > calls' => ended'[c] = "no"
    BY <1>1 DEF ReportInv, Calls
<1>3. ASSUME NEW c \in Calls, c # n, NEW t
      PROVE  StoredIn(c, t)' = StoredIn(c, t)
    BY <1>3 DEF StoredIn
<1>4. \A c \in Calls : TrueOf(c)'
    <2> SUFFICES ASSUME NEW c \in Calls, c # n PROVE TrueOf(c)'
        OBVIOUS
    <2>1. TrueOf(c)
        BY DEF ReportInv
    <2> QED
        BY <2>1, <1>3 DEF TrueOf
<1>5. ASSUME NEW q \in Runners, Open(q)'
      PROVE  Accounted(q)'
    <2>1. CASE q = r
        BY <1>5, <2>1
    <2>2. CASE q # r
        <3>1. /\ run'[q] = run[q] /\ Open(q) /\ (Busy(q)' <=> Busy(q))
              /\ run[q].call \in Calls /\ run[q].call # n
            BY <1>1, <1>5, <2>2 DEF Open, Busy
        <3>2. Accounted(q)
            BY <3>1 DEF ReportInv
        <3> QED
            BY <1>3, <3>1, <3>2 DEF Accounted, Counts
    <2> QED
        BY <2>1, <2>2
<1> QED
    BY <1>2, <1>4, <1>5 DEF ReportInv

\* The number of an open call, which no other runner has.
LEMMA CallOf ==
    ASSUME ReportInv, NEW r \in Runners, Open(r)
    PROVE  /\ run[r] \in RunType /\ run[r].call \in Calls /\ run[r].call <= calls
           /\ \A q \in Runners : q # r /\ Open(q) => run[q].call # run[r].call
           /\ Accounted(r) /\ calls \in Nat
    BY CallsNat DEF ReportInv, DeservedInv, RowsInv, IngestTypeOK, OwnCall, Calls

\* A call that ends otherwise than by returning reports nothing.
LEMMA EndedReport ==
    ASSUME ReportInv, DeservedInv', NEW r \in Runners, Open(r), NEW how \in {"raised", "killed"},
           EndCall(r, how), UNCHANGED <<watchlist, rows, report, calls>>
    PROVE  ReportInv'
<1>0. PICK n \in Calls : n = run[r].call
    BY CallOf
<1>1. /\ n <= calls /\ calls \in Nat
      /\ \A q \in Runners : q # r /\ Open(q) => run[q].call # n
    BY <1>0, CallOf
<1>2. /\ ended' = [ended EXCEPT ![n] = how] /\ run' = [run EXCEPT ![r] = Idle]
      /\ run \in [Runners -> RunType] /\ ResultType
    BY <1>0 DEF EndCall, ReportInv, DeservedInv, RowsInv, IngestTypeOK
<1>3. /\ ResultType' /\ ended'[n] = how /\ ~Open(r)'
      /\ \A c \in Calls : c # n => ended'[c] = ended[c]
      /\ \A q \in Runners : q # r => run'[q] = run[q]
    BY <1>1, <1>2, IdleType DEF ResultType, Open
<1>4. TrueOf(n)'
    BY <1>3 DEF TrueOf
<1> QED
    BY <1>1, <1>3, <1>4, OtherCalls

\* A call that writes nothing goes on with the same counts.
LEMMA QuietReport ==
    ASSUME ReportInv, DeservedInv', NEW r \in Runners, Open(r), NEW new \in RunType,
           run' = [run EXCEPT ![r] = new], new.call = run[r].call,
           new.written = run[r].written, new.failures = run[r].failures,
           \A s \in run[r].todo \ new.todo : new.pc = "fetch" /\ s = new.stock,
           Busy(r) => new.pc \in {"fetch", "raw", "failure"} /\ new.stock = run[r].stock,
           UNCHANGED <<watchlist, rows, ended, report, calls>>
    PROVE  ReportInv'
<1>0. PICK n \in Calls : n = run[r].call
    BY CallOf
<1>1. /\ n <= calls /\ calls \in Nat /\ Accounted(r)
      /\ \A q \in Runners : q # r /\ Open(q) => run[q].call # n
    BY <1>0, CallOf
<1>2. /\ run'[r] = new /\ \A q \in Runners : q # r => run'[q] = run[q]
      /\ ResultType' /\ TrueOf(n)
    BY <1>1 DEF ReportInv, DeservedInv, RowsInv, IngestTypeOK, ResultType
<1>3. \A c, t : StoredIn(c, t)' = StoredIn(c, t)
    BY DEF StoredIn
<1>4. Accounted(r)'
    BY <1>1, <1>2, <1>3 DEF Accounted, Counts, Busy
<1>5. TrueOf(n)'
    BY <1>2, <1>3 DEF TrueOf
<1> QED
    BY <1>1, <1>2, <1>4, <1>5, OtherCalls

\* The row of a stock is counted in its table, and in no other.
LEMMA CountedOnce ==
    ASSUME ReportInv, NEW r \in Runners, Busy(r), NEW row, Write(r, row),
           NEW n, n = run[r].call, NEW s, s = run[r].stock,
           NEW written, written = run[r].written, NEW failures, failures = run[r].failures,
           NEW more, more = written + (IF row.table = "ingest_raw" THEN 1 ELSE 0),
           NEW lost, lost = failures + (IF row.table = "ingest_failure" THEN 1 ELSE 0)
    PROVE  /\ s \in Stocks /\ n \in Calls
           /\ \A c \in Calls : c # n => rows'[c] = rows[c]
           /\ \A t \in Stocks : t # s => rows'[n][t] = rows[n][t]
           /\ Len(rows'[n][s]) = 1
           /\ Counts(n, more, lost)'
<1>1. /\ Open(r) /\ n \in Calls /\ Accounted(r) /\ run[r] \in RunType
      /\ rows \in [Calls -> [Stocks -> Seq(Entries)]]
    BY CallOf DEF Busy, Open, ReportInv, DeservedInv, RowsInv, IngestTypeOK
<1>2. s \in Stocks /\ rows[n][s] = << >>
    BY <1>1 DEF ReportInv, DeservedInv, RowsInv, ToWrite, IngestTypeOK
<1>3. rows' = [rows EXCEPT ![n] = [rows[n] EXCEPT ![s] = Append(rows[n][s], row)]]
    BY DEF Write
<1>4. /\ \A c \in Calls : c # n => rows'[c] = rows[c]
      /\ \A t \in Stocks : t # s => rows'[n][t] = rows[n][t]
      /\ rows'[n][s] = <<row>>
    BY <1>1, <1>2, <1>3
<1>5. /\ DOMAIN rows[n][s] = {} /\ DOMAIN rows'[n][s] = {1} /\ rows'[n][s][1] = row
      /\ Len(rows'[n][s]) = 1
    BY <1>2, <1>4
<1>6. ASSUME NEW table
      PROVE  /\ s \notin StoredIn(n, table)
             /\ StoredIn(n, table)' = IF row.table = table THEN StoredIn(n, table) \cup {s}
                                      ELSE StoredIn(n, table)
    <2>1. s \notin StoredIn(n, table)
        BY <1>5 DEF StoredIn
    <2>2. s \in StoredIn(n, table)' <=> row.table = table
        BY <1>2, <1>5 DEF StoredIn
    <2>3. \A t \in Stocks : t # s => (t \in StoredIn(n, table)' <=> t \in StoredIn(n, table))
        BY <1>4 DEF StoredIn
    <2>4. StoredIn(n, table) \subseteq Stocks /\ StoredIn(n, table)' \subseteq Stocks
        BY DEF StoredIn
    <2>5. CASE row.table = table
        <3>1. \A t : t \in StoredIn(n, table)' <=> t \in StoredIn(n, table) \cup {s}
            BY <1>2, <2>2, <2>3, <2>4, <2>5
        <3>2. StoredIn(n, table)' = StoredIn(n, table) \cup {s}
            BY <3>1
        <3> QED
            BY <2>1, <2>5, <3>2
    <2>6. CASE row.table # table
        <3>1. \A t : t \in StoredIn(n, table)' <=> t \in StoredIn(n, table)
            BY <1>2, <2>1, <2>2, <2>3, <2>4, <2>6
        <3>2. StoredIn(n, table)' = StoredIn(n, table)
            BY <3>1
        <3> QED
            BY <2>1, <2>6, <3>2
    <2> QED
        BY <2>5, <2>6
<1>7. Counts(n, written, failures)
    BY <1>1 DEF Accounted
<1>8. ASSUME NEW table, IsFiniteSet(StoredIn(n, table)), NEW k, k = Cardinality(StoredIn(n, table))
      PROVE  /\ IsFiniteSet(StoredIn(n, table)')
             /\ k + (IF row.table = table THEN 1 ELSE 0) = Cardinality(StoredIn(n, table)')
    <2>1. k \in Nat
        BY <1>8, FS_CardinalityType
    <2>2. CASE row.table = table
        <3>1. /\ IsFiniteSet(StoredIn(n, table) \cup {s})
              /\ Cardinality(StoredIn(n, table) \cup {s}) = k + 1
            BY <1>6, <1>8, FS_AddElement
        <3> QED
            BY <1>6, <2>2, <3>1
    <2>3. CASE row.table # table
        <3>1. StoredIn(n, table)' = StoredIn(n, table)
            BY <1>6, <2>3
        <3>2. k + 0 = k
            BY <2>1
        <3> QED
            BY <1>8, <2>3, <3>1, <3>2
    <2> QED
        BY <2>2, <2>3
<1>9. Counts(n, more, lost)'
    BY <1>7, <1>8 DEF Counts
<1> QED
    BY <1>1, <1>2, <1>4, <1>5, <1>9

LEMMA LoadReport ==
    ASSUME ReportInv, DeservedInv', NEW r \in Runners, LoadWatchlist(r)
    PROVE  ReportInv'
<1>1. /\ calls \in Nat /\ calls + 1 \in Calls /\ run \in [Runners -> RunType]
      /\ watchlist \in [Calls -> SUBSET Stocks]
    BY CallsNat DEF ReportInv, DeservedInv, RowsInv, IngestTypeOK, LoadWatchlist, Calls
<1>2. PICK n \in Calls : n = calls + 1
    BY <1>1
<1> DEFINE new == [Idle EXCEPT !.pc = "loop", !.call = n, !.todo = Listed]
<1>3. /\ calls' = n /\ calls < n /\ run[r].pc = "idle"
      /\ watchlist' = [watchlist EXCEPT ![n] = Listed]
      /\ run' = [run EXCEPT ![r] = new]
      /\ UNCHANGED <<rows, ended, report>>
    BY <1>1, <1>2 DEF LoadWatchlist
<1>4. /\ new \in RunType /\ new.pc = "loop" /\ new.call = n /\ new.todo = Listed
      /\ new.written = 0 /\ new.failures = 0
    BY NewCall
<1> HIDE DEF new
<1>5. /\ run'[r] = new /\ \A q \in Runners : q # r => run'[q] = run[q]
      /\ watchlist'[n] = Listed /\ \A c \in Calls : c # n => watchlist'[c] = watchlist[c]
    BY <1>1, <1>3
<1>6. ended[n] = "no" /\ \A s \in Stocks : rows[n][s] = << >>
    BY <1>3 DEF ReportInv, DeservedInv, RowsInv, NotStarted
<1>7. \A q \in Runners : Open(q) => run[q].call # n
    BY <1>1, <1>3 DEF ReportInv, DeservedInv, RowsInv, OwnCall
<1>8. \A t : StoredIn(n, t)' = {}
    <2>1. \A s \in Stocks : DOMAIN rows[n][s] = {}
        BY <1>6
    <2> QED
        BY <1>3, <2>1 DEF StoredIn
<1>9. Counts(n, 0, 0)'
    BY <1>8, FS_EmptySet DEF Counts
<1>10. Accounted(r)'
    BY <1>3, <1>4, <1>5, <1>6, <1>9 DEF Accounted
<1>11. ResultType' /\ TrueOf(n)'
    BY <1>3, <1>6 DEF ReportInv, ResultType, TrueOf
<1> QED
    <2>1. calls' >= calls /\ n <= calls'
        BY <1>1, <1>2, <1>3
    <2> QED
        BY <2>1, <1>3, <1>5, <1>7, <1>10, <1>11, OtherCalls

LEMMA StockReport ==
    ASSUME ReportInv, DeservedInv', NEW r \in Runners, NextStock(r)
    PROVE  ReportInv'
<1>1. PICK s \in run[r].todo : run' = [run EXCEPT ![r] = Turned(run[r], s)]
    BY DEF NextStock
<1>2. Open(r) /\ ~Busy(r) /\ UNCHANGED <<watchlist, rows, ended, report, calls>>
    BY DEF NextStock, Open, Busy
<1>3. run[r] \in RunType
    BY <1>2, CallOf
<1> DEFINE new == Turned(run[r], s)
<1>4. /\ new \in RunType
      /\ new.pc = "fetch" /\ new.made = 0
      /\ new.stock = s /\ new.todo = run[r].todo \ {s}
      /\ new.call = run[r].call
      /\ new.written = run[r].written /\ new.failures = run[r].failures
    BY <1>3, TurnedType
<1>5. run' = [run EXCEPT ![r] = new]
    BY <1>1
<1> HIDE DEF new
<1> QED
    BY <1>2, <1>4, <1>5, QuietReport

LEMMA RequestReport ==
    ASSUME ReportInv, DeservedInv', NEW r \in Runners, Request(r)
    PROVE  ReportInv'
<1>1. Busy(r) /\ Open(r) /\ UNCHANGED <<watchlist, rows, report, calls>>
    BY DEF Request, Busy, Open
<1>2. run[r] \in RunType /\ Attempt(run[r]) \in 0..MaxAttempts
    <2>1. run[r] \in RunType /\ run[r].made < MaxAttempts
        BY <1>1, CallOf DEF ReportInv, DeservedInv, Attempts, Request
    <2> QED
        BY <2>1, CallsNat DEF RunType, Attempt
<1>3. CASE EndCall(r, "raised")
    BY <1>1, <1>3, EndedReport
<1>4. CASE /\ UNCHANGED ended
           /\ \E pc \in {"fetch", "raw", "failure"}, error \in FinMindErrors \cup {"none"} :
                 run' = [run EXCEPT ![r] = Requested(run[r], Attempt(run[r]), pc, error)]
    <2>1. PICK pc \in {"fetch", "raw", "failure"}, error \in FinMindErrors \cup {"none"} :
             run' = [run EXCEPT ![r] = Requested(run[r], Attempt(run[r]), pc, error)]
        BY <1>4
    <2> DEFINE new == Requested(run[r], Attempt(run[r]), pc, error)
    <2>2. /\ new \in RunType
          /\ new.pc = pc /\ new.made = Attempt(run[r]) /\ new.error = error
          /\ new.stock = run[r].stock /\ new.todo = run[r].todo /\ new.call = run[r].call
          /\ new.written = run[r].written /\ new.failures = run[r].failures
        BY <1>2, RequestedType
    <2>3. run' = [run EXCEPT ![r] = new]
        BY <2>1
    <2> HIDE DEF new
    <2> QED
        BY <1>1, <1>4, <2>2, <2>3, QuietReport
<1> QED
    BY <1>3, <1>4 DEF Request

\* A call that writes the row of its stock counts it.
LEMMA RecordReport ==
    ASSUME ReportInv, DeservedInv', NEW r \in Runners, RecordRaw(r) \/ RecordFailure(r)
    PROVE  ReportInv'
<1>1. Busy(r) /\ Open(r) /\ UNCHANGED <<watchlist, ended, report, calls>>
    BY DEF RecordRaw, RecordFailure, Busy, Open
<1>2. /\ run[r] \in RunType /\ Accounted(r) /\ calls \in Nat
      /\ run[r].call \in Calls /\ run[r].call <= calls
      /\ \A q \in Runners : q # r /\ Open(q) => run[q].call # run[r].call
    BY <1>1, CallOf
<1>3. PICK n \in Calls, s \in Stocks \cup {NoStockYet}, written \in Nat, failures \in Nat :
          /\ n = run[r].call /\ s = run[r].stock
          /\ written = run[r].written /\ failures = run[r].failures
    BY <1>2 DEF RunType
<1> DEFINE Wrote(row, more, lost) ==
               /\ more = written + (IF row.table = "ingest_raw" THEN 1 ELSE 0)
               /\ lost = failures + (IF row.table = "ingest_failure" THEN 1 ELSE 0)
               /\ Write(r, row)
               /\ run' = [run EXCEPT ![r] = NextLoop(run[r], more, lost)]
<1>4. \E row : \E more \in Nat, lost \in Nat : Wrote(row, more, lost)
    <2>1. CASE RecordRaw(r)
        <3>1. RawRow.table = "ingest_raw"
            BY DEF RawRow
        <3>2. /\ Write(r, RawRow)
              /\ run' = [run EXCEPT ![r] = NextLoop(run[r], written + 1, failures)]
            BY <1>3, <2>1 DEF RecordRaw
        <3>3. Wrote(RawRow, written + 1, failures)
            BY <3>1, <3>2
        <3> HIDE DEF Wrote
        <3> QED
            BY <3>3
    <2>2. CASE RecordFailure(r)
        <3> DEFINE row == FailureRow(run[r].error, MaxAttempts, run[r].made)
        <3>1. row.table = "ingest_failure"
            BY DEF FailureRow
        <3>2. /\ Write(r, row)
              /\ run' = [run EXCEPT ![r] = NextLoop(run[r], written, failures + 1)]
            BY <1>3, <2>2 DEF RecordFailure
        <3> HIDE DEF row
        <3>3. Wrote(row, written, failures + 1)
            BY <3>1, <3>2
        <3> HIDE DEF Wrote
        <3> QED
            BY <3>3
    <2> QED
        BY <2>1, <2>2
<1>5. PICK row : \E more \in Nat, lost \in Nat : Wrote(row, more, lost)
    BY <1>4
<1>6. PICK more \in Nat, lost \in Nat : Wrote(row, more, lost)
    BY <1>5
<1> DEFINE new == NextLoop(run[r], more, lost)
<1>7. /\ s \in Stocks
      /\ \A c \in Calls : c # n => rows'[c] = rows[c]
      /\ \A t \in Stocks : t # s => rows'[n][t] = rows[n][t]
      /\ Len(rows'[n][s]) = 1
      /\ Counts(n, more, lost)'
    BY <1>1, <1>3, <1>6, CountedOnce
<1>8. /\ new \in RunType
      /\ new.pc = "loop" /\ new.todo = run[r].todo /\ new.call = run[r].call
      /\ new.written = more /\ new.failures = lost
    <2>1. run[r] \in RunType /\ new = NextLoop(run[r], more, lost)
        BY <1>2
    <2> HIDE DEF Wrote, new
    <2> QED
        BY <2>1, NextLoopType
<1>9. run' = [run EXCEPT ![r] = new]
    BY <1>6
<1> HIDE DEF new
<1>10. /\ run'[r] = new /\ \A q \in Runners : q # r => run'[q] = run[q]
      /\ watchlist[n] \subseteq Stocks
    BY <1>9 DEF ReportInv, DeservedInv, RowsInv, IngestTypeOK
<1>12. Accounted(r)'
    <2>1. ended[n] = "no" /\ \A t \in watchlist[n] \ run[r].todo : t = s \/ Len(rows[n][t]) = 1
        BY <1>2, <1>3 DEF Accounted
    <2>2. \A t \in watchlist[n] \ run[r].todo : Len(rows'[n][t]) = 1
        BY <1>7, <1>10, <2>1
    <2>3. /\ run'[r].call = n /\ run'[r].todo = run[r].todo
          /\ run'[r].written = more /\ run'[r].failures = lost
        BY <1>3, <1>8, <1>10
    <2> QED
        BY <1>1, <1>7, <2>1, <2>2, <2>3 DEF Accounted, Counts
<1>13. TrueOf(n)' /\ ResultType'
    BY <1>1, <1>2, <1>3 DEF TrueOf, Accounted, ReportInv, ResultType
<1> QED
    BY <1>1, <1>2, <1>3, <1>7, <1>10, <1>12, <1>13, OtherCalls

\* A call that returns has done all its stocks, and reports its counts.
LEMMA ReturnReport ==
    ASSUME ReportInv, DeservedInv', NEW r \in Runners, Return(r)
    PROVE  ReportInv'
<1>1. /\ Open(r) /\ ~Busy(r) /\ run[r].todo = {} /\ UNCHANGED <<watchlist, rows, calls>>
      /\ EndCall(r, "returned")
    BY DEF Return, Open, Busy
<1>2. /\ run[r] \in RunType /\ Accounted(r) /\ calls \in Nat
      /\ run[r].call \in Calls /\ run[r].call <= calls
      /\ \A q \in Runners : q # r /\ Open(q) => run[q].call # run[r].call
    BY <1>1, CallOf
<1>3. PICK n \in Calls : n = run[r].call
    BY <1>2
<1> DEFINE told == [attempted |-> Cardinality(watchlist[n]),
                    written   |-> Cardinality(StoredIn(n, "ingest_raw")),
                    failures  |-> Cardinality(StoredIn(n, "ingest_failure"))]
<1>4. Counts(n, run[r].written, run[r].failures) /\ \A s \in watchlist[n] : Len(rows[n][s]) = 1
    BY <1>1, <1>2, <1>3 DEF Accounted
<1>5. report' = [report EXCEPT ![n] = told]
    BY <1>3, <1>4 DEF Return, Counts
<1>6. /\ watchlist[n] \subseteq Stocks /\ rows[n] \in [Stocks -> Seq(Entries)]
      /\ run \in [Runners -> RunType]
    BY DEF ReportInv, DeservedInv, RowsInv, IngestTypeOK
<1>7. told \in Report
    <2>1. \A row \in Entries : row.table \in {"ingest_raw", "ingest_failure"}
        BY DEF Entries, RawRow, FailureRow
    <2>2. ASSUME NEW s \in watchlist[n]
          PROVE  s \in StoredIn(n, "ingest_raw") \cup StoredIn(n, "ingest_failure")
        <3>0. rows[n][s] \in Seq(Entries) /\ Len(rows[n][s]) = 1
            BY <1>4, <1>6
        <3>1. 1 \in DOMAIN rows[n][s] /\ rows[n][s][1] \in Entries
            BY <3>0
        <3> QED
            BY <1>6, <2>1, <3>1 DEF StoredIn
    <2>3. IsFiniteSet(StoredIn(n, "ingest_raw") \cup StoredIn(n, "ingest_failure"))
        BY <1>4, FS_Union DEF Counts
    <2>4. IsFiniteSet(watchlist[n])
        BY <2>2, <2>3, FS_Subset
    <2> QED
        BY <1>4, <2>4, FS_CardinalityType DEF Report, Counts
<1>8. /\ ended' = [ended EXCEPT ![n] = "returned"] /\ run' = [run EXCEPT ![r] = Idle]
    BY <1>1, <1>3 DEF EndCall
<1> HIDE DEF told
<1>9. /\ ResultType' /\ report'[n] = told /\ ended'[n] = "returned" /\ ~Open(r)'
      /\ \A c \in Calls : c # n => ended'[c] = ended[c] /\ report'[c] = report[c]
      /\ \A q \in Runners : q # r => run'[q] = run[q]
    BY <1>5, <1>6, <1>7, <1>8, IdleType DEF ReportInv, ResultType, Open
<1>10. TrueOf(n)'
    <2>1. \A t : StoredIn(n, t)' = StoredIn(n, t)
        BY <1>1 DEF StoredIn
    <2>2. ASSUME NEW s \in Stocks
          PROVE  Len(rows[n][s]) = IF s \in watchlist[n] THEN 1 ELSE 0
        <3>1. Len(rows[n][s]) <= IF s \in watchlist[n] THEN 1 ELSE 0
            BY DEF ReportInv, DeservedInv, RowsInv, NoDoubleRow
        <3>2. Len(rows[n][s]) \in Nat
            BY <1>6
        <3>3. CASE s \in watchlist[n]
            BY <1>4, <3>3
        <3>4. CASE s \notin watchlist[n]
            BY <3>1, <3>2, <3>4
        <3> QED
            BY <3>3, <3>4
    <2> QED
        BY <1>1, <1>9, <2>1, <2>2 DEF TrueOf, told
<1> QED
    BY <1>1, <1>2, <1>3, <1>9, <1>10, OtherCalls

LEMMA SameReport ==
    ASSUME ReportInv, DeservedInv', UNCHANGED ingestVars
    PROVE  ReportInv'
<1>1. UNCHANGED <<run, watchlist, rows, ended, report, calls>>
    BY DEF ingestVars
<1>2. \A c, t : StoredIn(c, t)' = StoredIn(c, t)
    BY <1>1 DEF StoredIn
<1>3. \A r \in Runners : (Open(r)' <=> Open(r)) /\ (Accounted(r)' <=> Accounted(r))
    BY <1>1, <1>2 DEF Open, Busy, Accounted, Counts
<1>4. \A c \in Calls : TrueOf(c)' <=> TrueOf(c)
    BY <1>1, <1>2 DEF TrueOf
<1> QED
    BY <1>1, <1>3, <1>4 DEF ReportInv, ResultType

LEMMA StepReport ==
    ASSUME ReportInv, [Next]_vars
    PROVE  ReportInv'
<1>0. DeservedInv'
    BY StepRows DEF ReportInv
<1>1. CASE UNCHANGED ingestVars
    BY <1>0, <1>1, SameReport
<1>2. ASSUME NEW r \in Runners, LoadWatchlist(r)
      PROVE  ReportInv'
    BY <1>0, <1>2, LoadReport
<1>3. ASSUME NEW r \in Runners, RunStep(r)
      PROVE  ReportInv'
    BY <1>0, <1>3, StockReport, RequestReport, RecordReport, ReturnReport DEF RunStep
<1>4. ASSUME NEW r \in Runners, Killed(r)
      PROVE  ReportInv'
    BY <1>0, <1>4, EndedReport DEF Killed, Open
<1> QED
    BY <1>1, <1>2, <1>3, <1>4 DEF Next, vars, ingestVars

\* What the stocks are, and beside which syncs and edits the ingest runs.
LEMMA UniverseBeside ==
    ASSUME UniverseInv, [Next]_vars
    PROVE  UniverseInv'
<1>1. [UniverseNext]_universeVars
    BY DEF Next, vars, LoadWatchlist, RunStep, NextStock, Request, RecordRaw, RecordFailure,
           Return, Killed, universeVars
<1> QED
    BY <1>1, UniverseStep

\* For any runners, calls, stocks, replies and syncs: the type invariant of the
\* daily ingest, the counts of its reports included.
THEOREM IngestTypeCorrect == Spec => []TypeOK
<1>1. Init => ReportInv /\ UniverseInv
    BY InitReport, UniverseStart DEF Init
<1>2. ReportInv /\ UniverseInv /\ [Next]_vars => ReportInv' /\ UniverseInv'
    BY StepReport, UniverseBeside
<1>3. ReportInv /\ UniverseInv => TypeOK
    <2> SUFFICES ASSUME ReportInv, UniverseInv PROVE TypeOK
        OBVIOUS
    <2>1. ResultType /\ IngestTypeOK /\ UniverseTypeOK
        BY DEF ReportInv, DeservedInv, RowsInv, UniverseInv
    <2> QED
        BY <2>1 DEF TypeOK, ResultType, IngestTypeOK, RunType
<1> QED
    BY <1>1, <1>2, <1>3, PTL DEF Spec

\* Whatever happens to the watchlist while it runs, a call that returned has
\* written exactly one row for each stock it loaded and for no other, and its
\* three counts are those of the rows.
THEOREM ReportIsTrueHolds == Spec => []ReportIsTrue
<1>1. ReportInv /\ [Next]_vars => ReportInv'
    BY StepReport
<1>2. ReportInv => ReportIsTrue
    BY DEF ReportInv, TrueOf, ReportIsTrue
<1> QED
    BY <1>1, <1>2, InitReport, PTL DEF Spec

-----------------------------------------------------------------------------
(***************************************************************************)
(* The paced fetch.                                                        *)
(***************************************************************************)


LEMMA Products ==
  ASSUME NEW r \in Int, NEW a \in Int, NEW b \in Int
  PROVE  /\ a * r \in Int /\ r * a = a * r
         /\ (a + b) * r = a * r + b * r
         /\ (a + 1) * r = a * r + r
         /\ (a - b) * r = a * r - b * r
  OBVIOUS

LEMMA CapacityType == Capacity \in Nat /\ Capacity >= TimePeriod
  BY LimiterAssumption DEF Capacity

(***************************************************************************)
(* Type correctness.                                                       *)
(***************************************************************************)

FetchType == [pc : {"idle", "acquire", "flight", "backoff", "gave up"},
              made : 0..MaxAttempts, until : Int, since : Times,
              ahead : Nat, first : Times]

LEMMA NoFetchType == NoFetch \in FetchType
  BY MaxAttemptsAssumption, WaitAssumption DEF NoFetch, FetchType, Times

LEMMA AskingType ==
  ASSUME FetchTypeOK, NEW old \in FetchType
  PROVE  Asking(old) \in FetchType
  BY DEF FetchTypeOK, Asking, FetchType, Times

\* A wait is at least the exponential one: the jitter only adds to it.
LEMMA WaitType ==
  ASSUME NEW n \in 1..MaxAttempts
  PROVE  /\ Backoff(n) \in Int
         /\ \A wait \in Waits(n) : wait \in Int /\ wait >= Backoff(n)
<1>1. n - 1 \in Nat
  BY MaxAttemptsAssumption
<1>2. 2 ^ (n - 1) \in Int
  BY <1>1
<1> DEFINE wait == WaitInitial * 2 ^ (n - 1)
<1>3. wait \in Int
  BY <1>2, WaitAssumption
<1>4. Backoff(n) = IF wait < WaitMax THEN wait ELSE WaitMax
  BY DEF Backoff
<1> HIDE DEF wait
<1>5. Backoff(n) \in Int /\ Backoff(n) <= WaitMax /\ WaitMax \in Int
  BY <1>3, <1>4, WaitAssumption
<1>6. \A j \in Jitter : j \in Nat
  BY JitterAssumption
<1> QED BY <1>5, <1>6 DEF Waits

LEMMA AskedType ==
  ASSUME FetchTypeOK, NEW c \in FetchType, c.made < MaxAttempts
  PROVE  /\ Asked(c) \in FetchType
         /\ Asked(c).pc = "flight" /\ Asked(c).made = c.made + 1
<1>0. Timeout \in Nat /\ MaxAttempts \in Nat
  BY WaitAssumption, MaxAttemptsAssumption
<1>1. now \in Times /\ now + Timeout \in Int
  <2>1. now \in Times
    BY DEF FetchTypeOK
  <2>2. now \in Int
    BY <2>1 DEF Times
  <2> QED BY <1>0, <2>1, <2>2
<1>2. c.made + 1 \in 0..MaxAttempts
  <2>1. c.made \in 0..MaxAttempts
    BY DEF FetchType
  <2> QED BY <1>0, <2>1
<1> DEFINE first == IF c.made = 0 THEN now ELSE c.first
<1>3. first \in Times
  BY <1>1 DEF FetchType
<1>4. Asked(c) = [c EXCEPT !.pc = "flight", !.until = now + Timeout, !.made = c.made + 1,
                           !.first = first]
  BY DEF Asked
<1> HIDE DEF first
<1> QED BY <1>1, <1>2, <1>3, <1>4 DEF FetchType

LEMMA BackedOffType ==
  ASSUME NEW c \in FetchType, NEW until \in Int
  PROVE  LET new == [c EXCEPT !.pc = "backoff", !.until = until]
         IN  new \in FetchType /\ new.made = c.made
<1> DEFINE new == [c EXCEPT !.pc = "backoff", !.until = until]
<1>1. new.made = c.made
  BY DEF FetchType
<1>2. new \in FetchType
  BY DEF FetchType
<1> QED BY <1>1, <1>2

\* A fetch that has not given up has an attempt left: the retry stops there.
AttemptLeft(c) ==
    /\ c.pc \in {"acquire", "backoff"} => c.made < MaxAttempts
    /\ c.pc \in {"flight", "backoff", "gave up"} => c.made >= 1

FetchInv == FetchTypeOK /\ \A c \in Callers : AttemptLeft(call[c])

LEMMA AttemptLeftAt ==
  ASSUME NEW c,
         \/ c.pc = "acquire" /\ c.made < MaxAttempts
         \/ c.pc = "flight" /\ c.made >= 1
  PROVE  AttemptLeft(c)
  BY DEF AttemptLeft

LEMMA MadeType ==
  ASSUME NEW c \in FetchType
  PROVE  c.made \in Nat /\ c.made <= MaxAttempts /\ c.made \in 0..MaxAttempts
<1>1. c.made \in 0..MaxAttempts
  BY DEF FetchType
<1> QED BY <1>1, MaxAttemptsAssumption

LEMMA FetchInvInit == FetchInit => FetchInv
<1> SUFFICES ASSUME FetchInit PROVE FetchInv
  OBVIOUS
<1>1. 0 \in Times /\ 0 \in 0..Capacity
  BY CapacityType, WaitAssumption DEF Times
<1>2. FetchTypeOK
  BY <1>1, NoFetchType DEF FetchInit, FetchTypeOK, FetchType
<1>3. AttemptLeft(NoFetch)
  BY DEF AttemptLeft, NoFetch
<1> QED BY <1>2, <1>3 DEF FetchInit, FetchInv

LEMMA FetchInvStep ==
  ASSUME FetchInv, [FetchNext]_fetchVars
  PROVE  FetchInv'
<1> USE DEF FetchInv
<1>0. FetchTypeOK <=> /\ now \in Times /\ level \in 0..Capacity /\ call \in [Callers -> FetchType]
                 /\ sent \in Nat /\ sentBefore \in [Times -> Nat]
  BY DEF FetchTypeOK, FetchType
<1>0p. FetchTypeOK' <=> /\ now' \in Times /\ level' \in 0..Capacity /\ call' \in [Callers -> FetchType]
                   /\ sent' \in Nat /\ sentBefore' \in [Times -> Nat]
  BY DEF FetchTypeOK, FetchType
<1>1. CASE Tick
  <2>1. now' \in Times
    BY <1>0, <1>1, WaitAssumption DEF Tick, Times
  <2>2. level' \in 0..Capacity
    BY <1>0, <1>1, CapacityType, LimiterAssumption DEF Tick
  <2>3. sentBefore' \in [Times -> Nat]
    BY <1>0, <1>1 DEF Tick
  <2> QED BY <1>0, <1>0p, <1>1, <2>1, <2>2, <2>3 DEF Tick
<1>2. ASSUME NEW c \in Callers, BeginFetch(c) PROVE FetchInv'
  <2>1. Asking(NoFetch) \in FetchType
    BY <1>0, NoFetchType, AskingType
  <2>2. AttemptLeft(Asking(NoFetch))
    <3>1. Asking(NoFetch).pc = "acquire" /\ Asking(NoFetch).made = 0
      BY DEF Asking, NoFetch
    <3>2. Asking(NoFetch).made < MaxAttempts
      BY <3>1, MaxAttemptsAssumption
    <3> HIDE DEF FetchInv
    <3> QED BY <3>1, <3>2, AttemptLeftAt
  <2> QED BY <1>0, <1>0p, <1>2, <2>1, <2>2 DEF BeginFetch
<1>3. ASSUME NEW c \in Callers, Send(c) PROVE FetchInv'
  <2>1. call[c] \in FetchType /\ call[c].made < MaxAttempts
    BY <1>0, <1>3 DEF Send, AttemptLeft
  <2>2. Asked(call[c]) \in FetchType /\ AttemptLeft(Asked(call[c]))
    <3>1. Asked(call[c]) \in FetchType
      BY <1>0, <2>1, AskedType
    <3>2. Asked(call[c]).pc = "flight" /\ Asked(call[c]).made = call[c].made + 1
      BY <1>0, <2>1, AskedType
    <3>3. call[c].made \in Nat
      BY <2>1, MadeType
    <3>4. Asked(call[c]).made >= 1
      BY <3>2, <3>3
    <3> HIDE DEF FetchInv
    <3> QED BY <3>1, <3>2, <3>4, AttemptLeftAt
  <2>4. level' \in 0..Capacity
    BY <1>0, <1>3, CapacityType, LimiterAssumption DEF Send, HasCapacity
  <2> QED BY <1>0, <1>0p, <1>3, <2>2, <2>4 DEF Send
<1>4. ASSUME NEW c \in Callers, Answer(c) PROVE FetchInv'
  <2>1. PICK reply \in Replies \cup {NoReply} :
          LET result == AttemptResult(reply, call[c].made)
          IN  \/ /\ result = "retry"
                 /\ \E wait \in Waits(call[c].made) :
                       call' = [call EXCEPT ![c].pc = "backoff", ![c].until = now + wait]
              \/ call' = [call EXCEPT ![c].pc = "gave up"]
              \/ call' = [call EXCEPT ![c] = NoFetch]
    BY <1>4, Zenon DEF Answer
  <2>2. call[c] \in FetchType /\ UNCHANGED <<now, level, sent, sentBefore>>
    BY <1>0, <1>4 DEF Answer
  <2>3. CASE /\ AttemptResult(reply, call[c].made) = "retry"
             /\ \E wait \in Waits(call[c].made) :
                   call' = [call EXCEPT ![c].pc = "backoff", ![c].until = now + wait]
    <3>1. PICK wait \in Waits(call[c].made) :
             call' = [call EXCEPT ![c] = [call[c] EXCEPT !.pc = "backoff", !.until = now + wait]]
      BY <2>3
    <3>2. wait \in Int /\ now \in Int
      <4>1. call[c].made \in 1..MaxAttempts
        <5>1. call[c].made \in 0..MaxAttempts
          BY <2>2, MadeType
        <5>2. call[c].made >= 1
          BY <1>4 DEF AttemptLeft, Answer
        <5> QED BY <5>1, <5>2, MaxAttemptsAssumption
      <4>2. now \in Int
        BY <1>0 DEF Times
      <4> QED BY <4>1, <4>2, WaitType
    <3> DEFINE new == [call[c] EXCEPT !.pc = "backoff", !.until = now + wait]
    <3>3. new \in FetchType /\ new.made = call[c].made
      <4>1. now + wait \in Int
        BY <3>2
      <4> QED BY <2>2, <4>1, BackedOffType, Zenon
    <3>4. call[c].made < MaxAttempts
      BY <2>3 DEF AttemptResult, ParseResponse
    <3> HIDE DEF new
    <3>5. AttemptLeft(new)
      BY <1>4, <3>3, <3>4 DEF AttemptLeft, Answer
    <3>6. call' = [call EXCEPT ![c] = new]
      BY <3>1 DEF new
    <3> QED BY <1>0, <1>0p, <2>2, <3>3, <3>5, <3>6
  <2>4. CASE call' = [call EXCEPT ![c].pc = "gave up"]
    <3> DEFINE new == [call[c] EXCEPT !.pc = "gave up"]
    <3>1. new \in FetchType /\ AttemptLeft(new)
      BY <1>4, <2>2 DEF FetchType, AttemptLeft, Answer
    <3> HIDE DEF new
    <3>2. call' = [call EXCEPT ![c] = new]
      BY <2>4 DEF new
    <3> QED BY <1>0, <1>0p, <2>2, <3>1, <3>2
  <2>5. CASE call' = [call EXCEPT ![c] = NoFetch]
    <3>1. AttemptLeft(NoFetch)
      BY DEF AttemptLeft, NoFetch
    <3> QED BY <1>0, <1>0p, <2>2, <2>5, <3>1, NoFetchType
  <2> QED BY <2>1, <2>3, <2>4, <2>5
<1>5. ASSUME NEW c \in Callers, Retry(c) PROVE FetchInv'
  <2>1. Asking(call[c]) \in FetchType /\ call[c] \in FetchType
    BY <1>0, AskingType
  <2>2. AttemptLeft(Asking(call[c]))
    BY <1>5, <2>1 DEF Retry, AttemptLeft, Asking, FetchType
  <2> QED BY <1>0, <1>0p, <1>5, <2>1, <2>2 DEF Retry
<1>6. CASE TimeIsUp \/ UNCHANGED fetchVars
  BY <1>0, <1>0p, <1>6 DEF TimeIsUp, fetchVars
<1> QED BY <1>1, <1>2, <1>3, <1>4, <1>5, <1>6 DEF FetchNext

\* The bucket never runs over, and no fetch makes more than MaxAttempts attempts.
THEOREM FetchTypeCorrect == FetchSpec => []FetchTypeOK
<1>1. FetchInv => FetchTypeOK
  BY DEF FetchInv
<1> QED BY <1>1, FetchInvInit, FetchInvStep, PTL DEF FetchSpec
-----------------------------------------------------------------------------
(***************************************************************************)
(* The rate.  Seen from any time t, what has left since then is in the     *)
(* bucket or has leaked out of it.                                         *)
(***************************************************************************)

RateInv ==
    \A t \in 0..now :
        (sent - sentBefore[t]) * TimePeriod <= level + (now - t) * MaxRate

LEMMA Counters ==
  ASSUME FetchTypeOK
  PROVE  /\ now \in Nat /\ level \in Nat /\ level <= Capacity /\ sent \in Nat
         /\ \A t \in 0..now : t \in Nat /\ sentBefore[t] \in Nat
         /\ MaxRate \in Nat /\ MaxRate >= 1 /\ TimePeriod \in Nat /\ TimePeriod >= 1
         /\ MaxTime \in Nat /\ now <= MaxTime
<1>1. /\ MaxRate \in Nat /\ MaxRate >= 1 /\ TimePeriod \in Nat /\ TimePeriod >= 1
      /\ MaxTime \in Nat
  BY LimiterAssumption, WaitAssumption
<1>2. now \in 0..MaxTime
  BY DEF FetchTypeOK, Times
<1>3. level \in Nat /\ level <= Capacity /\ sent \in Nat
  <2>1. level \in 0..Capacity /\ sent \in Nat
    BY DEF FetchTypeOK
  <2> QED BY <2>1, CapacityType
<1>4. \A t \in 0..now : t \in Nat /\ t \in Times
  BY <1>1, <1>2 DEF Times
<1>5. \A t \in Times : sentBefore[t] \in Nat
  BY DEF FetchTypeOK
<1> QED BY <1>1, <1>2, <1>3, <1>4, <1>5

LEMMA RateInvInit == FetchInit => RateInv
<1> SUFFICES ASSUME FetchInit PROVE RateInv
  OBVIOUS
<1> SUFFICES ASSUME NEW t \in 0..now
             PROVE  (sent - sentBefore[t]) * TimePeriod <= level + (now - t) * MaxRate
  BY DEF RateInv
<1>1. now = 0 /\ sent = 0 /\ level = 0 /\ t = 0
  BY DEF FetchInit
<1>2. 0 \in Times
  BY WaitAssumption DEF Times
<1>3. sentBefore[t] = 0
  BY <1>1, <1>2 DEF FetchInit
<1>4. (sent - sentBefore[t]) = 0 /\ now - t = 0
  BY <1>1, <1>3
<1>5. TimePeriod \in Int /\ MaxRate \in Int
  BY LimiterAssumption
<1> QED BY <1>1, <1>4, <1>5

LEMMA RateInvStep ==
  ASSUME FetchInv, RateInv, [FetchNext]_fetchVars
  PROVE  RateInv'
<1> USE Counters DEF FetchInv
<1>1. CASE Tick
  <2> SUFFICES ASSUME NEW t \in 0..(now + 1)
               PROVE  (sent - sentBefore'[t]) * TimePeriod
                          <= level' + ((now + 1) - t) * MaxRate
    BY <1>1 DEF Tick, RateInv
  <2>1. level' \in Nat /\ level <= level' + MaxRate
    BY <1>1 DEF Tick
  <2>2. CASE t = now + 1
    <3>1. now + 1 \in Times
      BY <1>1 DEF Tick, Times
    <3>2. sentBefore'[t] = sent
      BY <1>1, <2>2, <3>1 DEF Tick, FetchTypeOK
    <3> QED BY <2>1, <2>2, <3>2
  <2>3. CASE t \in 0..now
    <3>1. sentBefore'[t] = sentBefore[t]
      <4>1. t \in Times /\ t # now + 1
        BY <2>3 DEF Times
      <4>2. sentBefore \in [Times -> Nat]
        BY DEF FetchTypeOK
      <4> QED BY <1>1, <4>1, <4>2 DEF Tick
    <3>2. (sent - sentBefore[t]) * TimePeriod <= level + (now - t) * MaxRate
      BY <2>3 DEF RateInv
    <3>3. ((now + 1) - t) * MaxRate = (now - t) * MaxRate + MaxRate
      <4>1. now - t \in Int /\ (now + 1) - t = (now - t) + 1
        BY <2>3
      <4> QED BY <4>1, Products
    <3> DEFINE left == (sent - sentBefore[t]) * TimePeriod
               leaked == (now - t) * MaxRate
    <3>4. left \in Int /\ leaked \in Int
      BY <2>3
    <3> HIDE DEF left, leaked
    <3>5. left <= level + leaked
      BY <3>2 DEF left, leaked
    <3>6. left <= level' + (leaked + MaxRate)
      BY <2>1, <3>4, <3>5
    <3> QED BY <3>1, <3>3, <3>6 DEF left, leaked
  <2> QED BY <2>2, <2>3
<1>2. ASSUME NEW c \in Callers, Send(c) PROVE RateInv'
  <2> SUFFICES ASSUME NEW t \in 0..now
               PROVE  ((sent + 1) - sentBefore[t]) * TimePeriod
                          <= (level + TimePeriod) + (now - t) * MaxRate
    BY <1>2 DEF Send, RateInv
  <2> DEFINE left == (sent - sentBefore[t]) * TimePeriod
             leaked == (now - t) * MaxRate
  <2>1. ((sent + 1) - sentBefore[t]) * TimePeriod = left + TimePeriod
    <3>1. sent - sentBefore[t] \in Int /\ (sent + 1) - sentBefore[t] = (sent - sentBefore[t]) + 1
      OBVIOUS
    <3> QED BY <3>1, Products
  <2>2. left \in Int /\ leaked \in Int
    OBVIOUS
  <2>3. left <= level + leaked
    BY DEF RateInv
  <2> HIDE DEF left, leaked
  <2>4. left + TimePeriod <= (level + TimePeriod) + leaked
    BY <2>2, <2>3
  <2> QED BY <2>1, <2>4 DEF left, leaked
<1>3. CASE UNCHANGED <<now, level, sent, sentBefore>>
  BY <1>3 DEF RateInv
<1> QED BY <1>1, <1>2, <1>3 DEF FetchNext, BeginFetch, Answer, Retry, TimeIsUp, fetchVars

\* From any moment on, no more than MaxRate GETs per TimePeriod leave, and a burst
\* of MaxRate on top, however many tasks share the client and however often each
\* attempt is repeated: the retry passes the limiter like a first attempt.
THEOREM RateBoundHolds == FetchSpec => []RateBound
<1>1. FetchInv /\ RateInv => RateBound
  <2> SUFFICES ASSUME FetchInv, RateInv, NEW t \in 0..now
               PROVE  (sent - sentBefore[t]) * TimePeriod <= MaxRate * (TimePeriod + now - t)
    BY DEF RateBound
  <2> USE Counters DEF FetchInv
  <2>1. (sent - sentBefore[t]) * TimePeriod <= level + (now - t) * MaxRate
    BY DEF RateInv
  <2> DEFINE left == (sent - sentBefore[t]) * TimePeriod
             leaked == (now - t) * MaxRate
  <2>2. MaxRate * (TimePeriod + now - t) = Capacity + leaked
    <3>1. now - t \in Int /\ TimePeriod + now - t = TimePeriod + (now - t)
      OBVIOUS
    <3>2. (TimePeriod + (now - t)) * MaxRate = TimePeriod * MaxRate + (now - t) * MaxRate
      BY <3>1, Products
    <3>3. MaxRate * (TimePeriod + (now - t)) = (TimePeriod + (now - t)) * MaxRate
      BY <3>1, Products
    <3>4. TimePeriod * MaxRate = MaxRate * TimePeriod
      BY Products
    <3> QED BY <3>1, <3>2, <3>3, <3>4 DEF Capacity
  <2>3. left \in Int /\ leaked \in Int /\ Capacity \in Int
    BY CapacityType
  <2> HIDE DEF left, leaked
  <2>4. left <= level + leaked
    BY <2>1 DEF left, leaked
  <2>5. left <= Capacity + leaked
    BY <2>3, <2>4
  <2> QED BY <2>2, <2>5 DEF left
<1> QED BY <1>1, FetchInvInit, FetchInvStep, RateInvInit, RateInvStep, PTL DEF FetchSpec
-----------------------------------------------------------------------------
(***************************************************************************)
(* The wait.  Of a caller that waits since some time, when a number of     *)
(* GETs had been sent: what has leaked since then was used, but for what   *)
(* the bucket still could take when it came; and the bucket stays nearly   *)
(* full, because nobody waits while it has room.                           *)
(***************************************************************************)

Served(since, ahead) ==
    /\ since <= now
    /\ ahead <= sent
    /\ level + (now - since) * MaxRate <= Capacity + (sent - ahead) * TimePeriod
    /\ since < now => level > Capacity - TimePeriod - MaxRate

WaitInv == \A c \in Callers : call[c].pc = "acquire" => Served(call[c].since, call[c].ahead)

LEMMA FieldsType ==
  ASSUME NEW f \in FetchType
  PROVE  f.since \in Nat /\ f.ahead \in Nat
<1>1. f.since \in Times /\ f.ahead \in Nat
  BY DEF FetchType
<1>2. Times \subseteq Nat
  BY DEF Times
<1> QED BY <1>1, <1>2

LEMMA FullEnough ==
  ASSUME NEW r \in Nat, NEW t \in Nat, r >= 1, t >= 1
  PROVE  r <= r * t - t + 1
<1>1. (r - 1) * (t - 1) \in Nat
  <2>1. \A a, b \in Nat : a * b \in Nat
    OBVIOUS
  <2>2. r - 1 \in Nat /\ t - 1 \in Nat
    OBVIOUS
  <2> QED BY <2>1, <2>2
<1>2. (r - 1) * (t - 1) = r * (t - 1) - (t - 1)
  BY Products
<1>3. r * (t - 1) = r * t - r
  BY Products
<1> QED BY <1>1, <1>2, <1>3

LEMMA JustCame ==
  ASSUME FetchTypeOK
  PROVE  Served(now, sent)
<1>1. now - now = 0 /\ sent - sent = 0
  BY Counters
<1>2. level <= Capacity /\ level \in Nat /\ Capacity \in Nat /\ now \in Nat /\ sent \in Nat
  BY Counters, CapacityType
<1>3. 0 * MaxRate = 0 /\ 0 * TimePeriod = 0
  BY Counters
<1> QED BY <1>1, <1>2, <1>3 DEF Served

LEMMA TickServed ==
  ASSUME FetchTypeOK, Tick, ~HasCapacity, NEW since \in Nat, NEW ahead \in Nat, Served(since, ahead)
  PROVE  Served(since, ahead)'
<1> USE Counters, CapacityType
<1>1. level > Capacity - TimePeriod
  BY DEF HasCapacity
<1>2. level >= MaxRate
  BY <1>1, FullEnough DEF Capacity
<1>3. level' = level - MaxRate
  BY <1>2 DEF Tick
<1>4. now' = now + 1 /\ sent' = sent
  BY DEF Tick
<1>5. ((now + 1) - since) * MaxRate = (now - since) * MaxRate + MaxRate
  <2>1. (now + 1) - since = (now - since) + 1 /\ now - since \in Int
    OBVIOUS
  <2> QED BY <2>1, Products
<1> DEFINE leaked == (now - since) * MaxRate
           used == (sent - ahead) * TimePeriod
<1>6. leaked \in Int /\ used \in Int
  OBVIOUS
<1>7. level + leaked <= Capacity + used
  BY DEF Served
<1> HIDE DEF leaked, used
<1>8. level' + (leaked + MaxRate) <= Capacity + used
  BY <1>3, <1>6, <1>7
<1>9. level' > Capacity - TimePeriod - MaxRate
  BY <1>1, <1>3
<1>10. since <= now /\ ahead <= sent
  BY DEF Served
<1>11. level' + ((now + 1) - since) * MaxRate <= Capacity + (sent - ahead) * TimePeriod
  BY <1>5, <1>8 DEF leaked, used
<1>12. since <= now + 1
  BY <1>10
<1> QED BY <1>4, <1>9, <1>10, <1>11, <1>12 DEF Served

LEMMA SendServed ==
  ASSUME FetchTypeOK, NEW c, Send(c), NEW since \in Nat, NEW ahead \in Nat, Served(since, ahead)
  PROVE  Served(since, ahead)'
<1> USE Counters, CapacityType
<1>1. level' = level + TimePeriod /\ sent' = sent + 1 /\ now' = now
  BY DEF Send
<1>2. ((sent + 1) - ahead) * TimePeriod = (sent - ahead) * TimePeriod + TimePeriod
  <2>1. (sent + 1) - ahead = (sent - ahead) + 1 /\ sent - ahead \in Int
    OBVIOUS
  <2> QED BY <2>1, Products
<1> DEFINE leaked == (now - since) * MaxRate
           used == (sent - ahead) * TimePeriod
<1>3. leaked \in Int /\ used \in Int
  OBVIOUS
<1>4. level + leaked <= Capacity + used
  BY DEF Served
<1> HIDE DEF leaked, used
<1>5. (level + TimePeriod) + leaked <= Capacity + (used + TimePeriod)
  BY <1>3, <1>4
<1>6. (level + TimePeriod) + (now - since) * MaxRate <= Capacity + ((sent + 1) - ahead) * TimePeriod
  BY <1>2, <1>5 DEF leaked, used
<1>7. ahead <= sent + 1
  BY DEF Served
<1>8. since < now => level + TimePeriod > Capacity - TimePeriod - MaxRate
  BY DEF Served
<1> QED BY <1>1, <1>6, <1>7, <1>8 DEF Served

LEMMA WaitInvInit == FetchInit => WaitInv
  BY DEF FetchInit, WaitInv, NoFetch

LEMMA WaitInvStep ==
  ASSUME FetchInv, WaitInv, [FetchNext]_fetchVars
  PROVE  WaitInv'
<1> USE DEF FetchInv
<1>0. call \in [Callers -> FetchType]
  BY DEF FetchTypeOK, FetchType
<1>a. \A c \in Callers : call[c] \in FetchType /\ call[c].since \in Nat /\ call[c].ahead \in Nat
  BY <1>0, FieldsType
<1>1. CASE Tick
  <2>1. ASSUME NEW c \in Callers, call[c].pc = "acquire"
        PROVE  Served(call[c].since, call[c].ahead)'
    <3>1. ~HasCapacity /\ call' = call
      BY <1>1, <2>1 DEF Tick, Quiet
    <3>2. Served(call[c].since, call[c].ahead)
      BY <2>1 DEF WaitInv
    <3> DEFINE since == call[c].since
               ahead == call[c].ahead
    <3>3. since \in Nat /\ ahead \in Nat /\ since' = since /\ ahead' = ahead
      BY <1>a, <3>1
    <3> HIDE DEF since, ahead
    <3>4. PICK s \in Nat, a \in Nat : s = since /\ a = ahead
      BY <3>3
    <3>5. Served(s, a)'
      BY <1>1, <3>1, <3>2, <3>4, TickServed DEF since, ahead
    <3>6. Served(since, ahead)'
      BY <3>3, <3>4, <3>5 DEF Served
    <3> QED BY <3>6 DEF since, ahead
  <2> QED BY <1>1, <2>1 DEF WaitInv, Tick
<1>2. ASSUME NEW c \in Callers, BeginFetch(c) \/ Retry(c) PROVE WaitInv'
  <2>1. PICK old \in FetchType : call' = [call EXCEPT ![c] = Asking(old)]
    BY <1>2, <1>a, NoFetchType DEF BeginFetch, Retry
  <2>2. Asking(old).since = now /\ Asking(old).ahead = sent
    BY DEF Asking, FetchType
  <2>3. UNCHANGED <<now, level, sent>>
    BY <1>2 DEF BeginFetch, Retry
  <2>4. ASSUME NEW d \in Callers, call'[d].pc = "acquire"
        PROVE  Served(call[d].since, call[d].ahead)'
    <3>1. CASE d = c
      <4>1. call'[d].since = now /\ call'[d].ahead = sent
        BY <1>0, <2>1, <2>2, <3>1
      <4> QED BY <2>3, <4>1, JustCame DEF Served
    <3>2. CASE d # c
      <4>1. call'[d] = call[d]
        BY <1>0, <2>1, <3>2
      <4> QED BY <2>3, <2>4, <4>1 DEF WaitInv, Served
    <3> QED BY <3>1, <3>2
  <2> QED BY <2>4 DEF WaitInv
<1>3. ASSUME NEW c \in Callers, Send(c) PROVE WaitInv'
  <2>1. call' = [call EXCEPT ![c] = Asked(call[c])] /\ call[c].pc = "acquire"
    BY <1>3 DEF Send
  <2>2. Asked(call[c]).pc = "flight"
    BY <1>a, <2>1, AskedType DEF AttemptLeft
  <2>3. ASSUME NEW d \in Callers, call'[d].pc = "acquire"
        PROVE  Served(call[d].since, call[d].ahead)'
    <3>1. d # c /\ call'[d] = call[d]
      BY <1>0, <2>1, <2>2, <2>3
    <3>2. PICK s \in Nat, a \in Nat : s = call[d].since /\ a = call[d].ahead
      BY <1>a
    <3>3. Served(s, a)
      BY <2>3, <3>1, <3>2 DEF WaitInv
    <3>4. Served(s, a)'
      BY <1>3, <3>3, SendServed
    <3> QED BY <3>1, <3>2, <3>4 DEF Served
  <2> QED BY <2>3 DEF WaitInv
<1>4. ASSUME NEW c \in Callers, Answer(c) PROVE WaitInv'
  <2>1. UNCHANGED <<now, level, sent>>
    BY <1>4 DEF Answer
  <2>2. PICK new : call' = [call EXCEPT ![c] = new] /\ new.pc # "acquire"
    <3>1. \A u : [call[c] EXCEPT !.pc = "backoff", !.until = u].pc = "backoff"
      BY <1>a DEF FetchType
    <3>2. [call[c] EXCEPT !.pc = "gave up"].pc = "gave up"
      BY <1>a DEF FetchType
    <3>3. NoFetch.pc = "idle"
      BY DEF NoFetch
    <3>4. \/ \E u : call' = [call EXCEPT ![c] = [call[c] EXCEPT !.pc = "backoff", !.until = u]]
          \/ call' = [call EXCEPT ![c] = [call[c] EXCEPT !.pc = "gave up"]]
          \/ call' = [call EXCEPT ![c] = NoFetch]
      BY <1>4 DEF Answer
    <3> QED BY <3>1, <3>2, <3>3, <3>4
  <2>3. ASSUME NEW d \in Callers, call'[d].pc = "acquire"
        PROVE  Served(call[d].since, call[d].ahead)'
    <3>1. call'[d] = call[d]
      BY <1>0, <2>2, <2>3
    <3> QED BY <2>1, <2>3, <3>1 DEF WaitInv, Served
  <2> QED BY <2>3 DEF WaitInv
<1>5. CASE TimeIsUp \/ UNCHANGED fetchVars
  BY <1>5 DEF TimeIsUp, fetchVars, WaitInv, Served
<1> QED BY <1>1, <1>2, <1>3, <1>4, <1>5 DEF FetchNext

\* While a task waits for the limiter, GETs of the tasks that share it leave at the
\* full rate; one on its own is through after the time of a GET, rounded up.
THEOREM WaitIsShortHolds == FetchSpec => []WaitIsShort
<1>1. FetchInv /\ WaitInv => WaitIsShort
  <2> SUFFICES ASSUME FetchInv, WaitInv, NEW c \in Callers, call[c].pc = "acquire"
               PROVE  (now - call[c].since) * MaxRate
                          < (sent - call[c].ahead + 1) * TimePeriod + MaxRate
    BY DEF WaitIsShort
  <2> USE Counters, CapacityType DEF FetchInv
  <2>1. PICK s \in Nat, a \in Nat : s = call[c].since /\ a = call[c].ahead
    <3>1. call[c] \in FetchType
      BY DEF FetchTypeOK, FetchType
    <3> QED BY <3>1, FieldsType
  <2>2. Served(s, a)
    BY <2>1 DEF WaitInv
  <2> DEFINE leaked == (now - s) * MaxRate
             used == (sent - a) * TimePeriod
  <2>3. leaked \in Int /\ used \in Int /\ used \in Nat
    <3>1. sent - a \in Nat
      BY <2>2 DEF Served
    <3> QED BY <3>1
  <2>4. (sent - a + 1) * TimePeriod = used + TimePeriod
    <3>1. sent - a \in Int
      OBVIOUS
    <3> QED BY <3>1, Products
  <2>5. level + leaked <= Capacity + used /\ (s < now => level > Capacity - TimePeriod - MaxRate)
    BY <2>2 DEF Served
  <2>6. s = now => leaked = 0
    <3>1. s = now => now - s = 0
      OBVIOUS
    <3> QED BY <3>1
  <2>7. s = now \/ s < now
    BY <2>2 DEF Served
  <2> HIDE DEF leaked, used
  <2>8. leaked < used + TimePeriod + MaxRate
    BY <2>3, <2>5, <2>6, <2>7
  <2> QED BY <2>1, <2>4, <2>8 DEF leaked
<1> QED BY <1>1, FetchInvInit, FetchInvStep, WaitInvInit, WaitInvStep, PTL DEF FetchSpec
-----------------------------------------------------------------------------
(***************************************************************************)
(* Giving up.  By its n-th attempt a fetch has slept the exponential waits *)
(* of the n-1 before; what else it waits for only adds to that.            *)
(***************************************************************************)

LEMMA SleptStep ==
  /\ Slept(1) = 0
  /\ \A n \in 1..MaxAttempts :
        /\ Slept(n) \in Int
        /\ n < MaxAttempts => Slept(n + 1) = Slept(n) + Backoff(n)
<1>1. ASSUME NEW n \in 1..MaxAttempts
      PROVE  /\ n \in Int /\ n >= 1
             /\ IsFiniteSet(1..(n - 1))
             /\ \A k \in 1..(n - 1) : WaitOf[k] \in Int
  <2>1. n \in Int /\ n >= 1 /\ n <= MaxAttempts /\ MaxAttempts \in Int
    BY MaxAttemptsAssumption
  <2>2. IsFiniteSet(1..(n - 1))
    BY <2>1, FS_Interval
  <2>3. \A k \in 1..(n - 1) : k \in 1..MaxAttempts
    BY <2>1
  <2> QED BY <2>1, <2>2, <2>3, WaitType DEF WaitOf
<1>2. ASSUME NEW n \in 1..MaxAttempts
      PROVE  Slept(n) \in Int
  BY <1>1, SumStep DEF Slept
<1>3. Slept(1) = 0
  <2>1. 1 \in 1..MaxAttempts /\ 1..(1 - 1) = {}
    BY MaxAttemptsAssumption
  <2> QED BY <1>1, <2>1, SumStep DEF Slept
<1>4. ASSUME NEW n \in 1..MaxAttempts, n < MaxAttempts
      PROVE  Slept(n + 1) = Slept(n) + Backoff(n)
  <2>1. n + 1 \in 1..MaxAttempts /\ n \in 1..((n + 1) - 1)
    BY <1>4, MaxAttemptsAssumption
  <2>2. (1..((n + 1) - 1)) \ {n} = 1..(n - 1)
    BY <1>1
  <2>3. Slept(n + 1) = WaitOf[n] + Slept(n)
    <3> DEFINE S == 1..((n + 1) - 1)
    <3>1. IsFiniteSet(S) /\ \A k \in S : WaitOf[k] \in Int
      BY <1>1, <2>1
    <3>2. n \in S /\ S \ {n} = 1..(n - 1) /\ Slept(n + 1) = SumFunctionOnSet(WaitOf, S)
      BY <2>1, <2>2 DEF Slept
    <3> HIDE DEF S
    <3>3. SumFunctionOnSet(WaitOf, S) = WaitOf[n] + SumFunctionOnSet(WaitOf, S \ {n})
      BY <3>1, <3>2, SumTake
    <3> QED BY <3>2, <3>3 DEF Slept
  <2>4. WaitOf[n] = Backoff(n) /\ Backoff(n) \in Int /\ Slept(n) \in Int
    BY <1>2, WaitType DEF WaitOf
  <2> QED BY <2>3, <2>4
<1> QED BY <1>2, <1>3, <1>4

\* of a fetch at time t: before its next attempt, in one, and after the last
SleptBy(f, t) ==
    /\ f.pc = "acquire" /\ f.made >= 1 => t - f.first >= Slept(f.made + 1)
    /\ f.pc = "flight" => t - f.first >= Slept(f.made)
    /\ f.pc = "backoff" => f.until - f.first >= Slept(f.made + 1)
    /\ f.pc = "gave up" => f.made = MaxAttempts /\ t - f.first >= Slept(MaxAttempts)

LateInv == \A c \in Callers : SleptBy(call[c], now)

\* What SleptBy needs to know of a fetch: where its number of attempts lies.
LEMMA FetchFacts ==
  ASSUME FetchInv, NEW c \in Callers
  PROVE  /\ call[c] \in FetchType /\ AttemptLeft(call[c]) /\ now \in Nat
         /\ call[c].made \in Nat /\ call[c].made <= MaxAttempts /\ MaxAttempts \in Nat
         /\ call[c].first \in Int /\ call[c].until \in Int
         /\ call[c].made >= 1 => call[c].made \in 1..MaxAttempts /\ Slept(call[c].made) \in Int
         /\ call[c].made < MaxAttempts =>
                call[c].made + 1 \in 1..MaxAttempts /\ Slept(call[c].made + 1) \in Int
<1>1. call[c] \in FetchType /\ AttemptLeft(call[c])
  BY DEF FetchInv, FetchTypeOK, FetchType
<1>2. now \in Nat
  BY Counters DEF FetchInv
<1>3. call[c].made \in Nat /\ call[c].made <= MaxAttempts /\ MaxAttempts \in Nat
  BY <1>1, MadeType, MaxAttemptsAssumption
<1>4. call[c].first \in Int /\ call[c].until \in Int
  <2>1. call[c].first \in Times /\ call[c].until \in Int
    BY <1>1 DEF FetchType
  <2>2. Times \subseteq Int
    BY DEF Times
  <2> QED BY <2>1, <2>2
<1>5. call[c].made >= 1 => call[c].made \in 1..MaxAttempts
  BY <1>3
<1>6. call[c].made < MaxAttempts => call[c].made + 1 \in 1..MaxAttempts
  BY <1>3
<1> QED BY <1>1, <1>2, <1>3, <1>4, <1>5, <1>6, SleptStep

\* Nothing is said of a fetch that is not open, or has made no attempt.
LEMMA SleptByOther ==
  ASSUME NEW f, NEW t, f.pc = "idle" \/ (f.pc = "acquire" /\ f.made = 0)
  PROVE  SleptBy(f, t)
<1>1. f.made = 0 => ~(f.made >= 1)
  OBVIOUS
<1>2. CASE f.pc = "idle"
  BY <1>2 DEF SleptBy
<1>3. CASE f.pc = "acquire" /\ f.made = 0
  BY <1>1, <1>3 DEF SleptBy
<1> QED BY <1>2, <1>3

LEMMA LateInvInit == FetchInit => LateInv
<1>1. NoFetch.pc = "idle"
  BY DEF NoFetch
<1> QED BY <1>1, SleptByOther DEF FetchInit, LateInv

LEMMA LateInvStep ==
  ASSUME FetchInv, LateInv, [FetchNext]_fetchVars
  PROVE  LateInv'
<1>1. CASE Tick
  <2> SUFFICES ASSUME NEW c \in Callers
               PROVE  SleptBy(call[c], now + 1)
    BY <1>1 DEF Tick, LateInv, SleptBy
  <2>1. SleptBy(call[c], now)
    BY DEF LateInv
  <2>2. MaxAttempts \in 1..MaxAttempts /\ Slept(MaxAttempts) \in Int
    BY SleptStep, MaxAttemptsAssumption
  <2> DEFINE f == call[c]
  <2>3. /\ now \in Nat /\ f.first \in Int
        /\ f.pc = "acquire" /\ f.made >= 1 => Slept(f.made + 1) \in Int
        /\ f.pc = "flight" => Slept(f.made) \in Int
    BY FetchFacts DEF AttemptLeft
  <2> HIDE DEF f
  <2>4. SleptBy(f, now)
    BY <2>1 DEF f
  <2>5. SleptBy(f, now + 1)
    <3>1. f.pc = "acquire" /\ f.made >= 1 => (now + 1) - f.first >= Slept(f.made + 1)
      BY <2>3, <2>4 DEF SleptBy
    <3>2. f.pc = "flight" => (now + 1) - f.first >= Slept(f.made)
      BY <2>3, <2>4 DEF SleptBy
    <3>3. f.pc = "gave up" => f.made = MaxAttempts /\ (now + 1) - f.first >= Slept(MaxAttempts)
      <4>1. f.pc = "gave up" => f.made = MaxAttempts /\ now - f.first >= Slept(MaxAttempts)
        BY <2>4 DEF SleptBy
      <4> DEFINE slept == Slept(MaxAttempts)
      <4>2. slept \in Int
        BY <2>2
      <4> HIDE DEF slept
      <4>3. now - f.first >= slept => (now + 1) - f.first >= slept
        BY <2>3, <4>2
      <4> QED BY <4>1, <4>3 DEF slept
    <3> QED BY <2>4, <3>1, <3>2, <3>3 DEF SleptBy
  <2> QED BY <2>5 DEF f
<1>2. ASSUME NEW c \in Callers, BeginFetch(c) PROVE LateInv'
  <2>1. SleptBy(Asking(NoFetch), now)
    <3>1. Asking(NoFetch).pc = "acquire" /\ Asking(NoFetch).made = 0
      BY DEF Asking, NoFetch
    <3> QED BY <3>1, SleptByOther
  <2> QED BY <1>2, <2>1, FetchFacts DEF BeginFetch, LateInv, FetchInv, FetchTypeOK
<1>3. ASSUME NEW c \in Callers, Send(c) PROVE LateInv'
  <2> DEFINE f == call[c]
  <2>1. f.pc = "acquire" /\ f \in FetchType /\ f.made < MaxAttempts /\ f.made \in Nat
    BY <1>3, FetchFacts DEF Send, AttemptLeft
  <2>2. Asked(f).pc = "flight" /\ Asked(f).made = f.made + 1
    <3> HIDE DEF f
    <3> QED BY <2>1, AskedType DEF FetchInv
  <2>3. Asked(f).first = IF f.made = 0 THEN now ELSE f.first
    BY <2>1 DEF Asked, FetchType
  <2>4. ASSUME f.made = 0 PROVE SleptBy(Asked(f), now)
    <3>1. now - now = 0 /\ f.made + 1 = 1
      BY <2>4, FetchFacts
    <3> HIDE DEF f
    <3> QED BY <2>2, <2>3, <2>4, <3>1, SleptStep DEF SleptBy
  <2>5. ASSUME f.made # 0 PROVE SleptBy(Asked(f), now)
    <3>1. now - f.first >= Slept(f.made + 1)
      <4>1. f.made >= 1 /\ SleptBy(f, now)
        BY <2>1, <2>5 DEF LateInv
      <4> HIDE DEF f
      <4> QED BY <2>1, <4>1 DEF SleptBy
    <3> HIDE DEF f
    <3> QED BY <2>2, <2>3, <2>5, <3>1 DEF SleptBy
  <2>6. SleptBy(Asked(f), now)
    BY <2>4, <2>5
  <2> HIDE DEF f
  <2>7. call' = [call EXCEPT ![c] = Asked(f)] /\ now' = now
    BY <1>3 DEF Send, f
  <2> QED BY <2>6, <2>7 DEF LateInv, FetchInv, FetchTypeOK
<1>4. ASSUME NEW c \in Callers, Answer(c) PROVE LateInv'
  <2> DEFINE f == call[c]
  <2>1. f.pc = "flight" /\ f \in FetchType /\ now' = now /\ f.made >= 1 /\ f.made \in 1..MaxAttempts
    BY <1>4, FetchFacts DEF Answer, AttemptLeft
  <2>2. now - f.first >= Slept(f.made)
    BY <2>1 DEF LateInv, SleptBy
  <2>3. PICK reply \in Replies \cup {NoReply} :
          LET result == AttemptResult(reply, call[c].made)
          IN  \/ /\ result = "retry"
                 /\ \E wait \in Waits(call[c].made) :
                       call' = [call EXCEPT ![c].pc = "backoff", ![c].until = now + wait]
              \/ /\ result = "rate limit error"
                 /\ call' = [call EXCEPT ![c].pc = "gave up"]
              \/ call' = [call EXCEPT ![c] = NoFetch]
    BY <1>4, Zenon DEF Answer
  <2>4. CASE /\ AttemptResult(reply, f.made) = "retry"
             /\ \E wait \in Waits(f.made) :
                   call' = [call EXCEPT ![c].pc = "backoff", ![c].until = now + wait]
    <3>1. PICK wait \in Waits(f.made) :
             call' = [call EXCEPT ![c] = [f EXCEPT !.pc = "backoff", !.until = now + wait]]
      BY <2>4
    <3>2. f.made < MaxAttempts
      BY <2>4 DEF AttemptResult, ParseResponse
    <3>3. wait \in Int /\ wait >= Backoff(f.made) /\ Backoff(f.made) \in Int
      BY <2>1, WaitType
    <3>4. Slept(f.made + 1) = Slept(f.made) + Backoff(f.made) /\ Slept(f.made) \in Int
      BY <2>1, <3>2, SleptStep
    <3>5. (now + wait) - f.first >= Slept(f.made + 1)
      BY <2>2, <3>3, <3>4, FetchFacts
    <3> DEFINE new == [f EXCEPT !.pc = "backoff", !.until = now + wait]
    <3>6. new.pc = "backoff" /\ new.until = now + wait /\ new.made = f.made /\ new.first = f.first
      BY <2>1 DEF FetchType
    <3> HIDE DEF new
    <3>7. SleptBy(new, now)
      BY <3>5, <3>6 DEF SleptBy
    <3>8. call' = [call EXCEPT ![c] = new]
      BY <3>1 DEF new
    <3> QED BY <2>1, <3>7, <3>8 DEF LateInv, FetchInv, FetchTypeOK
  <2>5. CASE /\ AttemptResult(reply, f.made) = "rate limit error"
             /\ call' = [call EXCEPT ![c].pc = "gave up"]
    <3> DEFINE new == [f EXCEPT !.pc = "gave up"]
    <3>1. new.pc = "gave up" /\ new.made = f.made /\ new.first = f.first
      BY <2>1 DEF FetchType
    <3>2. f.made = MaxAttempts
      <4>1. ~(f.made < MaxAttempts)
        BY <2>5 DEF AttemptResult, ParseResponse
      <4> QED BY <4>1, FetchFacts
    <3> HIDE DEF new
    <3>3. SleptBy(new, now)
      BY <2>2, <3>1, <3>2 DEF SleptBy
    <3>4. call' = [call EXCEPT ![c] = new]
      BY <2>5 DEF new
    <3> QED BY <2>1, <3>3, <3>4 DEF LateInv, FetchInv, FetchTypeOK
  <2>6. CASE call' = [call EXCEPT ![c] = NoFetch]
    <3>1. SleptBy(NoFetch, now)
      <4>1. NoFetch.pc = "idle"
        BY DEF NoFetch
      <4> QED BY <4>1, SleptByOther
    <3> QED BY <2>1, <2>6, <3>1 DEF LateInv, FetchInv, FetchTypeOK
  <2> QED BY <2>3, <2>4, <2>5, <2>6
<1>5. ASSUME NEW c \in Callers, Retry(c) PROVE LateInv'
  <2> DEFINE f == call[c]
             new == Asking(f)
  <2>1. f.pc = "backoff" /\ f \in FetchType /\ f.until <= now
    BY <1>5, FetchFacts DEF Retry
  <2>2. f.until - f.first >= Slept(f.made + 1)
    BY <2>1 DEF LateInv, SleptBy
  <2>3. Slept(f.made + 1) \in Int
    BY <2>1, FetchFacts DEF AttemptLeft
  <2>4. now - f.first >= Slept(f.made + 1)
    BY <2>1, <2>2, <2>3, FetchFacts
  <2>5. new.pc = "acquire" /\ new.made = f.made /\ new.first = f.first
    BY <2>1 DEF Asking, FetchType
  <2> HIDE DEF new
  <2>6. SleptBy(new, now)
    BY <2>4, <2>5 DEF SleptBy
  <2>7. call' = [call EXCEPT ![c] = new] /\ now' = now
    BY <1>5 DEF Retry, new
  <2> QED BY <2>6, <2>7 DEF LateInv, FetchInv, FetchTypeOK
<1>6. CASE TimeIsUp \/ UNCHANGED fetchVars
  BY <1>6 DEF TimeIsUp, fetchVars, LateInv
<1> QED BY <1>1, <1>2, <1>3, <1>4, <1>5, <1>6 DEF FetchNext

\* Whatever the limiter, the jitter and the time-outs, a fetch raises
\* FinMindRateLimitError only after MaxAttempts attempts, and not before the
\* exponential waits between them are over.
THEOREM GivesUpLateHolds == FetchSpec => []GivesUpLate
<1>1. LateInv => GivesUpLate
  BY DEF LateInv, SleptBy, GivesUpLate
<1> QED BY <1>1, FetchInvInit, FetchInvStep, LateInvInit, LateInvStep, PTL DEF FetchSpec
=============================================================================
