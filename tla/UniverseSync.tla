---------------------------- MODULE UniverseSync ----------------------------
(***************************************************************************)
(* UniverseSyncService.sync: fetch the full TaiwanStockInfo snapshot, keep *)
(* the latest valid row per stock, then in one transaction mark every      *)
(* stock inactive and upsert the ones the snapshot holds.  The weekly job  *)
(* and a `refresh-universe` command may do it at the same time, beside the *)
(* operator, who sets `in_watchlist` by hand, and the daily ingest, which  *)
(* reads the table.                                                        *)
(*                                                                         *)
(* READ COMMITTED: the UPDATE of all rows finds the rows committed when it *)
(* starts, waits for those a transaction has locked, and then works on     *)
(* their newest version.  As the table is never empty, a second sync waits *)
(* there until the first has committed: a transaction is the start of its  *)
(* UPDATE and, in a step of its own, all the rest.                         *)
(***************************************************************************)
EXTENDS Integers, Sequences, SequencesExt

CONSTANTS
    Syncers,    \* processes that may run sync()
    Stocks,     \* stock ids
    Infos,      \* name, industry and market of a stock
    Snapshots,  \* the data arrays FinMind may answer with
    Invalid,    \* a row TaiwanStockInfoRow rejects, such as date "None"
    NoStock,    \* stock_universe has no row, or the snapshot names no such stock
    NoSnapshot, \* no fetched snapshot waits to be applied
    NotBegun    \* the UPDATE of the open sync has not started

InfoRow  == [stock : Stocks, date : Nat, info : Infos]
Universe == [active : BOOLEAN, watched : BOOLEAN, info : Infos]

ASSUME SnapshotsAssumption == Snapshots \subseteq Seq(InfoRow \cup {Invalid})
ASSUME AbsentStockAssumption ==
    NoStock \notin InfoRow \cup Universe /\ Invalid \notin InfoRow /\ NoSnapshot \notin Snapshots

VARIABLES
    universe,   \* the stock_universe table
    fetched,    \* per syncer, the snapshot its open call holds in memory
    found,      \* per syncer, the stocks its UPDATE finds
    applied,    \* history: the snapshot of the last committed sync
    missed,     \* history: the stocks of the table its UPDATE did not find
    chosen      \* history: the stocks the operator last put on the watchlist

universeVars == <<universe, fetched, found, applied, missed, chosen>>

UniverseTypeOK ==
    /\ universe \in [Stocks -> Universe \cup {NoStock}]
    /\ fetched \in [Syncers -> Snapshots \cup {NoSnapshot}]
    /\ \A y \in Syncers : found[y] = NotBegun \/ found[y] \subseteq Stocks
    /\ missed \subseteq Stocks
    /\ applied \in Snapshots \cup {NoSnapshot}
    /\ chosen \subseteq Stocks

Seeded(info) == [active |-> TRUE, watched |-> TRUE, info |-> info]

\* the migration seeds the first watchlist stocks, active and watched
UniverseInit ==
    /\ \E info \in Infos, seeds \in (SUBSET Stocks) \ {{}} :
          /\ universe = [s \in Stocks |-> IF s \in seeds THEN Seeded(info) ELSE NoStock]
          /\ chosen = seeds
    /\ fetched = [y \in Syncers |-> NoSnapshot]
    /\ found = [y \in Syncers |-> NotBegun]
    /\ applied = NoSnapshot
    /\ missed = {}

Known   == {s \in Stocks : universe[s] # NoStock}
Watched == {s \in Known : universe[s].watched}
Listed  == {s \in Watched : universe[s].active}
-----------------------------------------------------------------------------
\* variant with a fault: the last of equal dates wins
KeepLastOfTies(latest, row) ==
    IF row = Invalid THEN latest
    ELSE IF latest[row.stock] = NoStock \/ row.date >= latest[row.stock].date
         THEN [latest EXCEPT ![row.stock] = row]
         ELSE latest

\* the loop body of _dedup_latest: an invalid row is skipped, a later date replaces
Keep(latest, row) ==
    IF row = Invalid THEN latest
    ELSE IF latest[row.stock] = NoStock \/ row.date > latest[row.stock].date
         THEN [latest EXCEPT ![row.stock] = row]
         ELSE latest

\* _dedup_latest: per stock, the row to store
DedupLatest(rows) == FoldLeft(Keep, [s \in Stocks |-> NoStock], rows)

FetchSnapshot(y) ==
    /\ fetched[y] = NoSnapshot
    /\ \E rows \in Snapshots : fetched' = [fetched EXCEPT ![y] = rows]
    /\ UNCHANGED <<universe, found, applied, missed, chosen>>

\* the UPDATE starts: later rows of others are not among those it will change
BeginUpdate(y) ==
    /\ fetched[y] # NoSnapshot
    /\ found[y] = NotBegun
    /\ found' = [found EXCEPT ![y] = Known]
    /\ UNCHANGED <<universe, fetched, applied, missed, chosen>>

\* a row of the table after the UPDATE ... SET is_active = false
Deactivate(row) == IF row = NoStock THEN NoStock ELSE [row EXCEPT !.active = FALSE]

\* variant with a fault: the update stores the whole parsed row
UpsertRowWhole(row, new) ==
    IF row = NoStock THEN [active |-> TRUE, watched |-> FALSE, info |-> new.info]
    ELSE [row EXCEPT !.active = TRUE, !.info = new]

\* INSERT ... ON CONFLICT DO UPDATE; in_watchlist defaults to false on insert
\* and is left alone on update
UpsertRow(row, new) ==
    IF row = NoStock THEN [active |-> TRUE, watched |-> FALSE, info |-> new.info]
    ELSE [row EXCEPT !.active = TRUE, !.info = new.info]

EndSync(y) ==
    /\ fetched' = [fetched EXCEPT ![y] = NoSnapshot]
    /\ found' = [found EXCEPT ![y] = NotBegun]

\* the rest of the transaction of sync(), up to its commit
ApplySnapshot(y) ==
    /\ found[y] # NotBegun
    /\ LET latest == DedupLatest(fetched[y])
           updated == [s \in Stocks |-> IF s \in found[y] THEN Deactivate(universe[s])
                                                          ELSE universe[s]]
       IN  universe' = [s \in Stocks |-> IF latest[s] = NoStock THEN updated[s]
                                         ELSE UpsertRow(updated[s], latest[s])]
    /\ applied' = fetched[y]
    /\ missed' = Known \ found[y]
    /\ EndSync(y)
    /\ UNCHANGED chosen

\* an error of the client, a database error or a crash before the commit
AbandonSync(y) ==
    /\ fetched[y] # NoSnapshot
    /\ EndSync(y)
    /\ UNCHANGED <<universe, applied, missed, chosen>>

\* the operator edits in_watchlist by SQL; no code of the application does
EditWatchlist(s) ==
    /\ s \in Known
    /\ universe' = [universe EXCEPT ![s].watched = ~@]
    /\ chosen' = IF s \in chosen THEN chosen \ {s} ELSE chosen \cup {s}
    /\ UNCHANGED <<fetched, found, applied, missed>>

UniverseNext ==
    \/ \E y \in Syncers :
          FetchSnapshot(y) \/ BeginUpdate(y) \/ ApplySnapshot(y) \/ AbandonSync(y)
    \/ \E s \in Stocks : EditWatchlist(s)

UniverseSpec == UniverseInit /\ [][UniverseNext]_universeVars
-----------------------------------------------------------------------------
\* row n of a snapshot is the one to keep for its stock: valid, and no other
\* valid row of the stock has a later date, or the same date earlier in the list
IsLatest(rows, n) ==
    /\ rows[n] # Invalid
    /\ \A m \in DOMAIN rows \ {n} :
          rows[m] # Invalid /\ rows[m].stock = rows[n].stock =>
              \/ rows[m].date < rows[n].date
              \/ rows[m].date = rows[n].date /\ n < m

\* After a committed sync, and whatever the operator and other syncs did
\* meanwhile, a stock of which the snapshot holds a valid row is active and shows
\* the data of the latest such row; any other is inactive, unless another sync
\* added it meanwhile; and a stock is watched exactly if the operator wants so: a
\* delisted stock keeps its row and its watchlist flag.
IsSnapshotView ==
    applied # NoSnapshot =>
        \A s \in Stocks :
            LET rows == {n \in DOMAIN applied : IsLatest(applied, n) /\ applied[n].stock = s}
            IN  /\ s \in chosen <=> s \in Watched
                /\ rows = {} => s \notin Known \/ ~universe[s].active \/ s \in missed
                /\ \A n \in rows : s \in Known /\ universe[s].active /\ universe[s].info = applied[n].info
=============================================================================
