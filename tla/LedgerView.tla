----------------------------- MODULE LedgerView -----------------------------
(***************************************************************************)
(* The data of the ELT pipeline: what one `ingest_raw` payload holds, and  *)
(* the last-write-wins view of a set of payload positions.  A payload is a *)
(* list of items; an item is a dict that the Pydantic row model accepts    *)
(* (a row), a dict it rejects (Malformed), or not a dict at all (NonDict). *)
(* A payload that is not a list has the effect of an empty one.            *)
(***************************************************************************)
EXTENDS Integers, Sequences, FiniteSets

CONSTANTS
    Keys,       \* the domain primary keys (stock_id, trade_date)
    Vals,       \* the column values a row carries
    Payloads,   \* the payloads FinMind may answer with
    Malformed,  \* a dict item that model_validate rejects
    NonDict,    \* an item that is not a dict
    NoRow,      \* the domain table has no row for the key
    NoRaw,      \* ingest_raw has no committed row with the id
    MaxId       \* bound: the largest id the bigserial sequence hands out

Ids == 1..MaxId

PayloadRow == [key : Keys, val : Vals]
Item       == PayloadRow \cup {Malformed, NonDict}
DomainRow  == [val : Vals, src : Ids]

ASSUME PayloadsAssumption == Payloads \subseteq Seq(Item)
ASSUME ItemAssumption ==
    /\ Malformed \notin PayloadRow
    /\ NonDict \notin PayloadRow
    /\ Malformed # NonDict
ASSUME AbsentAssumption == NoRow \notin DomainRow /\ NoRaw \notin Payloads
ASSUME MaxIdAssumption  == MaxId \in Nat

Ledger == [Ids -> Payloads \cup {NoRaw}]
Table  == [Keys -> DomainRow \cup {NoRow}]

Stored(log)  == {i \in Ids : log[i] # NoRaw}
Upto(log, c) == {i \in Stored(log) : i <= c}

(***************************************************************************)
(* A position <<i, n>> is the n-th item of raw row i; positions are        *)
(* ordered by raw id and, within a payload, by index.                      *)
(***************************************************************************)
Positions(log, S) == UNION {{i} \X DOMAIN log[i] : i \in S}
ItemAt(log, p)    == log[p[1]][p[2]]
HasKey(log, p, k) == ItemAt(log, p) \in PayloadRow /\ ItemAt(log, p).key = k
Before(p, q)      == p[1] < q[1] \/ (p[1] = q[1] /\ p[2] < q[2])
RowOf(log, p)     == [val |-> ItemAt(log, p).val, src |-> p[1]]

(***************************************************************************)
(* tbl holds, for every key, exactly the row of the last position of P     *)
(* that names the key, and nothing for a key no position of P names.       *)
(***************************************************************************)
IsView(tbl, log, P) ==
    \A k \in Keys :
        LET Pk == {p \in P : HasKey(log, p, k)}
        IN  \/ Pk = {} /\ tbl[k] = NoRow
            \/ \E p \in Pk : /\ \A q \in Pk \ {p} : Before(q, p)
                             /\ tbl[k] = RowOf(log, p)

Poisoned(log, i) == \E n \in DOMAIN log[i] : log[i][n] = Malformed
=============================================================================
