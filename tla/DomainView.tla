----------------------------- MODULE DomainView -----------------------------
(***************************************************************************)
(* What the ELT step promises, in one sentence: at every moment the domain *)
(* table is the last-write-wins view of the raw rows up to the cursor.     *)
(* Raw rows are appended in id order; now and then the consumer catches up *)
(* with a longer prefix, in one step that changes cursor and table         *)
(* together, and never past a raw row that holds a malformed item.         *)
(***************************************************************************)
EXTENDS LedgerView

VARIABLES
    log,    \* the raw rows
    mark,   \* the cursor: the prefix of log already consumed
    view    \* the domain table

vars == <<log, mark, view>>

Init ==
    /\ log = [i \in Ids |-> NoRaw]
    /\ mark = 0
    /\ view = [k \in Keys |-> NoRow]

AppendRaw(i) ==
    /\ \A j \in Stored(log) : j < i
    /\ \E p \in Payloads : log' = [log EXCEPT ![i] = p]
    /\ UNCHANGED <<mark, view>>

CatchUp(top) ==
    /\ top > mark
    /\ \A i \in Upto(log, top) : ~Poisoned(log, i)
    /\ mark' = top
    /\ view' \in Table
    /\ IsView(view', log, Positions(log, Upto(log, top)))
    /\ UNCHANGED log

Next == \/ \E i \in Ids : AppendRaw(i)
        \/ \E top \in Stored(log) : CatchUp(top)

Spec == Init /\ [][Next]_vars
=============================================================================
