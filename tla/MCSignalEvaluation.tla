------------------------- MODULE MCSignalEvaluation -------------------------
(***************************************************************************)
(* SignalEvaluation on small instances.  The eighth of nine days is        *)
(* evaluated, and a backfill covers the last two, the ninth on the         *)
(* strength of other stocks' rows.  SurgeMarkets has price histories on    *)
(* the last day the query cuts off, the first one it reads, the evaluated  *)
(* day and a later one, so that windows of two rows are full, short or out *)
(* of reach.  ChaseMarkets has every mix of buying, margin balance and     *)
(* close on the evaluated day; the row two rows before is the one found by *)
(* the calendar two days back, or, where days are missing, seven days      *)
(* back, the last of the walk, or another row, by which the readings       *)
(* differ.                                                                 *)
(***************************************************************************)
EXTENDS SignalEvaluation

MCRegistered == <<"volume_surge_red", "institutional_chase_warning">>
MCSpans == {<<8, 9>>}

Bar(open, close, volume) == [open |-> open, close |-> close, volume |-> volume]

MCPrices == {Bar(100, 101, 1), Bar(100, 102, 1), Bar(100, 102, 3), Bar(100, 102, 0)}

Trading == {1, 2, 8, 9}

Rows(q) == [d \in Days |-> IF d \in DOMAIN q THEN q[d] ELSE NoRow]

SurgeMarkets ==
    {[price |-> Rows(q), inst |-> NoTable, margin |-> NoTable] :
        q \in {q \in [Trading -> MCPrices \cup {NoRow}] :
                 /\ q[2] \in {NoRow, Bar(100, 102, 1), Bar(100, 102, 0)}
                 /\ q[1] = q[9] /\ q[9] \in {NoRow, Bar(100, 102, 3)}}}

MCNets == {1, -1}

ChasePrices == {Bar(100, 101, 1), Bar(100, 102, 1)}

\* the row of the evaluated day varies, and the oldest margin balance; the days of
\* gap have no institutional row
ChaseMarkets ==
    {m \in UNION {{[price |-> Rows(p), inst |-> Rows(i), margin |-> Rows(b)] :
                      p \in [open -> ChasePrices], i \in [open \ gap -> Nets], b \in [open -> Balances]}
                     : <<open, gap>> \in {<<{6, 7, 8}, {}>>, <<{5, 6, 8}, {}>>, <<{1, 7, 8, 9}, {7}>>}} :
        /\ \A d \in (1..7) \cap Dates(m.price) : m.price[d] = Bar(100, 101, 1)
        /\ \A d \in (1..7) \cap Dates(m.inst) : m.inst[d] = 1
        /\ \A e, d \in (1..7) \cap Dates(m.margin) : e < d => m.margin[d] = 100
        /\ 9 \in Dates(m.price) => <<m.price[9], m.inst[9], m.margin[9]>> = <<Bar(100, 102, 1), 1, 105>>}

MCMarkets == SurgeMarkets \cup ChaseMarkets

Symmetry == Permutations(Evaluators)
=============================================================================
