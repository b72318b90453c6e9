---------------------- MODULE MCInstitutionalTransform ----------------------
(***************************************************************************)
(* InstitutionalTransform on small instances: the payloads are a stock's   *)
(* day in several categories, a payload of two stocks, and one the row     *)
(* model rejects.  A payload committed twice is a second fetch of one day. *)
(***************************************************************************)
EXTENDS InstitutionalTransform

CONSTANTS k1, k2

Val(name, buy, sell) == [name |-> name, buy |-> buy, sell |-> sell]
Row(k, v) == [key |-> k, val |-> v]

Foreign == Val("Foreign_Investor", 1, 3)
Trust   == Val("Investment_Trust", 4, 0)
DealerA == Val("Dealer_self", 1, 0)
DealerB == Val("Foreign_Dealer_Self", 0, 2)
Other   == Val("Other", 7, 0)

MCVals == {Foreign, Trust, DealerA, DealerB, Other}

FullDay  == <<Row(k1, Foreign), Row(k1, DealerA), NonDict, Row(k1, DealerB), Row(k1, Other)>>
TwoDays  == <<Row(k2, Trust), Row(k1, Trust)>>
BrokenDay == <<Row(k2, Foreign), Malformed>>

AllPayloads   == {FullDay, TwoDays, BrokenDay}
CleanPayloads == {FullDay, <<Row(k2, Trust)>>}
=============================================================================
