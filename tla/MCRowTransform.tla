--------------------------- MODULE MCRowTransform ---------------------------
(***************************************************************************)
(* RowTransform on small instances.  The payloads are one row, a correction*)
(* of it together with another key, a payload that names one key twice     *)
(* around an item that is not a dict, and one whose last item is malformed.*)
(***************************************************************************)
EXTENDS RowTransform

CONSTANTS k1, k2, v1, v2

Row(k, v) == [key |-> k, val |-> v]

RichPayloads ==
    {<<Row(k1, v1)>>,
     <<Row(k2, v1), Row(k1, v2)>>,
     <<Row(k2, v2), NonDict, Row(k2, v1)>>,
     <<Row(k1, v2), Malformed>>}

CleanPayloads ==
    {<<Row(k1, v1)>>,
     <<Row(k2, v1), Row(k1, v2)>>}

SinglePayloads == {<<Row(k1, v1)>>, <<Row(k2, v1)>>}
=============================================================================
