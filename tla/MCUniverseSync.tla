--------------------------- MODULE MCUniverseSync ---------------------------
(***************************************************************************)
(* UniverseSync on snapshots of at most two rows: ties of dates and         *)
(* corrections of one stock, an invalid row, no row, and stocks that       *)
(* disappear from the next snapshot or are added by it all occur.          *)
(***************************************************************************)
EXTENDS UniverseSync

CONSTANTS s1, s2

Row(s, d, info) == [stock |-> s, date |-> d, info |-> info]

MCSnapshots ==
    {<< >>}
    \cup {<<Invalid, Row(s1, 1, i)>> : i \in Infos}
    \cup {<<Row(s2, 1, i)>> : i \in Infos}
    \cup {<<Row(s1, 1, i), Row(s2, 1, j)>> : i \in Infos, j \in Infos}
    \cup UNION {{<<Row(s1, d, i), Row(s1, e, j)>> : d \in 1..2, e \in 1..2, j \in Infos \ {i}}
                   : i \in Infos}

Symmetry == Permutations(Syncers)
=============================================================================
