-------------------------- MODULE MCWatchlistIngest -------------------------
(***************************************************************************)
(* WatchlistIngest on small instances: one description, and a snapshot     *)
(* that delists a stock (of the watchlist, if it was seeded), or none.     *)
(***************************************************************************)
EXTENDS WatchlistIngest

CONSTANTS s1, s2, a

Listing(s) == [stock |-> s, date |-> 1, info |-> a]

Delisting == {<<Listing(s2)>>}
=============================================================================
