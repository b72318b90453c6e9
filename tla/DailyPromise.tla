---------------------------- MODULE DailyPromise ----------------------------
(***************************************************************************)
(* What the service promises about one stock and one day, without          *)
(* scheduler, processes or ledger: rows arrive, a signal is recorded only  *)
(* when the rows it needs are there, the scheduled notification is decided *)
(* at most once, for recorded events of the notified signals, and whatever *)
(* else the channel shows was recorded too.                                *)
(***************************************************************************)
CONSTANTS
    Datasets, Signals,
    Needs,      \* per signal, the datasets its rule reads rows of
    Notified,   \* the signals of the scheduled notification
    NoMessage   \* it has neither been sent nor skipped

VARIABLES
    rows,       \* the datasets with a domain row of the day
    events,     \* the signals with an event of the day
    message,    \* the signals of the scheduled notification; {} is skipped
    shown       \* the signals the channel shows an event of

vars == <<rows, events, message, shown>>

Init ==
    /\ rows = {}
    /\ events = {}
    /\ message = NoMessage
    /\ shown = {}

RowArrives ==
    /\ \E d \in Datasets : rows' = rows \cup {d}
    /\ UNCHANGED <<events, message, shown>>

Detect ==
    /\ \E s \in Signals : Needs[s] \subseteq rows /\ events' = events \cup {s}
    /\ UNCHANGED <<rows, message, shown>>

Announce ==
    /\ message = NoMessage
    /\ \E sent \in SUBSET (events \cap Notified) :
          message' = sent /\ shown' = shown \cup sent
    /\ UNCHANGED <<rows, events>>

\* an operator has recorded events posted by hand
Repeat ==
    /\ \E sent \in SUBSET events : shown' = shown \cup sent
    /\ UNCHANGED <<rows, events, message>>

Next == RowArrives \/ Detect \/ Announce \/ Repeat

Spec == Init /\ [][Next]_vars
=============================================================================
