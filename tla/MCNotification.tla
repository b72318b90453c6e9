--------------------------- MODULE MCNotification ---------------------------
(***************************************************************************)
(* Notification with the names the two publishers really have: the cron    *)
(* tick of the application only the first signal, the command both.        *)
(***************************************************************************)
EXTENDS Notification

CONSTANTS cron, cli

MCSignals == {"volume_surge_red", "institutional_chase_warning"}

MCSignalNames ==
    [p \in Publishers |->
        IF p = cron THEN <<"volume_surge_red">>
        ELSE <<"volume_surge_red", "institutional_chase_warning">>]
=============================================================================
