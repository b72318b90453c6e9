--------------------------- MODULE MCDailyPipeline --------------------------
(***************************************************************************)
(* DailyPipeline with the jobs and signal lists of create_app, on a day of *)
(* four slots: the ingests fire in the first, evaluation and notification  *)
(* in the third and fourth.                                                *)
(***************************************************************************)
EXTENDS DailyPipeline

MCIntervalJobs == {"price_transform", "institutional_transform"}
MCCronJobs == {"price_ingest_daily", "chip_ingest_institutional", Evaluation, Dispatch}

MCDatasetOf ==
    [j \in (MCIntervalJobs \cup MCCronJobs) \ {Evaluation, Dispatch} |->
        IF j \in {"price_ingest_daily", "price_transform"} THEN "price" ELSE "institutional"]

MCFireAt ==
    [j \in MCCronJobs |-> CASE j = "price_ingest_daily"        -> 1
                            [] j = "chip_ingest_institutional" -> 1
                            [] j = Evaluation                  -> 3
                            [] j = Dispatch                    -> 4]

MCNeeds ==
    [s \in Signals |-> IF s = "volume_surge_red" THEN {"price"} ELSE Datasets]

MCRegistry == <<"volume_surge_red", "institutional_chase_warning">>
MCNotified == <<"volume_surge_red">>

\* sync-chip-today ingests two datasets one after the other; its second one is
\* the margin, in whose place the price stands here, so that the list also
\* covers sync-prices-today
MCSyncLists == {<<"institutional", "price">>}

ASSUME CreateAppAssumption == EvaluationFirst /\ EveryTransform /\ AllEvaluated
=============================================================================
