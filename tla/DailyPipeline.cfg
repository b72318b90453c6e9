\* one day of the application, one disturbance, one command beside it
SPECIFICATION Spec
CONSTANTS
    IntervalJobs <- MCIntervalJobs
    CronJobs <- MCCronJobs
    FireAt <- MCFireAt
    Grace = 2
    LastSlot = 4
    MaxLate = 3
    NoFire = NoFire
    Datasets = {"price", "institutional"}
    Signals = {"volume_surge_red", "institutional_chase_warning"}
    Needs <- MCNeeds
    DatasetOf <- MCDatasetOf
    EvaluatedSignals <- MCRegistry
    NotifiedSignals <- MCNotified
    CommandSignals <- MCRegistry
    SyncLists <- MCSyncLists
    Commands = {cli}
    NotYet = NotYet
    NoMessage = NoMessage
    MaxCommands = 1
    MaxFaults = 1
INVARIANTS
    TypeOK
    RowsInTime
    DayComplete
    DispatchComplete
PROPERTIES
    ImplementsPromise
