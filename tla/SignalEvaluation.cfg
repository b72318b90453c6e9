\* both rules in ticks, commands and backfills, and a correction before or during them
\* the bounds on the writes and the calls end every behaviour
CHECK_DEADLOCK FALSE
SPECIFICATION Spec
SYMMETRY Symmetry
CONSTANTS
    MaxDay = 9
    NoRow = NoRow
    NoEvent = NoEvent
    NoReport = NoReport
    SurgeWindow = 2
    VolumeMultiple = 1
    MinRedPerMille = 15
    MinClose = 10
    ChaseWindow = 4
    MinStreak = 2
    MinGrowthPct = 5
    Evaluators = {e1, e2}
    Registered <- MCRegistered
    Spans <- MCSpans
    OtherDays = {9}
    MaxCalls = 2
    EvalDays = {8}
    Prices <- MCPrices
    Nets <- MCNets
    Balances = {100, 105}
    Markets <- MCMarkets
    WriteDays = {8}
    MaxWrites = 1
INVARIANTS
    TypeOK
    LastEvaluationExact
    StoredEventCurrent
    BackfillExact
