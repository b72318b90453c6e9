\* the cron tick and the command on one day, beside evaluations
SPECIFICATION FairSpec
CONSTANTS
    cron = cron
    cli = cli
    Stocks = {s1, s2}
    Signals <- MCSignals
    Severities = {2, 3}
    NoEvent = NoEvent
    Publishers = {cron, cli}
    SignalNames <- MCSignalNames
    MaxAttempts = 2
    MaxFields = 1
    MaxCalls = 1
INVARIANTS
    TypeOK
    OutcomeIsTrue
    OnlyRecorded
    RepeatsOnlyAfter5xx
PROPERTY PublishEnds
