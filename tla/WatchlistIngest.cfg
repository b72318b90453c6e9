\* two calls, beside syncs and edits
SPECIFICATION FairSpec
CONSTANTS
    s1 = s1
    s2 = s2
    a = a
    Syncers = {weekly}
    NotBegun = NotBegun
    Stocks = {s1, s2}
    Infos = {a}
    Invalid = Invalid
    NoStock = NoStock
    NoSnapshot = NoSnapshot
    Snapshots <- Delisting
    MaxAttempts = 2
    NoReply = NoReply
    Runners = {cron}
    MaxCalls = 2
    NoStockYet = NoStockYet
    NoReport = NoReport
INVARIANTS
    TypeOK
    ReportIsTrue
    NoDoubleRow
    FailureDeserved
PROPERTY CallEnds
