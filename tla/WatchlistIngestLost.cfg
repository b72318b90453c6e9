\* a time-out, a 4xx or a body that is not JSON ends the whole loop
SPECIFICATION Spec
CONSTANTS
    s1 = s1
    s2 = s2
    a = a
    Syncers = {weekly}
    NotBegun = NotBegun
    Stocks = {s1, s2}
    Infos = {a}
    Invalid = Invalid
    NoStock = NoStock
    NoSnapshot = NoSnapshot
    Snapshots <- Delisting
    MaxAttempts = 2
    NoReply = NoReply
    Runners = {cron}
    MaxCalls = 1
    NoStockYet = NoStockYet
    NoReport = NoReport
INVARIANT EveryStockAccounted
