\* a stock's day fetched twice before the next transform tick
SPECIFICATION Spec
CONSTANTS
    k1 = k1
    k2 = k2
    Keys = {k1, k2}
    Vals <- MCVals
    Payloads <- CleanPayloads
    Malformed = Malformed
    NonDict = NonDict
    NoRow = NoRow
    NoRaw = NoRaw
    NoInsert = NoInsert
    DealerNames = {"Dealer_self", "Foreign_Dealer_Self"}
    UnknownNames = {"Other"}
    MaxId = 3
    Writers = {w1}
    Transformers = {t1}
    BatchSize = 2
    MaxFailures = 0
INVARIANT LatestFetchOnly
