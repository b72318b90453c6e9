\* a CLI transform beside the scheduled one, one writer
SPECIFICATION Spec
CONSTANTS
    k1 = k1
    k2 = k2
    Keys = {k1, k2}
    Vals <- MCVals
    Payloads <- AllPayloads
    Malformed = Malformed
    NonDict = NonDict
    NoRow = NoRow
    NoRaw = NoRaw
    NoInsert = NoInsert
    DealerNames = {"Dealer_self", "Foreign_Dealer_Self"}
    UnknownNames = {"Other"}
    MaxId = 4
    Writers = {w1}
    Transformers = {t1, t2}
    BatchSize = 2
    MaxFailures = 1
INVARIANTS
    TypeOK
    OneFetchExact
    SumsOneRun
    HighWaterMark
    NoPoisonPassed
