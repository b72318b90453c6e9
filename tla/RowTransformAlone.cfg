\* the running application alone: one ingest, one transform tick
SPECIFICATION FairSpec
CONSTANTS
    k1 = k1
    k2 = k2
    v1 = v1
    v2 = v2
    Keys = {k1, k2}
    Vals = {v1, v2}
    Payloads <- RichPayloads
    Malformed = Malformed
    NonDict = NonDict
    NoRow = NoRow
    NoRaw = NoRaw
    NoInsert = NoInsert
    MaxId = 4
    Writers = {w1}
    Transformers = {t1}
    BatchSize = 2
    MaxFailures = 1
INVARIANTS
    TypeOK
    LatestWins
    NoPoisonPassed
PROPERTIES
    NeverBack
    ImplementsDomainView
    EventuallyConsumed
