\* a CLI transform beside the scheduled one, still one writer
SPECIFICATION FairSpec
CONSTANTS
    k1 = k1
    k2 = k2
    v1 = v1
    v2 = v2
    Keys = {k1, k2}
    Vals = {v1, v2}
    Payloads <- SinglePayloads
    Malformed = Malformed
    NonDict = NonDict
    NoRow = NoRow
    NoRaw = NoRaw
    NoInsert = NoInsert
    MaxId = 3
    Writers = {w1}
    Transformers = {t1, t2}
    BatchSize = 2
    MaxFailures = 1
INVARIANTS
    Provenance
    HighWaterMark
PROPERTIES
    EventuallyConsumed
