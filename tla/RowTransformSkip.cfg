\* a CLI ingest beside the scheduled one: ids commit out of order
SPECIFICATION Spec
CONSTANTS
    k1 = k1
    k2 = k2
    v1 = v1
    v2 = v2
    Keys = {k1, k2}
    Vals = {v1, v2}
    Payloads <- SinglePayloads
    Malformed = Malformed
    NonDict = NonDict
    NoRow = NoRow
    NoRaw = NoRaw
    NoInsert = NoInsert
    MaxId = 3
    Writers = {w1, w2}
    Transformers = {t1}
    BatchSize = 2
    MaxFailures = 0
INVARIANT HighWaterMark
