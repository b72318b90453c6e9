\* the weekly sync and the command, with the operator's edits in between
SPECIFICATION UniverseSpec
SYMMETRY Symmetry
CONSTANTS
    s1 = s1
    s2 = s2
    Syncers = {y1, y2}
    NotBegun = NotBegun
    Stocks = {s1, s2}
    Infos = {a, b}
    Invalid = Invalid
    NoStock = NoStock
    NoSnapshot = NoSnapshot
    Snapshots <- MCSnapshots
INVARIANTS
    UniverseTypeOK
    IsSnapshotView
