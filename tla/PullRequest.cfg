SPECIFICATION FairSpec
CONSTANTS
    Previews = {p1}
    Branches = {b1}
    Contents = {c1, c2}
    Workers = {w1, w2}
    PreviewTTL = 1
    HardLimit = 1
    ReapAge = 2
    MaxLosses = 2
INVARIANTS
    WrittenAsPreviewed
    OneWriter
    RowTellsTheTruth
PROPERTIES
    OpenIsFinal
    CreatingEnds
