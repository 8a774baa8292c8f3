SPECIFICATION Spec
CONSTANTS
    Procs = {p1, p2}
    Readers = {r1}
    PageLimit = 2
    SnapshotRetention = 2
    MaxSeq = 4
SYMMETRY Symmetry
INVARIANTS
    TypeOK
    LogGapFree
    NothingCommittedIsLost
    WatermarkSound
PROPERTIES
    SnapshotPositionAdvances
    ImplementsDurableLog
