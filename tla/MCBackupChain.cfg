SPECIFICATION Spec
CONSTANTS
    k = k
    a = a
    r1 = r1
    r2 = r2
    c1 = c1
    c2 = c2
    Repos = {r1}
    Commands = {c1, c2}
    Keys <- MCKeys
    Vals <- MCVals
    Absent = Absent
    Failed = Failed
    NoJournal = NoJournal
    NoManifest = NoManifest
    NoOwner = NoOwner
    Idle = Idle
    MaxSegmentCommits = 2
    JournalLimits = {1, 2}
    MaxSequence = 3
    MaxChains = 1
SYMMETRY Symmetry
INVARIANTS TypeOK RecoverableRangeRestores JournalCoversTheRest ExportTakesUp RestoredIsHistory
PROPERTY RangeMovesForward
CHECK_DEADLOCK FALSE
