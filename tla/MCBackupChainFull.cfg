SPECIFICATION Spec
CONSTANTS
    k = k
    a = a
    r1 = r1
    r2 = r2
    c1 = c1
    c2 = c2
    Repos = {r1}
    Commands = {c1}
    Keys <- MCKeys
    Vals <- MCVals
    Absent = Absent
    Failed = Failed
    NoJournal = NoJournal
    NoManifest = NoManifest
    NoOwner = NoOwner
    Idle = Idle
    MaxSegmentCommits = 2
    JournalLimits = {1}
    MaxSequence = 4
    MaxChains = 1
INVARIANT FullJournalCanBeEmptied
CHECK_DEADLOCK FALSE
