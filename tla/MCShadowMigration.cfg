SPECIFICATION Spec
CONSTANTS
    a = a
    b = b
    x = x
    d1 = d1
    d2 = d2
    Files <- MCFiles
    Data <- MCData
    NoRow = NoRow
    NoCatalog = NoCatalog
    NoManifest = NoManifest
    NoCall = NoCall
    Lists <- MCLists
    BatchRejects <- MCBatchRejects
    ReadyRejects <- MCReadyRejects
    MaxRow = 3
    MaxBatchRows = 2
    ReclaimEntries = 2
    MaxSteps = 2
    MaxGeneration = 3
    MaxWrites = 2
    MaxDisruptions = 2
INVARIANTS TypeOK RowsSurvive ShadowIsMigratedPrefix AlwaysOpens NoOrphanGeneration ReadersFollowCutover
