SPECIFICATION FairSpec
CONSTANTS
    a = a
    b = b
    x = x
    d1 = d1
    d2 = d2
    Files <- MCFiles
    Data <- MCData
    NoRow = NoRow
    NoCatalog = NoCatalog
    NoManifest = NoManifest
    NoCall = NoCall
    Lists <- MCLists
    BatchRejects <- MCBatchRejects
    ReadyRejects <- MCReadyRejects
    MaxRow = 2
    MaxBatchRows = 1
    ReclaimEntries = 2
    MaxSteps = 1
    MaxGeneration = 4
    MaxWrites = 1
    MaxDisruptions = 2
PROPERTIES MaintenanceSettles MigrationsApply
