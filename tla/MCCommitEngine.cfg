SPECIFICATION Spec
CONSTANTS
    Keys = {k1, k2, k3}
    Digests = {d1, d2}
    Readers = {r1, r2}
    NoKey = NoKey
    NoReceipt = NoReceipt
    MaxReceipts = 2
    MaxSequence = 4
    Faults = {"definite", "uncertain", "commit_view", "compaction"}
SYMMETRY Symmetry
INVARIANTS TypeOK ViewIsCurrent ReadersSeeOneCommit EffectsMatchReceipts AcknowledgedIsDurable ReadYourWrites
PROPERTIES ImplementsIdempotentStore PruningKeepsRows
