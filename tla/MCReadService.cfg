\* One slot, so that every admission is contended; one operation of each kind
\* beside a plain read and a writer, and room for one tombstone.
CONSTANTS
    Streams = {s1}
    Collects = {c1}
    Plains = {p1}
    Writers = {w1}
    Free = Free
    MaxConcurrentReads = 1
    MaxReadOperations = 2
    MaxTombstones = 1
SPECIFICATION Spec
INVARIANTS TypeOK SlotsAreConserved AcceptedCancelWins TombstonesTellTheAnswer
