SPECIFICATION Spec
CONSTANTS
    Keys = {k1, k2}
    Digests = {d1, d2}
    Readers = {r1}
    NoKey = NoKey
    NoReceipt = NoReceipt
    MaxReceipts = 2
    MaxSequence = 3
    Faults = {"uncertain", "integrity_view"}
PROPERTIES ExecutionsKeepReceipts
