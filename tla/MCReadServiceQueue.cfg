\* The queue alone makes progress.
CONSTANTS
    Streams = {}
    Collects = {c1}
    Plains = {p1, p2}
    Writers = {w1}
    Free = Free
    MaxConcurrentReads = 1
    MaxReadOperations = 1
    MaxTombstones = 0
SPECIFICATION QueueSpec
PROPERTIES QueueHonoursControl FreeSlotIsTaken
