SPECIFICATION FairSpec
CONSTANTS
    Streams = {s1}
    ResultRows = 4
    BigRows = {1}
    NoFrame = NoFrame
    MaxQueuedFrames = 3
    MaxQueuedBytes = 3
    MaxEmittedBytes = 7
CHECK_DEADLOCK FALSE
INVARIANTS TypeOK WireIsFrameSequence BytesAreAccounted TerminalFrameTellsOutcome
PROPERTIES ShutdownDrains ProducersEnd
