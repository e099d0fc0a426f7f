SPECIFICATION LoggerFairSpec
CONSTANTS
    rollSize_ = 2
    checkEveryN_ = 2
    flushInterval_ = 1
    kRollPerSeconds_ = 2
    MaxNow = 3
    BufferLines = 2
    TooMany = 2
    MaxLines = 7
INVARIANTS
    LoggerSound
    LinesInOrder
    GapsAnnounced
PROPERTIES
    OversizeOnlyInItsSecond
    LinesGetWritten
    StopReturns
CHECK_DEADLOCK FALSE
