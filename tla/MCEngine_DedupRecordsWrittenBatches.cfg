CONSTANTS
    p1 = p1
    p2 = p2
    Processors <- MCProcessors
    MaxRotations = 2
    FlushQueueMaxSize = 1
    UploadMayFail = FALSE
    ControllerMayFail = FALSE
    MaxSeq = 2
    BatchEntries = 1
    MemtableCapacity <- MCMemtableCapacity
    DisableBatchSequenceInsertion = FALSE
    MaxReplaceTime = 2
    MaxTime = 4
    ClockModulus <- MCClockModulus
SPECIFICATION EngineSpec
INVARIANT DedupRecordsWrittenBatches
