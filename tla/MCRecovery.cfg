CONSTANTS
    p1 = p1
    p2 = p2
    Processors <- MCRecProcessors
    MaxRotations = 2
    FlushQueueMaxSize = 1
    UploadMayFail = TRUE
    ControllerMayFail = FALSE
    MaxSeq = 2
    BatchEntries = 1
    MemtableCapacity <- MCRecMemtableCapacity
    DisableBatchSequenceInsertion = FALSE
    MaxReplaceTime = 1
    MaxTime = 2
    ClockModulus <- MCRecClockModulus
    MaxRestarts = 1
SPECIFICATION RecSpec
INVARIANT RecTypeOK
INVARIANT FlushQueueAccounting
INVARIANT DurableNotReapplied
SYMMETRY MCRecSymmetry
