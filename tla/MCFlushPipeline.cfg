CONSTANTS
    MaxRotations <- MCMaxRotations
    FlushQueueMaxSize <- MCFlushQueueMaxSize
    UploadMayFail = TRUE
    ControllerMayFail = TRUE
SPECIFICATION Spec
INVARIANT TypeOK
INVARIANT FlushQueueAccounting
INVARIANT UploadBookkeeping
INVARIANT StoredResultLostOnlyByStalePointer
PROPERTY StopReturnsUnlessLoopFailed
PROPERTY RotatedEventuallyCommitted
