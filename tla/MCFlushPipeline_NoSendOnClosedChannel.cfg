CONSTANTS
    MaxRotations <- MCMaxRotations
    FlushQueueMaxSize <- MCFlushQueueMaxSize
    UploadMayFail = FALSE
    ControllerMayFail = FALSE
SPECIFICATION Spec
INVARIANT NoSendOnClosedChannel
