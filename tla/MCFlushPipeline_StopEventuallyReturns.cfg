CONSTANTS
    MaxRotations <- MCMaxRotations
    FlushQueueMaxSize <- MCFlushQueueMaxSize
    UploadMayFail = FALSE
    ControllerMayFail = TRUE
SPECIFICATION Spec
PROPERTY StopEventuallyReturns
