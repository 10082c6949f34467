CONSTANTS
    MaxRotations = 2
    FlushQueueMaxSize = 1
    UploadMayFail = FALSE
    ControllerMayFail = FALSE
    Keys <- MCMixedKeys
    RangeStart <- MCRangeStart
    RangeEnd <- MCRangeEnd
    MaxPuts = 3
    NoKey = NoKey
SPECIFICATION IterSpec
INVARIANT LaterKeysDelivered
