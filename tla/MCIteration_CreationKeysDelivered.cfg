CONSTANTS
    MaxRotations = 2
    FlushQueueMaxSize = 1
    UploadMayFail = FALSE
    ControllerMayFail = FALSE
    Keys <- MCShortKeys
    RangeStart <- MCRangeStart
    RangeEnd <- MCRangeEnd
    MaxPuts = 3
    NoKey = NoKey
SPECIFICATION IterSpec
INVARIANT CreationKeysDelivered
