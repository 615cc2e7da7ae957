CONSTANTS
    BufferSize = 2
    MaxBytes = 4
    TickMod = 4
    MaxTicks = 3
    MirrorSlots = 4
    SyncPeriod = 2
    QueueDepth = 1
    LabelSum <- MCLabelSum
    FlagAll = 15
    MaxSyncs = 5
    WordMod = 64
    BitXor <- MCXor
SPECIFICATION RacesSpec
INVARIANT TicksFollowTimer
CHECK_DEADLOCK FALSE
