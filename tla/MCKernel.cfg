CONSTANTS
    Devices = {0, 1, 12}
    ApiLines = {2, 12}
    MaxTasks = 16
    TickMod = 23
    QueueDepth = 4
    SyncEvery = 2
    CoreEvery = 2
    NoEvent = NoEvent
SPECIFICATION MCSpec
CHECK_DEADLOCK FALSE
INVARIANTS
    NoInterruptWithoutHandler
    ServiceInv
    QueueInv
PROPERTIES
    RequestIsDelivered
    EveryByteIsRead
    UsesScheduler
    EventsDispatched
