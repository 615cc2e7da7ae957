CONSTANTS
    QueueDepth = 2
    MaxTopics = 2
    MaxHandlers = 2
    Handlers = {f1, f2}
    NULL = NULL
    Data = {0}
SPECIFICATION FairSpec
INVARIANTS
    RingInv
    UntouchedHandlersRunOnce
PROPERTIES
    ImplementsFifo
    EveryEventIsTaken
