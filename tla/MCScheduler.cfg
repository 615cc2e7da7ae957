CONSTANTS
    MaxTasks = 3
    Names = {"io", "long"}
    Trunc <- MCTrunc
    Periods = {0, 3}
    TickMod = 4
    QueueDepth = 1
    MaxDrift = 1
SPECIFICATION Spec
INVARIANTS
    CountInv
    NeverOverdue
PROPERTIES
    RunsEveryNTicks
    RemovedStaysRemoved
