CONSTANTS
    Lba = {1, 2}
    Versions = {1, 2}
    Old = 1
    PollMax = 2
    MaxCalls = 4
    None = None
SPECIFICATION FairSpec
INVARIANTS
    DriveInv
    ReadIsFresh
PROPERTIES
    NoStrayWrite
    CallReturns
