CONSTANTS
    EntryCount = 3
    LastCluster = 4
    FatSectors = 2
    FatBytes = 5
    MaxLost = 1
    SectorSize = 17
    Disks <- MCDisks
    EnvMax = 3
    ValLen = 4
    Keys = {"OS_NAME", "LON", "LONG"}
    KeyLen = 1
    Trunc <- MCTrunc
    WordLen <- MCWordLen
    Defaults <- MCDefaults
SPECIFICATION StorageSpec
INVARIANTS
    StorageInv
    OldOrNew
    SavedIsOnDisk
    OthersUntouched
PROPERTIES
    BootRestores
