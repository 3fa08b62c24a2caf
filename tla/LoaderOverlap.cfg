CONSTANTS
    Parts = {"loader"}
    Off = Off
    RamTop = 13
    Blob = 2
    BlobSize = 4
    DtbSize = 1
    Images <- KernelImages
    SectorSize = 2
    ClusterSize = 2
    FatEntries = 2
    FatLength = 6
    Fats <- LogChains
    LogStart = 2
    Limit = 9
    N = 1
    Contexts = {c1}
    MaxMarks = 1
    DataClusters <- ManyClusters
    RootChain <- RootClusters
    Used = 3
    MaxRuns = 3
    Cards <- SomeCards
    Hasty = TRUE
    MaxSessions = 2
    MaxFaults = 2
SPECIFICATION Spec
INVARIANT LoaderJumpFindsImage
CHECK_DEADLOCK FALSE
