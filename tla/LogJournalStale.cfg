SPECIFICATION FairSpec
CONSTANTS
    MaxCards = 2
    RootFs = RootFs
    None = None
    BufferSize = 3
    FlushBytes = 2
    Lengths = {1}
    MaxEvents = 3
    MaxFailures = 0
PROPERTIES
    LogFollowsEveryCard
CHECK_DEADLOCK FALSE
