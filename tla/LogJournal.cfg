SPECIFICATION FairSpec
CONSTANTS
    MaxCards = 2
    RootFs = RootFs
    None = None
    BufferSize = 3
    FlushBytes = 2
    Lengths = {1, 2}
    MaxEvents = 4
    MaxFailures = 1
INVARIANTS
    TypeOK
    FlushOkIsDurable
    LogIsInOrder
PROPERTIES
    ImplementsStream
    SessionSparesCard
    CleanExitDrains
    LogFollowsCard
    FlushIsAnswered
CHECK_DEADLOCK FALSE
