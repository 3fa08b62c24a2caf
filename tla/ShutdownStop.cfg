SPECIFICATION FairSpec
CONSTANTS
    Extras = {"sd2"}
    MaxTicks = 2
    FbTest = TRUE
INVARIANTS
    TypeOK
    OffIsClean
    StoppedScreenIsQuiet
PROPERTIES
    RequestCompletes
CHECK_DEADLOCK FALSE
