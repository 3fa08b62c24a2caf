SPECIFICATION FairSpec
CONSTANTS
    Extras = {}
    MaxTicks = 1
    FbTest = FALSE
PROPERTIES
    LoggerAnswersStop
CHECK_DEADLOCK FALSE
