SPECIFICATION FairSpec
CONSTANTS
    Keys <- LaunchKeys
    PauseWait = 2
    DrainWait = 1
    ScreenLag = 3
    DrainMayFail = TRUE
    CallMayFail = FALSE
    StopAllowed = TRUE
    Sessions = TRUE
INVARIANTS
    GameKeepsCardToItself
PROPERTIES
    EveryPauseEnds
    ConsoleComesBack
    SessionIsGranted
