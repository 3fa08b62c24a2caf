SPECIFICATION Spec
CONSTANTS
    Keys <- ChordKeys
    PauseWait = 2
    DrainWait = 1
    ScreenLag = 3
    DrainMayFail = TRUE
    CallMayFail = TRUE
    StopAllowed = TRUE
    Sessions = FALSE
INVARIANTS
    TypeOK
    AckedPauseIsQuiescent
    LitFrameIsOwn
    IdleMatchesMode
    WatchdogFollowsLoop
