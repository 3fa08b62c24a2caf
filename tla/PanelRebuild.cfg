CONSTANTS
    Parts = {"panel"}
    Off = Off
    Solo <- OneClient
    Pair <- TwoClients
    Units = 6
    Guard = 4
    Speed = 2
    Bits = 4
    MaxCalls = 2
    Buttons = {1, 2}
    NormalMs = {2, 4}
    StandbyMs = {100}
    CheckScans = 2
    Scrollback = 6
    Rows = 4
    Cols = 2
    Delay = 2
    Interval = 1
    MaxText = 3
    MaxLines = 8
    TeEdges = 4
    DeferCap = 3
    MaxRearms = 9
    Core = {1}
    Window = {3, 4, 5}
    Other = {6}
    Blocks <- GuestBlocks
    RecBase = 4
    RecSize = 2
    Sets = 1
    Ways = 2
    AgeSpan = 5
    Penalty = 3
    FrameStop = 2
    MaxEvents = 4
SPECIFICATION Spec
INVARIANT PanelNeverRewritesFetched
CHECK_DEADLOCK FALSE
