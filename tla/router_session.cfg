SPECIFICATION MCSpec
CONSTANTS
    None = None
    HeaderCells = 2
    MaxNotices = 1
    Frames <- MCFrames
    Duration = 3
    Pieces = 2
    MaxFrames = 3
    MaxWork = 1
INVARIANTS
    TypeOK
    Aligned
    HostsAskedAfterLogin
    WholeAnswer
    MeaningFitsWindow
    OneLateFrame
PROPERTIES
    ImplementsPoll
    MonitorEnds
