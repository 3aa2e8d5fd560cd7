SPECIFICATION Spec
CHECK_DEADLOCK FALSE
CONSTANTS
    Admin = {d1}
    Tool = {x1}
    Peer <- Peers
    Week = {week_1, week_2}
    FirstWeek = week_1
    NoWeek = no_week
    MaxLeft = 1
INVARIANTS
    TypeOK
    DeathsAreDepartures
    ToolIsNeverAnswered
    SnapshotOfOneWeek
    NoLostRedraw
PROPERTIES
    Served
    QuitEnds
    ScreenFollows
