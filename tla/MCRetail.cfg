SPECIFICATION Spec
CONSTANTS
    Scenes <- MCScenes
    Width = 5
    Margin = 1
    Overlap = 14
    Reach = 27
    Recent = 1
    MaxLostCenter = 2
    MaxLostEdge = 1
    MinFrames = 1
    DwellMin = 1
    Assistance = 3
    StableAt = 2
    DecaySlow = 1
    DecayFast = 2
    MinCountFrames = 2
    CountZone <- MCZone
    Window = 3
    Smoothing = 3
    Sample = 2
    Interval = 3
INVARIANTS
    TypeOK
    AveragesOfTheWindow
    FlowConserved
    OneVisitOneEntry
    DwellSinceWalking
    PublishRate
CHECK_DEADLOCK FALSE
