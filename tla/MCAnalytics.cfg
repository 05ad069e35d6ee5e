CONSTANTS
    ClassAware = TRUE
    Overlap = 1
    Reach = 2
    FallbackMisses = 0
    MaxMisses = 1
    MaxLost = 0
    MinHits = 1
    Kinds = {"zone", "line_cross", "dwell", "direction", "speed", "pose_angle", "count_threshold"}
    Configs <- MCConfigs
    Scenes <- MCScenes
    Gaps = {1}
    MaxTime <- MCMaxTime
    MaxCfg = 1
SPECIFICATION Spec
CHECK_DEADLOCK FALSE
INVARIANTS TypeOK IntervalsSound CrossingsSound
PROPERTIES IdentityKept CountsHeld
