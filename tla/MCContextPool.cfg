SPECIFICATION Spec
SYMMETRY Alike
CONSTANTS
    i1 = i1
    i2 = i2
    c1 = c1
    c2 = c2
    None = None
    Indexes = {0, 1}
    Instances = {i1, i2}
    Contexts = {c1, c2}
    MaxBatch = 1
    MaxSeq = 2
    CursorWrap = 2
    MaxOps = 3
INVARIANTS
    OneHolder
    NoOrphanSource
    FramesOnceInOrder
PROPERTIES
    SilentAfterStopped
    SettingsChangeInRequest
CHECK_DEADLOCK FALSE
