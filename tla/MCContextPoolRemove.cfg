SPECIFICATION Spec
CONSTANTS
    i1 = i1
    i2 = i2
    c1 = c1
    c2 = c2
    None = None
    Indexes = {0, 1}
    Instances = {i1, i2}
    Contexts = {c1}
    MaxBatch = 1
    MaxSeq = 1
    CursorWrap = 2
    MaxOps = 2
INVARIANT
    UsableAfterFailedRemove
CHECK_DEADLOCK FALSE
