SPECIFICATION Spec
CONSTANTS
    Kinds = {"gst", "hailo", "mpp"}
    Buffers <- MCBuffers
    MaxShots = 2
    MaxFaults = 1
    None = None
    Contexts = {c1, c2}
    HailoContexts = {c1}
    AsyncQueue = 2
    CameraShape = "wide"
    OtherShape = "tall"
    Grey = Grey
INVARIANTS TypeOK OwnPixels NothingLeaks
PROPERTIES FramesInOrder ComesBack
CHECK_DEADLOCK FALSE
