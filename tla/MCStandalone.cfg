SPECIFICATION StandaloneSpec
CONSTANTS
    w1 = w1
    w2 = w2
    ctl = ctl
    Workers <- MCWorkers
    Control = ctl
    FrameQueue = 1
    EventLimit = 1
    MaxPush <- MCMaxPush
INVARIANT
    EventsOnlyRefusedByStop
