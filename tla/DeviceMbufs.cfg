SPECIFICATION Spec
CONSTANTS
    DESC_NUM = 3
    CACHE = 1
    HeldBack = {1, 6}
    RX_BURST = 2
    SLACK = 0
    MaxFrames = 3
    MaxFails = 1
INVARIANTS TypeOK OneHolder NeverExhausted FramesInOrder PrefetchDrained
