CONSTANTS
    UINT8_COUNT = 256
    FRAMES_MAX = 8
    Clock = {0}
    Garbage <- AnyGarbage
SPECIFICATION MCSpec
INVARIANT AsTheBookTests
