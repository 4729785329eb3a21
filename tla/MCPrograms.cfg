CONSTANTS
    UINT8_COUNT = 256
    FRAMES_MAX = 4
    Clock = {0, 1}
    Garbage <- Uninitialized
    Sessions <- Everything
SPECIFICATION MCSpec
INVARIANTS HeightAsCompiled OpenListSorted Neat
PROPERTY ImplementsLox
