CONSTANTS
    UINT8_COUNT = 12
    Families <- Few
INIT MCInit
NEXT MCNext
INVARIANT AcceptsOnlyVerified
CHECK_DEADLOCK FALSE
