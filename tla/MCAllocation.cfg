CONSTANTS
    Obj = {o1, o2, o3}
    Content = {a, b}
    NULL = NULL
    UINT8_COUNT = 2
    MaxCapacity = 8
    MaxContexts = 2
    MaxKept = 3
SPECIFICATION Spec
SYMMETRY Symmetry
INVARIANTS LocalsSurvive NothingInUseIsFreed InternedOnce Balanced NoLeak
