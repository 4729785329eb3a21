CONSTANTS
    Obj = {o1, o2, o3, o4}
    Content = {a}
    NULL = NULL
    UINT8_COUNT = 256
    MaxCapacity = 0
    MaxContexts = 1
    MaxKept = 2
SPECIFICATION Spec
SYMMETRY Symmetry
INVARIANTS ReachableIsSpared
