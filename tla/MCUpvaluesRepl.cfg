SPECIFICATION Spec
CONSTANTS
  Data = {nil, d}
  NIL_VAL = nil
  Global = {g}
  Interactive = TRUE
  FRAMES_MAX = 2
  StackBound = 5
  ClosureBound = 2
  UpvalueBound = 2
  VariableBound = 2
  CaptureBound = 2
INVARIANT ClosureReachesItsVariables
CHECK_DEADLOCK FALSE
