SPECIFICATION Spec
CONSTANTS
  Data = {nil}
  NIL_VAL = nil
  Global = {g}
  Interactive = FALSE
  FRAMES_MAX = 2
  StackBound = 5
  ClosureBound = 2
  UpvalueBound = 2
  VariableBound = 2
  CaptureBound = 2
INVARIANTS TypeOK OpenListSorted OneLocation
PROPERTIES ImplementsLexicalScope
CHECK_DEADLOCK FALSE
