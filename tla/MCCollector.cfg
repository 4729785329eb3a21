SPECIFICATION Spec
CONSTANTS
  Obj = {o1, o2, o3}
  VM = VM
  Compiler = Compiler
  RefBound = 1
SYMMETRY Symmetry
INVARIANTS TypeOK NoDanglingReference NoStaleMark BlackIsDone
PROPERTIES NothingLeaks ImplementsHeap
