SPECIFICATION FairSpec
CONSTANTS
  Obj = {o1, o2}
  VM = VM
  Compiler = Compiler
  RefBound = 2
PROPERTIES CollectionEnds
