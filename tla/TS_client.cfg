SPECIFICATION Spec
CONSTANTS
  MaxLength = 4
  ta = ta
  tb = tb
  tc = tc
  td = td
  n1 = n1
  Task = {ta, tb, tc}
  Worker = {w1, w2}
  Node = {n1}
  Helper = {n1}
  Io = Io
  Nil = Nil
  Kid <- KidPair
  Depth <- DepthPair
  From <- NoNode
  LocalRoot = ta
  Originated = {ta, tb, tc}
SYMMETRY WorkerSymmetry
INVARIANTS TypeOK ResultSound SingleOwner NoDanglingTask WorkedOnIsLive RemoveAsserts 
PROPERTY ImplementsAnswer
CHECK_DEADLOCK FALSE
