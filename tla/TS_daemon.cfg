SPECIFICATION Spec
CONSTANTS
  MaxLength = 4
  ta = ta
  tb = tb
  tc = tc
  td = td
  n1 = n1
  Task = {ta, tb, tc, td}
  Worker = {w1, w2}
  Node = {n1}
  Helper = {}
  Io = Io
  Nil = Nil
  Kid <- KidPair
  Depth <- DepthPair
  From <- FromAD
  LocalRoot = Nil
  Originated = {}
SYMMETRY WorkerSymmetry
INVARIANTS AnsweredBeforeRemoval
CHECK_DEADLOCK FALSE
