SPECIFICATION FairSpec
CONSTANTS
  MaxLength = 4
  ta = ta
  tb = tb
  tc = tc
  td = td
  n1 = n1
  Task = {ta, tb, tc}
  Worker = {w1, w2}
  Node = {}
  Helper = {}
  Io = Io
  Nil = Nil
  Kid <- KidPair
  Depth <- DepthPair
  From <- NoNode
  LocalRoot = ta
  Originated = {ta, tb, tc}
PROPERTY RootCompletes
CHECK_DEADLOCK FALSE
