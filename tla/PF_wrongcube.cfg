SPECIFICATION Spec
CONSTANTS
  Handle = {h1, h2}
  Unreliable = {}
  MaxTask = 2
  MaxTerminate = 0
INVARIANT ResultOfCube
CHECK_DEADLOCK FALSE
