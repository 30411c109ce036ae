SPECIFICATION FairSpec
CONSTANTS
  Handle = {h1, h2}
  Unreliable = {h1}
  MaxTask = 2
  MaxTerminate = 1
INVARIANTS LockStep SameCube OneWinner
PROPERTIES SolveEnds DestructEnds
CHECK_DEADLOCK FALSE
