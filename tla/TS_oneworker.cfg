SPECIFICATION FairSpec
CONSTANTS
  MaxLength = 4
  Cubes <- FiveCubes
  Task <- CubePaths
  Worker = {w1}
  Node = {}
  Helper = {}
  Io = Io
  Nil = Nil
  Kid <- CubeKid
  Depth <- CubeDepth
  From <- NotReceived
  LocalRoot <- RootPath
  Originated <- CubePaths
INVARIANTS NoCubeSkipped CubeSolvedOnce
PROPERTIES RootCompletes LeafCompletes
CHECK_DEADLOCK FALSE
