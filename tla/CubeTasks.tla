------------------------------ MODULE CubeTasks ------------------------------
(***************************************************************************)
(* The task store working on the tree that the cube source PathDefined     *)
(* unfolds from the cubes of a formula file: the tasks are the paths of    *)
(* CubeTree, the children of a task are the ones PathDefined::split asks   *)
(* for, and a leaf is solved under the cube its path names.                *)
(***************************************************************************)
EXTENDS TaskStore, CubeTree

CONSTANT Cubes            \* the literal vector of the file, every cube ended by 0

NoConfig == [InitialMinimalCubeDepth |-> 0, look |-> <<>>]

Formula == parseFile(Cubes)

CubePaths ==
  {t.path : t \in Unfold(NoConfig, Formula, [path |-> parac_path_root, src |-> PathDefined])}

CubeKid ==
  [p \in CubePaths |->
     [x \in Side |-> LET n == IF x = "L" THEN 0 ELSE 1
                     IN  IF n \in PathDefinedSplit(Formula, p) THEN parac_path_get_next(p, n)
                                                               ELSE Nil]]

CubeDepth == [p \in CubePaths |-> parac_path_length(p)]

NotReceived == [p \in CubePaths |-> Nil]

Solved == {t \in born : ~Splits(t) /\ result[t] = "UNSAT"}

(***************************************************************************)
(* The formula is only reported unsatisfiable once every cube of the file  *)
(* was found unsatisfiable by a task of its own: neither the jump list,    *)
(* nor the numbering of the cubes by paths, nor the one-sided splits at    *)
(* the right end of the tree, nor the store lose a cube.                   *)
(***************************************************************************)
NoCubeSkipped ==
  exitStatus = "UNSAT" =>
    CubesOfFile(Cubes) \subseteq {getCubeFromPath(Formula, t) : t \in Solved}

(***************************************************************************)
(* No two tasks solve the same cube, and none is created for a path that   *)
(* names no cube (it would solve the whole formula again).                 *)
(***************************************************************************)
CubeSolvedOnce ==
  \A t \in born : Splits(t) \/
     /\ getCubeFromPath(Formula, t) # NoCube
     /\ \A u \in born \ {t} :
          Splits(u) \/ getCubeFromPath(Formula, u) # getCubeFromPath(Formula, t)

=============================================================================
