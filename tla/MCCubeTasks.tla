----------------------------- MODULE MCCubeTasks -----------------------------
(***************************************************************************)
(* CubeTasks for a small file of cubes.                                    *)
(***************************************************************************)
EXTENDS CubeTasks, TLC

\* Five cubes of one, two, no, one and two literals: three levels, and a right
\* half of the tree in which only the leftmost path exists.
FiveCubes == <<1, 0,  -1, 2, 0,  0,  -2, 0,  1, -2, 0>>

RootPath == parac_path_root

=============================================================================
