------------------------------ MODULE CubeTree ------------------------------
(***************************************************************************)
(* How a formula becomes a tree of cubes: the paths of                     *)
(* modules/commonc/path.c, the cubes a CaDiCaLHandle read from the file    *)
(* (modules/solver/cadical_handle.cpp) and the cube sources                *)
(* (modules/solver/cube_source.cpp) that SolverTask::work asks whether a   *)
(* task is split and which cube a leaf assumes.                            *)
(*                                                                         *)
(* A path is the union parac_path: a normal path has its length and        *)
(* MaxLength turns (1 is right), of which the first length are used; an    *)
(* overlength or extended one has only a length and the last turn.         *)
(***************************************************************************)
EXTENDS Integers, Sequences, SequencesExt, FiniteSetsExt

CONSTANT MaxLength        \* PARAC_PATH_MAX_LENGTH

ASSUME MaxLengthAssumption == MaxLength \in Nat \ {0}

Turns == 0..1

-----------------------------------------------------------------------------
\* Paths.

parac_path_root ==
  [tag |-> "normal", length |-> 0, bits |-> [i \in 1..MaxLength |-> 0]]

parac_path_length(p) == p.length

parac_path_is_overlength(p) == p.tag = "overlength"

parac_path_is_extended(p) == p.tag = "extended"

parac_path_set_assignment(p, d, v) == [p EXCEPT !.bits[d] = v]

parac_path_get_assignment(p, d) == p.bits[d]

\* The child of p on side n.  Past the longest path only the length and the
\* last turn are kept.
parac_path_get_next(p, n) ==
  IF p.tag # "normal" \/ p.length = MaxLength
    THEN [tag |-> "overlength", length |-> p.length + 1, bits |-> <<n>>]
    ELSE [parac_path_set_assignment(p, p.length + 1, n) EXCEPT !.length = p.length + 1]

parac_path_get_next_extended(p) ==
  [tag |-> "extended", length |-> parac_path_length(p) + 1,
   bits |-> <<parac_path_get_assignment(p, 1)>>]

\* The used turns as a binary number.
parac_path_get_depth_shifted(p) ==
  FoldLeft(LAMBDA a, b : 2 * a + b, 0, SubSeq(p.bits, 1, p.length))

-----------------------------------------------------------------------------
(***************************************************************************)
(* Pregenerated cubes.  lits is the vector read_dimacs filled: the         *)
(* literals of the cubes in order, each cube ended by 0.  A cube is the    *)
(* range <<begin, end>> of positions (from 0, end excluded); NoCube is the *)
(* empty CubeIteratorRange.                                                *)
(***************************************************************************)
NoCube == <<>>

\* The positions (from 1) of the zeros, in order.
Zeros(lits) == SelectSeq([i \in 1..Len(lits) |-> i], LAMBDA i : lits[i] = 0)

\* ceil(log2f(n))
CeilLog2(n) == Min({k \in 0..n : 2^k >= n})

generateJumplist(lits) ==
  LET ends == Zeros(lits)
  IN  [lits |-> lits, jumplist |-> <<0>> \o ends, count |-> Len(ends),
       length |-> IF ends = <<>> THEN 0 ELSE CeilLog2(Len(ends))]

\* What parseFile leaves in the handle: without cubes there is no jump list.
parseFile(lits) ==
  IF lits = <<>> THEN [lits |-> <<>>, jumplist |-> <<>>, count |-> 0, length |-> 0]
                 ELSE generateJumplist(lits)

getCubeFromId(f, id) ==
  IF id >= f.count THEN NoCube
                   ELSE <<f.jumplist[id + 1], f.jumplist[id + 2] - 1>>

\* Only a path to the lowest level names a cube.
getCubeFromPath(f, p) ==
  IF parac_path_length(p) # f.length
    THEN NoCube
    ELSE getCubeFromId(f, parac_path_get_depth_shifted(p))

LiteralsOf(f, range) ==
  IF range = NoCube THEN <<>> ELSE SubSeq(f.lits, range[1] + 1, range[2])

-----------------------------------------------------------------------------
(***************************************************************************)
(* Cube sources.  split returns the source afterwards and the sides (turns)*)
(* that get a child.  cfg has InitialMinimalCubeDepth and look, the        *)
(* literal the solver's lookahead chooses under a cube (0: none).          *)
(***************************************************************************)
PathDefined == [kind |-> "PathDefined"]

Supplied(cube) == [kind |-> "Supplied", cube |-> cube]

CaDiCaLCubes(lit, cube) == [kind |-> "CaDiCaLCubes", lit |-> lit, cube |-> cube]

\* Faulty variants: every child is made; the last cube is left out.
PathDefinedSplit_All(f, p) ==
  IF f.length < parac_path_length(p) + 1 THEN {} ELSE Turns

PathDefinedSplit_OffByOne(f, p) ==
  IF f.length < parac_path_length(p) + 1 THEN {}
  ELSE {n \in Turns : parac_path_get_depth_shifted(parac_path_get_next(p, n))
                        * 2^(f.length - parac_path_length(p) - 1) < f.count - 1}

PathDefinedSplit(f, p) ==
  LET child(n) == parac_path_get_next(p, n)
  IN  {n \in Turns :
        /\ f.length >= parac_path_length(p) + 1
        /\ \A m \in Turns : ~parac_path_is_overlength(child(m))
        /\ parac_path_get_depth_shifted(child(n))
             * 2^(f.length - parac_path_length(child(n))) < f.count}

\* The literal to split on; none when the lookahead decides the cube, finds no
\* literal, or is interrupted by its timer or from outside.
resplitCube(cfg, cube) == IF cube \in DOMAIN cfg.look THEN cfg.look[cube] ELSE 0

\* The lookahead is only asked when no literal is chosen yet and the cube is
\* short of the wanted depth.
CaDiCaLCubesSplit(cfg, src) ==
  IF src.lit # 0 THEN [src |-> src, sides |-> Turns]
  ELSE LET lit == IF Len(src.cube) < cfg.InitialMinimalCubeDepth
                    THEN resplitCube(cfg, src.cube) ELSE 0
       IN  [src |-> CaDiCaLCubes(lit, src.cube),
            sides |-> IF lit # 0 THEN Turns ELSE {}]

split(cfg, f, src, p) ==
  CASE src.kind = "PathDefined"  -> [src |-> src, sides |-> PathDefinedSplit(f, p)]
    [] src.kind = "CaDiCaLCubes" -> CaDiCaLCubesSplit(cfg, src)
    [] src.kind = "Supplied"     -> [src |-> src, sides |-> {}]

\* leftChild and rightChild.
childSource(src, n) ==
  IF src.kind = "CaDiCaLCubes"
    THEN CaDiCaLCubes(0, Append(src.cube, IF n = 0 THEN -src.lit ELSE src.lit))
    ELSE src

cubeOf(f, src, p) ==
  IF src.kind = "PathDefined" THEN LiteralsOf(f, getCubeFromPath(f, p)) ELSE src.cube

(***************************************************************************)
(* resplitOnce: the two cubes of a task that is split on the literal the   *)
(* lookahead chose, the literal itself in the left one; without a literal  *)
(* the lookahead has decided the cube or gives up.                         *)
(***************************************************************************)
resplitOnce(lit, solverState, cube) ==
  IF lit # 0
    THEN [status |-> "SPLITTED", cubes |-> <<Append(cube, lit), Append(cube, -lit)>>]
  ELSE IF solverState \in {"SAT", "UNSAT"} THEN [status |-> solverState, cubes |-> <<>>]
  ELSE [status |-> "NO_SPLITS_LEFT", cubes |-> <<>>]

\* A child made by a resplit: its source supplies the cube as it is, and the
\* parent's result slot it resets is found by comparing paths.
makeTaskFromCube(parent, p, cube) ==
  [path |-> p, src |-> Supplied(cube),
   side |-> IF parac_path_get_next(parent, 0) = p THEN "L" ELSE "R"]

expandLeftAndRightCube(p, cubes) ==
  {makeTaskFromCube(p, parac_path_get_next(p, n), cubes[n + 1]) : n \in Turns}

\* The literals the concurrent cube trees start with (0: the first split is
\* computed); fast is the cube fastLookahead came back with.
MakeStartLiteralVector(treeCount, fast) ==
  IF treeCount = 1 \/ Len(fast) # treeCount THEN <<0>>
  ELSE [i \in 1..treeCount |-> IF fast[i] < 0 THEN -fast[i] ELSE fast[i]]

\* One root task is created for every source.
rootCubeSources(cadicalCubes, startLiterals) ==
  IF cadicalCubes THEN [i \in DOMAIN startLiterals |-> CaDiCaLCubes(startLiterals[i], <<>>)]
                  ELSE <<PathDefined>>

-----------------------------------------------------------------------------
(***************************************************************************)
(* The tree SolverTask::work unfolds below a task, as the set of its       *)
(* nodes; a leaf is solved.                                                *)
(***************************************************************************)
ChildrenOf(cfg, f, t) ==
  LET s == split(cfg, f, t.src, t.path)
  IN  {[path |-> parac_path_get_next(t.path, n), src |-> childSource(s.src, n)] : n \in s.sides}

RECURSIVE Unfold(_, _, _)
Unfold(cfg, f, t) ==
  {t} \cup UNION {Unfold(cfg, f, c) : c \in ChildrenOf(cfg, f, t)}

Leaves(cfg, f, t) == {u \in Unfold(cfg, f, t) : ChildrenOf(cfg, f, u) = {}}

\* The cubes of a file, said without a jump list: the stretches between zeros.
CubesOfFile(lits) ==
  {<<b, e>> \in (0..Len(lits)) \X (0..Len(lits)) :
     /\ b <= e /\ e < Len(lits) /\ lits[e + 1] = 0
     /\ b = 0 \/ lits[b] = 0
     /\ \A i \in (b + 1)..e : lits[i] # 0}

\* An assignment (the set of its true literals) lies in a cube.
InCube(a, cube) == \A i \in DOMAIN cube : cube[i] \in a

=============================================================================
