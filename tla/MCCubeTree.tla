----------------------------- MODULE MCCubeTree -----------------------------
(***************************************************************************)
(* The tree algorithms of CubeTree evaluated on all small inputs.  These   *)
(* are statements about functions, so TLC evaluates them once, as          *)
(* assumptions of the runs whose modules extend this one.                  *)
(***************************************************************************)
EXTENDS CubeTree

NoLookahead == [InitialMinimalCubeDepth |-> 0, look |-> <<>>]

\* A file of n cubes with 1, 2, 0, 1, 2, 0, ... literals.
FileOf(n) == FlattenSeq([i \in 1..n |-> [j \in 1..(i % 3) |-> j] \o <<0>>])

(***************************************************************************)
(* Whatever the number of cubes (none: the formula is solved as a whole),  *)
(* the leaves of the tree are in one-to-one correspondence with the cubes. *)
(***************************************************************************)
ASSUME LeavesAreCubes ==
  \A n \in 0..(2^MaxLength) :
    LET f == parseFile(FileOf(n))
        leaves == Leaves(NoLookahead, f, [path |-> parac_path_root, src |-> PathDefined])
        ranges == {getCubeFromPath(f, t.path) : t \in leaves}
    IN  IF n = 0 THEN ranges = {NoCube} /\ Cardinality(leaves) = 1
                 ELSE ranges = CubesOfFile(FileOf(n)) /\ Cardinality(leaves) = n

Var == 1..3

Literal == {-v : v \in Var} \cup Var

Assignments == {a \in SUBSET Literal : \A v \in Var : v \in a <=> -v \notin a}

\* A lookahead that always finds a literal of a variable the cube leaves open:
\* the first such variable or the last one.
CubesUpTo(n) == UNION {[1..k -> Literal] : k \in 0..n}
Open(cube) == {v \in Var : \A i \in DOMAIN cube : cube[i] \notin {v, -v}}
LookFirst == [c \in {d \in CubesUpTo(2) : Open(d) # {}} |-> Min(Open(c))]
LookLast  == [c \in {d \in CubesUpTo(2) : Open(d) # {}} |-> Max(Open(c))]
\* It gives up below the first decision.
LookOnce  == [c \in {<<>>} |-> 2]

(***************************************************************************)
(* Splitting with CaDiCaL's lookahead: whether one tree is grown or two    *)
(* from the literals of the fast lookahead, to any depth, and also when    *)
(* the lookahead gives up early, every assignment lies in the cube of      *)
(* exactly one leaf of every tree, also after each leaf was resplit.       *)
(***************************************************************************)
Resplit(t) ==
  LET open == Open(t.src.cube)
      r == resplitOnce(IF open = {} THEN 0 ELSE -Max(open), "UNKNOWN", t.src.cube)
  IN  IF r.status = "SPLITTED" THEN expandLeftAndRightCube(t.path, r.cubes) ELSE {t}

ASSUME SplitsPartition ==
  \A look \in {LookFirst, LookLast, LookOnce}, d \in 0..3, fast \in {<<1>>, <<-2, 3>>} :
    LET cfg == [InitialMinimalCubeDepth |-> d, look |-> look]
        f == parseFile(<<>>)
        roots == rootCubeSources(TRUE, MakeStartLiteralVector(2, fast))
        leaves(i) == Leaves(cfg, f, [path |-> parac_path_root, src |-> roots[i]])
    IN  \A a \in Assignments, i \in DOMAIN roots :
          \A ts \in {leaves(i), UNION {Resplit(t) : t \in leaves(i)}} :
            Cardinality({t \in ts : InCube(a, cubeOf(f, t.src, t.path))}) = 1

After(turns) == FoldLeft(parac_path_get_next, parac_path_root, turns)

(***************************************************************************)
(* Up to MaxLength turns a path numbers the nodes of a level; beyond it,   *)
(* and below an extended path, the two children of a task still differ,    *)
(* which is what makeTaskFromCube tells left from right by.                *)
(***************************************************************************)
ASSUME PathsTellApart ==
  /\ \A m \in 0..MaxLength :
       {parac_path_get_depth_shifted(After(s)) : s \in [1..m -> Turns]} = 0..(2^m - 1)
  /\ \A m \in (MaxLength - 1)..(MaxLength + 2) : \A s \in [1..m -> Turns] :
       \A p \in {After(s), parac_path_get_next_extended(After(s))} :
         /\ parac_path_get_next(p, 0) # parac_path_get_next(p, 1)
         /\ parac_path_length(parac_path_get_next(p, 0)) = parac_path_length(p) + 1

=============================================================================
