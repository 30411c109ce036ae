----------------------------- MODULE MCTaskStore -----------------------------
(***************************************************************************)
(* Small instances of TaskStore: a root over two leaves, as CaDiCaLCubes   *)
(* unfolds it to depth one, and on a daemon another task beside it.        *)
(***************************************************************************)
EXTENDS TaskStoreAnswer, MCCubeTree, TLC

CONSTANTS ta, tb, tc, td, n1

Leaf == [x \in Side |-> Nil]

Pair(l, r) == [x \in Side |-> IF x = "L" THEN l ELSE r]

NoNode == [t \in Task |-> Nil]

\* ta over the leaves tb and tc.
KidPair == [t \in Task |-> IF t = ta THEN Pair(tb, tc) ELSE Leaf]
DepthPair == [t \in Task |-> IF t = ta THEN 0 ELSE 1]

FromAD == [t \in Task |-> IF t \in {ta, td} THEN n1 ELSE Nil]

WorkerSymmetry == Permutations(Worker)

=============================================================================
