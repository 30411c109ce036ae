--------------------------- MODULE TaskStoreAnswer ---------------------------
(***************************************************************************)
(* A client's task store implements FormulaAnswer: the satisfiability of   *)
(* the formula is that of its root task, and the verdict is what main      *)
(* prints for handle.exit_status (SATISFIABLE, UNSATISFIABLE, or UNKNOWN   *)
(* for every other status).                                                *)
(***************************************************************************)
EXTENDS TaskStore

Verdict == IF exitStatus \in Decided THEN exitStatus ELSE "UNDEFINED"

A == INSTANCE FormulaAnswer WITH satisfiable <- truth[LocalRoot], verdict <- Verdict

(***************************************************************************)
(* The exit status is decided at most once: two threads write it, a worker *)
(* or the I/O thread that got an assignment (SatHandler) and the one that  *)
(* finishes the root (assess_task), neither under a lock of the other, and *)
(* the first never turns an answer of the second into its opposite.        *)
(***************************************************************************)
ImplementsAnswer == A!Spec

=============================================================================
