----------------------------- MODULE MCPortfolio -----------------------------
(***************************************************************************)
(* Small portfolios, beside the assessment of the tasks that use them.     *)
(***************************************************************************)
EXTENDS Portfolio, MCQBFAssess, TLC

HandleSymmetry == Permutations(Handle)

=============================================================================
