---------------------------- MODULE FormulaAnswer ----------------------------
(***************************************************************************)
(* What solving a formula promises, seen from outside: a formula that is   *)
(* satisfiable or not gets at most one verdict, the right one, and the     *)
(* verdict stays.                                                          *)
(***************************************************************************)
VARIABLES satisfiable,    \* "SAT" or "UNSAT"
          verdict         \* "UNDEFINED" until the formula is answered

Init == satisfiable \in {"SAT", "UNSAT"} /\ verdict = "UNDEFINED"

Answer ==
  /\ verdict = "UNDEFINED"
  /\ verdict' = satisfiable
  /\ UNCHANGED satisfiable

Spec == Init /\ [][Answer]_<<satisfiable, verdict>>

=============================================================================
