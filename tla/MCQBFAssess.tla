----------------------------- MODULE MCQBFAssess -----------------------------
(***************************************************************************)
(* The assessment functions of QBF tasks against what a quantified split   *)
(* means, for up to three children.                                        *)
(***************************************************************************)
EXTENDS TaskAssess, Naturals

\* What children may have reported, and the answers they can still turn out to
\* have: a decided one keeps its answer, the others are open.
Reports == UNION {[1..n -> {"PENDING", "SAT", "UNSAT", "ABORTED"}] : n \in 0..3}

Completions(r) ==
  {f \in [DOMAIN r -> Decided] : \A i \in DOMAIN r : r[i] \in Decided => f[i] = r[i]}

\* The answer of a split over children with the answers f.
Meaning(q, f) ==
  CASE q = "EXISTENTIAL" -> IF \E i \in DOMAIN f : f[i] = "SAT" THEN "SAT" ELSE "UNSAT"
    [] q = "UNIVERSAL"   -> IF \A i \in DOMAIN f : f[i] = "SAT" THEN "SAT" ELSE "UNSAT"

(***************************************************************************)
(* A split QBF task gets a result exactly when its children's reports fix  *)
(* it, whatever the open children would answer, and then the right one;    *)
(* this also holds for the tasks with two children and for no children.    *)
(***************************************************************************)
ASSUME QBFAssessDecides ==
  \A q \in Quantifiers, r \in Reports, received \in BOOLEAN :
    \A extended \in IF DOMAIN r = 1..2 THEN BOOLEAN ELSE {TRUE} :
      LET a == parac_task_qbf_assess(q, extended, {"SPLITTED", "WAITING_FOR_SPLITS"}, r,
                                     "PENDING", received)
          answers == {Meaning(q, f) : f \in Completions(r)}
      IN  /\ a.result \in Decided <=> \E v \in Decided : answers = {v}
          /\ a.result \in Decided => answers = {a.result}
          /\ a.send <=> (received /\ a.result \in Decided)
          /\ "SPLITS_DONE" \in a.state <=> a.result \in Decided

\* An early abort only reaches children of a split that is decided without
\* them, and never one whose answer is still open.
ASSUME EarlyAbortsAreHarmless ==
  \A q \in Quantifiers, r \in Reports, linked, done \in SUBSET (1..3) :
    \A i \in EarlyAborts(q, TRUE, r, "PENDING", linked, done) :
      /\ r[i] \in Decided
      /\ \A f \in Completions(r) : Meaning(q, f) = Dominant(q)

=============================================================================
