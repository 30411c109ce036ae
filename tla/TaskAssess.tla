----------------------------- MODULE TaskAssess -----------------------------
(***************************************************************************)
(* The assessment functions of modules/commonc/task.c: what a task makes   *)
(* of its own state, its result and the results its children reported.     *)
(* A parac_task_state is the set of its flags.  A task has either a left   *)
(* and a right child or, when it is extended, an array of children; both   *)
(* are a function r from the child slots to the status recorded there.     *)
(***************************************************************************)

Flags == {"SPLITTED", "WORK_AVAILABLE", "WORKING", "WAITING_FOR_SPLITS",
          "DONE", "SPLITS_DONE", "OFFLOADED"}

Statuses == {"PENDING", "SAT", "UNSAT", "ABORTED", "SPLITTED"}

Decided == {"SAT", "UNSAT"}

Quantifiers == {"EXISTENTIAL", "UNIVERSAL"}

\* Faulty variants: the WORKING flag is not looked at; a split task counts as
\* done without its splits.
parac_task_state_is_done_IgnoresWorking(s) ==
  /\ "WORK_AVAILABLE" \notin s
  /\ \/ "SPLITTED" \notin s /\ "DONE" \in s
     \/ "SPLITTED" \in s /\ "SPLITS_DONE" \in s

parac_task_state_is_done_IgnoresSplits(s) ==
  /\ {"WORK_AVAILABLE", "WORKING"} \cap s = {}
  /\ "DONE" \in s

parac_task_state_is_done(s) ==
  /\ "WORK_AVAILABLE" \notin s
  /\ "WORKING" \notin s
  /\ \/ "SPLITTED" \notin s /\ "DONE" \in s
     \/ "SPLITTED" \in s /\ "SPLITS_DONE" \in s

\* The status that decides a split as soon as one child has it, and the one
\* that decides it once all children have it.
\* Faulty variant: the quantifiers are swapped.
Dominant_Swapped(q) == IF q = "EXISTENTIAL" THEN "UNSAT" ELSE "SAT"

Dominant(q) == IF q = "EXISTENTIAL" THEN "SAT" ELSE "UNSAT"

Neutral(q) == IF q = "EXISTENTIAL" THEN "UNSAT" ELSE "SAT"

(***************************************************************************)
(* existential_assess and universal_assess: the new result and whether the *)
(* task has to notify the node it was received from.  They look at the     *)
(* children only, so they report a decided split again on every call.      *)
(* (Faulty variants: one child without the dominant status decides; a      *)
(* split all of whose children are neutral is not reported.)               *)
(***************************************************************************)
AssessSplit_AnyDecides(q, r, result) ==
  IF \E i \in DOMAIN r : r[i] = Dominant(q)
    THEN [result |-> Dominant(q), notify |-> TRUE]
  ELSE IF \E i \in DOMAIN r : r[i] = Neutral(q)
    THEN [result |-> Neutral(q), notify |-> TRUE]
  ELSE [result |-> result, notify |-> FALSE]

AssessSplit_SilentNeutral(q, r, result) ==
  IF \E i \in DOMAIN r : r[i] = Dominant(q)
    THEN [result |-> Dominant(q), notify |-> TRUE]
  ELSE IF \A i \in DOMAIN r : r[i] = Neutral(q)
    THEN [result |-> Neutral(q), notify |-> FALSE]
  ELSE [result |-> result, notify |-> FALSE]

AssessSplit(q, r, result) ==
  IF \E i \in DOMAIN r : r[i] = Dominant(q)
    THEN [result |-> Dominant(q), notify |-> TRUE]
  ELSE IF \A i \in DOMAIN r : r[i] = Neutral(q)
    THEN [result |-> Neutral(q), notify |-> TRUE]
  ELSE [result |-> result, notify |-> FALSE]

(***************************************************************************)
(* existential_assess_extended and universal_assess_extended leave a task  *)
(* alone whose result is already SAT or UNSAT.                             *)
(***************************************************************************)
AssessSplitExtended(q, r, result) ==
  IF result \in Decided
    THEN [result |-> result, notify |-> FALSE]
    ELSE AssessSplit(q, r, result)

(***************************************************************************)
(* The children that early_abort_task is called for: the split is decided  *)
(* by its dominant status, the child is still linked, its recorded result  *)
(* is neither PENDING nor ABORTED, and it is not done.  The two-children   *)
(* variants only look at the sibling of a child with the dominant status.  *)
(***************************************************************************)
EarlyAborts(q, extended, r, result, linked, done) ==
  LET a == IF extended THEN AssessSplitExtended(q, r, result)
                       ELSE AssessSplit(q, r, result)
  IN  {i \in DOMAIN r : /\ a.notify /\ a.result = Dominant(q)
                        /\ i \in linked
                        /\ r[i] \notin {"PENDING", "ABORTED"}
                        /\ i \notin done
                        /\ extended \/ \E j \in DOMAIN r \ {i} : r[j] = Dominant(q)}

(***************************************************************************)
(* shared_assess: the state and result a task has afterwards and whether a *)
(* result message goes to the node the task was received from.  An ABORTED *)
(* result is never sent (notify_result returns early).                     *)
(***************************************************************************)
shared_assess(q, extended, terminate_children, s, r, result, received) ==
  LET a == IF extended THEN AssessSplitExtended(q, r, result)
                       ELSE AssessSplit(q, r, result)
      decided == a.result \notin {"PENDING", "SPLITTED"}
      s1 == IF decided THEN (s \cup {"SPLITS_DONE"}) \ {"WAITING_FOR_SPLITS"}
                       ELSE s
  IN  IF "SPLITTED" \in s
        THEN [state  |-> s1,
              result |-> a.result,
              send   |-> /\ "SPLITS_DONE" \in s1 \/ terminate_children
                         /\ a.notify /\ received /\ a.result # "ABORTED"]
        ELSE [state  |-> IF result # "PENDING" /\ ~received
                           THEN (s \cup {"DONE"}) \ {"WORK_AVAILABLE"}
                           ELSE s,
              result |-> result,
              send   |-> received /\ result \notin {"PENDING", "ABORTED"}]

parac_task_default_assess(s, r, result, received) ==
  shared_assess("EXISTENTIAL", FALSE, FALSE, s, r, result, received)

parac_task_qbf_assess(q, extended, s, r, result, received) ==
  shared_assess(q, extended, TRUE, s, r, result, received)

=============================================================================
