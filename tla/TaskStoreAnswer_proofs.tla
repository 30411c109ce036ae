------------------------ MODULE TaskStoreAnswer_proofs ------------------------
(***************************************************************************)
(* The task store implements FormulaAnswer, for any cube tree, any number  *)
(* of workers and peers.  Soundness says that both values the exit status  *)
(* may be given are right, so a second one cannot differ from the first;   *)
(* what remains is that no step takes a verdict back.                      *)
(***************************************************************************)
EXTENDS TaskStoreAnswer, TaskStore_proofs

\* What a step does to the exit status (and it leaves the truth alone).
ExitStep ==
  /\ truth' = truth
  /\ \/ exitStatus' = exitStatus
     \/ exitStatus' = "SAT"
     \/ exitStatus = "UNDEFINED"

LEMMA AssignmentExit ==
  ASSUME NEW t, HandleSatisfyingAssignment(t)
  PROVE  exitStatus' = exitStatus \/ exitStatus' = "SAT"
BY Zenon DEF HandleSatisfyingAssignment, exitVars

LEMMA WorkerExitStep ==
  ASSUME NEW w \in Worker, WorkerStep(w)
  PROVE  ExitStep
<1> USE DEF ExitStep
<1>1. CASE getNextTask(w)
  BY <1>1, Zenon DEF getNextTask, PopWork, taskVars, exitVars
<1>2. CASE DropPopped(w)
  BY <1>2, Zenon DEF DropPopped, PopWork, taskVars, exitVars
<1>3. CASE WorkerExit(w)
  BY <1>3, Zenon DEF WorkerExit, taskVars, exitVars
<1>4. CASE SkipWork(w)
  BY <1>4, Zenon DEF SkipWork, taskVars, exitVars
<1>5. CASE StartWork(w)
  BY <1>5, Zenon DEF StartWork, taskVars, exitVars
<1>6. CASE Solve(w)
  BY <1>6, AssignmentExit, Zenon DEF Solve, exitVars
<1>7. CASE SolveAborted(w)
  BY <1>7, Zenon DEF SolveAborted, taskVars, exitVars
<1>8. ASSUME NEW x \in Side, SplitMissing(w, x) \/ Split(w, x) \/ SplitStopped(w, x)
      PROVE  ExitStep
  BY <1>8, Zenon DEF SplitMissing, Split, SplitStopped, newTask, taskVars, exitVars
<1>9. CASE FinishRead(w)
  BY <1>9, Zenon DEF FinishRead, taskVars, exitVars
<1>10. CASE FinishWrite(w)
  BY <1>10, Zenon DEF FinishWrite, taskVars, exitVars
<1>11. CASE ClearNotifier(w)
  BY <1>11, Zenon DEF ClearNotifier, taskVars, exitVars
<1>12. CASE FinalCheck(w)
  BY <1>12, Zenon DEF FinalCheck, taskVars, exitVars
<1> QED
  BY <1>1, <1>2, <1>3, <1>4, <1>5, <1>6, <1>7, <1>8, <1>9, <1>10, <1>11, <1>12, Zenon
  DEF WorkerStep

LEMMA AssessExitStep ==
  ASSUME NEW h \in Thread, AssessStep(h)
  PROVE  ExitStep
<1> USE DEF ExitStep
<1>1. CASE AssessRead(h)
  BY <1>1, Zenon DEF AssessRead, exitVars
<1>2. CASE AssessDone(h)
  BY <1>2, Zenon DEF AssessDone
<1>3. CASE AssessNotDone(h)
  BY <1>3, Zenon DEF AssessNotDone, exitVars
<1> QED
  BY <1>1, <1>2, <1>3 DEF AssessStep

LEMMA PeerExitStep ==
  ASSUME NEW n \in Node, PeerStep(n)
  PROVE  ExitStep
<1> USE DEF ExitStep
<1>1. CASE Offload(n)
  BY <1>1, Zenon DEF Offload, taskVars, exitVars
<1>2. CASE ConnectionDropped(n)
  BY <1>2, Zenon DEF ConnectionDropped, taskVars, exitVars
<1>3. ASSUME NEW t \in Task, MessageAcked(n, t) \/ MessageFailed(n, t)
      PROVE  ExitStep
  BY <1>3, Zenon DEF MessageAcked, MessageFailed, UndoOffload, taskVars, exitVars
<1>4. ASSUME NEW t \in Task, receiveTaskResultFromPeer(n, t)
      PROVE  ExitStep
  BY <1>4, Zenon DEF receiveTaskResultFromPeer, exitVars
<1>5. ASSUME NEW t \in Task, ReceiveAssignment(n, t)
      PROVE  ExitStep
  BY <1>5, AssignmentExit, Zenon DEF ReceiveAssignment, taskVars
<1> QED
  BY <1>1, <1>2, <1>3, <1>4, <1>5, Zenon DEF PeerStep

LEMMA DropExitStep ==
  ASSUME DropStep
  PROVE  ExitStep
BY Zenon DEF DropStep, UndoNext, UndoOffload, UndoEnd, AbortNext, AbortUnlink, AbortEnd, taskVars,
   exitVars, ExitStep

LEMMA NextExitStep ==
  ASSUME [Next]_vars
  PROVE  ExitStep
<1>1. ASSUME NEW t \in Task, CreateEntry(t)
      PROVE  ExitStep
  BY <1>1, Zenon DEF CreateEntry, newTask, exitVars, ExitStep
<1>2. CASE Next
  BY <1>1, <1>2, WorkerExitStep, AssessExitStep, PeerExitStep, DropExitStep, Zenon DEF Next
<1>3. CASE UNCHANGED vars
  BY <1>3, Zenon DEF vars, taskVars, exitVars, ExitStep
<1> QED
  BY <1>2, <1>3

\* The program answers its formula at most once, rightly and for good: the
\* task store of a node with a local formula implements FormulaAnswer.
THEOREM TaskStoreImplementsAnswer ==
  ASSUME LocalRoot # Nil
  PROVE  Spec => ImplementsAnswer
<1>1. Init => A!Init
  <2> SUFFICES ASSUME Init PROVE A!Init
    OBVIOUS
  <2>1. truth \in [Task -> Decided] /\ exitStatus = "UNDEFINED"
    BY DEF Init, Truths
  <2>2. LocalRoot \in Task
    BY EntryAssumption DEF Entries
  <2> QED
    BY <2>1, <2>2 DEF A!Init, Verdict, Decided
<1>2. SoundInv /\ SoundInv' /\ [Next]_vars => [A!Answer]_<<truth[LocalRoot], Verdict>>
  <2> SUFFICES ASSUME SoundInv, SoundInv', [Next]_vars
               PROVE  [A!Answer]_<<truth[LocalRoot], Verdict>>
    OBVIOUS
  <2>1. ExitStep
    BY NextExitStep
  <2>2. /\ exitStatus \in Decided => exitStatus = truth[LocalRoot]
        /\ exitStatus' \in Decided => exitStatus' = truth[LocalRoot]
    BY <2>1 DEF SoundInv, ResultSound, ExitSound, ExitStep
  <2> QED
    BY <2>1, <2>2 DEF ExitStep, A!Answer, Verdict, Decided
<1> QED
  BY <1>1, <1>2, InitSoundInv, NextSoundInv, PTL DEF Spec, ImplementsAnswer, A!Spec

=============================================================================
