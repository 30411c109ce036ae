-------------------------- MODULE TaskStore_proofs --------------------------
(***************************************************************************)
(* The results of the task store are sound, for any cube tree, any number  *)
(* of workers and peers.                                                   *)
(***************************************************************************)
EXTENDS TaskStoreTypes_proofs

-----------------------------------------------------------------------------
(***************************************************************************)
(* Soundness.  A decided result is right because the slots it is computed  *)
(* from are; a slot is right because the result copied into it is; and     *)
(* only a task with children has anything in its slots, so that two UNSAT  *)
(* slots cover the whole task.                                             *)
(***************************************************************************)
SoundInv == TypeInv /\ SlotsOfSplit /\ ResultSound

LEMMA InitSoundInv == Init => SoundInv
<1> SUFFICES ASSUME Init PROVE SoundInv
  OBVIOUS
<1>1. /\ slot = [t \in Task |-> NoSlots] /\ result = [t \in Task |-> "PENDING"]
      /\ wpc = [w \in Worker |-> "idle"] /\ exitStatus = "UNDEFINED"
  BY DEF Init
<1>2. \A t \in Task, x \in Side : slot[t][x] = "PENDING"
  BY <1>1 DEF NoSlots
<1>3. SlotsOfSplit /\ SlotSound
  BY <1>2 DEF SlotsOfSplit, SlotSound, Decided
<1>4. TaskSound /\ WorkerSound /\ ExitSound
  BY <1>1 DEF TaskSound, WorkerSound, ExitSound, Decided
<1> QED
  BY <1>3, <1>4, InitTypeInv DEF SoundInv, ResultSound

\* The assess function of a SolverTask computes the answer of the task.
LEMMA AssessSound ==
  ASSUME SoundInv, NEW t \in Task, NEW rf \in BOOLEAN,
         parac_task_default_assess(state[t], slot[t], result[t], rf).result \in Decided
  PROVE  parac_task_default_assess(state[t], slot[t], result[t], rf).result = truth[t]
<1> DEFINE r == parac_task_default_assess(state[t], slot[t], result[t], rf).result
<1>1. /\ slot[t] \in [Side -> Statuses] /\ truth[t] \in Decided /\ truth \in Truths
      /\ Kid[t] \in [Side -> Task \cup {Nil}]
  BY KidAssumption DEF SoundInv, TypeInv, TypeTask, Truths
<1>2. \/ r = result[t]
      \/ r = "SAT" /\ \E x \in Side : slot[t][x] = "SAT"
      \/ r = "UNSAT" /\ \A x \in Side : slot[t][x] = "UNSAT"
  BY <1>1 DEF parac_task_default_assess, shared_assess, AssessSplit, Dominant, Neutral
<1>3. CASE r = result[t]
  BY <1>3 DEF SoundInv, ResultSound, TaskSound
<1>4. CASE r = "SAT" /\ \E x \in Side : slot[t][x] = "SAT"
  <2>1. PICK x \in Side : slot[t][x] = "SAT"
    BY <1>4
  <2>2. Kid[t][x] # Nil /\ truth[Kid[t][x]] = "SAT"
    BY <2>1 DEF SoundInv, ResultSound, SlotSound, Decided
  <2>3. Kid[t][x] \in KidsOf(t) /\ Splits(t)
    BY <2>2 DEF KidsOf, Splits
  <2> QED
    BY <1>1, <1>4, <2>2, <2>3 DEF Truths
<1>5. CASE r = "UNSAT" /\ \A x \in Side : slot[t][x] = "UNSAT"
  <2>1. Splits(t)
    BY <1>5 DEF SoundInv, SlotsOfSplit, Side
  <2>2. \A k \in KidsOf(t) : truth[k] = "UNSAT"
    <3>1. \A x \in Side : Kid[t][x] # Nil => truth[Kid[t][x]] = "UNSAT"
      BY <1>5 DEF SoundInv, ResultSound, SlotSound, Decided
    <3> QED
      BY <3>1 DEF KidsOf
  <2> QED
    BY <1>1, <1>5, <2>1, <2>2 DEF Truths, Decided
<1> QED
  BY <1>2, <1>3, <1>4, <1>5

\* Steps that touch neither results, slots nor the workers' and the exit
\* status keep the invariant.
LEMMA SoundFrame ==
  ASSUME SoundInv, TypeInv', UNCHANGED <<truth, result, slot, exitStatus, wres>>,
         \A w \in Worker : wpc'[w] = "finish" => wpc[w] = "finish" /\ cur'[w] = cur[w]
  PROVE  SoundInv'
BY DEF SoundInv, SlotsOfSplit, ResultSound, TaskSound, SlotSound, WorkerSound, ExitSound

\* The steps of a worker.
LEMMA WorkerSoundInv ==
  ASSUME SoundInv, TypeInv', NEW w \in Worker, WorkerStep(w)
  PROVE  SoundInv'
<1> USE DEF SoundInv, ResultSound
<1>a. TypeInv /\ cur \in [Worker -> Task \cup {Nil}] /\ wpc \in [Worker -> WorkerPc]
      /\ wres \in [Worker -> Statuses] /\ slot \in [Task -> [Side -> Statuses]]
      /\ result \in [Task -> Statuses] /\ truth \in Truths
      /\ \A v \in Worker : wpc[v] \notin {"idle", "exited"} => cur[v] \in Task
  BY DEF TypeInv, InvWorker, TypeWorker, TypeTask
<1>1. CASE getNextTask(w)
  BY <1>1, <1>a, SoundFrame DEF getNextTask, PopWork, Goto, exitVars
<1>2. CASE DropPopped(w)
  BY <1>2, SoundFrame DEF DropPopped, PopWork, exitVars, workerVars
<1>3. CASE WorkerExit(w)
  BY <1>3, <1>a, SoundFrame DEF WorkerExit, Goto, taskVars, exitVars
<1>4. CASE SkipWork(w)
  BY <1>4, <1>a, SoundFrame DEF SkipWork, LeaveAborted, Goto, taskVars, exitVars
<1>5. CASE StartWork(w)
  BY <1>5, <1>a, SoundFrame DEF StartWork, Goto, exitVars
<1>6. CASE SolveAborted(w)
  BY <1>6, <1>a, SoundFrame DEF SolveAborted, LeaveAborted, Goto, exitVars
<1>7. CASE FinishWrite(w)
  BY <1>7, <1>a, SoundFrame DEF FinishWrite, Goto, exitVars
<1>8. CASE ClearNotifier(w)
  BY <1>8, <1>a, SoundFrame DEF ClearNotifier, Goto, taskVars, exitVars
<1>9. CASE FinalCheck(w)
  BY <1>9, <1>a, SoundFrame DEF FinalCheck, Goto, taskVars, exitVars
<1>10. ASSUME NEW x \in Side, SplitStopped(w, x)
       PROVE  SoundInv'
  BY <1>10, <1>a, SoundFrame DEF SplitStopped, newTask, LeaveAborted, Goto, exitVars
<1>11. CASE Solve(w)
  <2>1. /\ cur[w] \in Task /\ UNCHANGED <<truth, result, slot, cur>>
        /\ wpc' = [wpc EXCEPT ![w] = "finish"] /\ wres' = [wres EXCEPT ![w] = truth[cur[w]]]
    BY <1>11, <1>a DEF Solve, At, Goto
  <2>2. SlotsOfSplit' /\ TaskSound' /\ SlotSound'
    BY <2>1 DEF SlotsOfSplit, TaskSound, SlotSound
  <2>3. WorkerSound'
    BY <2>1, <1>a DEF WorkerSound
  <2>4. ExitSound'
    <3>1. \/ UNCHANGED exitStatus
          \/ exitStatus' = "SAT" /\ cur[w] \in Originated /\ truth[cur[w]] = "SAT"
      BY <1>11, Zenon DEF Solve, HandleSatisfyingAssignment, exitVars
    <3> QED
      BY <3>1, <2>1, <1>a DEF ExitSound, Truths
  <2> QED
    BY <2>2, <2>3, <2>4
<1>12. ASSUME NEW x \in Side, SplitMissing(w, x)
       PROVE  SoundInv'
  <2>1. /\ cur[w] \in Task /\ Kid[cur[w]][x] = Nil /\ wpc[w] = x
        /\ UNCHANGED <<truth, result, cur, exitStatus>>
        /\ slot' = [slot EXCEPT ![cur[w]][x] = "UNSAT"]
        /\ wres' = [wres EXCEPT ![w] = "PENDING"]
        /\ \A v \in Worker \ {w} : wpc'[v] = wpc[v]
    BY <1>12, <1>a DEF SplitMissing, At, Goto, Side, exitVars
  <2>2. Splits(cur[w])
    BY <2>1, <1>a DEF TypeInv, InvWorker, Side
  <2>3. SlotsOfSplit'
    BY <2>1, <2>2, <1>a DEF SlotsOfSplit
  <2>4. SlotSound'
    <3>1. \A u \in Task, y \in Side : \/ slot'[u][y] = slot[u][y]
                                      \/ slot'[u][y] = "UNSAT" /\ Kid[u][y] = Nil
      BY <2>1, <1>a
    <3>2. truth' = truth
      BY <2>1
    <3> QED
      BY <3>1, <3>2 DEF SlotSound
  <2>5. TaskSound' /\ WorkerSound' /\ ExitSound'
    BY <2>1, <1>a DEF TaskSound, WorkerSound, ExitSound
  <2> QED
    BY <2>3, <2>4, <2>5
<1>13. ASSUME NEW x \in Side, Split(w, x)
       PROVE  SoundInv'
  <2>1. /\ cur[w] \in Task /\ UNCHANGED <<truth, result, cur, exitStatus>>
        /\ slot' = [slot EXCEPT ![cur[w]][x] = "PENDING"]
        /\ wres' = [wres EXCEPT ![w] = "PENDING"]
        /\ \A v \in Worker \ {w} : wpc'[v] = wpc[v]
    BY <1>13, <1>a DEF Split, newTask, At, Goto, Side, exitVars
  <2>2. SlotsOfSplit' /\ SlotSound'
    <3>1. \A u \in Task, y \in Side : slot'[u][y] = slot[u][y] \/ slot'[u][y] = "PENDING"
      BY <2>1, <1>a
    <3>2. truth' = truth /\ "PENDING" \notin Decided
      BY <2>1 DEF Decided
    <3>3. SlotsOfSplit'
      BY <3>1 DEF SlotsOfSplit
    <3>4. SlotSound'
      BY <3>1, <3>2 DEF SlotSound
    <3> QED
      BY <3>3, <3>4
  <2>3. TaskSound' /\ WorkerSound' /\ ExitSound'
    BY <2>1, <1>a DEF TaskSound, WorkerSound, ExitSound
  <2> QED
    BY <2>2, <2>3
<1>14. CASE FinishRead(w)
  <2>1. /\ cur[w] \in Task /\ wpc[w] = "finish" /\ wpc'[w] # "finish"
        /\ UNCHANGED <<truth, slot, cur, wres, exitStatus>>
        /\ \A v \in Worker \ {w} : wpc'[v] = wpc[v]
        /\ \/ UNCHANGED result
           \/ wres[w] # "PENDING" /\ result' = [result EXCEPT ![cur[w]] = wres[w]]
    BY <1>14, <1>a DEF FinishRead, At, Goto, exitVars
  <2>2. TaskSound'
    BY <2>1, <1>a DEF TaskSound, WorkerSound
  <2>3. SlotsOfSplit' /\ SlotSound' /\ WorkerSound' /\ ExitSound'
    BY <2>1 DEF SlotsOfSplit, SlotSound, WorkerSound, ExitSound
  <2> QED
    BY <2>2, <2>3
<1> QED
  BY <1>1, <1>2, <1>3, <1>4, <1>5, <1>6, <1>7, <1>8, <1>9, <1>10, <1>11, <1>12, <1>13,
     <1>14 DEF WorkerStep

\* assess_task.
LEMMA AssessSoundInv ==
  ASSUME SoundInv, TypeInv', NEW h \in Thread, AssessStep(h)
  PROVE  SoundInv'
<1> USE DEF SoundInv, ResultSound
<1>a. /\ TypeInv /\ slot \in [Task -> [Side -> Statuses]] /\ result \in [Task -> Statuses]
      /\ call \in [Thread -> Task \cup {Nil}]
  BY DEF TypeInv, TypeTask, InvAssess, TypeAssess
<1>1. CASE AssessRead(h)
  <2> DEFINE t == call[h]
             a == parac_task_default_assess(state[t], slot[t], result[t], From[t] # Nil)
  <2>1. /\ t \in Task /\ result' = [result EXCEPT ![t] = a.result]
        /\ UNCHANGED <<truth, slot, exitStatus, wres, wpc, cur>>
    BY <1>1, <1>a, Zenon DEF AssessRead, exitVars, workerVars
  <2>2. a.result \in Decided => a.result = truth[t]
    BY <2>1, AssessSound, Zenon
  <2> HIDE DEF a
  <2>3. TaskSound'
    BY <2>1, <2>2, <1>a, Zenon DEF TaskSound
  <2>4. SlotsOfSplit' /\ SlotSound' /\ WorkerSound' /\ ExitSound'
    BY <2>1, Zenon DEF SlotsOfSplit, SlotSound, WorkerSound, ExitSound
  <2> QED
    BY <2>3, <2>4
<1>2. CASE AssessDone(h)
  <2> DEFINE t == call[h]
             p == IF From[t] = Nil THEN parentPtr[t] ELSE Nil
  <2>1. /\ t \in Task /\ UNCHANGED <<truth, result, wres, wpc, cur>>
        /\ exitStatus' = exitStatus \/ (t = LocalRoot /\ exitStatus' = result[t])
    BY <1>2, <1>a, NilAssumption DEF AssessDone, TypeInv, InvAssess
  <2>2. \/ UNCHANGED slot
        \/ /\ p \in Task
           /\ slot' = [slot EXCEPT ![p] = [x \in Side |-> IF Kid[p][x] = t THEN result[t]
                                                                        ELSE @[x]]]
    BY <1>2, <1>a, <2>1, Zenon DEF AssessDone, RecordInParent, TypeInv, TypeTask
  <2> HIDE DEF t, p
  <2>3. ASSUME p \in Task, NEW u \in Task, NEW x \in Side, slot'[u][x] # slot[u][x],
               slot' = [slot EXCEPT ![p] = [y \in Side |-> IF Kid[p][y] = t THEN result[t]
                                                                        ELSE @[y]]]
        PROVE  slot'[u][x] = result[t] /\ Kid[u][x] = t
    BY <1>a, <2>3
  <2>4. SlotsOfSplit'
    <3>1. ASSUME NEW u \in Task, NEW x \in Side, slot'[u][x] # "PENDING"
          PROVE  Splits(u)
      <4>1. CASE slot'[u][x] = slot[u][x]
        BY <3>1, <4>1 DEF SlotsOfSplit
      <4>2. CASE slot'[u][x] # slot[u][x]
        <5>1. Kid[u][x] = t
          BY <2>2, <2>3, <4>2
        <5>2. t \in KidsOf(u)
          BY <2>1, <5>1, NilAssumption DEF KidsOf
        <5> QED
          BY <5>2 DEF Splits
      <4> QED
        BY <4>1, <4>2
    <3> QED
      BY <3>1 DEF SlotsOfSplit
  <2>5. SlotSound'
    <3>1. ASSUME NEW u \in Task, NEW x \in Side, slot'[u][x] \in Decided
          PROVE  slot'[u][x] = IF Kid[u][x] = Nil THEN "UNSAT" ELSE truth[Kid[u][x]]
      <4>1. CASE slot'[u][x] = slot[u][x]
        BY <3>1, <4>1 DEF SlotSound
      <4>2. CASE slot'[u][x] # slot[u][x]
        <5>1. slot'[u][x] = result[t] /\ Kid[u][x] = t
          BY <2>2, <2>3, <4>2
        <5>2. result[t] = truth[t] /\ t # Nil
          BY <2>1, <3>1, <5>1, NilAssumption DEF TaskSound
        <5> QED
          BY <5>1, <5>2
      <4> QED
        BY <4>1, <4>2
    <3>2. truth' = truth
      BY <2>1
    <3> QED
      BY <3>1, <3>2 DEF SlotSound
  <2>6. TaskSound' /\ WorkerSound' /\ ExitSound'
    BY <2>1 DEF TaskSound, WorkerSound, ExitSound
  <2> QED
    BY <2>4, <2>5, <2>6
<1>3. CASE AssessNotDone(h)
  BY <1>3, SoundFrame, Zenon DEF AssessNotDone, exitVars, workerVars
<1> QED
  BY <1>1, <1>2, <1>3 DEF AssessStep

\* What a peer causes.
LEMMA PeerSoundInv ==
  ASSUME SoundInv, TypeInv', NEW n \in Node, PeerStep(n)
  PROVE  SoundInv'
<1> USE DEF SoundInv, ResultSound
<1>a. TypeInv /\ result \in [Task -> Statuses] /\ truth \in Truths
  BY DEF TypeInv, TypeTask
<1>1. CASE Offload(n)
  BY <1>1, SoundFrame, Zenon DEF Offload, exitVars, workerVars
<1>2. CASE ConnectionDropped(n)
  BY <1>2, SoundFrame, Zenon DEF ConnectionDropped, taskVars, exitVars, workerVars
<1>3. ASSUME NEW t \in Task, MessageAcked(n, t)
      PROVE  SoundInv'
  BY <1>3, SoundFrame, Zenon DEF MessageAcked, taskVars, exitVars, workerVars
<1>4. ASSUME NEW t \in Task, MessageFailed(n, t)
      PROVE  SoundInv'
  BY <1>4, SoundFrame DEF MessageFailed, UndoOffload, taskVars, exitVars, workerVars
<1>5. ASSUME NEW t \in Task, receiveTaskResultFromPeer(n, t)
      PROVE  SoundInv'
  <2>1. /\ result' = [result EXCEPT ![t] = truth[t]]
        /\ UNCHANGED <<truth, slot, exitStatus, wres, wpc, cur>>
    BY <1>5 DEF receiveTaskResultFromPeer, exitVars, workerVars
  <2> QED
    BY <2>1, <1>a, Zenon
       DEF SlotsOfSplit, TaskSound, SlotSound, WorkerSound, ExitSound
<1>6. ASSUME NEW t \in Task, ReceiveAssignment(n, t)
      PROVE  SoundInv'
  <2>1. /\ t \in Originated /\ truth[t] = "SAT" /\ exitStatus' = "SAT"
        /\ UNCHANGED <<truth, result, slot, wres, wpc, cur>>
    BY <1>6, Zenon DEF ReceiveAssignment, HandleSatisfyingAssignment, taskVars, workerVars
  <2>2. ExitSound'
    BY <2>1, <1>a DEF ExitSound, Truths
  <2> QED
    BY <2>1, <2>2, Zenon DEF SlotsOfSplit, TaskSound, SlotSound, WorkerSound
<1> QED
  BY <1>1, <1>2, <1>3, <1>4, <1>5, <1>6 DEF PeerStep

\* Handling a dropped connection: an aborted task has no decided result.
LEMMA DropSoundInv ==
  ASSUME SoundInv, TypeInv', DropStep
  PROVE  SoundInv'
<1>1. CASE UndoNext
  BY <1>1, SoundFrame, Zenon DEF UndoNext, UndoOffload, exitVars, workerVars
<1>2. CASE UndoEnd
  BY <1>2, SoundFrame, Zenon DEF UndoEnd, taskVars, exitVars, workerVars
<1>3. CASE AbortNext
  <2>1. PICK t \in Task : UNCHANGED result \/ result' = [result EXCEPT ![t] = "ABORTED"]
    BY <1>3, Zenon DEF AbortNext, TerminateDefault, TerminateSolver, SoundInv, TypeInv, InvIo,
                TypeIo
  <2>2. UNCHANGED <<truth, slot, exitStatus, wres, wpc, cur>>
    BY <1>3 DEF AbortNext, exitVars, workerVars
  <2> QED
    <3>1. result \in [Task -> Statuses] /\ "ABORTED" \notin Decided
      BY DEF SoundInv, TypeInv, TypeTask, Decided
    <3>2. \A u \in Task : result'[u] \in Decided => result'[u] = result[u]
      BY <2>1, <3>1
    <3>3. TaskSound'
      BY <2>2, <3>2 DEF SoundInv, ResultSound, TaskSound
    <3>4. SlotsOfSplit' /\ SlotSound' /\ WorkerSound' /\ ExitSound'
      BY <2>2 DEF SoundInv, ResultSound, SlotsOfSplit, SlotSound, WorkerSound, ExitSound
    <3> QED
      BY <3>3, <3>4 DEF SoundInv, ResultSound
<1>4. CASE AbortUnlink
  BY <1>4, SoundFrame, Zenon DEF AbortUnlink, taskVars, exitVars, workerVars
<1>5. CASE AbortEnd
  BY <1>5, SoundFrame, Zenon DEF AbortEnd, taskVars, exitVars, workerVars
<1> QED
  BY <1>1, <1>2, <1>3, <1>4, <1>5 DEF DropStep

\* Every step keeps the results right.
LEMMA NextSoundInv == SoundInv /\ [Next]_vars => SoundInv'
<1> SUFFICES ASSUME SoundInv, [Next]_vars PROVE SoundInv'
  OBVIOUS
<1>1. TypeInv'
  BY NextTypeInv DEF SoundInv
<1>2. ASSUME NEW t \in Task, CreateEntry(t)
      PROVE  SoundInv'
  BY <1>1, <1>2, SoundFrame DEF CreateEntry, newTask, exitVars, workerVars
<1>3. CASE Next
  BY <1>1, <1>2, <1>3, WorkerSoundInv, AssessSoundInv, PeerSoundInv, DropSoundInv DEF Next
<1>4. CASE UNCHANGED vars
  BY <1>1, <1>4, SoundFrame DEF vars, taskVars, exitVars, workerVars
<1> QED
  BY <1>3, <1>4

\* No wrong answer is stored, reported to a parent or ends the program: for
\* any cube tree, any number of workers and peers, under every interleaving.
THEOREM ResultsAreSound == Spec => []ResultSound
<1>1. SoundInv => ResultSound
  BY DEF SoundInv
<1> QED
  BY <1>1, InitSoundInv, NextSoundInv, PTL DEF Spec

=============================================================================
