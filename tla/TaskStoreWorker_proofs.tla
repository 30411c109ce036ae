---------------------- MODULE TaskStoreWorker_proofs -----------------------
(***************************************************************************)
(* Type correctness of the task store, for any cube tree, any number of    *)
(* workers and peers.  The invariant is TypeOK with what the positions of  *)
(* the threads say about their locals; it is split along the groups of     *)
(* variables, so that a step only has to show the groups it touches.       *)
(***************************************************************************)
EXTENDS TaskStore, TLAPS

\* The sequence facts the provers need: the elements, the length, the first
\* element and the rest of a sequence over S; a function on 1..n is one.
LEMMA SeqElement ==
  ASSUME NEW S, NEW s \in Seq(S), NEW i \in 1..Len(s)
  PROVE  s[i] \in S
OBVIOUS

LEMMA SeqLen ==
  ASSUME NEW S, NEW s \in Seq(S)
  PROVE  Len(s) \in Nat
OBVIOUS

LEMMA SeqHeadTail ==
  ASSUME NEW S, NEW s \in Seq(S), s # <<>>
  PROVE  Head(s) \in S /\ Tail(s) \in Seq(S)
OBVIOUS

LEMMA FunIsSeq ==
  ASSUME NEW S, NEW n \in Nat, NEW f \in [1..n -> S]
  PROVE  f \in Seq(S) /\ Len(f) = n
OBVIOUS

\* insert_into_tasksWaitingForWorkerQueue adds exactly one entry for t.
LEMMA EnqueueType ==
  ASSUME queue \in Seq(Task), workQueueSize \in Int, NEW t \in Task, Enqueue(t)
  PROVE  queue' \in Seq(Task) /\ workQueueSize' \in Int
<1>1. PICK i \in 1..Len(queue)+1 :
        queue' = [j \in 1..Len(queue)+1 |->
                    IF j < i THEN queue[j] ELSE IF j = i THEN t ELSE queue[j-1]]
  BY DEF Enqueue
<1>2. Len(queue) \in Nat /\ \A j \in 1..Len(queue) : queue[j] \in Task
  BY SeqElement, SeqLen
<1>3. ASSUME NEW j \in 1..Len(queue)+1
      PROVE  (IF j < i THEN queue[j] ELSE IF j = i THEN t ELSE queue[j-1]) \in Task
  BY <1>2
<1>4. queue' \in [1..Len(queue)+1 -> Task]
  BY <1>1, <1>3
<1>5. Len(queue)+1 \in Nat
  BY <1>2
<1> QED
  BY <1>4, <1>5, FunIsSeq DEF Enqueue

\* Erasing an entry leaves a sequence of tasks.
LEMMA QueueWithoutType ==
  ASSUME queue \in Seq(Task), NEW i \in 1..Len(queue)
  PROVE  QueueWithout(i) \in Seq(Task)
<1>1. Len(queue) \in Nat /\ \A j \in 1..Len(queue) : queue[j] \in Task
  BY SeqElement, SeqLen
<1>2. \A j \in 1..Len(queue)-1 : (IF j < i THEN queue[j] ELSE queue[j+1]) \in Task
  BY <1>1
<1>3. QueueWithout(i) \in [1..Len(queue)-1 -> Task]
  BY <1>2 DEF QueueWithout
<1>4. Len(queue)-1 \in Nat
  BY <1>1
<1> QED
  BY <1>3, <1>4, FunIsSeq

\* parac_task_default_assess returns a set of flags and a status.
LEMMA AssessType ==
  ASSUME NEW s \in SUBSET Flags, NEW r \in [Side -> Statuses], NEW res \in Statuses,
         NEW rf \in BOOLEAN
  PROVE  LET a == parac_task_default_assess(s, r, res, rf)
         IN  a.state \in SUBSET Flags /\ a.result \in Statuses /\ a.send \in BOOLEAN
BY Zenon DEF parac_task_default_assess, shared_assess, AssessSplit, Dominant, Neutral, Flags,
       Statuses

-----------------------------------------------------------------------------
(***************************************************************************)
(* The inductive invariant and its frame.                                  *)
(***************************************************************************)

\* A worker that is not idle has a task, which splits if it is being split.
InvWorker ==
  /\ TypeWorker
  /\ \A w \in Worker : wpc[w] \notin {"idle", "exited"} => cur[w] \in Task
  /\ \A w \in Worker : wpc[w] \in {"L", "R"} => Splits(cur[w])

\* Between its two steps the owner of assessMutex has a task.
InvAssess ==
  /\ TypeAssess
  /\ phase = "write" => assessor \in Thread /\ call[assessor] \in Task

\* The handling of a dropped connection knows its peer, an abort its task.
InvIo ==
  /\ TypeIo
  /\ ioPc # "idle" => ioNode \in Node
  /\ ioPc = "unlink" => ioTask \in Task

TypeInv ==
  /\ TypeTask /\ TypeCtrl /\ TypeStore /\ TypeExit
  /\ InvWorker /\ InvAssess /\ InvIo

LEMMA InitTypeInv == Init => TypeInv
<1> SUFFICES ASSUME Init PROVE TypeInv
  OBVIOUS
<1> USE DEF Init
<1>1. TypeTask
  BY DEF TypeTask, NoSlots, Flags, Statuses
<1>2. TypeCtrl /\ TypeExit
  BY Zenon DEF TypeCtrl, TypeExit
<1>3. TypeStore
  BY DEF TypeStore
<1>4. InvWorker
  BY DEF InvWorker, TypeWorker, WorkerPc, Statuses
<1>5. InvAssess /\ InvIo
  BY DEF InvAssess, TypeAssess, InvIo, TypeIo
<1> QED
  BY <1>1, <1>2, <1>3, <1>4, <1>5 DEF TypeInv

\* A group of variables that a step leaves alone keeps its type.
LEMMA Frames ==
  ASSUME TypeInv
  PROVE  /\ UNCHANGED taskVars => TypeTask'
         /\ UNCHANGED ctrlVars => TypeCtrl'
         /\ UNCHANGED storeVars => TypeStore'
         /\ UNCHANGED <<exitVars, freedRead>> => TypeExit'
         /\ UNCHANGED workerVars => InvWorker'
         /\ UNCHANGED <<call, assessVars>> => InvAssess'
         /\ UNCHANGED <<ioVars, netVars>> => InvIo'
<1>1. UNCHANGED taskVars => TypeTask'
  BY DEF TypeInv, TypeTask, taskVars
<1>2. UNCHANGED ctrlVars => TypeCtrl'
  BY DEF TypeInv, TypeCtrl, ctrlVars
<1>3. UNCHANGED storeVars => TypeStore'
  BY DEF TypeInv, TypeStore, storeVars
<1>4. UNCHANGED <<exitVars, freedRead>> => TypeExit'
  BY DEF TypeInv, TypeExit, exitVars
<1>5. UNCHANGED workerVars => InvWorker'
  BY DEF TypeInv, InvWorker, TypeWorker, workerVars
<1>6. UNCHANGED <<call, assessVars>> => InvAssess'
  BY DEF TypeInv, InvAssess, TypeAssess, assessVars
<1>7. UNCHANGED <<ioVars, netVars>> => InvIo'
  BY DEF TypeInv, InvIo, TypeIo, ioVars, netVars
<1> QED
  BY <1>1, <1>2, <1>3, <1>4, <1>5, <1>6, <1>7

\* A worker takes the first task of the queue.
LEMMA QueueHead ==
  ASSUME TypeStore, queue # <<>>
  PROVE  Head(queue) \in Task /\ Tail(queue) \in Seq(Task)
BY SeqHeadTail DEF TypeStore

\* Writing a set of flags to a task keeps the type of state.
LEMMA StateType ==
  ASSUME state \in [Task -> SUBSET Flags], NEW t, NEW v \in SUBSET Flags,
         state' = [state EXCEPT ![t] = v]
  PROVE  state' \in [Task -> SUBSET Flags]
BY Zenon

\* So does clearing and setting flags of a task.
LEMMA FlagsType ==
  ASSUME state \in [Task -> SUBSET Flags], NEW t \in Task, NEW del, NEW add \in SUBSET Flags,
         state' = [state EXCEPT ![t] = (@ \ del) \cup add]
  PROVE  state' \in [Task -> SUBSET Flags]
<1>1. (state[t] \ del) \cup add \in SUBSET Flags
  OBVIOUS
<1> QED
  BY <1>1

\* request_exit stops and interrupts tasks of the store.
LEMMA RequestExitType ==
  ASSUME queue \in Seq(Task), stop \subseteq Task, interrupt \subseteq Task,
         NEW running \in SUBSET Task, RequestExit(running)
  PROVE  stop' \subseteq Task /\ interrupt' \subseteq Task
<1>1. {queue[i] : i \in 1..Len(queue)} \subseteq Task
  BY SeqElement
<1>2. /\ stop' = stop \cup running \cup {queue[i] : i \in 1..Len(queue)}
      /\ interrupt' \subseteq interrupt \cup running
  BY DEF RequestExit
<1> QED
  BY <1>1, <1>2

\* A step that only writes states of tasks.
LEMMA StateStep ==
  ASSUME TypeTask, state' \in [Task -> SUBSET Flags],
         UNCHANGED <<truth, born, live, result, slot, parentPtr, childPtr>>
  PROVE  TypeTask'
BY DEF TypeTask

\* A worker goes on with its task.
LEMMA WorkerMoves ==
  ASSUME InvWorker, NEW w \in Worker, NEW pc \in WorkerPc, cur' = cur,
         wpc' = [wpc EXCEPT ![w] = pc],
         pc \notin {"idle", "exited"} => cur[w] \in Task,
         pc \in {"L", "R"} => Splits(cur[w]),
         wres' \in [Worker -> Statuses], tmp' \in [Worker -> SUBSET Flags],
         deleteNotifier' \subseteq Worker
  PROVE  InvWorker'
BY Zenon DEF InvWorker, TypeWorker

\* A thread outside assess_task calls it, or returns from it.
LEMMA CallStep ==
  ASSUME InvAssess, NEW h \in Thread, NEW t \in Task \cup {Nil}, call[h] = Nil,
         call' = [call EXCEPT ![h] = t], UNCHANGED assessVars
  PROVE  InvAssess'
BY NilAssumption DEF InvAssess, TypeAssess, assessVars

-----------------------------------------------------------------------------
(***************************************************************************)
(* The steps of a worker.                                                  *)
(***************************************************************************)

\* pop_work moves the first task of the queue to the tasks worked on.
LEMMA PopWorkType ==
  ASSUME TypeInv, NEW w \in Worker, PopWork(w)
  PROVE  /\ Head(queue) \in Task
         /\ TypeTask' /\ TypeCtrl' /\ TypeStore' /\ TypeExit' /\ InvAssess' /\ InvIo'
<1> DEFINE t == Head(queue)
<1>1. t \in Task /\ Tail(queue) \in Seq(Task)
  BY QueueHead DEF PopWork, TypeInv
<1>2. /\ UNCHANGED <<exitVars, freedRead>> /\ UNCHANGED <<call, assessVars>>
      /\ UNCHANGED <<ioVars, netVars>>
      /\ UNCHANGED <<truth, born, live, result, slot, parentPtr, childPtr>>
      /\ UNCHANGED <<stop, work, terminate, interrupt>>
      /\ UNCHANGED <<waitingForChildren, offloaded, lastWaiting, workQueueSize>>
  BY DEF PopWork
<1>3. /\ queue' = Tail(queue) /\ beingWorkedOn' = beingWorkedOn \cup {t}
      /\ state' = [state EXCEPT ![t] = (@ \ {"WORK_AVAILABLE"}) \cup {"WORKING"}]
      /\ notifier' = [notifier EXCEPT ![t] = w]
  BY DEF PopWork
<1> HIDE DEF t
<1>4. TypeTask'
  BY <1>1, <1>2, <1>3, FlagsType, StateStep DEF TypeInv, TypeTask, Flags
<1>5. TypeCtrl'
  BY <1>2, <1>3, Zenon DEF TypeInv, TypeCtrl
<1>6. TypeStore'
  BY <1>1, <1>2, <1>3 DEF TypeInv, TypeStore
<1> QED
  BY <1>1, <1>2, <1>4, <1>5, <1>6, Frames DEF t

LEMMA getNextTaskType ==
  ASSUME TypeInv, NEW w \in Worker, getNextTask(w)
  PROVE  TypeInv'
<1>1. PopWork(w)
  BY DEF getNextTask
<1>2. /\ wpc' = [wpc EXCEPT ![w] = "start"] /\ cur' = [cur EXCEPT ![w] = Head(queue)]
      /\ deleteNotifier' = deleteNotifier \ {w} /\ UNCHANGED <<wres, tmp>>
  BY DEF getNextTask, Goto
<1>3. InvWorker'
  BY <1>1, <1>2, PopWorkType DEF TypeInv, InvWorker, TypeWorker, WorkerPc
<1> QED
  BY <1>1, <1>3, PopWorkType DEF TypeInv

LEMMA DropPoppedType ==
  ASSUME TypeInv, NEW w \in Worker, DropPopped(w)
  PROVE  TypeInv'
<1>1. PopWork(w) /\ UNCHANGED workerVars
  BY DEF DropPopped
<1> QED
  BY <1>1, PopWorkType, Frames DEF TypeInv

LEMMA WorkerExitType ==
  ASSUME TypeInv, NEW w \in Worker, WorkerExit(w)
  PROVE  TypeInv'
<1>1. /\ UNCHANGED taskVars /\ UNCHANGED ctrlVars /\ UNCHANGED storeVars
      /\ UNCHANGED <<exitVars, freedRead>> /\ UNCHANGED <<call, assessVars>>
      /\ UNCHANGED <<ioVars, netVars>> /\ UNCHANGED <<cur, wres, tmp, deleteNotifier>>
      /\ wpc' = [wpc EXCEPT ![w] = "exited"]
  BY DEF WorkerExit, Goto
<1>2. InvWorker'
  BY <1>1, WorkerMoves, Zenon DEF TypeInv, InvWorker, TypeWorker, WorkerPc
<1> QED
  BY <1>1, <1>2, Frames DEF TypeInv

\* delete_notification of the task a worker leaves.
LEMMA NotifierType ==
  ASSUME notifier \in [Task -> Worker \cup {Nil}], NEW w, NEW t,
         notifier' = IF w \in deleteNotifier THEN notifier
                                             ELSE [notifier EXCEPT ![t] = Nil]
  PROVE  notifier' \in [Task -> Worker \cup {Nil}]
BY Zenon

LEMMA LeaveType ==
  ASSUME TypeInv, NEW w \in Worker, UNCHANGED <<stop, work, terminate, interrupt>>,
         notifier' = IF w \in deleteNotifier THEN notifier
                                             ELSE [notifier EXCEPT ![cur[w]] = Nil]
  PROVE  TypeCtrl'
BY NotifierType, Zenon DEF TypeInv, TypeCtrl

LEMMA SkipWorkType ==
  ASSUME TypeInv, NEW w \in Worker, SkipWork(w)
  PROVE  TypeInv'
<1>1. /\ UNCHANGED taskVars /\ UNCHANGED storeVars /\ UNCHANGED <<exitVars, freedRead>>
      /\ UNCHANGED <<call, assessVars>> /\ UNCHANGED <<ioVars, netVars>>
      /\ UNCHANGED <<stop, work, terminate, interrupt>>
      /\ UNCHANGED <<cur, wres, tmp, deleteNotifier>>
      /\ wpc' = [wpc EXCEPT ![w] = "idle"]
      /\ notifier' = IF w \in deleteNotifier THEN notifier
                                             ELSE [notifier EXCEPT ![cur[w]] = Nil]
  BY DEF SkipWork, LeaveAborted, Goto
<1>2. InvWorker'
  BY <1>1, WorkerMoves, Zenon DEF TypeInv, InvWorker, TypeWorker, WorkerPc
<1> QED
  BY <1>1, <1>2, LeaveType, Frames DEF TypeInv

LEMMA StartWorkType ==
  ASSUME TypeInv, NEW w \in Worker, StartWork(w)
  PROVE  TypeInv'
<1> DEFINE pc == IF Splits(cur[w]) THEN "L" ELSE "solve"
<1>1. /\ UNCHANGED storeVars /\ UNCHANGED <<exitVars, freedRead>>
      /\ UNCHANGED <<call, assessVars>> /\ UNCHANGED <<ioVars, netVars>>
      /\ UNCHANGED <<truth, born, live, result, slot, parentPtr, childPtr>>
      /\ UNCHANGED <<stop, work, interrupt, notifier>>
      /\ UNCHANGED <<cur, wres, tmp, deleteNotifier>>
      /\ wpc[w] = "start" /\ wpc' = [wpc EXCEPT ![w] = pc]
      /\ terminate' = [terminate EXCEPT ![cur[w]] = "solver"]
      /\ state' = IF Splits(cur[w])
                    THEN [state EXCEPT ![cur[w]] = @ \cup {"SPLITTED", "WAITING_FOR_SPLITS"}]
                    ELSE state
  BY DEF StartWork, Goto, At
<1>2. cur[w] \in Task
  BY <1>1 DEF TypeInv, InvWorker
<1>3. pc \in WorkerPc /\ pc \notin {"idle", "exited"} /\ (pc \in {"L", "R"} => Splits(cur[w]))
  BY DEF WorkerPc
<1> HIDE DEF pc
<1>4. InvWorker'
  BY <1>1, <1>2, <1>3, WorkerMoves, Zenon DEF TypeInv, InvWorker, TypeWorker
<1>5. TypeTask'
  BY <1>1, <1>2, StateStep DEF TypeInv, TypeTask, Flags
<1>6. TypeCtrl'
  BY <1>1, Zenon DEF TypeInv, TypeCtrl
<1> QED
  BY <1>1, <1>4, <1>5, <1>6, Frames DEF TypeInv

\* handleSatisfyingAssignmentFound.
LEMMA AssignmentType ==
  ASSUME TypeInv, NEW t \in Task, UNCHANGED <<work, terminate, notifier, freedRead>>,
         HandleSatisfyingAssignment(t) \/ UNCHANGED <<exitVars, stop, interrupt>>
  PROVE  TypeCtrl' /\ TypeExit'
<1>1. CASE UNCHANGED <<exitVars, stop, interrupt>>
  BY <1>1 DEF TypeInv, TypeCtrl, TypeExit, exitVars
<1>2. CASE /\ assigned' = TRUE /\ exitStatus' = "SAT" /\ stopping' = TRUE
           /\ RequestExit(beingWorkedOn)
  <2>1. stop' \subseteq Task /\ interrupt' \subseteq Task
    BY <1>2, RequestExitType DEF TypeInv, TypeCtrl, TypeStore
  <2> QED
    BY <1>2, <2>1 DEF TypeInv, TypeCtrl, TypeExit, Statuses
<1> QED
  BY <1>1, <1>2, Zenon DEF HandleSatisfyingAssignment, RequestExit

LEMMA SolveType ==
  ASSUME TypeInv, NEW w \in Worker, Solve(w)
  PROVE  TypeInv'
<1>1. /\ UNCHANGED storeVars /\ UNCHANGED <<call, assessVars>>
      /\ UNCHANGED <<ioVars, netVars>>
  BY DEF Solve
<1>2. /\ UNCHANGED <<truth, born, live, result, slot, parentPtr, childPtr>>
      /\ state' = [state EXCEPT ![cur[w]] = {"DONE"}]
  BY DEF Solve
<1>3. /\ cur' = cur /\ tmp' = tmp /\ deleteNotifier' = deleteNotifier
      /\ wpc[w] = "solve" /\ wpc' = [wpc EXCEPT ![w] = "finish"]
      /\ wres' = [wres EXCEPT ![w] = truth[cur[w]]]
  BY DEF Solve, Goto, At
<1>4. cur[w] \in Task
  BY <1>3 DEF TypeInv, InvWorker
<1>5. truth[cur[w]] \in Statuses
  BY <1>4 DEF TypeInv, TypeTask, Truths, Decided, Statuses
<1>6. wres' \in [Worker -> Statuses]
  BY <1>3, <1>5 DEF TypeInv, InvWorker, TypeWorker
<1>7. InvWorker'
  BY <1>3, <1>4, <1>6, WorkerMoves, Zenon DEF TypeInv, InvWorker, TypeWorker, WorkerPc
<1>8. TypeTask'
  BY <1>2, StateType, StateStep, Zenon DEF TypeInv, TypeTask, Flags
<1>9. TypeCtrl' /\ TypeExit'
  <2>1. UNCHANGED <<work, terminate, notifier, freedRead>>
    BY DEF Solve
  <2>2. HandleSatisfyingAssignment(cur[w]) \/ UNCHANGED <<exitVars, stop, interrupt>>
    BY DEF Solve
  <2> QED
    BY <1>4, <2>1, <2>2, AssignmentType
<1> QED
  BY <1>1, <1>7, <1>8, <1>9, Frames DEF TypeInv

LEMMA SolveAbortedType ==
  ASSUME TypeInv, NEW w \in Worker, SolveAborted(w)
  PROVE  TypeInv'
<1>1. /\ UNCHANGED storeVars /\ UNCHANGED <<exitVars, freedRead>>
      /\ UNCHANGED <<call, assessVars>> /\ UNCHANGED <<ioVars, netVars>>
      /\ UNCHANGED <<truth, born, live, result, slot, parentPtr, childPtr>>
      /\ UNCHANGED <<stop, work, terminate, interrupt>>
      /\ UNCHANGED <<cur, wres, tmp, deleteNotifier>>
      /\ wpc' = [wpc EXCEPT ![w] = "idle"] /\ state' = [state EXCEPT ![cur[w]] = {"DONE"}]
      /\ notifier' = IF w \in deleteNotifier THEN notifier
                                             ELSE [notifier EXCEPT ![cur[w]] = Nil]
  BY DEF SolveAborted, LeaveAborted, Goto
<1>2. InvWorker'
  BY <1>1, WorkerMoves, Zenon DEF TypeInv, InvWorker, TypeWorker, WorkerPc
<1>3. TypeTask'
  BY <1>1, StateStep, Zenon DEF TypeInv, TypeTask, Flags
<1> QED
  BY <1>1, <1>2, <1>3, LeaveType, Frames DEF TypeInv

\* newTask adds a task and its links.
LEMMA NewTaskType ==
  ASSUME TypeInv, NEW p \in Task \cup {Nil}, NEW x \in Side, NEW t \in Task,
         newTask(p, x, t), slot' \in [Task -> [Side -> Statuses]],
         notifier' \in [Task -> Worker \cup {Nil}]
  PROVE  TypeTask' /\ TypeCtrl'
<1>1. /\ born' = born \cup {t} /\ live' = live \cup {t}
      /\ truth' = truth /\ result' = result /\ stop' = stop /\ interrupt' = interrupt
      /\ parentPtr' = [parentPtr EXCEPT ![t] = p]
      /\ work' = work \/ work' = work \cup {t}
  BY DEF newTask
<1>a. childPtr' = childPtr \/ (p # Nil /\ childPtr' = [childPtr EXCEPT ![p][x] = t])
  BY Zenon DEF newTask
<1>b. state' = IF p = Nil \/ p \notin stop THEN [state EXCEPT ![t] = {"WORK_AVAILABLE"}]
                                            ELSE state
  BY Zenon DEF newTask
<1>c. \E v \in {"null", "default"} : terminate' = [terminate EXCEPT ![t] = v]
  BY Zenon DEF newTask
<1>2. childPtr' \in [Task -> [Side -> Task \cup {Nil}]]
  <2>1. childPtr \in [Task -> [Side -> Task \cup {Nil}]]
    BY DEF TypeInv, TypeTask
  <2>2. CASE p # Nil /\ childPtr' = [childPtr EXCEPT ![p][x] = t]
    <3>1. [childPtr[p] EXCEPT ![x] = t] \in [Side -> Task \cup {Nil}]
      BY <2>1, <2>2
    <3> QED
      BY <2>1, <2>2, <3>1
  <2> QED
    BY <1>a, <2>1, <2>2
<1>3. state' \in [Task -> SUBSET Flags]
  BY <1>b, StateType DEF TypeInv, TypeTask, Flags
<1>4. parentPtr' \in [Task -> Task \cup {Nil}] /\ born' \subseteq Task /\ live' \subseteq born'
  BY <1>1 DEF TypeInv, TypeTask
<1>5. TypeTask'
  BY <1>1, <1>2, <1>3, <1>4 DEF TypeInv, TypeTask
<1>6. work' \subseteq Task /\ stop' \subseteq Task /\ interrupt' \subseteq Task
  BY <1>1 DEF TypeInv, TypeCtrl
<1>7. terminate' \in [Task -> {"null", "default", "solver"}]
  BY <1>c DEF TypeInv, TypeCtrl
<1> QED
  BY <1>5, <1>6, <1>7 DEF TypeCtrl

\* The task a worker splits has a child on the side of a split.
LEMMA KidType ==
  ASSUME TypeInv, NEW w \in Worker, NEW x \in Side, At(w, x)
  PROVE  /\ cur[w] \in Task /\ Splits(cur[w]) /\ x \in {"L", "R"}
         /\ Kid[cur[w]][x] # Nil => Kid[cur[w]][x] \in Task
<1>1. wpc[w] = x /\ x \in {"L", "R"}
  BY DEF At, Side
<1>2. cur[w] \in Task /\ Splits(cur[w])
  BY <1>1 DEF TypeInv, InvWorker
<1>3. Kid[cur[w]] \in [Side -> Task \cup {Nil}]
  BY <1>2, KidAssumption
<1> QED
  BY <1>1, <1>2, <1>3

LEMMA SplitMissingType ==
  ASSUME TypeInv, NEW w \in Worker, NEW x \in Side, SplitMissing(w, x)
  PROVE  TypeInv'
<1> DEFINE pc == IF x = "L" THEN "R" ELSE "finish"
<1>1. /\ UNCHANGED ctrlVars /\ UNCHANGED storeVars /\ UNCHANGED <<exitVars, freedRead>>
      /\ UNCHANGED <<call, assessVars>> /\ UNCHANGED <<ioVars, netVars>>
  BY DEF SplitMissing
<1>2. /\ UNCHANGED <<truth, born, live, state, result, parentPtr, childPtr>>
      /\ slot' = [slot EXCEPT ![cur[w]][x] = "UNSAT"]
  BY DEF SplitMissing
<1>3. /\ cur' = cur /\ tmp' = tmp /\ deleteNotifier' = deleteNotifier
      /\ wres' = [wres EXCEPT ![w] = "PENDING"] /\ wpc' = [wpc EXCEPT ![w] = pc]
  BY DEF SplitMissing, Goto
<1>4. cur[w] \in Task /\ Splits(cur[w])
  BY KidType DEF SplitMissing
<1>5. pc \in WorkerPc
  BY DEF WorkerPc
<1>6. TypeTask'
  BY <1>2, Zenon DEF TypeInv, TypeTask, Statuses
<1> HIDE DEF pc
<1>7. InvWorker'
  BY <1>3, <1>4, <1>5, WorkerMoves, Zenon DEF TypeInv, InvWorker, TypeWorker, Statuses
<1> QED
  BY <1>1, <1>6, <1>7, Frames DEF TypeInv

LEMMA SplitType ==
  ASSUME TypeInv, NEW w \in Worker, NEW x \in Side, Split(w, x)
  PROVE  TypeInv'
<1> DEFINE pc == IF x = "L" THEN "R" ELSE "finish"
           k  == Kid[cur[w]][x]
<1>1. /\ UNCHANGED storeVars /\ UNCHANGED <<exitVars, freedRead>>
      /\ UNCHANGED <<ioVars, netVars>> /\ UNCHANGED assessVars
  BY DEF Split
<1>2. /\ newTask(cur[w], x, k) /\ k # Nil /\ notifier' = notifier
      /\ slot' = [slot EXCEPT ![cur[w]][x] = "PENDING"]
  BY DEF Split
<1>3. /\ cur' = cur /\ tmp' = tmp /\ deleteNotifier' = deleteNotifier
      /\ wres' = [wres EXCEPT ![w] = "PENDING"] /\ wpc' = [wpc EXCEPT ![w] = pc]
  BY DEF Split, Goto
<1>4. call[w] = Nil /\ call' = [call EXCEPT ![w] = k] /\ w \in Thread
  BY DEF Split, At, Thread
<1>5. cur[w] \in Task /\ Splits(cur[w]) /\ k \in Task
  BY KidType DEF Split
<1>6. pc \in WorkerPc
  BY DEF WorkerPc
<1> HIDE DEF pc, k
<1>7. TypeTask' /\ TypeCtrl'
  <2>1. slot' \in [Task -> [Side -> Statuses]]
    BY <1>2, Zenon DEF TypeInv, TypeTask, Statuses
  <2>2. notifier' \in [Task -> Worker \cup {Nil}]
    BY <1>2 DEF TypeInv, TypeCtrl
  <2> QED
    BY <1>2, <1>5, <2>1, <2>2, NewTaskType
<1>8. InvWorker'
  BY <1>3, <1>5, <1>6, WorkerMoves, Zenon DEF TypeInv, InvWorker, TypeWorker, Statuses
<1>9. InvAssess'
  BY <1>1, <1>4, <1>5, CallStep, Zenon DEF TypeInv
<1> QED
  BY <1>1, <1>7, <1>8, <1>9, Frames DEF TypeInv

LEMMA SplitStoppedType ==
  ASSUME TypeInv, NEW w \in Worker, NEW x \in Side, SplitStopped(w, x)
  PROVE  TypeInv'
<1> DEFINE k == Kid[cur[w]][x]
<1>1. /\ UNCHANGED storeVars /\ UNCHANGED <<exitVars, freedRead>>
      /\ UNCHANGED <<ioVars, netVars>> /\ UNCHANGED <<call, assessVars>>
  BY DEF SplitStopped
<1>2. /\ newTask(cur[w], x, k) /\ k # Nil /\ slot' = slot
      /\ notifier' = IF w \in deleteNotifier THEN notifier
                                             ELSE [notifier EXCEPT ![cur[w]] = Nil]
  BY DEF SplitStopped, LeaveAborted
<1>3. /\ cur' = cur /\ tmp' = tmp /\ deleteNotifier' = deleteNotifier
      /\ wres' = wres /\ wpc' = [wpc EXCEPT ![w] = "idle"]
  BY DEF SplitStopped, LeaveAborted, Goto
<1>4. cur[w] \in Task /\ k \in Task
  BY KidType DEF SplitStopped
<1> HIDE DEF k
<1>5. TypeTask' /\ TypeCtrl'
  <2>1. slot' \in [Task -> [Side -> Statuses]]
    BY <1>2 DEF TypeInv, TypeTask
  <2>2. notifier' \in [Task -> Worker \cup {Nil}]
    <3>1. notifier' = IF w \in deleteNotifier THEN notifier
                                              ELSE [notifier EXCEPT ![cur[w]] = Nil]
      BY <1>2
    <3> QED
      BY <3>1, NotifierType, Zenon DEF TypeInv, TypeCtrl
  <2> QED
    BY <1>2, <1>4, <2>1, <2>2, NewTaskType
<1>6. InvWorker'
  BY <1>3, WorkerMoves, Zenon DEF TypeInv, InvWorker, TypeWorker, WorkerPc
<1> QED
  BY <1>1, <1>5, <1>6, Frames DEF TypeInv

LEMMA FinishReadType ==
  ASSUME TypeInv, NEW w \in Worker, FinishRead(w)
  PROVE  TypeInv'
<1>1. /\ UNCHANGED ctrlVars /\ UNCHANGED storeVars /\ UNCHANGED <<exitVars, freedRead>>
      /\ UNCHANGED <<call, assessVars>> /\ UNCHANGED <<ioVars, netVars>>
  BY DEF FinishRead
<1>2. /\ UNCHANGED <<truth, born, live, state, slot, parentPtr, childPtr>>
      /\ result' = result \/ result' = [result EXCEPT ![cur[w]] = wres[w]]
  BY DEF FinishRead
<1>3. cur' = cur /\ wres' = wres /\ deleteNotifier' = deleteNotifier /\ wpc[w] = "finish"
  BY DEF FinishRead, At
<1>4. \/ wpc' = [wpc EXCEPT ![w] = "idle"] /\ tmp' = tmp
      \/ wpc' = [wpc EXCEPT ![w] = "write"] /\ tmp' = [tmp EXCEPT ![w] = state[cur[w]]]
  BY DEF FinishRead, Goto
<1>5. cur[w] \in Task /\ wres[w] \in Statuses
  BY <1>3 DEF TypeInv, InvWorker, TypeWorker
<1>6. TypeTask'
  BY <1>2, <1>5 DEF TypeInv, TypeTask
<1>7. state[cur[w]] \in SUBSET Flags
  BY <1>5 DEF TypeInv, TypeTask
<1>8. tmp' \in [Worker -> SUBSET Flags]
  BY <1>4, <1>7 DEF TypeInv, InvWorker, TypeWorker
<1>9. InvWorker'
  BY <1>3, <1>4, <1>5, <1>8, WorkerMoves, Zenon DEF TypeInv, InvWorker, TypeWorker, WorkerPc
<1> QED
  BY <1>1, <1>6, <1>9, Frames DEF TypeInv

LEMMA FinishWriteType ==
  ASSUME TypeInv, NEW w \in Worker, FinishWrite(w)
  PROVE  TypeInv'
<1>1. /\ UNCHANGED ctrlVars /\ UNCHANGED storeVars /\ UNCHANGED <<exitVars, freedRead>>
      /\ UNCHANGED <<call, assessVars>> /\ UNCHANGED <<ioVars, netVars>>
  BY DEF FinishWrite
<1>2. /\ UNCHANGED <<truth, born, live, result, slot, parentPtr, childPtr>>
      /\ state' = [state EXCEPT ![cur[w]] = (tmp[w] \ {"WORKING"}) \cup {"DONE"}]
  BY DEF FinishWrite
<1>3. /\ cur' = cur /\ wres' = wres /\ tmp' = tmp /\ deleteNotifier' = deleteNotifier
      /\ wpc' = [wpc EXCEPT ![w] = "notifier"] /\ wpc[w] = "write"
  BY DEF FinishWrite, At, Goto
<1>4. (tmp[w] \ {"WORKING"}) \cup {"DONE"} \in SUBSET Flags
  BY DEF TypeInv, InvWorker, TypeWorker, Flags
<1>5. TypeTask'
  BY <1>2, <1>4, StateType, StateStep, Zenon DEF TypeInv, TypeTask
<1>6. InvWorker'
  BY <1>3, WorkerMoves, Zenon DEF TypeInv, InvWorker, TypeWorker, WorkerPc
<1> QED
  BY <1>1, <1>5, <1>6, Frames DEF TypeInv

LEMMA ClearNotifierType ==
  ASSUME TypeInv, NEW w \in Worker, ClearNotifier(w)
  PROVE  TypeInv'
<1>1. /\ UNCHANGED taskVars /\ UNCHANGED storeVars /\ UNCHANGED <<exitVars, freedRead>>
      /\ UNCHANGED <<call, assessVars>> /\ UNCHANGED <<ioVars, netVars>>
  BY DEF ClearNotifier
<1>2. /\ UNCHANGED <<stop, work, terminate, interrupt>>
      /\ notifier' = IF w \in deleteNotifier THEN notifier
                                             ELSE [notifier EXCEPT ![cur[w]] = Nil]
  BY DEF ClearNotifier
<1>3. /\ cur' = cur /\ wres' = wres /\ tmp' = tmp /\ deleteNotifier' = deleteNotifier
      /\ wpc[w] = "notifier"
      /\ wpc' = [wpc EXCEPT ![w] = "idle"] \/ wpc' = [wpc EXCEPT ![w] = "check"]
  BY Zenon DEF ClearNotifier, At, Goto
<1>4. TypeCtrl'
  BY <1>2, LeaveType
<1>5. InvWorker'
  BY <1>3, WorkerMoves, Zenon DEF TypeInv, InvWorker, TypeWorker, WorkerPc
<1> QED
  BY <1>1, <1>4, <1>5, Frames DEF TypeInv

LEMMA FinalCheckType ==
  ASSUME TypeInv, NEW w \in Worker, FinalCheck(w)
  PROVE  TypeInv'
<1>1. /\ UNCHANGED taskVars /\ UNCHANGED ctrlVars /\ UNCHANGED storeVars
      /\ UNCHANGED <<ioVars, netVars>>
  BY DEF FinalCheck
<1>2. exitVars' = exitVars /\ freedRead' = (freedRead \/ cur[w] \notin live)
  BY DEF FinalCheck
<1>3. /\ cur' = cur /\ wres' = wres /\ tmp' = tmp /\ deleteNotifier' = deleteNotifier
      /\ wpc[w] = "check" /\ wpc' = [wpc EXCEPT ![w] = "idle"]
  BY DEF FinalCheck, At, Goto
<1>4. /\ UNCHANGED assessVars /\ call[w] = Nil /\ w \in Thread
      /\ call' = call \/ call' = [call EXCEPT ![w] = cur[w]]
  BY DEF FinalCheck, At, Thread
<1>5. cur[w] \in Task
  BY <1>3 DEF TypeInv, InvWorker
<1>6. TypeExit'
  BY <1>2 DEF TypeInv, TypeExit, exitVars
<1>7. InvWorker'
  BY <1>3, WorkerMoves, Zenon DEF TypeInv, InvWorker, TypeWorker, WorkerPc
<1>8. InvAssess'
  <2>1. CASE call' = call
    BY <1>4, <2>1, Frames
  <2>2. CASE call' = [call EXCEPT ![w] = cur[w]]
    BY <1>4, <1>5, <2>2, CallStep, Zenon DEF TypeInv
  <2> QED
    BY <1>4, <2>1, <2>2
<1> QED
  BY <1>1, <1>6, <1>7, <1>8, Frames DEF TypeInv

LEMMA WorkerTypeInv ==
  ASSUME TypeInv, NEW w \in Worker, WorkerStep(w)
  PROVE  TypeInv'
BY getNextTaskType, DropPoppedType, WorkerExitType, SkipWorkType, StartWorkType, SolveType,
   SolveAbortedType, SplitMissingType, SplitType, SplitStoppedType, FinishReadType,
   FinishWriteType, ClearNotifierType, FinalCheckType, Zenon DEF WorkerStep

=============================================================================
