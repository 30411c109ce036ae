------------------------------ MODULE TaskStore ------------------------------
(***************************************************************************)
(* The broker's task store (modules/broker/broker_task_store.cpp) together *)
(* with the threads that drive it: the workers of the runner               *)
(* (modules/runner/runner_worker.cpp) executing CNF SolverTasks            *)
(* (modules/solver/solver_task.cpp, no resplitting) and the communicator   *)
(* thread Io that delivers tasks, results, message failures and dropped    *)
(* connections.                                                            *)
(*                                                                         *)
(* The store is a set of tasks with a queue ordered by parac_task_compare, *)
(* the set of tasks being worked on, the tasks waiting for their children  *)
(* and the tasks offloaded to each peer.  containerMutex and assessMutex   *)
(* are modelled: a critical section of containerMutex is one step (or      *)
(* excludes the other users of the containers), assess_task holds          *)
(* assessMutex from its first read to the end of its upward cascade.       *)
(* Everything the code does to a task outside these locks is a step of its *)
(* own, and the read-modify-write of a task's state on each side is two.   *)
(***************************************************************************)
EXTENDS Integers, Sequences, FiniteSets, TaskAssess

CONSTANTS Task,        \* the nodes of the cube trees
          Worker,      \* worker threads
          Node,        \* peers tasks are offloaded to or received from
          Helper,      \* the peers that announced workers
          Io,          \* the communicator's thread
          Nil,         \* a null pointer
          Kid,         \* Kid[t][side]: the child a split of t has there, or Nil
          Depth,       \* path length
          From,        \* From[t]: received_from of an entry task, else Nil
          LocalRoot,   \* the root task of the local formula, Nil on a daemon
          Originated   \* tasks whose originator is this node

Side == {"L", "R"}

Thread == Worker \cup {Io}

KidsOf(t) == {Kid[t][x] : x \in Side} \ {Nil}

\* Whether the cube source splits t; otherwise t is solved.
Splits(t) == KidsOf(t) # {}

\* Tasks that are created without a local parent.
Entries == {t \in Task : \A p \in Task : t \notin KidsOf(p)}

ASSUME NilAssumption ==
  /\ Nil \notin Task \cup Worker \cup Node \cup {Io}
  /\ Io \notin Worker
  /\ Helper \subseteq Node

ASSUME KidAssumption ==
  /\ Kid \in [Task -> [Side -> Task \cup {Nil}]]
  /\ Depth \in [Task -> Nat]
  /\ \A t \in Task : \A k \in KidsOf(t) : Depth[k] > Depth[t]
  /\ \A t, u \in Task : \A x, y \in Side :
       Kid[t][x] = Kid[u][y] /\ Kid[t][x] # Nil => t = u /\ x = y

ASSUME EntryAssumption ==
  /\ From \in [Task -> Node \cup {Nil}]
  /\ \A t \in Task : From[t] # Nil => t \in Entries
  /\ LocalRoot # Nil => LocalRoot \in Entries \cap Originated /\ From[LocalRoot] = Nil
  /\ Originated \subseteq Task
  /\ LocalRoot = Nil => Originated = {}

(***************************************************************************)
(* What the solvers would answer: satisfiable under the task's cube or     *)
(* not.  A split covers its parent (a missing side is unsatisfiable), and  *)
(* an assignment found below any cube of the local formula satisfies it.   *)
(***************************************************************************)
Truths ==
  {f \in [Task -> Decided] :
     /\ \A t \in Task : Splits(t) =>
          (f[t] = "SAT" <=> \E k \in KidsOf(t) : f[k] = "SAT")
     /\ \A t \in Originated : f[t] = "SAT" => f[LocalRoot] = "SAT"}

VARIABLES
  truth,         \* the answer of every cube, fixed
  born, live,    \* tasks ever created; tasks in the store's list
  state, result, \* parac_task: state (a set of flags), result
  slot,          \* left_result and right_result
  parentPtr,     \* parent_task_
  childPtr,      \* left_child_ and right_child_
  stop, work,    \* the tasks with stop set; with a non-null work pointer
  terminate,     \* "null", "default" (the store's) or "solver" (SolverTask's)
  interrupt,     \* the tasks activeHandle->terminate() was called for
  notifier,      \* delete_notification: the worker whose flag it points to
  queue,         \* tasksWaitingForWorkerQueue
  beingWorkedOn, waitingForChildren, offloaded, lastWaiting,
  workQueueSize, \* the local node's work queue counter
  exitStatus,    \* handle.exit_status
  stopping,      \* request_exit was called: the runner stops
  assigned,      \* SatHandler holds an assignment
  notices,       \* TASK_RESULT messages sent for a received task
  wpc, cur, wres, tmp,                  \* a worker's position and locals
  deleteNotifier,                       \* the workers whose flag is set
  call,          \* the task a thread is calling assess_task for
  assessor, phase, snap,                \* assessMutex and the value s
  ioPc, ioNode, ioTodo, ioTask,         \* a dropped connection being handled
  unacked, dropped,                     \* task messages in flight, dead peers
  freedRead      \* a task was accessed after it was removed

taskVars   == <<truth, born, live, state, result, slot, parentPtr, childPtr>>
ctrlVars   == <<stop, work, terminate, interrupt, notifier>>
storeVars  == <<queue, beingWorkedOn, waitingForChildren, offloaded, lastWaiting,
                workQueueSize>>
exitVars   == <<exitStatus, stopping, assigned>>
workerVars == <<wpc, cur, wres, tmp, deleteNotifier>>
assessVars == <<assessor, phase, snap>>
ioVars     == <<ioPc, ioNode, ioTodo, ioTask>>
netVars    == <<unacked, dropped, notices>>
vars == <<taskVars, ctrlVars, storeVars, exitVars, workerVars, call, assessVars,
          ioVars, netVars, freedRead>>

NoSlots == [x \in Side |-> "PENDING"]

Init ==
  /\ truth \in Truths
  /\ born = {} /\ live = {}
  /\ state = [t \in Task |-> {}]
  /\ result = [t \in Task |-> "PENDING"]
  /\ slot = [t \in Task |-> NoSlots]
  /\ parentPtr = [t \in Task |-> Nil]
  /\ childPtr = [t \in Task |-> [x \in Side |-> Nil]]
  /\ stop = {} /\ work = {} /\ interrupt = {}
  /\ terminate = [t \in Task |-> "null"]
  /\ notifier = [t \in Task |-> Nil]
  /\ queue = <<>>
  /\ beingWorkedOn = {} /\ waitingForChildren = {} /\ lastWaiting = {}
  /\ offloaded = [n \in Node |-> {}]
  /\ workQueueSize = 0
  /\ exitStatus = "UNDEFINED" /\ stopping = FALSE /\ assigned = FALSE
  /\ notices = [t \in Task |-> 0]
  /\ wpc = [w \in Worker |-> "idle"]
  /\ cur = [w \in Worker |-> Nil]
  /\ wres = [w \in Worker |-> "PENDING"]
  /\ tmp = [w \in Worker |-> {}]
  /\ deleteNotifier = {}
  /\ call = [h \in Thread |-> Nil]
  /\ assessor = Nil /\ phase = "read" /\ snap = {}
  /\ ioPc = "idle" /\ ioNode = Nil /\ ioTodo = {} /\ ioTask = Nil
  /\ unacked = [n \in Node |-> {}]
  /\ dropped = {}
  /\ freedRead = FALSE

(***************************************************************************)
(* Nothing is said about what the program does after it used a task that   *)
(* has been freed: the behaviour ends there.                               *)
(***************************************************************************)
Defined == ~freedRead

\* undoAllOffloadsTo holds containerMutex over its whole loop.
ContainerFree == ioPc # "undo"

\* A worker executes only while it is not inside a call of assess_task.
At(w, pc) == Defined /\ wpc[w] = pc /\ call[w] = Nil

\* The communicator thread is ready for the next event.
IoIdle == Defined /\ ioPc = "idle" /\ call[Io] = Nil

Goto(w, pc) == wpc' = [wpc EXCEPT ![w] = pc]

\* A worker inside SolverTask::work, so that m_activeHandle is set.
Active(t) == \E w \in Worker : cur[w] = t /\ wpc[w] \in {"L", "R", "solve"}

\* Faulty variant: the counter of the local node is not told.
Enqueue_Uncounted(t) == queue' = Append(queue, t) /\ UNCHANGED workQueueSize

(***************************************************************************)
(* insert_into_tasksWaitingForWorkerQueue: the list stays sorted by        *)
(* parac_task_compare, longer paths first; lower_bound puts a task before  *)
(* the tasks it is equivalent to.                                          *)
(***************************************************************************)
Enqueue(t) ==
  /\ \E i \in 1..Len(queue)+1 :
       /\ \A j \in 1..i-1 : Depth[queue[j]] > Depth[t]
       /\ i <= Len(queue) => Depth[queue[i]] <= Depth[t]
       /\ queue' = [j \in 1..Len(queue)+1 |->
                      IF j < i THEN queue[j] ELSE IF j = i THEN t ELSE queue[j-1]]
  /\ workQueueSize' = workQueueSize + 1

\* Faulty variant: the entry before the i-th is erased.
QueueWithout_OffByOne(i) ==
  [j \in 1..Len(queue)-1 |-> IF j < i-1 THEN queue[j] ELSE queue[j+1]]

\* The queue after its i-th entry is erased.
QueueWithout(i) ==
  [j \in 1..Len(queue)-1 |-> IF j < i THEN queue[j] ELSE queue[j+1]]

(***************************************************************************)
(* newTask below parent p on the given side, followed by SolverTask::init  *)
(* when the store hands the task out.  A stopped parent gets no child, but *)
(* the list entry and the parent's pointer to it stay.                     *)
(***************************************************************************)
newTask(p, x, t) ==
  /\ born' = born \cup {t}
  /\ live' = live \cup {t}
  /\ parentPtr' = [parentPtr EXCEPT ![t] = p]
  /\ childPtr' = IF p = Nil THEN childPtr ELSE [childPtr EXCEPT ![p][x] = t]
  /\ LET handedOut == p = Nil \/ p \notin stop
     IN  /\ state' = IF handedOut THEN [state EXCEPT ![t] = {"WORK_AVAILABLE"}] ELSE state
         /\ work' = IF handedOut THEN work \cup {t} ELSE work
         /\ terminate' = [terminate EXCEPT ![t] = IF handedOut THEN "default" ELSE "null"]
  /\ UNCHANGED <<truth, result, stop, interrupt>>

(***************************************************************************)
(* request_exit as far as it concerns the store: terminateAllTasks stops   *)
(* every queued and running task and interrupts the running solvers.       *)
(***************************************************************************)
RequestExit(running) ==
  LET hit == running \cup {queue[i] : i \in 1..Len(queue)}
  IN  /\ stopping' = TRUE
      /\ stop' = stop \cup hit
      /\ interrupt' = interrupt \cup
                       {t \in running : terminate[t] = "solver" /\ Active(t)}

\* Faulty variant: a second assignment of the formula takes the answer back.
HandleSatisfyingAssignment_TakesBack(t) ==
  IF t \in Originated
    THEN /\ assigned' = TRUE
         /\ exitStatus' = IF assigned THEN "ABORTED" ELSE "SAT"
         /\ RequestExit(beingWorkedOn)
    ELSE UNCHANGED <<exitVars, stop, interrupt>>

\* SatHandler::handleSatisfyingAssignmentFound for an assignment of task t:
\* the first one of a local formula ends the program, one of a received
\* formula is sent to its originator.
HandleSatisfyingAssignment(t) ==
  IF t \in Originated /\ ~assigned
    THEN /\ assigned' = TRUE
         /\ exitStatus' = "SAT"
         /\ RequestExit(beingWorkedOn)
    ELSE UNCHANGED <<exitVars, stop, interrupt>>

(***************************************************************************)
(* Entry tasks: the root of the local formula, and tasks received from a   *)
(* peer in a SOLVER_TASK message.                                          *)
(***************************************************************************)
CreateEntry(t) ==
  /\ t \in Entries \ born
  /\ t = LocalRoot \/ From[t] \in Node \ dropped
  /\ IoIdle
  /\ newTask(Nil, "L", t)
  /\ call' = [call EXCEPT ![Io] = t]
  /\ UNCHANGED <<slot, notifier, storeVars, exitVars, workerVars, assessVars, ioVars, netVars,
                 freedRead>>

-----------------------------------------------------------------------------
\* Faulty variant: the task handed out is not taken from the queue.
PopWork_StaysQueued(w) ==
  /\ queue # <<>> /\ ContainerFree
  /\ LET t == Head(queue)
     IN  /\ beingWorkedOn' = beingWorkedOn \cup {t}
         /\ state' = [state EXCEPT ![t] = (@ \ {"WORK_AVAILABLE"}) \cup {"WORKING"}]
         /\ notifier' = [notifier EXCEPT ![t] = w]
  /\ UNCHANGED <<truth, born, live, result, slot, parentPtr, childPtr, stop, work, queue,
                 terminate, interrupt, waitingForChildren, offloaded, lastWaiting,
                 workQueueSize, exitVars, call, assessVars, ioVars, netVars, freedRead>>

(***************************************************************************)
(* Worker::run.                                                            *)
(***************************************************************************)
PopWork(w) ==
  /\ queue # <<>> /\ ContainerFree
  /\ queue' = Tail(queue)
  /\ LET t == Head(queue)
     IN  /\ beingWorkedOn' = beingWorkedOn \cup {t}
         /\ state' = [state EXCEPT ![t] = (@ \ {"WORK_AVAILABLE"}) \cup {"WORKING"}]
         /\ notifier' = [notifier EXCEPT ![t] = w]
  /\ UNCHANGED <<truth, born, live, result, slot, parentPtr, childPtr, stop, work,
                 terminate, interrupt, waitingForChildren, offloaded, lastWaiting,
                 workQueueSize, exitVars, call, assessVars, ioVars, netVars, freedRead>>

getNextTask(w) ==
  /\ At(w, "idle")
  /\ PopWork(w)
  /\ cur' = [cur EXCEPT ![w] = Head(queue)]
  /\ deleteNotifier' = deleteNotifier \ {w}
  /\ Goto(w, "start")
  /\ UNCHANGED <<wres, tmp>>

\* A task popped after waking up is forgotten when it or the runner stops.
DropPopped(w) ==
  /\ At(w, "idle")
  /\ PopWork(w)
  /\ stopping \/ Head(queue) \in stop
  /\ UNCHANGED workerVars

WorkerExit(w) ==
  /\ At(w, "idle") /\ stopping
  /\ Goto(w, "exited")
  /\ UNCHANGED <<taskVars, ctrlVars, storeVars, exitVars, cur, wres, tmp, deleteNotifier,
                 call, assessVars, ioVars, netVars, freedRead>>

\* work() returned ABORTED or was not called: the task is left as it is.
LeaveAborted(w) ==
  /\ Goto(w, "idle")
  /\ notifier' = IF w \in deleteNotifier THEN notifier
                                      ELSE [notifier EXCEPT ![cur[w]] = Nil]

SkipWork(w) ==
  /\ At(w, "start")
  /\ cur[w] \notin work \/ w \in deleteNotifier
  /\ LeaveAborted(w)
  /\ UNCHANGED <<taskVars, stop, work, terminate, interrupt, storeVars, exitVars, cur,
                 wres, tmp, deleteNotifier, call, assessVars, ioVars, netVars, freedRead>>

\* SolverTask::work up to the answer of the cube source.
StartWork(w) ==
  /\ At(w, "start")
  /\ cur[w] \in work /\ w \notin deleteNotifier
  /\ LET t == cur[w]
     IN  /\ terminate' = [terminate EXCEPT ![t] = "solver"]
         /\ state' = IF Splits(t)
                       THEN [state EXCEPT ![t] = @ \cup {"SPLITTED", "WAITING_FOR_SPLITS"}]
                       ELSE state
         /\ Goto(w, IF Splits(t) THEN "L" ELSE "solve")
  /\ UNCHANGED <<truth, born, live, result, slot, parentPtr, childPtr, stop, work,
                 interrupt, notifier, storeVars, exitVars, cur, wres, tmp, deleteNotifier,
                 call, assessVars, ioVars, netVars, freedRead>>

\* Faulty variant: nothing is recorded for the side.
SplitMissing_Unrecorded(w, x) ==
  /\ At(w, x) /\ Kid[cur[w]][x] = Nil
  /\ wres' = [wres EXCEPT ![w] = "PENDING"]
  /\ Goto(w, IF x = "L" THEN "R" ELSE "finish")
  /\ UNCHANGED <<taskVars, ctrlVars, storeVars, exitVars, cur, tmp, deleteNotifier, call,
                 assessVars, ioVars, netVars, freedRead>>

\* The side of a split the cube source does not have counts as UNSAT.
SplitMissing(w, x) ==
  /\ At(w, x) /\ Kid[cur[w]][x] = Nil
  /\ slot' = [slot EXCEPT ![cur[w]][x] = "UNSAT"]
  /\ wres' = [wres EXCEPT ![w] = "PENDING"]
  /\ Goto(w, IF x = "L" THEN "R" ELSE "finish")
  /\ UNCHANGED <<truth, born, live, state, result, parentPtr, childPtr, ctrlVars,
                 storeVars, exitVars, cur, tmp, deleteNotifier, call, assessVars, ioVars,
                 netVars, freedRead>>

Split(w, x) ==
  LET t == cur[w]
      k == Kid[t][x]
  IN  /\ At(w, x) /\ k # Nil
      /\ t \notin stop /\ ContainerFree
      /\ newTask(t, x, k)
      /\ slot' = [slot EXCEPT ![t][x] = "PENDING"]
      /\ wres' = [wres EXCEPT ![w] = "PENDING"]
      /\ call' = [call EXCEPT ![w] = k]
      /\ Goto(w, IF x = "L" THEN "R" ELSE "finish")
      /\ UNCHANGED <<notifier, storeVars, exitVars, cur, tmp, deleteNotifier, assessVars,
                     ioVars, netVars, freedRead>>

\* new_task returned null because the task was stopped: work() gives up.
SplitStopped(w, x) ==
  LET t == cur[w]
      k == Kid[t][x]
  IN  /\ At(w, x) /\ k # Nil
      /\ t \in stop /\ ContainerFree
      /\ newTask(t, x, k)
      /\ LeaveAborted(w)
      /\ UNCHANGED <<slot, storeVars, exitVars, cur, wres, tmp, deleteNotifier, call,
                     assessVars, ioVars, netVars, freedRead>>

\* The solver answers.
Solve(w) ==
  /\ At(w, "solve") /\ ContainerFree
  /\ LET t == cur[w]
     IN  /\ state' = [state EXCEPT ![t] = {"DONE"}]
         /\ wres' = [wres EXCEPT ![w] = truth[t]]
         /\ IF truth[t] = "SAT" THEN HandleSatisfyingAssignment(t)
                                ELSE UNCHANGED <<exitVars, stop, interrupt>>
  /\ Goto(w, "finish")
  /\ UNCHANGED <<truth, born, live, result, slot, parentPtr, childPtr, work, terminate,
                 notifier, storeVars, cur, tmp, deleteNotifier, call, assessVars, ioVars,
                 netVars, freedRead>>

\* The task was stopped before or interrupted during solving.
SolveAborted(w) ==
  /\ At(w, "solve")
  /\ cur[w] \in stop \cup interrupt
  /\ state' = [state EXCEPT ![cur[w]] = {"DONE"}]
  /\ LeaveAborted(w)
  /\ UNCHANGED <<truth, born, live, result, slot, parentPtr, childPtr, stop, work,
                 terminate, interrupt, storeVars, exitVars, cur, wres, tmp,
                 deleteNotifier, call, assessVars, ioVars, netVars, freedRead>>

\* The result is stored if none is there yet; then the state is read ...
FinishRead(w) ==
  /\ At(w, "finish")
  /\ LET t == cur[w]
     IN  IF w \in deleteNotifier
           THEN Goto(w, "idle") /\ UNCHANGED <<result, tmp>>
           ELSE /\ result' = IF wres[w] # "PENDING" /\ result[t] = "PENDING"
                               THEN [result EXCEPT ![t] = wres[w]] ELSE result
                /\ tmp' = [tmp EXCEPT ![w] = state[t]]
                /\ Goto(w, "write")
  /\ UNCHANGED <<truth, born, live, state, slot, parentPtr, childPtr, ctrlVars, storeVars,
                 exitVars, cur, wres, deleteNotifier, call, assessVars, ioVars, netVars,
                 freedRead>>

\* ... and written back without WORKING and with DONE.
FinishWrite(w) ==
  /\ At(w, "write")
  /\ state' = [state EXCEPT ![cur[w]] = (tmp[w] \ {"WORKING"}) \cup {"DONE"}]
  /\ Goto(w, "notifier")
  /\ UNCHANGED <<truth, born, live, result, slot, parentPtr, childPtr, ctrlVars, storeVars,
                 exitVars, cur, wres, tmp, deleteNotifier, call, assessVars, ioVars,
                 netVars, freedRead>>

ClearNotifier(w) ==
  /\ At(w, "notifier")
  /\ notifier' = IF w \in deleteNotifier THEN notifier
                                      ELSE [notifier EXCEPT ![cur[w]] = Nil]
  /\ Goto(w, IF w \in deleteNotifier THEN "idle" ELSE "check")
  /\ UNCHANGED <<taskVars, stop, work, terminate, interrupt, storeVars, exitVars, cur,
                 wres, tmp, deleteNotifier, call, assessVars, ioVars, netVars, freedRead>>

\* Faulty variant: the task is assessed only if it was split.
FinalCheck_Inverted(w) ==
  /\ At(w, "check")
  /\ Goto(w, "idle")
  /\ freedRead' = (freedRead \/ cur[w] \notin live)
  /\ call' = IF cur[w] \in live /\ "SPLITTED" \in state[cur[w]]
               THEN [call EXCEPT ![w] = cur[w]] ELSE call
  /\ UNCHANGED <<taskVars, ctrlVars, storeVars, exitVars, cur, wres, tmp, deleteNotifier,
                 assessVars, ioVars, netVars>>

\* The last look at the task: only an unsplit one is assessed.
FinalCheck(w) ==
  /\ At(w, "check")
  /\ Goto(w, "idle")
  /\ freedRead' = (freedRead \/ cur[w] \notin live)
  /\ call' = IF cur[w] \in live /\ "SPLITTED" \notin state[cur[w]]
               THEN [call EXCEPT ![w] = cur[w]] ELSE call
  /\ UNCHANGED <<taskVars, ctrlVars, storeVars, exitVars, cur, wres, tmp, deleteNotifier,
                 assessVars, ioVars, netVars>>

-----------------------------------------------------------------------------
(***************************************************************************)
(* assess_task: the task's assess function is applied to what is read ...  *)
(***************************************************************************)
AssessRead(h) ==
  /\ Defined /\ call[h] # Nil
  /\ phase = "read" /\ assessor \in {Nil, h}
  /\ LET t == call[h]
         a == parac_task_default_assess(state[t], slot[t], result[t], From[t] # Nil)
     IN  /\ result' = [result EXCEPT ![t] = a.result]
         /\ snap' = a.state
         /\ notices' = [notices EXCEPT ![t] = IF a.send THEN @ + 1 ELSE @]
  /\ assessor' = h /\ phase' = "write"
  /\ UNCHANGED <<truth, born, live, state, slot, parentPtr, childPtr, ctrlVars, storeVars,
                 exitVars, workerVars, call, ioVars, unacked, dropped, freedRead>>

\* abort_tasks_received_from assesses without removing the task.
Removes(h) == ~(h = Io /\ ioPc = "abort")

\* Faulty variants of remove(): a null delete_notification is written to; the
\* parent keeps its pointer to the task; the children keep theirs.
remove_NullNotifier(t) ==
  /\ live' = live \ {t}
  /\ deleteNotifier' = deleteNotifier \cup {notifier[t]}
  /\ UNCHANGED <<parentPtr, childPtr>>

remove_KeepsChildLink(t) ==
  /\ live' = live \ {t}
  /\ parentPtr' = [u \in Task |-> IF u \in {childPtr[t][x] : x \in Side} THEN Nil
                                                                       ELSE parentPtr[u]]
  /\ deleteNotifier' = deleteNotifier \cup {w \in Worker : notifier[t] = w}
  /\ UNCHANGED childPtr

remove_KeepsParentLink(t) ==
  /\ live' = live \ {t}
  /\ childPtr' = [u \in Task |-> [x \in Side |->
                    IF childPtr[u][x] = t THEN Nil ELSE childPtr[u][x]]]
  /\ deleteNotifier' = deleteNotifier \cup {w \in Worker : notifier[t] = w}
  /\ UNCHANGED parentPtr

\* remove(): unlink the task from its children and its parent, then free it.
remove(t) ==
  /\ live' = live \ {t}
  /\ parentPtr' = [u \in Task |-> IF u \in {childPtr[t][x] : x \in Side} THEN Nil
                                                                       ELSE parentPtr[u]]
  /\ childPtr' = [u \in Task |-> [x \in Side |->
                    IF parentPtr[t] = u /\ From[t] = Nil /\ childPtr[u][x] = t
                      THEN Nil ELSE childPtr[u][x]]]
  /\ deleteNotifier' = deleteNotifier \cup {w \in Worker : notifier[t] = w}

\* The result reaches the slot of the parent, which is assessed next.
RecordInParent(h, t) ==
  LET p == IF From[t] = Nil THEN parentPtr[t] ELSE Nil
  IN  /\ slot' = IF p = Nil THEN slot
                 ELSE [slot EXCEPT ![p] = [x \in Side |-> IF Kid[p][x] = t THEN result[t]
                                                                          ELSE @[x]]]
      /\ call' = [call EXCEPT ![h] = p]
      /\ phase' = "read"
      /\ assessor' = IF p = Nil THEN Nil ELSE h

\* ... and a task that is done leaves the store; its parent is next.
AssessDone(h) ==
  LET t == call[h]
  IN  /\ Defined /\ assessor = h /\ phase = "write"
      /\ ContainerFree
      /\ parac_task_state_is_done(snap)
      /\ state' = [state EXCEPT ![t] = snap]
      /\ workQueueSize' = IF "OFFLOADED" \in snap THEN workQueueSize ELSE workQueueSize - 1
      /\ beingWorkedOn' = beingWorkedOn \ {t}
      /\ IF t = LocalRoot /\ result[t] # "ABORTED" /\ exitStatus = "UNDEFINED"
           THEN exitStatus' = result[t] /\ RequestExit(beingWorkedOn \ {t})
           ELSE UNCHANGED <<exitStatus, stopping, stop, interrupt>>
      /\ waitingForChildren' = IF "SPLITS_DONE" \in snap THEN waitingForChildren \ {t}
                                                         ELSE waitingForChildren
      /\ IF Removes(h) THEN remove(t)
                       ELSE UNCHANGED <<live, parentPtr, childPtr, deleteNotifier>>
      /\ RecordInParent(h, t)
      /\ snap' = {}
      /\ UNCHANGED <<truth, born, result, work, terminate, notifier, queue, offloaded,
                     lastWaiting, assigned, wpc, cur, wres, tmp, ioVars, netVars,
                     freedRead>>

\* A task that is not done is queued if it has work, or waits for children.
AssessNotDone(h) ==
  LET t == call[h]
  IN  /\ Defined /\ assessor = h /\ phase = "write"
      /\ ContainerFree
      /\ ~parac_task_state_is_done(snap)
      /\ state' = [state EXCEPT ![t] = snap]
      /\ IF "WORK_AVAILABLE" \in snap /\ "DONE" \notin snap
           THEN Enqueue(t) ELSE UNCHANGED <<queue, workQueueSize>>
      /\ IF "WAITING_FOR_SPLITS" \in snap
           THEN /\ waitingForChildren' = IF t \in lastWaiting THEN waitingForChildren
                                         ELSE waitingForChildren \cup {t}
                /\ lastWaiting' = lastWaiting \cup {t}
           ELSE /\ lastWaiting' = lastWaiting \ {t}
                /\ UNCHANGED waitingForChildren
      /\ assessor' = Nil /\ phase' = "read" /\ snap' = {}
      /\ call' = [call EXCEPT ![h] = Nil]
      /\ UNCHANGED <<truth, born, live, result, slot, parentPtr, childPtr, ctrlVars,
                     beingWorkedOn, offloaded, exitVars, workerVars, ioVars, netVars,
                     freedRead>>

-----------------------------------------------------------------------------
(***************************************************************************)
(* Offloading: tryToOffloadTask takes the last task of the queue that was  *)
(* not received from a peer.  When it is tried, and for which peer with    *)
(* workers, depends on the utilizations, which are left open here.  It     *)
(* does not ask whether the peer is still there: a dropped peer's send     *)
(* queue discards the message.  While undoAllOffloadsTo holds the          *)
(* containerMutex only its own thread offloads, after re-queuing ioTask.   *)
(***************************************************************************)
pop_offload(n) ==
  \E i \in 1..Len(queue) :
    LET t == queue[i]
    IN  /\ From[t] = Nil
        /\ \A j \in i+1..Len(queue) : From[queue[j]] # Nil
        /\ queue' = QueueWithout(i)
        /\ state' = [state EXCEPT ![t] = (@ \ {"WORK_AVAILABLE"}) \cup {"OFFLOADED"}]
        /\ offloaded' = [offloaded EXCEPT ![n] = @ \cup {t}]
        /\ unacked' = IF n \in dropped THEN unacked
                      ELSE [unacked EXCEPT ![n] = @ \cup {t}]
        /\ ioTodo' \in {ioTodo, IF ioPc = "undo" /\ ioNode = n THEN ioTodo \cup {t}
                                                              ELSE ioTodo}

Offload(n) ==
  /\ Defined /\ n \in Helper
  /\ ContainerFree \/ ioTask # Nil
  /\ ioTask' = IF ContainerFree THEN ioTask ELSE Nil
  /\ pop_offload(n)
  /\ workQueueSize' = workQueueSize - 1
  /\ UNCHANGED <<truth, born, live, result, slot, parentPtr, childPtr, ctrlVars,
                 beingWorkedOn, waitingForChildren, lastWaiting, exitVars, workerVars,
                 call, assessVars, ioPc, ioNode, dropped, notices, freedRead>>

\* undo_offload and the body of the loop of undoAllOffloadsTo.
UndoOffload(n, t) ==
  /\ offloaded' = [offloaded EXCEPT ![n] = @ \ {t}]
  /\ state' = [state EXCEPT ![t] = (@ \ {"OFFLOADED"}) \cup {"WORK_AVAILABLE"}]
  /\ Enqueue(t)
  /\ UNCHANGED <<truth, born, live, result, slot, parentPtr, childPtr, ctrlVars,
                 beingWorkedOn, waitingForChildren, lastWaiting, exitVars, workerVars,
                 call, assessVars, dropped, notices>>

MessageAcked(n, t) ==
  /\ IoIdle /\ n \notin dropped
  /\ t \in unacked[n]
  /\ unacked' = [unacked EXCEPT ![n] = @ \ {t}]
  /\ UNCHANGED <<taskVars, ctrlVars, storeVars, exitVars, workerVars, call, assessVars,
                 ioVars, dropped, notices, freedRead>>

\* The message's callback is run with an error.  It reads the task, which a
\* result that overtook the acknowledgement may have removed already.
MessageFailed(n, t) ==
  /\ IoIdle /\ n \notin dropped
  /\ t \in unacked[n]
  /\ unacked' = [unacked EXCEPT ![n] = @ \ {t}]
  /\ freedRead' = (freedRead \/ t \notin live)
  /\ IF t \in live /\ t \in offloaded[n]
       THEN UndoOffload(n, t)
       ELSE UNCHANGED <<taskVars, ctrlVars, storeVars, exitVars, workerVars, call,
                        assessVars, dropped, notices>>
  /\ UNCHANGED ioVars

\* receiveTaskResultFromPeer for a task the peer still has.  (Results for
\* other tasks are answered with PATH_NOT_FOUND and change nothing here.)
receiveTaskResultFromPeer(n, t) ==
  /\ IoIdle /\ n \notin dropped
  /\ t \in offloaded[n]
  /\ result' = [result EXCEPT ![t] = truth[t]]
  /\ state' = [state EXCEPT ![t] = @ \cup {"DONE"}]
  /\ offloaded' = [offloaded EXCEPT ![n] = @ \ {t}]
  /\ call' = [call EXCEPT ![Io] = t]
  /\ UNCHANGED <<truth, born, live, slot, parentPtr, childPtr, ctrlVars, queue,
                 beingWorkedOn, waitingForChildren, lastWaiting, workQueueSize, exitVars,
                 workerVars, assessVars, ioVars, netVars, freedRead>>

\* SAT_ASSIGNMENT from the peer that solved an offloaded task.
ReceiveAssignment(n, t) ==
  /\ IoIdle /\ n \notin dropped
  /\ t \in offloaded[n] /\ truth[t] = "SAT"
  /\ t \in Originated /\ ~assigned
  /\ HandleSatisfyingAssignment(t)
  /\ UNCHANGED <<taskVars, work, terminate, notifier, storeVars, workerVars, call,
                 assessVars, ioVars, netVars, freedRead>>

(***************************************************************************)
(* static_connectionDropped: after the messages in flight have failed, all *)
(* offloads to the peer are undone under containerMutex, then the tasks    *)
(* received from it are terminated one after the other.                    *)
(***************************************************************************)
ConnectionDropped(n) ==
  /\ IoIdle /\ n \notin dropped
  /\ unacked[n] = {}
  /\ ioPc' = "undo" /\ ioNode' = n /\ ioTodo' = offloaded[n]
  /\ UNCHANGED <<taskVars, ctrlVars, storeVars, exitVars, workerVars, call, assessVars,
                 ioTask, netVars, freedRead>>

UndoNext ==
  /\ Defined /\ ioPc = "undo"
  /\ \E t \in ioTodo : /\ UndoOffload(ioNode, t)
                       /\ ioTodo' = ioTodo \ {t}
                       /\ ioTask' = t
  /\ UNCHANGED <<ioPc, ioNode, unacked, freedRead>>

UndoEnd ==
  /\ Defined /\ ioPc = "undo" /\ ioTodo = {}
  /\ ioPc' = "abort" /\ ioTask' = Nil
  /\ ioTodo' = {t \in live : From[t] = ioNode}
  /\ UNCHANGED <<taskVars, ctrlVars, storeVars, exitVars, workerVars, call, assessVars,
                 ioNode, netVars, freedRead>>

\* default_terminate_task for a task that was never worked on.
TerminateDefault(t) ==
  /\ terminate[t] = "default"
  /\ state' = [state EXCEPT ![t] = {"DONE"}]
  /\ result' = [result EXCEPT ![t] = "ABORTED"]
  /\ work' = work \ {t}
  /\ stop' = stop \cup {t}
  /\ ioPc' = "unlink" /\ ioTask' = t
  /\ UNCHANGED interrupt

\* SolverTask::static_terminate interrupts the solver that is running, if any.
TerminateSolver(t) ==
  /\ terminate[t] = "solver"
  /\ interrupt' = IF Active(t) THEN interrupt \cup {t} ELSE interrupt
  /\ UNCHANGED <<state, result, work, stop, ioPc, ioTask>>

AbortNext ==
  /\ Defined /\ ioPc = "abort" /\ call[Io] = Nil
  /\ \E t \in ioTodo \cap live :
       /\ ioTodo' = ioTodo \ {t}
       /\ TerminateDefault(t) \/ TerminateSolver(t)
  /\ UNCHANGED <<truth, born, live, slot, parentPtr, childPtr, terminate, notifier,
                 storeVars, exitVars, workerVars, call, assessVars, ioNode, netVars,
                 freedRead>>

\* The rest of default_terminate_task: the task leaves queue and workers and
\* is assessed without being removed.
AbortUnlink ==
  /\ Defined /\ ioPc = "unlink" /\ call[Io] = Nil
  /\ IF \E i \in 1..Len(queue) : queue[i] = ioTask
       THEN /\ \E i \in 1..Len(queue) : queue[i] = ioTask /\ queue' = QueueWithout(i)
            /\ workQueueSize' = workQueueSize - 1
       ELSE UNCHANGED <<queue, workQueueSize>>
  /\ beingWorkedOn' = beingWorkedOn \ {ioTask}
  /\ call' = [call EXCEPT ![Io] = ioTask]
  /\ ioPc' = "abort" /\ ioTask' = Nil
  /\ UNCHANGED <<taskVars, ctrlVars, waitingForChildren, offloaded, lastWaiting, exitVars,
                 workerVars, assessVars, ioNode, ioTodo, netVars, freedRead>>

AbortEnd ==
  /\ Defined /\ ioPc = "abort" /\ call[Io] = Nil
  /\ ioTodo \cap live = {}
  /\ ioPc' = "idle" /\ ioNode' = Nil /\ ioTodo' = {}
  /\ dropped' = dropped \cup {ioNode}
  /\ UNCHANGED <<taskVars, ctrlVars, storeVars, exitVars, workerVars, call, assessVars,
                 ioTask, unacked, notices, freedRead>>

-----------------------------------------------------------------------------
WorkerStep(w) ==
  \/ getNextTask(w) \/ DropPopped(w) \/ WorkerExit(w)
  \/ SkipWork(w) \/ StartWork(w) \/ Solve(w) \/ SolveAborted(w)
  \/ \E x \in Side : SplitMissing(w, x) \/ Split(w, x) \/ SplitStopped(w, x)
  \/ FinishRead(w) \/ FinishWrite(w) \/ ClearNotifier(w) \/ FinalCheck(w)

AssessStep(h) == AssessRead(h) \/ AssessDone(h) \/ AssessNotDone(h)

PeerStep(n) ==
  \/ Offload(n) \/ ConnectionDropped(n)
  \/ \E t \in Task : \/ MessageAcked(n, t) \/ MessageFailed(n, t)
                     \/ receiveTaskResultFromPeer(n, t) \/ ReceiveAssignment(n, t)

DropStep == UndoNext \/ UndoEnd \/ AbortNext \/ AbortUnlink \/ AbortEnd

Next ==
  \/ \E t \in Task : CreateEntry(t)
  \/ \E w \in Worker : WorkerStep(w)
  \/ \E h \in Thread : AssessStep(h)
  \/ \E n \in Node : PeerStep(n)
  \/ DropStep

Spec == Init /\ [][Next]_vars

(***************************************************************************)
(* The operating system runs every thread: a worker that can act, and a    *)
(* thread inside assess_task, eventually does; the root task is created.   *)
(***************************************************************************)
Fairness ==
  /\ WF_vars(CreateEntry(LocalRoot))
  /\ \A w \in Worker : WF_vars(WorkerStep(w))
  /\ \A h \in Thread : WF_vars(AssessStep(h))

FairSpec == Spec /\ Fairness

-----------------------------------------------------------------------------
WorkerPc == {"idle", "start", "L", "R", "solve", "finish", "write", "notifier", "check",
             "exited"}

TypeTask ==
  /\ truth \in Truths
  /\ born \subseteq Task /\ live \subseteq born
  /\ state \in [Task -> SUBSET Flags]
  /\ result \in [Task -> Statuses]
  /\ slot \in [Task -> [Side -> Statuses]]
  /\ parentPtr \in [Task -> Task \cup {Nil}]
  /\ childPtr \in [Task -> [Side -> Task \cup {Nil}]]

TypeCtrl ==
  /\ stop \subseteq Task /\ work \subseteq Task /\ interrupt \subseteq Task
  /\ terminate \in [Task -> {"null", "default", "solver"}]
  /\ notifier \in [Task -> Worker \cup {Nil}]

TypeStore ==
  /\ queue \in Seq(Task)
  /\ beingWorkedOn \subseteq Task /\ waitingForChildren \subseteq Task
  /\ lastWaiting \subseteq Task
  /\ offloaded \in [Node -> SUBSET Task]
  /\ workQueueSize \in Int

TypeExit ==
  /\ exitStatus \in {"UNDEFINED"} \cup Statuses
  /\ stopping \in BOOLEAN /\ assigned \in BOOLEAN /\ freedRead \in BOOLEAN

TypeWorker ==
  /\ wpc \in [Worker -> WorkerPc]
  /\ cur \in [Worker -> Task \cup {Nil}]
  /\ wres \in [Worker -> Statuses]
  /\ tmp \in [Worker -> SUBSET Flags]
  /\ deleteNotifier \subseteq Worker

TypeAssess ==
  /\ call \in [Thread -> Task \cup {Nil}]
  /\ assessor \in Thread \cup {Nil} /\ phase \in {"read", "write"}
  /\ snap \subseteq Flags

TypeIo ==
  /\ ioPc \in {"idle", "undo", "abort", "unlink"}
  /\ ioNode \in Node \cup {Nil} /\ ioTodo \subseteq Task /\ ioTask \in Task \cup {Nil}
  /\ unacked \in [Node -> SUBSET Task]
  /\ dropped \subseteq Node
  /\ notices \in [Task -> Nat]

\* The type invariant.
TypeOK ==
  /\ TypeTask /\ TypeCtrl /\ TypeStore /\ TypeExit
  /\ TypeWorker /\ TypeAssess /\ TypeIo

(***************************************************************************)
(* No wrong answer: whatever the interleaving of workers, peers, undone    *)
(* offloads and aborts, a SAT or UNSAT that a task holds, that a worker is *)
(* about to store, that waits in the slot of a parent or that ends the     *)
(* program (assess_task, SatHandler) is the answer of that cube.           *)
(***************************************************************************)
TaskSound == \A t \in Task : result[t] \in Decided => result[t] = truth[t]

SlotSound ==
  \A t \in Task : \A x \in Side : slot[t][x] \in Decided =>
    slot[t][x] = IF Kid[t][x] = Nil THEN "UNSAT" ELSE truth[Kid[t][x]]

ExitSound == exitStatus \in Decided => exitStatus = truth[LocalRoot]

\* Only a task that splits has anything in its slots.
SlotsOfSplit ==
  \A t \in Task : \A x \in Side : slot[t][x] # "PENDING" => Splits(t)

\* What a worker is about to store is the answer of its task.
WorkerSound ==
  \A w \in Worker : wpc[w] = "finish" /\ wres[w] # "PENDING" => wres[w] = truth[cur[w]]

ResultSound == TaskSound /\ SlotSound /\ WorkerSound /\ ExitSound

QueueSet == {queue[i] : i \in 1..Len(queue)}

OffloadedSet == UNION {offloaded[n] : n \in Node}

(***************************************************************************)
(* A task is executed in one place only: it is queued at most once, it is  *)
(* not queued while a worker or a peer has it, no two workers and no two   *)
(* peers have it.  pop_work, pop_offload, undo_offload and the aborts all  *)
(* move tasks between these containers.                                    *)
(***************************************************************************)
Holding(w) == IF wpc[w] \in {"idle", "exited"} THEN {} ELSE {cur[w]}

SingleOwner ==
  /\ \A i, j \in 1..Len(queue) : queue[i] = queue[j] => i = j
  /\ QueueSet \cap OffloadedSet = {}
  /\ \A w \in Worker : Holding(w) \cap (QueueSet \cup OffloadedSet) = {}
  /\ \A v, w \in Worker : v # w => Holding(v) \cap Holding(w) = {}
  /\ \A m, n \in Node : m # n => offloaded[m] \cap offloaded[n] = {}

(***************************************************************************)
(* The store keeps no reference to a task it has freed: not in the queue,  *)
(* the sets of running and waiting tasks (whose comparator dereferences    *)
(* the tasks), the offload sets, parent or child pointers, nor in a        *)
(* pending or running call of assess_task.                                 *)
(***************************************************************************)
NoDanglingTask ==
  /\ QueueSet \cup beingWorkedOn \cup waitingForChildren \cup OffloadedSet \subseteq live
  /\ \A t \in live : parentPtr[t] \in live \cup {Nil}
  /\ \A t \in live : \A x \in Side : childPtr[t][x] \in live \cup {Nil}
  /\ \A h \in Thread : call[h] \in live \cup {Nil}

(***************************************************************************)
(* A task is not freed while its worker is inside work() or updates its    *)
(* state afterwards: WORKING protects it until FinishWrite, although its   *)
(* children may be finished by others long before.                         *)
(***************************************************************************)
WorkedOnIsLive ==
  \A w \in Worker : wpc[w] \in {"start", "L", "R", "solve", "finish", "write"} =>
    cur[w] \in live

(***************************************************************************)
(* The assertions of remove() and of the done branch of assess_task: a     *)
(* task about to be removed has DONE, is not WORKING, and waits for        *)
(* nothing unless it was aborted; its result is neither pending nor split. *)
(***************************************************************************)
RemoveAsserts ==
  (phase = "write" /\ parac_task_state_is_done(snap)) =>
    LET t == call[assessor]
    IN  /\ "DONE" \in snap /\ "WORKING" \notin snap
        /\ result[t] = "ABORTED" \/ snap \cap {"WAITING_FOR_SPLITS", "WORK_AVAILABLE"} = {}
        /\ result[t] \notin {"PENDING", "SPLITTED"}

\* The tasks the work queue counter stands for: everything that was queued
\* here and is not finished or offloaded.
Counted(t) ==
  /\ t \in live /\ terminate[t] # "null"
  /\ "OFFLOADED" \notin state[t]
  /\ t \in QueueSet \/ state[t] # {"WORK_AVAILABLE"}

(***************************************************************************)
(* The counter peers and the offloading decisions rely on counts every     *)
(* task once, through offloads, failed messages and undone offloads.       *)
(***************************************************************************)
WorkQueueCounted == workQueueSize = Cardinality({t \in Task : Counted(t)})

(***************************************************************************)
(* A received task does not leave the store unanswered: before assess_task *)
(* removes it, its result went to the peer it came from.                   *)
(***************************************************************************)
AnsweredBeforeRemoval ==
  \A t \in born \ live : From[t] # Nil => notices[t] >= 1

\* A received task is answered by at most one TASK_RESULT message.
NotifiedOnce == \A t \in Task : notices[t] <= 1

(***************************************************************************)
(* The original task ends processing: the local formula is answered.       *)
(***************************************************************************)
RootCompletes == <>(exitStatus \in Decided)

\* A queued cube is solved and leaves the store, unless the program stops.
LeafCompletes ==
  \A t \in Task : (t \in QueueSet /\ ~Splits(t)) ~> (t \notin live \/ stopping)

\* When the handling of a dropped connection ends, all tasks that were
\* offloaded to the peer have been returned to the queue.
DropReturnsTasks ==
  [][\A n \in dropped' \ dropped : offloaded'[n] = {}]_vars

=============================================================================
