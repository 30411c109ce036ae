----------------------- MODULE TaskStoreTypes_proofs -----------------------
(***************************************************************************)
(* Type correctness of the task store, second part: assess_task, the peers *)
(* and the theorem, for any cube tree, any number of workers and peers.    *)
(***************************************************************************)
EXTENDS TaskStoreWorker_proofs

-----------------------------------------------------------------------------
(***************************************************************************)
(* assess_task.                                                            *)
(***************************************************************************)
LEMMA AssessReadType ==
  ASSUME TypeInv, NEW h \in Thread, AssessRead(h)
  PROVE  TypeInv'
<1> DEFINE t == call[h]
           a == parac_task_default_assess(state[t], slot[t], result[t], From[t] # Nil)
<1>1. /\ UNCHANGED ctrlVars /\ UNCHANGED storeVars /\ UNCHANGED <<exitVars, freedRead>>
      /\ UNCHANGED workerVars
  BY DEF AssessRead
<1>2. /\ UNCHANGED <<truth, born, live, state, slot, parentPtr, childPtr>>
      /\ result' = [result EXCEPT ![t] = a.result]
  BY DEF AssessRead
<1>3. call' = call /\ assessor' = h /\ phase' = "write" /\ snap' = a.state
  BY DEF AssessRead
<1>4. /\ UNCHANGED ioVars /\ unacked' = unacked /\ dropped' = dropped
      /\ notices' = [notices EXCEPT ![t] = IF a.send THEN @ + 1 ELSE @]
  BY DEF AssessRead
<1>5. t \in Task
  BY Zenon DEF AssessRead, TypeInv, InvAssess, TypeAssess
<1>6. a.state \in SUBSET Flags /\ a.result \in Statuses
  <2>1. state[t] \in SUBSET Flags /\ slot[t] \in [Side -> Statuses] /\ result[t] \in Statuses
    BY <1>5 DEF TypeInv, TypeTask
  <2> QED
    BY <2>1, AssessType, Zenon
<1> HIDE DEF t, a
<1>7. TypeTask'
  BY <1>2, <1>6, Zenon DEF TypeInv, TypeTask
<1>8. InvAssess'
  BY <1>3, <1>5, <1>6 DEF TypeInv, InvAssess, TypeAssess, t
<1>9. InvIo'
  <2>1. notices' = notices \/ notices' = [notices EXCEPT ![t] = @ + 1]
    <3>1. notices \in [Task -> Nat]
      BY DEF TypeInv, InvIo, TypeIo
    <3>2. CASE a.send
      BY <1>4, <3>2
    <3>3. CASE ~a.send
      BY <1>4, <3>1, <3>3
    <3> QED
      BY <3>2, <3>3
  <2>2. notices' \in [Task -> Nat]
    BY <2>1 DEF TypeInv, InvIo, TypeIo
  <2> QED
    BY <1>4, <2>2 DEF TypeInv, InvIo, TypeIo, ioVars
<1> QED
  BY <1>1, <1>7, <1>8, <1>9, Frames DEF TypeInv

\* remove() and the copy of the result keep the links and slots of tasks.
LEMMA AssessDoneTasks ==
  ASSUME TypeInv, NEW h \in Thread, AssessDone(h), call[h] \in Task
  PROVE  TypeTask' /\ deleteNotifier' \subseteq Worker
<1> DEFINE t == call[h]
           gone == [u \in Task |-> [x \in Side |->
                      IF parentPtr[t] = u /\ From[t] = Nil /\ childPtr[u][x] = t
                        THEN Nil ELSE childPtr[u][x]]]
           orphans == [u \in Task |-> IF u \in {childPtr[t][x] : x \in Side}
                                        THEN Nil ELSE parentPtr[u]]
<1>1. /\ truth' = truth /\ born' = born /\ result' = result
      /\ state' = [state EXCEPT ![t] = snap]
  BY DEF AssessDone
<1>2. \/ /\ live' = live \ {t} /\ parentPtr' = orphans /\ childPtr' = gone
         /\ deleteNotifier' = deleteNotifier \cup {w \in Worker : notifier[t] = w}
      \/ UNCHANGED <<live, parentPtr, childPtr, deleteNotifier>>
  BY DEF AssessDone, remove
<1>3. PICK p \in Task \cup {Nil} :
        slot' = IF p = Nil THEN slot
                ELSE [slot EXCEPT ![p] = [x \in Side |-> IF Kid[p][x] = t THEN result[t]
                                                                          ELSE @[x]]]
  <2>1. (IF From[t] = Nil THEN parentPtr[t] ELSE Nil) \in Task \cup {Nil}
    BY Zenon DEF TypeInv, TypeTask
  <2> QED
    BY <2>1, Zenon DEF AssessDone, RecordInParent
<1>4. state' \in [Task -> SUBSET Flags]
  BY <1>1, StateType DEF TypeInv, TypeTask, InvAssess, TypeAssess
<1>5. gone \in [Task -> [Side -> Task \cup {Nil}]] /\ orphans \in [Task -> Task \cup {Nil}]
  BY DEF TypeInv, TypeTask
<1>6. result[t] \in Statuses
  BY DEF TypeInv, TypeTask
<1> HIDE DEF t, gone, orphans
<1>7. slot' \in [Task -> [Side -> Statuses]]
  <2>1. slot \in [Task -> [Side -> Statuses]]
    BY DEF TypeInv, TypeTask
  <2>2. CASE p = Nil
    BY <1>3, <2>1, <2>2
  <2>3. CASE p # Nil
    <3>1. [x \in Side |-> IF Kid[p][x] = t THEN result[t] ELSE slot[p][x]] \in [Side -> Statuses]
      BY <1>6, <2>1, <2>3
    <3> QED
      BY <1>3, <2>1, <2>3, <3>1
  <2> QED
    BY <2>2, <2>3
<1>8. /\ live' \subseteq born' /\ deleteNotifier' \subseteq Worker
      /\ parentPtr' \in [Task -> Task \cup {Nil}]
      /\ childPtr' \in [Task -> [Side -> Task \cup {Nil}]]
  BY <1>1, <1>2, <1>5, Zenon DEF TypeInv, TypeTask, InvWorker, TypeWorker
<1> QED
  BY <1>1, <1>4, <1>7, <1>8 DEF TypeInv, TypeTask

LEMMA AssessDoneType ==
  ASSUME TypeInv, NEW h \in Thread, AssessDone(h)
  PROVE  TypeInv'
<1> DEFINE t == call[h]
<1>1. UNCHANGED <<ioVars, netVars>>
  BY DEF AssessDone
<1>2. t \in Task /\ result[t] \in Statuses
  BY DEF AssessDone, TypeInv, InvAssess, TypeTask
<1>3. TypeTask' /\ deleteNotifier' \subseteq Worker
  BY <1>2, AssessDoneTasks
<1>4. TypeCtrl'
  <2>1. work' = work /\ terminate' = terminate /\ notifier' = notifier
    BY Zenon DEF AssessDone
  <2>2. \/ stop' = stop /\ interrupt' = interrupt
        \/ RequestExit(beingWorkedOn \ {t})
    BY DEF AssessDone
  <2>3. stop' \subseteq Task /\ interrupt' \subseteq Task
    BY <2>2, RequestExitType DEF TypeInv, TypeCtrl, TypeStore
  <2> QED
    BY <2>1, <2>3 DEF TypeInv, TypeCtrl
<1>5. TypeStore'
  <2>1. /\ queue' = queue /\ offloaded' = offloaded /\ lastWaiting' = lastWaiting
        /\ workQueueSize' = workQueueSize \/ workQueueSize' = workQueueSize - 1
        /\ beingWorkedOn' = beingWorkedOn \ {t}
        /\ waitingForChildren' \subseteq waitingForChildren
    BY Zenon DEF AssessDone
  <2> QED
    BY <2>1 DEF TypeInv, TypeStore
<1>6. TypeExit'
  <2>1. assigned' = assigned /\ freedRead' = freedRead
    BY DEF AssessDone
  <2>2. \/ exitStatus' = result[t] /\ stopping' = TRUE
        \/ exitStatus' = exitStatus /\ stopping' = stopping
    BY DEF AssessDone, RequestExit
  <2>3. exitStatus' \in {"UNDEFINED"} \cup Statuses
    BY <1>2, <2>2 DEF TypeInv, TypeExit
  <2>4. stopping' \in BOOLEAN
    BY <2>2, Zenon DEF TypeInv, TypeExit
  <2> QED
    BY <2>1, <2>3, <2>4 DEF TypeInv, TypeExit
<1>7. InvWorker'
  <2>1. wpc' = wpc /\ cur' = cur /\ wres' = wres /\ tmp' = tmp
    BY DEF AssessDone
  <2> QED
    BY <1>3, <2>1 DEF TypeInv, InvWorker, TypeWorker
<1>8. InvAssess'
  <2>1. PICK p \in Task \cup {Nil} :
          /\ call' = [call EXCEPT ![h] = p] /\ phase' = "read"
          /\ assessor' \in {Nil, h} /\ snap' = {}
    <3>1. (IF From[t] = Nil THEN parentPtr[t] ELSE Nil) \in Task \cup {Nil}
      BY <1>2 DEF TypeInv, TypeTask
    <3> QED
      BY <3>1, Zenon DEF AssessDone, RecordInParent
  <2> QED
    BY <2>1 DEF TypeInv, InvAssess, TypeAssess
<1> QED
  BY <1>1, <1>3, <1>4, <1>5, <1>6, <1>7, <1>8, Frames DEF TypeInv

LEMMA AssessNotDoneType ==
  ASSUME TypeInv, NEW h \in Thread, AssessNotDone(h)
  PROVE  TypeInv'
<1> DEFINE t == call[h]
<1>1. /\ UNCHANGED ctrlVars /\ UNCHANGED <<exitVars, freedRead>>
      /\ UNCHANGED workerVars /\ UNCHANGED <<ioVars, netVars>>
  BY DEF AssessNotDone
<1>2. /\ UNCHANGED <<truth, born, live, result, slot, parentPtr, childPtr>>
      /\ state' = [state EXCEPT ![t] = snap]
  BY DEF AssessNotDone
<1>3. /\ Enqueue(t) \/ (queue' = queue /\ workQueueSize' = workQueueSize)
      /\ beingWorkedOn' = beingWorkedOn /\ offloaded' = offloaded
      /\ waitingForChildren' \subseteq waitingForChildren \cup {t}
      /\ lastWaiting' \subseteq lastWaiting \cup {t}
  BY DEF AssessNotDone
<1>4. /\ assessor' = Nil /\ phase' = "read" /\ snap' = {}
      /\ call' = [call EXCEPT ![h] = Nil]
  BY DEF AssessNotDone
<1>5. t \in Task
  BY DEF AssessNotDone, TypeInv, InvAssess
<1> HIDE DEF t
<1>6. TypeTask'
  <2>1. snap \in SUBSET Flags
    BY DEF TypeInv, InvAssess, TypeAssess
  <2> QED
    BY <1>2, <2>1, StateType, StateStep, Zenon DEF TypeInv, TypeTask
<1>7. queue' \in Seq(Task) /\ workQueueSize' \in Int
  BY <1>3, <1>5, EnqueueType DEF TypeInv, TypeStore
<1>8. TypeStore'
  BY <1>3, <1>5, <1>7 DEF TypeInv, TypeStore
<1>9. InvAssess'
  BY <1>4 DEF TypeInv, InvAssess, TypeAssess
<1> QED
  BY <1>1, <1>6, <1>8, <1>9, Frames DEF TypeInv

LEMMA AssessTypeInv ==
  ASSUME TypeInv, NEW h \in Thread, AssessStep(h)
  PROVE  TypeInv'
BY AssessReadType, AssessDoneType, AssessNotDoneType DEF AssessStep

-----------------------------------------------------------------------------
(***************************************************************************)
(* The peers.                                                              *)
(***************************************************************************)
LEMMA OffloadType ==
  ASSUME TypeInv, NEW n \in Node, Offload(n)
  PROVE  TypeInv'
<1>1. /\ UNCHANGED ctrlVars /\ UNCHANGED <<exitVars, freedRead>>
      /\ UNCHANGED workerVars /\ UNCHANGED <<call, assessVars>>
  BY DEF Offload
<1>2. UNCHANGED <<truth, born, live, result, slot, parentPtr, childPtr>>
  BY DEF Offload
<1>3. /\ beingWorkedOn' = beingWorkedOn /\ waitingForChildren' = waitingForChildren
      /\ lastWaiting' = lastWaiting /\ workQueueSize' = workQueueSize - 1
  BY DEF Offload
<1>4. /\ ioPc' = ioPc /\ ioNode' = ioNode /\ dropped' = dropped /\ notices' = notices
      /\ ioTask' = ioTask \/ (ioTask' = Nil /\ ioPc = "undo")
  BY DEF Offload, ContainerFree
<1>5. PICK i \in 1..Len(queue) :
        /\ queue' = QueueWithout(i)
        /\ state' = [state EXCEPT ![queue[i]] = (@ \ {"WORK_AVAILABLE"}) \cup {"OFFLOADED"}]
        /\ offloaded' = [offloaded EXCEPT ![n] = @ \cup {queue[i]}]
        /\ unacked' = IF n \in dropped THEN unacked
                      ELSE [unacked EXCEPT ![n] = @ \cup {queue[i]}]
        /\ ioTodo' \subseteq ioTodo \cup {queue[i]}
  BY Zenon DEF Offload, pop_offload
<1>6. queue[i] \in Task /\ queue' \in Seq(Task)
  BY <1>5, SeqElement, QueueWithoutType DEF TypeInv, TypeStore
<1>7. TypeTask'
  BY <1>2, <1>5, <1>6, FlagsType, StateStep DEF TypeInv, TypeTask, Flags
<1>8. TypeStore'
  BY <1>3, <1>5, <1>6 DEF TypeInv, TypeStore
<1>9. InvIo'
  BY <1>4, <1>5, <1>6 DEF TypeInv, InvIo, TypeIo
<1> QED
  BY <1>1, <1>7, <1>8, <1>9, Frames DEF TypeInv

LEMMA ConnectionDroppedType ==
  ASSUME TypeInv, NEW n \in Node, ConnectionDropped(n)
  PROVE  TypeInv'
<1>1. /\ UNCHANGED taskVars /\ UNCHANGED ctrlVars /\ UNCHANGED storeVars
      /\ UNCHANGED <<exitVars, freedRead>> /\ UNCHANGED workerVars
      /\ UNCHANGED <<call, assessVars>>
  BY DEF ConnectionDropped
<1>2. /\ ioPc' = "undo" /\ ioNode' = n /\ ioTodo' = offloaded[n]
      /\ ioTask' = ioTask /\ netVars' = netVars
  BY DEF ConnectionDropped
<1>3. InvIo'
  BY <1>2 DEF TypeInv, InvIo, TypeIo, TypeStore, netVars
<1> QED
  BY <1>1, <1>3, Frames DEF TypeInv

LEMMA MessageAckedType ==
  ASSUME TypeInv, NEW n \in Node, NEW t \in Task, MessageAcked(n, t)
  PROVE  TypeInv'
<1>1. /\ UNCHANGED taskVars /\ UNCHANGED ctrlVars /\ UNCHANGED storeVars
      /\ UNCHANGED <<exitVars, freedRead>> /\ UNCHANGED workerVars
      /\ UNCHANGED <<call, assessVars>>
  BY DEF MessageAcked
<1>2. /\ UNCHANGED ioVars /\ dropped' = dropped /\ notices' = notices
      /\ unacked' = [unacked EXCEPT ![n] = @ \ {t}]
  BY DEF MessageAcked
<1>3. InvIo'
  BY <1>2 DEF TypeInv, InvIo, TypeIo, ioVars
<1> QED
  BY <1>1, <1>3, Frames DEF TypeInv

\* undo_offload gives the task back to the queue.
LEMMA UndoOffloadType ==
  ASSUME TypeInv, NEW n \in Node, NEW t \in Task, UndoOffload(n, t)
  PROVE  TypeTask' /\ TypeCtrl' /\ TypeStore' /\ InvWorker' /\ InvAssess'
<1>1. UNCHANGED ctrlVars /\ UNCHANGED workerVars /\ UNCHANGED <<call, assessVars>>
  BY DEF UndoOffload
<1>2. /\ UNCHANGED <<truth, born, live, result, slot, parentPtr, childPtr>>
      /\ state' = [state EXCEPT ![t] = (@ \ {"OFFLOADED"}) \cup {"WORK_AVAILABLE"}]
  BY DEF UndoOffload
<1>3. /\ offloaded' = [offloaded EXCEPT ![n] = @ \ {t}] /\ Enqueue(t)
      /\ beingWorkedOn' = beingWorkedOn /\ waitingForChildren' = waitingForChildren
      /\ lastWaiting' = lastWaiting
  BY DEF UndoOffload
<1>4. TypeTask'
  BY <1>2, FlagsType, StateStep DEF TypeInv, TypeTask, Flags
<1>5. queue' \in Seq(Task) /\ workQueueSize' \in Int
  BY <1>3, EnqueueType DEF TypeInv, TypeStore
<1>6. TypeStore'
  BY <1>3, <1>5 DEF TypeInv, TypeStore
<1> QED
  BY <1>1, <1>4, <1>6, Frames

LEMMA MessageFailedType ==
  ASSUME TypeInv, NEW n \in Node, NEW t \in Task, MessageFailed(n, t)
  PROVE  TypeInv'
<1>1. /\ UNCHANGED ioVars /\ dropped' = dropped /\ notices' = notices
      /\ unacked' = [unacked EXCEPT ![n] = @ \ {t}]
  BY DEF MessageFailed, UndoOffload
<1>2. exitVars' = exitVars /\ freedRead' = (freedRead \/ t \notin live)
  BY DEF MessageFailed, UndoOffload
<1>3. \/ UndoOffload(n, t)
      \/ /\ UNCHANGED taskVars /\ UNCHANGED ctrlVars /\ UNCHANGED storeVars
         /\ UNCHANGED workerVars /\ UNCHANGED <<call, assessVars>>
  BY Zenon DEF MessageFailed
<1>4. InvIo'
  BY <1>1 DEF TypeInv, InvIo, TypeIo, ioVars
<1>5. TypeExit'
  BY <1>2 DEF TypeInv, TypeExit, exitVars
<1>6. TypeTask' /\ TypeCtrl' /\ TypeStore' /\ InvWorker' /\ InvAssess'
  BY <1>3, UndoOffloadType, Frames
<1> QED
  BY <1>4, <1>5, <1>6 DEF TypeInv

\* A communicator thread that is idle is outside assess_task.
LEMMA IoCallStep ==
  ASSUME TypeInv, NEW t \in Task, call[Io] = Nil,
         call' = [call EXCEPT ![Io] = t], UNCHANGED assessVars
  PROVE  InvAssess'
<1>1. Io \in Thread
  BY DEF Thread
<1> QED
  BY <1>1, CallStep, Zenon DEF TypeInv

LEMMA receiveTaskResultFromPeerType ==
  ASSUME TypeInv, NEW n \in Node, NEW t \in Task, receiveTaskResultFromPeer(n, t)
  PROVE  TypeInv'
<1>1. /\ UNCHANGED ctrlVars /\ UNCHANGED <<exitVars, freedRead>> /\ UNCHANGED workerVars
      /\ UNCHANGED <<ioVars, netVars>>
  BY DEF receiveTaskResultFromPeer
<1>2. /\ UNCHANGED <<truth, born, live, slot, parentPtr, childPtr>>
      /\ result' = [result EXCEPT ![t] = truth[t]]
      /\ state' = [state EXCEPT ![t] = @ \cup {"DONE"}]
  BY DEF receiveTaskResultFromPeer
<1>3. /\ queue' = queue /\ beingWorkedOn' = beingWorkedOn
      /\ waitingForChildren' = waitingForChildren /\ lastWaiting' = lastWaiting
      /\ workQueueSize' = workQueueSize
      /\ offloaded' = [offloaded EXCEPT ![n] = @ \ {t}]
  BY DEF receiveTaskResultFromPeer
<1>4. call[Io] = Nil /\ call' = [call EXCEPT ![Io] = t] /\ UNCHANGED assessVars
  BY DEF receiveTaskResultFromPeer, IoIdle
<1>5. truth[t] \in Statuses
  BY DEF TypeInv, TypeTask, Truths, Decided, Statuses
<1>6. TypeTask'
  <2>1. state[t] \cup {"DONE"} \in SUBSET Flags
    BY DEF TypeInv, TypeTask, Flags
  <2>2. state' \in [Task -> SUBSET Flags] /\ result' \in [Task -> Statuses]
    BY <1>2, <1>5, <2>1 DEF TypeInv, TypeTask
  <2> QED
    BY <1>2, <2>2, Zenon DEF TypeInv, TypeTask
<1>7. TypeStore'
  BY <1>3 DEF TypeInv, TypeStore
<1>8. InvAssess'
  BY <1>4, IoCallStep, Zenon
<1> QED
  BY <1>1, <1>6, <1>7, <1>8, Frames DEF TypeInv

LEMMA ReceiveAssignmentType ==
  ASSUME TypeInv, NEW n \in Node, NEW t \in Task, ReceiveAssignment(n, t)
  PROVE  TypeInv'
<1>1. /\ UNCHANGED taskVars /\ UNCHANGED storeVars /\ UNCHANGED workerVars
      /\ UNCHANGED <<call, assessVars>> /\ UNCHANGED <<ioVars, netVars>>
  BY Zenon DEF ReceiveAssignment
<1>2. UNCHANGED <<work, terminate, notifier, freedRead>> /\ HandleSatisfyingAssignment(t)
  BY DEF ReceiveAssignment
<1>3. TypeCtrl' /\ TypeExit'
  BY <1>2, AssignmentType
<1> QED
  BY <1>1, <1>3, Frames DEF TypeInv

LEMMA PeerTypeInv ==
  ASSUME TypeInv, NEW n \in Node, PeerStep(n)
  PROVE  TypeInv'
BY OffloadType, ConnectionDroppedType, MessageAckedType, MessageFailedType,
   receiveTaskResultFromPeerType, ReceiveAssignmentType, Zenon DEF PeerStep

-----------------------------------------------------------------------------
(***************************************************************************)
(* A dropped connection, and the tasks that enter from outside.            *)
(***************************************************************************)
LEMMA UndoNextType ==
  ASSUME TypeInv, UndoNext
  PROVE  TypeInv'
<1>1. PICK t \in ioTodo : UndoOffload(ioNode, t) /\ ioTodo' = ioTodo \ {t} /\ ioTask' = t
  BY DEF UndoNext
<1>2. ioPc' = ioPc /\ ioNode' = ioNode /\ unacked' = unacked /\ freedRead' = freedRead /\ ioPc = "undo"
  BY DEF UndoNext
<1>3. exitVars' = exitVars /\ dropped' = dropped /\ notices' = notices
  BY <1>1 DEF UndoOffload
<1>4. t \in Task /\ ioNode \in Node
  BY <1>2 DEF TypeInv, InvIo, TypeIo
<1>5. TypeTask' /\ TypeCtrl' /\ TypeStore' /\ InvWorker' /\ InvAssess'
  BY <1>1, <1>4, UndoOffloadType
<1>6. InvIo'
  BY <1>1, <1>2, <1>3, <1>4 DEF TypeInv, InvIo, TypeIo
<1> QED
  BY <1>2, <1>3, <1>5, <1>6, Frames DEF TypeInv

LEMMA UndoEndType ==
  ASSUME TypeInv, UndoEnd
  PROVE  TypeInv'
<1>1. /\ UNCHANGED taskVars /\ UNCHANGED ctrlVars /\ UNCHANGED storeVars
      /\ UNCHANGED <<exitVars, freedRead>> /\ UNCHANGED workerVars
      /\ UNCHANGED <<call, assessVars>>
  BY DEF UndoEnd
<1>2. /\ ioPc = "undo" /\ ioPc' = "abort" /\ ioTask' = Nil /\ ioTodo' \subseteq live
      /\ ioNode' = ioNode /\ netVars' = netVars
  BY DEF UndoEnd
<1>3. InvIo'
  BY <1>2 DEF TypeInv, InvIo, TypeIo, TypeTask, netVars
<1> QED
  BY <1>1, <1>3, Frames DEF TypeInv

LEMMA AbortNextType ==
  ASSUME TypeInv, AbortNext
  PROVE  TypeInv'
<1>1. /\ UNCHANGED storeVars /\ UNCHANGED <<exitVars, freedRead>>
      /\ UNCHANGED workerVars /\ UNCHANGED <<call, assessVars>>
  BY DEF AbortNext
<1>2. UNCHANGED <<truth, born, live, slot, parentPtr, childPtr>>
  BY DEF AbortNext
<1>3. /\ ioPc = "abort" /\ ioNode' = ioNode /\ netVars' = netVars
      /\ terminate' = terminate /\ notifier' = notifier
  BY DEF AbortNext
<1>4. PICK t \in ioTodo : ioTodo' = ioTodo \ {t} /\ (TerminateDefault(t) \/ TerminateSolver(t))
  BY DEF AbortNext
<1>5. t \in Task /\ ioNode \in Node
  BY <1>3 DEF TypeInv, InvIo, TypeIo
<1>6. /\ state' = state \/ state' = [state EXCEPT ![t] = {"DONE"}]
      /\ result' = result \/ result' = [result EXCEPT ![t] = "ABORTED"]
  BY <1>4 DEF TerminateDefault, TerminateSolver
<1>7. /\ work' \subseteq work /\ stop' \subseteq stop \cup {t}
      /\ interrupt' \subseteq interrupt \cup {t}
  BY <1>4 DEF TerminateDefault, TerminateSolver
<1>8. \/ ioPc' = "unlink" /\ ioTask' = t
      \/ ioPc' = ioPc /\ ioTask' = ioTask
  BY <1>4 DEF TerminateDefault, TerminateSolver
<1>9. TypeTask'
  <2>1. state' \in [Task -> SUBSET Flags]
    BY <1>6, StateType DEF TypeInv, TypeTask, Flags
  <2>2. result' \in [Task -> Statuses]
    BY <1>6 DEF TypeInv, TypeTask, Statuses
  <2> QED
    BY <1>2, <2>1, <2>2 DEF TypeInv, TypeTask
<1>10. TypeCtrl'
  BY <1>3, <1>5, <1>7 DEF TypeInv, TypeCtrl
<1>11. InvIo'
  BY <1>3, <1>4, <1>5, <1>8 DEF TypeInv, InvIo, TypeIo, netVars
<1> QED
  BY <1>1, <1>9, <1>10, <1>11, Frames DEF TypeInv

LEMMA AbortUnlinkType ==
  ASSUME TypeInv, AbortUnlink
  PROVE  TypeInv'
<1>1. /\ UNCHANGED taskVars /\ UNCHANGED ctrlVars /\ UNCHANGED <<exitVars, freedRead>>
      /\ UNCHANGED workerVars
  BY DEF AbortUnlink
<1>2. /\ waitingForChildren' = waitingForChildren /\ offloaded' = offloaded
      /\ lastWaiting' = lastWaiting /\ beingWorkedOn' = beingWorkedOn \ {ioTask}
  BY DEF AbortUnlink
<1>3. \/ queue' = queue /\ workQueueSize' = workQueueSize
      \/ workQueueSize' = workQueueSize - 1 /\ \E i \in 1..Len(queue) : queue' = QueueWithout(i)
  BY DEF AbortUnlink
<1>4. /\ call[Io] = Nil /\ call' = [call EXCEPT ![Io] = ioTask] /\ UNCHANGED assessVars
  BY DEF AbortUnlink
<1>5. /\ ioPc = "unlink" /\ ioPc' = "abort" /\ ioTask' = Nil /\ ioNode' = ioNode
      /\ ioTodo' = ioTodo /\ netVars' = netVars
  BY DEF AbortUnlink
<1>6. ioTask \in Task /\ ioNode \in Node
  BY <1>5 DEF TypeInv, InvIo
<1>7. queue' \in Seq(Task) /\ workQueueSize' \in Int
  BY <1>3, QueueWithoutType DEF TypeInv, TypeStore
<1>8. TypeStore'
  BY <1>2, <1>7 DEF TypeInv, TypeStore
<1>9. InvAssess'
  BY <1>4, <1>6, IoCallStep, Zenon
<1>10. InvIo'
  BY <1>5, <1>6 DEF TypeInv, InvIo, TypeIo, netVars
<1> QED
  BY <1>1, <1>8, <1>9, <1>10, Frames DEF TypeInv

LEMMA AbortEndType ==
  ASSUME TypeInv, AbortEnd
  PROVE  TypeInv'
<1>1. /\ UNCHANGED taskVars /\ UNCHANGED ctrlVars /\ UNCHANGED storeVars
      /\ UNCHANGED <<exitVars, freedRead>> /\ UNCHANGED workerVars
      /\ UNCHANGED <<call, assessVars>>
  BY DEF AbortEnd
<1>2. /\ ioPc = "abort" /\ ioPc' = "idle" /\ ioNode' = Nil /\ ioTodo' = {}
      /\ ioTask' = ioTask /\ dropped' = dropped \cup {ioNode}
      /\ unacked' = unacked /\ notices' = notices
  BY DEF AbortEnd
<1>3. InvIo'
  BY <1>2 DEF TypeInv, InvIo, TypeIo
<1> QED
  BY <1>1, <1>3, Frames DEF TypeInv

LEMMA DropTypeInv ==
  ASSUME TypeInv, DropStep
  PROVE  TypeInv'
BY UndoNextType, UndoEndType, AbortNextType, AbortUnlinkType, AbortEndType DEF DropStep

LEMMA CreateEntryType ==
  ASSUME TypeInv, NEW t \in Task, CreateEntry(t)
  PROVE  TypeInv'
<1>1. /\ UNCHANGED storeVars /\ UNCHANGED <<exitVars, freedRead>> /\ UNCHANGED workerVars
      /\ UNCHANGED <<ioVars, netVars>>
  BY DEF CreateEntry
<1>2. newTask(Nil, "L", t) /\ slot' = slot /\ notifier' = notifier /\ "L" \in Side
  BY DEF CreateEntry, Side
<1>3. call[Io] = Nil /\ call' = [call EXCEPT ![Io] = t] /\ UNCHANGED assessVars
  BY DEF CreateEntry, IoIdle
<1>4. TypeTask' /\ TypeCtrl'
  <2>1. slot' \in [Task -> [Side -> Statuses]]
    BY <1>2 DEF TypeInv, TypeTask
  <2>2. notifier' \in [Task -> Worker \cup {Nil}]
    BY <1>2 DEF TypeInv, TypeCtrl
  <2> QED
    BY <1>2, <2>1, <2>2, NewTaskType, Zenon
<1>5. InvAssess'
  BY <1>3, IoCallStep, Zenon
<1> QED
  BY <1>1, <1>4, <1>5, Frames DEF TypeInv

\* Every step keeps the types.
LEMMA NextTypeInv == TypeInv /\ [Next]_vars => TypeInv'
<1> SUFFICES ASSUME TypeInv, [Next]_vars PROVE TypeInv'
  OBVIOUS
<1>1. CASE Next
  BY <1>1, CreateEntryType, WorkerTypeInv, AssessTypeInv, PeerTypeInv, DropTypeInv DEF Next
<1>2. CASE UNCHANGED vars
  <2>1. /\ UNCHANGED taskVars /\ UNCHANGED ctrlVars /\ UNCHANGED storeVars
        /\ UNCHANGED <<exitVars, freedRead>> /\ UNCHANGED workerVars
        /\ UNCHANGED <<call, assessVars>> /\ UNCHANGED <<ioVars, netVars>>
    BY <1>2 DEF vars
  <2> QED
    BY <2>1, Frames DEF TypeInv
<1> QED
  BY <1>1, <1>2

\* The store, the workers and the communicator keep every field in its type,
\* for any cube tree and any number of workers and peers.
THEOREM TypeCorrect == Spec => []TypeOK
<1>1. TypeInv => TypeOK
  BY DEF TypeInv, TypeOK, InvWorker, InvAssess, InvIo
<1> QED
  BY <1>1, InitTypeInv, NextTypeInv, PTL DEF Spec

=============================================================================
