------------------------ MODULE WorkerExecutor_proofs ------------------------
(***************************************************************************)
(* Proofs about WorkerExecutor, for any number of workers, clients and     *)
(* tasks.                                                                  *)
(***************************************************************************)
EXTENDS WorkerExecutor, TLAPS

\* Where a task is: the four places exclude each other, and a worker holds a
\* task exactly while it works.
Apart ==
    /\ fresh \cap queue = {}
    /\ fresh \cap dropped = {}
    /\ queue \cap dropped = {}
    /\ \A w \in Worker : pc[w] # "work" => currentTask[w] = Nil

\* The inductive invariant.
Inv == TypeOK /\ MutexOwner /\ Apart /\ HandedOutOnce /\ QueuedWorkRemembered

LEMMA InitInv == Init => Inv
  BY NilAssumption, Zenon
  DEF Init, Inv, TypeOK, MutexOwner, Apart, HandedOutOnce, QueuedWorkRemembered,
      Thread, Locked, Place, At, Looking

LEMMA NextInv == Inv /\ [Next]_vars => Inv'
<1> SUFFICES ASSUME Inv, [Next]_vars
             PROVE  Inv'
  OBVIOUS
<1>1. ASSUME NEW x \in Thread, Insert(x)
     PROVE  Inv'
  <2>1. TypeOK'
    BY <1>1, NilAssumption
    DEF Inv, Insert, TypeOK, Place, Locked, Thread, At, notifyVars, workerVars
  <2>2. MutexOwner'
    BY <1>1, NilAssumption
    DEF Inv, Insert, MutexOwner, TypeOK, Locked, At, notifyVars, workerVars
  <2>3. Apart'
    BY <1>1, NilAssumption
    DEF Inv, Insert, Apart, TypeOK, HandedOutOnce, At, notifyVars, workerVars
  <2>4. HandedOutOnce'
    BY <1>1, NilAssumption
    DEF Inv, Insert, HandedOutOnce, Apart, TypeOK, At, notifyVars, workerVars
  <2>5. QueuedWorkRemembered'
    BY <1>1, NilAssumption
    DEF Inv, Insert, QueuedWorkRemembered, Looking, TypeOK, Thread, At, notifyVars,
         workerVars
  <2> QED
    BY <2>1, <2>2, <2>3, <2>4, <2>5 DEF Inv
<1>2. ASSUME NEW x \in Thread, PingCheck(x)
     PROVE  Inv'
  <2>1. TypeOK'
    BY <1>2, NilAssumption
    DEF Inv, PingCheck, TypeOK, Place, Locked, Thread, queueVars, workerVars
  <2>2. MutexOwner'
    BY <1>2, NilAssumption
    DEF Inv, PingCheck, MutexOwner, TypeOK, Locked, queueVars, workerVars
  <2>3. Apart'
    BY <1>2, NilAssumption
    DEF Inv, PingCheck, Apart, TypeOK, HandedOutOnce, At, queueVars, workerVars
  <2>4. HandedOutOnce'
    BY <1>2, NilAssumption
    DEF Inv, PingCheck, HandedOutOnce, Apart, TypeOK, At, queueVars, workerVars
  <2>5. QueuedWorkRemembered'
    BY <1>2, NilAssumption
    DEF Inv, PingCheck, QueuedWorkRemembered, Looking, TypeOK, Thread, queueVars, workerVars
  <2> QED
    BY <2>1, <2>2, <2>3, <2>4, <2>5 DEF Inv
<1>3. ASSUME NEW x \in Thread, PingNotify(x)
     PROVE  Inv'
  <2>1. TypeOK'
    BY <1>3, NilAssumption
    DEF Inv, PingNotify, TypeOK, Place, Locked, Thread, Goto, Sleepers, queueVars,
         notifyVars
  <2>2. MutexOwner'
    BY <1>3, NilAssumption
    DEF Inv, PingNotify, MutexOwner, TypeOK, Locked, Goto, Sleepers, queueVars, notifyVars
  <2>3. Apart'
    BY <1>3, NilAssumption
    DEF Inv, PingNotify, Apart, TypeOK, HandedOutOnce, At, Goto, Sleepers, queueVars,
         notifyVars
  <2>4. HandedOutOnce'
    BY <1>3, NilAssumption
    DEF Inv, PingNotify, HandedOutOnce, Apart, TypeOK, At, Goto, Sleepers, queueVars,
         notifyVars
  <2>5. QueuedWorkRemembered'
    BY <1>3, NilAssumption
    DEF Inv, PingNotify, QueuedWorkRemembered, Looking, TypeOK, Thread, Goto, Sleepers,
         queueVars, notifyVars
  <2> QED
    BY <2>1, <2>2, <2>3, <2>4, <2>5 DEF Inv
<1>4. ASSUME NEW w \in Worker, RunLoop(w)
     PROVE  Inv'
  <2>1. TypeOK'
    BY <1>4, NilAssumption
    DEF Inv, RunLoop, TypeOK, Place, Locked, Thread, At, Goto, queueVars, notifyVars
  <2>2. MutexOwner'
    BY <1>4, NilAssumption
    DEF Inv, RunLoop, MutexOwner, TypeOK, Locked, At, Goto, queueVars, notifyVars
  <2>3. Apart'
    BY <1>4, NilAssumption
    DEF Inv, RunLoop, Apart, TypeOK, HandedOutOnce, At, Goto, queueVars, notifyVars
  <2>4. HandedOutOnce'
    BY <1>4, NilAssumption
    DEF Inv, RunLoop, HandedOutOnce, Apart, TypeOK, At, Goto, queueVars, notifyVars
  <2>5. QueuedWorkRemembered'
    BY <1>4, NilAssumption
    DEF Inv, RunLoop, QueuedWorkRemembered, Looking, TypeOK, Thread, At, Goto,
         queueVars, notifyVars
  <2> QED
    BY <2>1, <2>2, <2>3, <2>4, <2>5 DEF Inv
<1>5. ASSUME NEW w \in Worker, PopUnlocked(w)
     PROVE  Inv'
  <2>1. TypeOK'
    BY <1>5, NilAssumption
    DEF Inv, PopUnlocked, TypeOK, Place, Locked, Thread, At, Goto, TakeTask, notifyVars
  <2>2. MutexOwner'
    BY <1>5, NilAssumption
    DEF Inv, PopUnlocked, MutexOwner, TypeOK, Locked, At, Goto, TakeTask, notifyVars
  <2>3. Apart'
    BY <1>5, NilAssumption
    DEF Inv, PopUnlocked, Apart, TypeOK, HandedOutOnce, At, Goto, TakeTask, notifyVars
  <2>4. HandedOutOnce'
    BY <1>5, NilAssumption
    DEF Inv, PopUnlocked, HandedOutOnce, Apart, TypeOK, At, Goto, TakeTask, notifyVars
  <2>5. QueuedWorkRemembered'
    BY <1>5, NilAssumption
    DEF Inv, PopUnlocked, QueuedWorkRemembered, Looking, TypeOK, Thread, At, Goto,
         TakeTask, notifyVars
  <2> QED
    BY <2>1, <2>2, <2>3, <2>4, <2>5 DEF Inv
<1>6. ASSUME NEW w \in Worker, AcquireMutex(w)
     PROVE  Inv'
  <2>1. TypeOK'
    BY <1>6, NilAssumption
    DEF Inv, AcquireMutex, TypeOK, Place, Locked, Thread, At, Goto, queueVars
  <2>2. MutexOwner'
    BY <1>6, NilAssumption
    DEF Inv, AcquireMutex, MutexOwner, TypeOK, Locked, At, Goto, queueVars
  <2>3. Apart'
    BY <1>6, NilAssumption
    DEF Inv, AcquireMutex, Apart, TypeOK, HandedOutOnce, At, Goto, queueVars
  <2>4. HandedOutOnce'
    BY <1>6, NilAssumption
    DEF Inv, AcquireMutex, HandedOutOnce, Apart, TypeOK, At, Goto, queueVars
  <2>5. QueuedWorkRemembered'
    BY <1>6, NilAssumption
    DEF Inv, AcquireMutex, QueuedWorkRemembered, Looking, TypeOK, Thread, At, Goto,
         queueVars
  <2> QED
    BY <2>1, <2>2, <2>3, <2>4, <2>5 DEF Inv
<1>7. ASSUME NEW w \in Worker, WaitLoop(w)
     PROVE  Inv'
  <2>1. TypeOK'
    BY <1>7, NilAssumption
    DEF Inv, WaitLoop, TypeOK, Place, Locked, Thread, At, Goto, queueVars
  <2>2. MutexOwner'
    BY <1>7, NilAssumption
    DEF Inv, WaitLoop, MutexOwner, TypeOK, Locked, At, Goto, queueVars
  <2>3. Apart'
    BY <1>7, NilAssumption
    DEF Inv, WaitLoop, Apart, TypeOK, HandedOutOnce, At, Goto, queueVars
  <2>4. HandedOutOnce'
    BY <1>7, NilAssumption
    DEF Inv, WaitLoop, HandedOutOnce, Apart, TypeOK, At, Goto, queueVars
  <2>5. QueuedWorkRemembered'
    BY <1>7, NilAssumption
    DEF Inv, WaitLoop, QueuedWorkRemembered, Looking, TypeOK, Thread, At, Goto, queueVars
  <2> QED
    BY <2>1, <2>2, <2>3, <2>4, <2>5 DEF Inv
<1>8. ASSUME NEW w \in Worker, PopLocked(w)
     PROVE  Inv'
  <2>1. TypeOK'
    BY <1>8, NilAssumption
    DEF Inv, PopLocked, TypeOK, Place, Locked, Thread, At, Goto, TakeTask
  <2>2. MutexOwner'
    BY <1>8, NilAssumption
    DEF Inv, PopLocked, MutexOwner, TypeOK, Locked, At, Goto, TakeTask
  <2>3. Apart'
    BY <1>8, NilAssumption
    DEF Inv, PopLocked, Apart, TypeOK, HandedOutOnce, At, Goto, TakeTask
  <2>4. HandedOutOnce'
    BY <1>8, NilAssumption
    DEF Inv, PopLocked, HandedOutOnce, Apart, TypeOK, At, Goto, TakeTask
  <2>5. QueuedWorkRemembered'
    BY <1>8, NilAssumption
    DEF Inv, PopLocked, QueuedWorkRemembered, Looking, TypeOK, Thread, At, Goto, TakeTask
  <2> QED
    BY <2>1, <2>2, <2>3, <2>4, <2>5 DEF Inv
<1>9. ASSUME NEW w \in Worker, ExchangeCheck(w)
     PROVE  Inv'
  <2>1. TypeOK'
    BY <1>9, NilAssumption, Zenon
    DEF Inv, ExchangeCheck, TypeOK, Place, Locked, Thread, At, Goto, queueVars
  <2>2. MutexOwner'
    BY <1>9, NilAssumption
    DEF Inv, ExchangeCheck, MutexOwner, TypeOK, Locked, At, Goto, queueVars
  <2>3. Apart'
    BY <1>9, NilAssumption
    DEF Inv, ExchangeCheck, Apart, TypeOK, HandedOutOnce, At, Goto, queueVars
  <2>4. HandedOutOnce'
    BY <1>9, NilAssumption
    DEF Inv, ExchangeCheck, HandedOutOnce, Apart, TypeOK, At, Goto, queueVars
  <2>5. QueuedWorkRemembered'
    BY <1>9, NilAssumption
    DEF Inv, ExchangeCheck, QueuedWorkRemembered, Looking, TypeOK, Thread, At, Goto,
         queueVars
  <2> QED
    BY <2>1, <2>2, <2>3, <2>4, <2>5 DEF Inv
<1>10. ASSUME NEW w \in Worker, GoIdle(w)
     PROVE  Inv'
  <2>1. TypeOK'
    BY <1>10, NilAssumption
    DEF Inv, GoIdle, TypeOK, Place, Locked, Thread, At, Goto, queueVars
  <2>2. MutexOwner'
    BY <1>10, NilAssumption
    DEF Inv, GoIdle, MutexOwner, TypeOK, Locked, At, Goto, queueVars
  <2>3. Apart'
    BY <1>10, NilAssumption
    DEF Inv, GoIdle, Apart, TypeOK, HandedOutOnce, At, Goto, queueVars
  <2>4. HandedOutOnce'
    BY <1>10, NilAssumption
    DEF Inv, GoIdle, HandedOutOnce, Apart, TypeOK, At, Goto, queueVars
  <2>5. QueuedWorkRemembered'
    BY <1>10, NilAssumption
    DEF Inv, GoIdle, QueuedWorkRemembered, Looking, TypeOK, Thread, At, Goto, queueVars
  <2> QED
    BY <2>1, <2>2, <2>3, <2>4, <2>5 DEF Inv
<1>11. ASSUME NEW w \in Worker, Sleep(w)
     PROVE  Inv'
  <2>1. TypeOK'
    BY <1>11, NilAssumption
    DEF Inv, Sleep, TypeOK, Place, Locked, Thread, At, Goto, queueVars
  <2>2. MutexOwner'
    BY <1>11, NilAssumption
    DEF Inv, Sleep, MutexOwner, TypeOK, Locked, At, Goto, queueVars
  <2>3. Apart'
    BY <1>11, NilAssumption
    DEF Inv, Sleep, Apart, TypeOK, HandedOutOnce, At, Goto, queueVars
  <2>4. HandedOutOnce'
    BY <1>11, NilAssumption
    DEF Inv, Sleep, HandedOutOnce, Apart, TypeOK, At, Goto, queueVars
  <2>5. QueuedWorkRemembered'
    BY <1>11, NilAssumption
    DEF Inv, Sleep, QueuedWorkRemembered, Looking, TypeOK, Thread, At, Goto, queueVars
  <2> QED
    BY <2>1, <2>2, <2>3, <2>4, <2>5 DEF Inv
<1>12. ASSUME NEW w \in Worker, Relock(w)
     PROVE  Inv'
  <2>1. TypeOK'
    BY <1>12, NilAssumption
    DEF Inv, Relock, TypeOK, Place, Locked, Thread, At, Goto, queueVars
  <2>2. MutexOwner'
    BY <1>12, NilAssumption
    DEF Inv, Relock, MutexOwner, TypeOK, Locked, At, Goto, queueVars
  <2>3. Apart'
    BY <1>12, NilAssumption
    DEF Inv, Relock, Apart, TypeOK, HandedOutOnce, At, Goto, queueVars
  <2>4. HandedOutOnce'
    BY <1>12, NilAssumption
    DEF Inv, Relock, HandedOutOnce, Apart, TypeOK, At, Goto, queueVars
  <2>5. QueuedWorkRemembered'
    BY <1>12, NilAssumption
    DEF Inv, Relock, QueuedWorkRemembered, Looking, TypeOK, Thread, At, Goto, queueVars
  <2> QED
    BY <2>1, <2>2, <2>3, <2>4, <2>5 DEF Inv
<1>13. ASSUME NEW w \in Worker, PopWoken(w)
     PROVE  Inv'
  <2>1. TypeOK'
    BY <1>13, NilAssumption
    DEF Inv, PopWoken, TypeOK, Place, Locked, Thread, At, Goto, TakeTask
  <2>2. MutexOwner'
    BY <1>13, NilAssumption
    DEF Inv, PopWoken, MutexOwner, TypeOK, Locked, At, Goto, TakeTask
  <2>3. Apart'
    BY <1>13, NilAssumption
    DEF Inv, PopWoken, Apart, TypeOK, HandedOutOnce, At, Goto, TakeTask
  <2>4. HandedOutOnce'
    BY <1>13, NilAssumption
    DEF Inv, PopWoken, HandedOutOnce, Apart, TypeOK, At, Goto, TakeTask
  <2>5. QueuedWorkRemembered'
    BY <1>13, NilAssumption
    DEF Inv, PopWoken, QueuedWorkRemembered, Looking, TypeOK, Thread, At, Goto, TakeTask
  <2> QED
    BY <2>1, <2>2, <2>3, <2>4, <2>5 DEF Inv
<1>14. ASSUME NEW w \in Worker, FinishWork(w)
     PROVE  Inv'
  <2>1. TypeOK'
    BY <1>14, NilAssumption
    DEF Inv, FinishWork, TypeOK, Place, Locked, Thread, HandedOutOnce, At, Goto, notifyVars
  <2>2. MutexOwner'
    BY <1>14, NilAssumption
    DEF Inv, FinishWork, MutexOwner, TypeOK, Locked, At, Goto, notifyVars
  <2>3. Apart'
    BY <1>14, NilAssumption
    DEF Inv, FinishWork, Apart, TypeOK, HandedOutOnce, At, Goto, notifyVars
  <2>4. HandedOutOnce'
    BY <1>14, NilAssumption
    DEF Inv, FinishWork, HandedOutOnce, Apart, TypeOK, At, Goto, notifyVars
  <2>5. QueuedWorkRemembered'
    BY <1>14, NilAssumption
    DEF Inv, FinishWork, QueuedWorkRemembered, Looking, TypeOK, Thread, At, Goto, notifyVars
  <2> QED
    BY <2>1, <2>2, <2>3, <2>4, <2>5 DEF Inv
<1>15. ASSUME NEW w \in Worker, SpuriousWakeup(w)
     PROVE  Inv'
  <2>1. TypeOK'
    BY <1>15, NilAssumption
    DEF Inv, SpuriousWakeup, TypeOK, Place, Locked, Thread, At, Goto, queueVars, notifyVars
  <2>2. MutexOwner'
    BY <1>15, NilAssumption
    DEF Inv, SpuriousWakeup, MutexOwner, TypeOK, Locked, At, Goto, queueVars, notifyVars
  <2>3. Apart'
    BY <1>15, NilAssumption
    DEF Inv, SpuriousWakeup, Apart, TypeOK, HandedOutOnce, At, Goto, queueVars, notifyVars
  <2>4. HandedOutOnce'
    BY <1>15, NilAssumption
    DEF Inv, SpuriousWakeup, HandedOutOnce, Apart, TypeOK, At, Goto, queueVars, notifyVars
  <2>5. QueuedWorkRemembered'
    BY <1>15, NilAssumption
    DEF Inv, SpuriousWakeup, QueuedWorkRemembered, Looking, TypeOK, Thread, At, Goto,
         queueVars, notifyVars
  <2> QED
    BY <2>1, <2>2, <2>3, <2>4, <2>5 DEF Inv
<1>16. ASSUME NEW t \in Task, AbortMark(t)
     PROVE  Inv'
  <2>1. TypeOK'
    BY <1>16, NilAssumption
    DEF Inv, AbortMark, TypeOK, Place, Locked, Thread, notifyVars, workerVars
  <2>2. MutexOwner'
    BY <1>16, NilAssumption
    DEF Inv, AbortMark, MutexOwner, TypeOK, Locked, notifyVars, workerVars
  <2>3. Apart'
    BY <1>16, NilAssumption
    DEF Inv, AbortMark, Apart, TypeOK, HandedOutOnce, At, notifyVars, workerVars
  <2>4. HandedOutOnce'
    BY <1>16, NilAssumption
    DEF Inv, AbortMark, HandedOutOnce, Apart, TypeOK, At, notifyVars, workerVars
  <2>5. QueuedWorkRemembered'
    BY <1>16, NilAssumption
    DEF Inv, AbortMark, QueuedWorkRemembered, Looking, TypeOK, Thread, notifyVars,
         workerVars
  <2> QED
    BY <2>1, <2>2, <2>3, <2>4, <2>5 DEF Inv
<1>17. ASSUME NEW t \in Task, AbortUnlink(t)
     PROVE  Inv'
  <2>1. TypeOK'
    BY <1>17, NilAssumption
    DEF Inv, AbortUnlink, TypeOK, Place, Locked, Thread, notifyVars, workerVars
  <2>2. MutexOwner'
    BY <1>17, NilAssumption
    DEF Inv, AbortUnlink, MutexOwner, TypeOK, Locked, notifyVars, workerVars
  <2>3. Apart'
    BY <1>17, NilAssumption
    DEF Inv, AbortUnlink, Apart, TypeOK, HandedOutOnce, At, notifyVars, workerVars
  <2>4. HandedOutOnce'
    BY <1>17, NilAssumption
    DEF Inv, AbortUnlink, HandedOutOnce, Apart, TypeOK, At, notifyVars, workerVars
  <2>5. QueuedWorkRemembered'
    BY <1>17, NilAssumption
    DEF Inv, AbortUnlink, QueuedWorkRemembered, Looking, TypeOK, Thread, notifyVars,
         workerVars
  <2> QED
    BY <2>1, <2>2, <2>3, <2>4, <2>5 DEF Inv
<1>18. ASSUME TerminateAllTasks
     PROVE  Inv'
  <2>1. TypeOK'
    BY <1>18, NilAssumption
    DEF Inv, TerminateAllTasks, TypeOK, Place, Locked, Thread, HandedOutOnce, At,
         notifyVars, workerVars
  <2>2. MutexOwner'
    BY <1>18, NilAssumption
    DEF Inv, TerminateAllTasks, MutexOwner, TypeOK, Locked, At, notifyVars, workerVars
  <2>3. Apart'
    BY <1>18, NilAssumption
    DEF Inv, TerminateAllTasks, Apart, TypeOK, HandedOutOnce, At, notifyVars, workerVars
  <2>4. HandedOutOnce'
    BY <1>18, NilAssumption
    DEF Inv, TerminateAllTasks, HandedOutOnce, Apart, TypeOK, At, notifyVars, workerVars
  <2>5. QueuedWorkRemembered'
    BY <1>18, NilAssumption
    DEF Inv, TerminateAllTasks, QueuedWorkRemembered, Looking, TypeOK, Thread, At,
         notifyVars, workerVars
  <2> QED
    BY <2>1, <2>2, <2>3, <2>4, <2>5 DEF Inv
<1>19. ASSUME SetStop
     PROVE  Inv'
  <2>1. TypeOK'
    BY <1>19, NilAssumption
    DEF Inv, SetStop, TypeOK, Place, Locked, Thread, queueVars, notifyVars, workerVars
  <2>2. MutexOwner'
    BY <1>19, NilAssumption
    DEF Inv, SetStop, MutexOwner, TypeOK, Locked, queueVars, notifyVars, workerVars
  <2>3. Apart'
    BY <1>19, NilAssumption
    DEF Inv, SetStop, Apart, TypeOK, HandedOutOnce, At, queueVars, notifyVars, workerVars
  <2>4. HandedOutOnce'
    BY <1>19, NilAssumption
    DEF Inv, SetStop, HandedOutOnce, Apart, TypeOK, At, queueVars, notifyVars, workerVars
  <2>5. QueuedWorkRemembered'
    BY <1>19, NilAssumption
    DEF Inv, SetStop, QueuedWorkRemembered, Looking, TypeOK, Thread, queueVars,
         notifyVars, workerVars
  <2> QED
    BY <2>1, <2>2, <2>3, <2>4, <2>5 DEF Inv
<1>20. ASSUME NotifyAll
     PROVE  Inv'
  <2>1. TypeOK'
    BY <1>20, NilAssumption
    DEF Inv, NotifyAll, TypeOK, Place, Locked, Thread, At, queueVars, notifyVars
  <2>2. MutexOwner'
    BY <1>20, NilAssumption
    DEF Inv, NotifyAll, MutexOwner, TypeOK, Locked, At, queueVars, notifyVars
  <2>3. Apart'
    BY <1>20, NilAssumption
    DEF Inv, NotifyAll, Apart, TypeOK, HandedOutOnce, At, queueVars, notifyVars
  <2>4. HandedOutOnce'
    BY <1>20, NilAssumption
    DEF Inv, NotifyAll, HandedOutOnce, Apart, TypeOK, At, queueVars, notifyVars
  <2>5. QueuedWorkRemembered'
    BY <1>20, NilAssumption
    DEF Inv, NotifyAll, QueuedWorkRemembered, Looking, TypeOK, Thread, At, queueVars,
         notifyVars
  <2> QED
    BY <2>1, <2>2, <2>3, <2>4, <2>5 DEF Inv
<1>21. ASSUME UNCHANGED vars
     PROVE  Inv'
  BY <1>21 DEF Inv, TypeOK, MutexOwner, Apart, HandedOutOnce, QueuedWorkRemembered, At, Looking, vars
<1> QED
  BY <1>1, <1>2, <1>3, <1>4, <1>5, <1>6, <1>7, <1>8, <1>9, <1>10, <1>11, <1>12, <1>13, <1>14, <1>15, <1>16, <1>17, <1>18, <1>19, <1>20, <1>21 DEF Next, WorkerStep, PingStep, ExitStep

\* notifierMutex is owned by exactly the worker inside getNextTask's critical
\* section: whatever wakes a worker, it re-enters with the mutex.
THEOREM MutexOwned == Spec => []MutexOwner
<1>1. Inv => MutexOwner
  BY DEF Inv
<1> QED
  BY InitInv, NextInv, <1>1, PTL DEF Spec

\* No task is given to two workers, and none is worked on while it is queued.
THEOREM TasksHandedOutOnce == Spec => []HandedOutOnce
<1>1. Inv => HandedOutOnce
  BY DEF Inv
<1> QED
  BY InitInv, NextInv, <1>1, PTL DEF Spec

\* The flag protocol between workping and getNextTask never forgets a queued
\* task, although neither the flag nor the notification is under the mutex.
THEOREM WorkIsRemembered == Spec => []QueuedWorkRemembered
<1>1. Inv => QueuedWorkRemembered
  BY DEF Inv
<1> QED
  BY InitInv, NextInv, <1>1, PTL DEF Spec

\* Every variable of the executor keeps its type, for any number of workers.
THEOREM ExecutorTypes == Spec => []TypeOK
<1>1. Inv => TypeOK
  BY DEF Inv
<1> QED
  BY InitInv, NextInv, <1>1, PTL DEF Spec

=============================================================================
