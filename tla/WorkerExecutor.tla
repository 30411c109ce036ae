--------------------------- MODULE WorkerExecutor ---------------------------
(***************************************************************************)
(* How the workers of the runner module sleep and wake up                  *)
(* (modules/runner/runner_worker_executor.cpp, runner_worker.cpp).  Every  *)
(* worker thread loops in Worker::run; without a task it sleeps on the     *)
(* condition variable `notifier`.  A thread that queues a task in the      *)
(* broker's task store calls workping, which raises notifierCheck and      *)
(* notifies one sleeper, without holding notifierMutex.  Shutdown raises   *)
(* `stop` and notifies all sleepers, again without the mutex.              *)
(*                                                                         *)
(* What a task is does not matter here: the work queue is a set, and a     *)
(* finished task returns to `fresh` so that a run may queue it again.      *)
(***************************************************************************)
EXTENDS Naturals, FiniteSets

CONSTANTS
    Worker,     \* the worker threads
    Client,     \* the other threads that queue tasks (I/O, parsing, timers)
    Task,       \* the tasks that may be queued
    Nil         \* no task, no owner of the mutex

ASSUME NilAssumption == Nil \notin Worker \cup Task

VARIABLES
    fresh,          \* tasks that are not queued and not worked on
    queue,          \* tasksWaitingForWorkerQueue of the task store
    taskStop,       \* tasks whose `stop` flag is set
    aborting,       \* queued tasks default_terminate_task is about to unlink
    notifierMutex,  \* the worker that owns it, or Nil
    notifierCheck,
    stop,           \* WorkerExecutor::Internal::stop
    pc,             \* where a worker is
    currentTask,    \* Worker::m_currentTask while it works
    ping,           \* how far a thread has come with queueing a task
    exit,           \* how far request_exit has come
    dropped         \* tasks that left the queue without being worked on

queueVars == <<fresh, queue, taskStop, aborting, dropped>>
notifyVars == <<notifierMutex, notifierCheck>>
workerVars == <<pc, currentTask>>
vars == <<fresh, queue, taskStop, aborting, notifierMutex, notifierCheck, stop, pc,
          currentTask, ping, exit, dropped>>

Thread == Worker \cup Client

\* The places of a worker.  From "loop" to "wait", and in "pop3", it owns the
\* mutex; "asleep" and "relock" are inside notifier.wait.
Locked == {"loop", "pop2", "exchange", "idle", "wait", "pop3"}
Place == Locked \cup {"run", "pop", "lock", "asleep", "relock", "work", "exited"}

Init ==
    /\ fresh = Task
    /\ queue = {} /\ taskStop = {} /\ aborting = {} /\ dropped = {}
    /\ notifierMutex = Nil
    /\ notifierCheck = FALSE
    /\ stop = FALSE
    /\ pc = [w \in Worker |-> "run"]
    /\ currentTask = [w \in Worker |-> Nil]
    /\ ping = [x \in Thread |-> "none"]
    /\ exit = "running"

At(w, place) == pc[w] = place

Goto(w, place) == pc' = [pc EXCEPT ![w] = place]

Sleepers == {w \in Worker : pc[w] = "asleep"}

\* Faulty variant: the task stays in the queue.
TakeTask_StaysQueued(w, t) ==
    /\ t \in queue
    /\ currentTask' = [currentTask EXCEPT ![w] = t]
    /\ UNCHANGED queue

\* TaskStore::pop_work: the front of the queue becomes the worker's task.
TakeTask(w, t) ==
    /\ t \in queue
    /\ queue' = queue \ {t}
    /\ currentTask' = [currentTask EXCEPT ![w] = t]

-----------------------------------------------------------------------------
(* Queueing a task.  insert_into_tasksWaitingForWorkerQueue releases the   *)
(* container mutex before it calls ping_on_work, and workping first sets   *)
(* the flag and then notifies.  Any client may do it, and a worker while   *)
(* it works (the children of a split, a task it assesses).                 *)

Insert(x) ==
    /\ ping[x] = "none"
    /\ x \in Worker => At(x, "work")
    /\ \E t \in fresh :
         /\ fresh' = fresh \ {t}
         /\ queue' = queue \cup {t}
         /\ taskStop' = taskStop \ {t}
    /\ ping' = [ping EXCEPT ![x] = "check"]
    /\ UNCHANGED <<aborting, dropped, notifyVars, stop, workerVars, exit>>

\* Faulty variant: the flag is not raised.
PingCheck_NoFlag(x) ==
    /\ ping[x] = "check"
    /\ ping' = [ping EXCEPT ![x] = "notify"]
    /\ UNCHANGED <<queueVars, notifyVars, stop, workerVars, exit>>

PingCheck(x) ==
    /\ ping[x] = "check"
    /\ notifierCheck' = TRUE
    /\ ping' = [ping EXCEPT ![x] = "notify"]
    /\ UNCHANGED <<queueVars, notifierMutex, stop, workerVars, exit>>

PingNotify(x) ==
    /\ ping[x] = "notify"
    /\ ping' = [ping EXCEPT ![x] = "none"]
    /\ \/ Sleepers = {} /\ UNCHANGED pc
       \/ \E w \in Sleepers : Goto(w, "relock")
    /\ UNCHANGED <<queueVars, notifyVars, stop, currentTask, exit>>

-----------------------------------------------------------------------------
(* Worker::run and Worker::getNextTask, one step per access to shared      *)
(* state.                                                                  *)

\* run: while(!m_stop)
RunLoop(w) ==
    /\ At(w, "run")
    /\ Goto(w, IF stop THEN "exited" ELSE "pop")
    /\ UNCHANGED <<queueVars, notifyVars, stop, currentTask, ping, exit>>

\* getNextTask: the attempt without the mutex.
PopUnlocked(w) ==
    /\ At(w, "pop")
    /\ \/ /\ queue = {}
          /\ Goto(w, "lock")
          /\ UNCHANGED <<queue, currentTask>>
       \/ /\ \E t \in queue : TakeTask(w, t)
          /\ Goto(w, "work")
    /\ UNCHANGED <<fresh, taskStop, aborting, dropped, notifyVars, stop, ping, exit>>

AcquireMutex(w) ==
    /\ At(w, "lock")
    /\ notifierMutex = Nil
    /\ notifierMutex' = w
    /\ Goto(w, "loop")
    /\ UNCHANGED <<queueVars, notifierCheck, stop, currentTask, ping, exit>>

\* getNextTask: while(!m_stop); leaving it returns no task to run.
WaitLoop(w) ==
    /\ At(w, "loop")
    /\ \/ stop /\ Goto(w, "run") /\ notifierMutex' = Nil
       \/ ~stop /\ Goto(w, "pop2") /\ UNCHANGED notifierMutex
    /\ UNCHANGED <<queueVars, notifierCheck, stop, currentTask, ping, exit>>

PopLocked(w) ==
    /\ At(w, "pop2")
    /\ \/ /\ queue = {}
          /\ Goto(w, "exchange")
          /\ UNCHANGED <<queue, currentTask, notifierMutex>>
       \/ /\ \E t \in queue : TakeTask(w, t)
          /\ Goto(w, "work")
          /\ notifierMutex' = Nil
    /\ UNCHANGED <<fresh, taskStop, aborting, dropped, notifierCheck, stop, ping, exit>>

\* m_notifierCheck.exchange(false)
ExchangeCheck(w) ==
    /\ At(w, "exchange")
    /\ notifierCheck' = FALSE
    /\ Goto(w, IF notifierCheck THEN "pop3" ELSE "idle")
    /\ UNCHANGED <<queueVars, notifierMutex, stop, currentTask, ping, exit>>

\* Faulty variant: m_stop is not looked at again.
GoIdle_NoStop(w) ==
    /\ At(w, "idle")
    /\ Goto(w, "wait")
    /\ UNCHANGED <<queueVars, notifyVars, stop, currentTask, ping, exit>>

\* The last look at m_stop before the worker sleeps.
GoIdle(w) ==
    /\ At(w, "idle")
    /\ \/ stop /\ Goto(w, "run") /\ notifierMutex' = Nil
       \/ ~stop /\ Goto(w, "wait") /\ UNCHANGED notifierMutex
    /\ UNCHANGED <<queueVars, notifierCheck, stop, currentTask, ping, exit>>

\* m_notifier.wait(lock) releases the mutex and falls asleep in one step.
Sleep(w) ==
    /\ At(w, "wait")
    /\ notifierMutex' = Nil
    /\ Goto(w, "asleep")
    /\ UNCHANGED <<queueVars, notifierCheck, stop, currentTask, ping, exit>>

\* A condition variable may wake a thread nobody notified.
SpuriousWakeup(w) ==
    /\ At(w, "asleep")
    /\ Goto(w, "relock")
    /\ UNCHANGED <<queueVars, notifyVars, stop, currentTask, ping, exit>>

\* Faulty variant: the mutex is not waited for.
Relock_NoWait(w) ==
    /\ At(w, "relock")
    /\ notifierMutex' = w
    /\ Goto(w, "pop3")
    /\ UNCHANGED <<queueVars, notifierCheck, stop, currentTask, ping, exit>>

Relock(w) ==
    /\ At(w, "relock")
    /\ notifierMutex = Nil
    /\ notifierMutex' = w
    /\ Goto(w, "pop3")
    /\ UNCHANGED <<queueVars, notifierCheck, stop, currentTask, ping, exit>>

\* The pop after a wake-up.  A task popped while stopping, or one that was
\* told to stop, is not returned and not put back.
PopWoken(w) ==
    /\ At(w, "pop3")
    /\ \/ /\ queue = {}
          /\ Goto(w, "loop")
          /\ UNCHANGED <<queue, currentTask, dropped, notifierMutex>>
       \/ \E t \in queue :
            /\ stop \/ t \in taskStop
            /\ queue' = queue \ {t}
            /\ dropped' = dropped \cup {t}
            /\ Goto(w, "loop")
            /\ UNCHANGED <<currentTask, notifierMutex>>
       \/ \E t \in queue :
            /\ ~stop /\ t \notin taskStop
            /\ TakeTask(w, t)
            /\ Goto(w, "work")
            /\ notifierMutex' = Nil
            /\ UNCHANGED dropped
    /\ UNCHANGED <<fresh, taskStop, aborting, notifierCheck, stop, ping, exit>>

\* The task's work function has returned and the task was assessed.
FinishWork(w) ==
    /\ At(w, "work")
    /\ ping[w] = "none"
    /\ fresh' = fresh \cup {currentTask[w]}
    /\ currentTask' = [currentTask EXCEPT ![w] = Nil]
    /\ Goto(w, "run")
    /\ UNCHANGED <<queue, taskStop, aborting, dropped, notifyVars, stop, ping, exit>>

WorkerStep(w) ==
    \/ RunLoop(w) \/ PopUnlocked(w) \/ AcquireMutex(w) \/ WaitLoop(w)
    \/ PopLocked(w) \/ ExchangeCheck(w) \/ GoIdle(w) \/ Sleep(w)
    \/ Relock(w) \/ PopWoken(w) \/ FinishWork(w)

-----------------------------------------------------------------------------
(* default_terminate_task aborts a queued task: it first tells the task to *)
(* stop and then takes it out of the queue, if it is still there.          *)

AbortMark(t) ==
    /\ t \in queue \ aborting
    /\ taskStop' = taskStop \cup {t}
    /\ aborting' = aborting \cup {t}
    /\ UNCHANGED <<fresh, queue, dropped, notifyVars, stop, workerVars, ping, exit>>

AbortUnlink(t) ==
    /\ t \in aborting
    /\ aborting' = aborting \ {t}
    /\ queue' = queue \ {t}
    /\ dropped' = dropped \cup (queue \cap {t})
    /\ UNCHANGED <<fresh, taskStop, notifyVars, stop, workerVars, ping, exit>>

-----------------------------------------------------------------------------
(* Shutdown: ModuleLoader::request_exit runs the broker's request_exit     *)
(* (terminateAllTasks) before the runner's (WorkerExecutor::exit).         *)

\* Faulty variant: the tasks of workers that have none are stopped as well.
TerminateAllTasks_NullTasks ==
    /\ exit = "running"
    /\ taskStop' = taskStop \cup queue \cup {currentTask[w] : w \in Worker}
    /\ exit' = "terminated"
    /\ UNCHANGED <<fresh, queue, aborting, dropped, notifyVars, stop, workerVars, ping>>

TerminateAllTasks ==
    /\ exit = "running"
    /\ taskStop' = taskStop \cup queue \cup
                      {currentTask[w] : w \in {v \in Worker : At(v, "work")}}
    /\ exit' = "terminated"
    /\ UNCHANGED <<fresh, queue, aborting, dropped, notifyVars, stop, workerVars, ping>>

SetStop ==
    /\ exit = "terminated"
    /\ stop' = TRUE
    /\ exit' = "notify"
    /\ UNCHANGED <<queueVars, notifyVars, workerVars, ping>>

NotifyAll ==
    /\ exit \in {"notify", "again"}
    /\ exit' = IF exit = "notify" THEN "again" ELSE "done"
    /\ pc' = [w \in Worker |-> IF At(w, "asleep") THEN "relock" ELSE pc[w]]
    /\ UNCHANGED <<queueVars, notifyVars, stop, currentTask, ping>>

PingStep(x) == PingCheck(x) \/ PingNotify(x)

ExitStep == SetStop \/ NotifyAll

Next ==
    \/ \E x \in Thread : Insert(x) \/ PingStep(x)
    \/ \E w \in Worker : WorkerStep(w) \/ SpuriousWakeup(w)
    \/ \E t \in Task : AbortMark(t) \/ AbortUnlink(t)
    \/ TerminateAllTasks
    \/ ExitStep

Spec == Init /\ [][Next]_vars

\* The operating system runs every thread that can run.  Nobody has to queue
\* a task or to ask for an exit, and no spurious wake-up has to happen.
Fairness ==
    /\ \A x \in Thread : WF_vars(PingStep(x))
    /\ \A w \in Worker : WF_vars(WorkerStep(w))
    /\ WF_vars(ExitStep)

FairSpec == Spec /\ Fairness

-----------------------------------------------------------------------------
(* Properties                                                              *)

\* Every variable keeps its type.
TypeOK ==
    /\ fresh \subseteq Task /\ queue \subseteq Task
    /\ taskStop \subseteq Task /\ aborting \subseteq Task /\ dropped \subseteq Task
    /\ notifierMutex \in Worker \cup {Nil}
    /\ notifierCheck \in BOOLEAN /\ stop \in BOOLEAN
    /\ pc \in [Worker -> Place]
    /\ currentTask \in [Worker -> Task \cup {Nil}]
    /\ ping \in [Thread -> {"none", "check", "notify"}]
    /\ exit \in {"running", "terminated", "notify", "again", "done"}

\* A worker owns notifierMutex exactly between taking it in getNextTask and
\* returning or sleeping, whatever the order of wake-ups.
MutexOwner == \A w \in Worker : pc[w] \in Locked <=> notifierMutex = w

\* A queued task is handed to one worker only: nobody works on a task that is
\* still queued, that was dropped, or that another worker works on
\* (Worker::run relies on pop_work for this).
HandedOutOnce ==
    \A w \in Worker : At(w, "work") =>
        /\ currentTask[w] \in Task \ (fresh \cup queue \cup dropped)
        /\ \A v \in Worker \ {w} : currentTask[v] # currentTask[w]

\* A worker that looks for work before it would consult the flag again.
Looking(w) == pc[w] \in {"run", "pop", "lock", "loop", "pop2", "relock", "pop3", "work"}

\* Queued work is never forgotten by the flag protocol of workping and
\* getNextTask: while a task waits, either some worker will still look at the
\* queue, or the ping is on its way, or notifierCheck is set.  So if every
\* worker sleeps beside a non-empty queue, the flag says so, and the next
\* worker to wake up for any reason takes the task.
QueuedWorkRemembered ==
    queue # {} => \/ notifierCheck
                  \/ \E x \in Thread : ping[x] = "check"
                  \/ \E w \in Worker : Looking(w)
                  \/ stop

Settled == \A w \in Worker : pc[w] \notin {"wait", "asleep"}

AllExited == \A w \in Worker : At(w, "exited")

\* Once WorkerExecutor::exit is done, all workers leave Worker::run, provided
\* none is between its last look at m_stop and falling asleep.
SettledShutdown == (exit = "done" /\ Settled) ~> AllExited

\* WorkerExecutor::exit stops all workers.
ShutdownStopsWorkers == (exit = "done") ~> AllExited

=============================================================================
