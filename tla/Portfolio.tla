------------------------------ MODULE Portfolio ------------------------------
(***************************************************************************)
(* A portfolio of solvers on one cube (modules/solver_qbf/                 *)
(* portfolio_qbf_handle.cpp; modules/solver/portfolio_sat_handle.cpp is    *)
(* the same code for SAT).  One thread per inner solver handle takes the   *)
(* events Assume, Solve, Terminate and Destruct from a shared queue; an    *)
(* event leaves the queue when all handles have received it.  The client   *)
(* is the worker inside QBFSolverTask::work; another thread may call       *)
(* terminate() meanwhile.                                                  *)
(*                                                                         *)
(* Events are numbered from 1 (from 0 in the code).  The queue m_events is *)
(* the log of all events without the first `popped` ones.  An answer of a  *)
(* solver is represented by the number of the Assume event of its cube.    *)
(***************************************************************************)
EXTENDS Integers, Sequences, FiniteSets

CONSTANTS Handle,        \* the inner solver handles
          Unreliable,    \* those whose solver may return an unsupported status
          MaxTask,       \* how many cubes the client has solved
          MaxTerminate   \* how often another thread calls terminate()

ASSUME PortfolioAssumption ==
  /\ IsFiniteSet(Handle) /\ Handle # {} /\ Unreliable \subseteq Handle
  /\ MaxTask \in Nat /\ MaxTerminate \in Nat

Types == {"Assume", "Solve", "Terminate", "Destruct"}

\* The answer PARAC_ABORTED, an answer for the formula without a cube, and a
\* status that is none of SAT, UNSAT and ABORTED.
Aborted == -1
NoCube  == -2
Unknown == -3

VARIABLES
  log, popped,        \* m_events: the events after the first popped ones
  received,           \* m_handlesThatReceivedCurrentEvent
  processed,          \* m_handlesThatProcessedCurrentEvent
  mostRecentHandled,  \* m_mostRecentHandledEvent
  readyHandles,       \* m_readyHandles
  alreadySolved,      \* m_eventAlreadySolved
  resultLock,         \* the handle owning m_solveResultMutex: {} or {h}
  solveResult,        \* m_solveResult
  terminating,        \* m_terminating
  hpc, ev,            \* a handle's position and the number of its event
  afterAssume,        \* the handles with previousWasAssume
  cube,               \* the cube assumed in a handle's solver
  answer,             \* what solver_handle->solve() returned
  stopped,            \* the solvers told to terminate while solving
  cpc, task, waitFor, \* the client: position, its cube, the event it awaits
  returned,           \* what solve() returned for the cube
  tpc, terminates     \* the thread calling terminate(): position, calls

queueVars  == <<log, popped, received, processed, mostRecentHandled>>
resultVars == <<alreadySolved, resultLock, solveResult>>
handleVars == <<hpc, ev, afterAssume, cube, answer, stopped>>
clientVars == <<cpc, task, waitFor, returned>>
extVars    == <<tpc, terminates>>
vars == <<queueVars, readyHandles, resultVars, terminating, handleVars, clientVars, extVars>>

Init ==
  /\ log = <<>> /\ popped = 0 /\ received = 0 /\ processed = 0
  /\ mostRecentHandled = 0 /\ readyHandles = 0
  /\ alreadySolved = 0 /\ resultLock = {} /\ solveResult = Aborted
  /\ terminating = FALSE
  /\ hpc = [h \in Handle |-> "init"]
  /\ ev = [h \in Handle |-> 0]
  /\ afterAssume = {} /\ stopped = {}
  /\ cube = [h \in Handle |-> NoCube]
  /\ answer = [h \in Handle |-> Aborted]
  /\ cpc = "construct" /\ task = 0 /\ waitFor = 0 /\ returned = Aborted
  /\ tpc = "idle" /\ terminates = 0

-----------------------------------------------------------------------------
(***************************************************************************)
(* The event queue.  Its condition variables are notified, under the       *)
(* mutex, by every change their waiting loops test for, so waiting is a    *)
(* guard.                                                                  *)
(***************************************************************************)
pushEvent(e) == log' = Append(log, e)

\* Faulty variants of the counting below: the announced number is one too
\* small; the counter is not reset.
MarkProcessed_OffByOne(h) ==
  IF processed + 1 = Cardinality(Handle)
    THEN processed' = 0 /\ mostRecentHandled' = ev[h] - 1
    ELSE processed' = processed + 1 /\ UNCHANGED mostRecentHandled

MarkProcessed_NoReset(h) ==
  /\ processed' = processed + 1
  /\ mostRecentHandled' = IF processed + 1 = Cardinality(Handle) THEN ev[h]
                                                                 ELSE mostRecentHandled

\* popEvent on entry: the handle is done with its event; the last of all
\* handles to be so announces the event it had itself.
MarkProcessed(h) ==
  IF processed + 1 = Cardinality(Handle)
    THEN processed' = 0 /\ mostRecentHandled' = ev[h]
    ELSE processed' = processed + 1 /\ UNCHANGED mostRecentHandled

\* Faulty variant: a handle takes the same event again.
Available_Again(h) == popped < Len(log)

\* There is an event the handle has not received yet.
Available(h) == popped < Len(log) /\ ev[h] < popped + 1

\* popEvent takes the front event; the last handle to receive it pops it.
Receive(h) ==
  /\ Available(h)
  /\ ev' = [ev EXCEPT ![h] = popped + 1]
  /\ IF received + 1 = Cardinality(Handle)
       THEN received' = 0 /\ popped' = popped + 1
       ELSE received' = received + 1 /\ UNCHANGED popped
  /\ hpc' = [hpc EXCEPT ![h] = "event"]

PopEvent(h) ==
  /\ hpc[h] = "pop"
  /\ MarkProcessed(h)
  /\ \/ Receive(h)
     \/ /\ ~Available(h)
        /\ hpc' = [hpc EXCEPT ![h] = "wait"]
        /\ UNCHANGED <<ev, popped, received>>
  /\ UNCHANGED <<log, readyHandles, resultVars, terminating, afterAssume, cube, answer,
                 stopped, clientVars, extVars>>

WakeUp(h) ==
  /\ hpc[h] = "wait"
  /\ Receive(h)
  /\ UNCHANGED <<log, processed, mostRecentHandled, readyHandles, resultVars, terminating,
                 afterAssume, cube, answer, stopped, clientVars, extVars>>

-----------------------------------------------------------------------------
(***************************************************************************)
(* The thread of a handle: handleRun and its states.                       *)
(***************************************************************************)
beReady(h) ==
  /\ hpc[h] = "init"
  /\ readyHandles' = readyHandles + 1
  /\ hpc' = [hpc EXCEPT ![h] = "pop"]
  /\ UNCHANGED <<queueVars, resultVars, terminating, ev, afterAssume, cube, answer, stopped,
                 clientVars, extVars>>

\* Faulty variant: the Solve after an Assume is not skipped.
HandleEvent_SolvesTwice(h) ==
  LET type == log[ev[h]]
  IN  /\ hpc[h] = "event"
      /\ hpc' = [hpc EXCEPT ![h] = IF type \in {"Assume", "Solve"} THEN "solve"
                                   ELSE IF type = "Destruct" THEN "end" ELSE "pop"]
      /\ afterAssume' = IF type = "Assume" THEN afterAssume \cup {h} ELSE afterAssume \ {h}
      /\ cube' = IF type = "Assume" THEN [cube EXCEPT ![h] = ev[h]] ELSE cube
      /\ stopped' = stopped \ {h}
      /\ UNCHANGED <<queueVars, readyHandles, resultVars, terminating, ev, answer,
                     clientVars, extVars>>

\* StateWaitFunc and StateAssumeFunc.  Assume already starts solving; the
\* Solve that follows it is skipped.
HandleEvent(h) ==
  LET type == log[ev[h]]
      solves == type = "Assume" \/ (type = "Solve" /\ h \notin afterAssume)
  IN  /\ hpc[h] = "event"
      /\ hpc' = [hpc EXCEPT ![h] = IF solves THEN "solve"
                                   ELSE IF type = "Destruct" THEN "end" ELSE "pop"]
      /\ afterAssume' = IF type = "Assume" THEN afterAssume \cup {h} ELSE afterAssume \ {h}
      /\ cube' = IF type = "Assume" THEN [cube EXCEPT ![h] = ev[h]] ELSE cube
      /\ stopped' = stopped \ {h}
      /\ UNCHANGED <<queueVars, readyHandles, resultVars, terminating, ev, answer,
                     clientVars, extVars>>

\* solver_handle->solve() returns: an answer, ABORTED after terminate(), or
\* something else.
\* The assumption holds for this call only.
SolverReturns(h) ==
  /\ hpc[h] = "solve"
  /\ \E r \in {cube[h]} \cup (IF h \in stopped THEN {Aborted} ELSE {})
                       \cup (IF h \in Unreliable THEN {Unknown} ELSE {}) :
       answer' = [answer EXCEPT ![h] = r]
  /\ cube' = [cube EXCEPT ![h] = NoCube]
  /\ hpc' = [hpc EXCEPT ![h] = "solved"]
  /\ UNCHANGED <<queueVars, readyHandles, resultVars, terminating, ev, afterAssume, stopped,
                 clientVars, extVars>>

\* A call of terminate() reaches the solvers of hs that are solving.
StopSolvers(hs) == stopped' = stopped \cup {h \in hs : hpc[h] = "solve"}

\* StateSolveFunc after solve(): the first handle with a result for the event
\* stops the others ...
StateSolveFunc(h) ==
  /\ hpc[h] = "solved"
  /\ IF answer[h] # Unknown /\ resultLock = {} /\ alreadySolved < ev[h]
       THEN /\ resultLock' = {h}
            /\ alreadySolved' = ev[h]
            /\ StopSolvers(Handle \ {h})
            /\ hpc' = [hpc EXCEPT ![h] = "publish"]
       ELSE /\ hpc' = [hpc EXCEPT ![h] = "pop"]
            /\ UNCHANGED <<resultLock, alreadySolved, stopped>>
  /\ UNCHANGED <<queueVars, readyHandles, solveResult, terminating, ev, afterAssume, cube,
                 answer, clientVars, extVars>>

\* Faulty variant: the mutex is not released.
Publish_KeepsLock(h) ==
  /\ hpc[h] = "publish"
  /\ solveResult' = answer[h]
  /\ hpc' = [hpc EXCEPT ![h] = "pop"]
  /\ UNCHANGED <<queueVars, readyHandles, alreadySolved, resultLock, terminating, ev,
                 afterAssume, cube, answer, stopped, clientVars, extVars>>

\* ... and then stores its result.
Publish(h) ==
  /\ hpc[h] = "publish"
  /\ solveResult' = answer[h]
  /\ resultLock' = {}
  /\ hpc' = [hpc EXCEPT ![h] = "pop"]
  /\ UNCHANGED <<queueVars, readyHandles, alreadySolved, terminating, ev, afterAssume, cube,
                 answer, stopped, clientVars, extVars>>

\* Faulty variant: the end is not announced.
HandleEnds_Silent(h) ==
  /\ hpc[h] = "end"
  /\ hpc' = [hpc EXCEPT ![h] = "exited"]
  /\ UNCHANGED <<queueVars, readyHandles, resultVars, terminating, ev, afterAssume, cube,
                 answer, stopped, clientVars, extVars>>

\* handleRun after StateEnd.
HandleEnds(h) ==
  /\ hpc[h] = "end"
  /\ mostRecentHandled' = Len(log)
  /\ hpc' = [hpc EXCEPT ![h] = "exited"]
  /\ UNCHANGED <<log, popped, received, processed, readyHandles, resultVars, terminating, ev,
                 afterAssume, cube, answer, stopped, clientVars, extVars>>

-----------------------------------------------------------------------------
(***************************************************************************)
(* The client: the constructor, assumeCube and solve for one task after    *)
(* the other, the destructor.                                              *)
(***************************************************************************)
waitForAllToBeReady ==
  /\ cpc = "construct"
  /\ readyHandles = Cardinality(Handle)
  /\ readyHandles' = 0
  /\ cpc' = "idle"
  /\ UNCHANGED <<queueVars, resultVars, terminating, handleVars, task, waitFor, returned,
                 extVars>>

assumeCube ==
  /\ cpc = "idle"
  /\ Cardinality({i \in 1..Len(log) : log[i] = "Assume"}) < MaxTask
  /\ terminating' = FALSE
  /\ cpc' = "assume"
  /\ UNCHANGED <<queueVars, readyHandles, resultVars, handleVars, task, waitFor, returned,
                 extVars>>

AssumePush ==
  /\ cpc = "assume"
  /\ pushEvent("Assume")
  /\ task' = Len(log) + 1
  /\ cpc' = "assumed"
  /\ UNCHANGED <<popped, received, processed, mostRecentHandled, readyHandles, resultVars,
                 terminating, handleVars, waitFor, returned, extVars>>

solve ==
  /\ cpc = "assumed"
  /\ terminating' = FALSE
  /\ solveResult' = Aborted
  /\ cpc' = "solve"
  /\ UNCHANGED <<queueVars, readyHandles, alreadySolved, resultLock, handleVars, task,
                 waitFor, returned, extVars>>

SolvePush ==
  /\ cpc = "solve"
  /\ pushEvent("Solve")
  /\ waitFor' = Len(log) + 1
  /\ cpc' = "solving"
  /\ UNCHANGED <<popped, received, processed, mostRecentHandled, readyHandles, resultVars,
                 terminating, handleVars, task, returned, extVars>>

SolveReturns ==
  /\ cpc = "solving" /\ mostRecentHandled >= waitFor
  /\ returned' = solveResult
  /\ terminating' = FALSE
  /\ cpc' = "returned"
  /\ UNCHANGED <<queueVars, readyHandles, resultVars, handleVars, task, waitFor, extVars>>

\* The worker leaves QBFSolverTask::work with the result; m_terminationMutex
\* makes it wait for a terminate() that is under way.
TaskDone ==
  /\ cpc = "returned" /\ tpc = "idle"
  /\ cpc' = "idle"
  /\ UNCHANGED <<queueVars, readyHandles, resultVars, terminating, handleVars, task, waitFor,
                 returned, extVars>>

\* ~PortfolioQBFHandle: terminate() unless that has happened, Destruct, join.
Destruct ==
  /\ cpc = "idle"
  /\ terminating' = TRUE
  /\ IF terminating THEN UNCHANGED <<log, stopped>>
                    ELSE pushEvent("Terminate") /\ StopSolvers(Handle)
  /\ cpc' = "destruct"
  /\ UNCHANGED <<popped, received, processed, mostRecentHandled, readyHandles, resultVars,
                 hpc, ev, afterAssume, cube, answer, task, waitFor, returned, extVars>>

DestructPush ==
  /\ cpc = "destruct"
  /\ pushEvent("Destruct")
  /\ waitFor' = Len(log) + 1
  /\ cpc' = "destructing"
  /\ UNCHANGED <<popped, received, processed, mostRecentHandled, readyHandles, resultVars,
                 terminating, handleVars, task, returned, extVars>>

Destructed ==
  /\ cpc = "destructing" /\ mostRecentHandled >= waitFor
  /\ \A h \in Handle : hpc[h] = "exited"
  /\ cpc' = "gone"
  /\ UNCHANGED <<queueVars, readyHandles, resultVars, terminating, handleVars, task, waitFor,
                 returned, extVars>>

(***************************************************************************)
(* terminate() from another thread: possible while the task is worked on,  *)
(* done only if m_terminating was not set.                                 *)
(***************************************************************************)
InWork == cpc \in {"assume", "assumed", "solve", "solving", "returned"}

terminate ==
  /\ tpc = "idle" /\ terminates < MaxTerminate
  /\ InWork /\ ~terminating
  /\ terminating' = TRUE
  /\ terminates' = terminates + 1
  /\ tpc' = "push"
  /\ UNCHANGED <<queueVars, readyHandles, resultVars, handleVars, clientVars>>

TerminatePush ==
  /\ tpc = "push"
  /\ pushEvent("Terminate")
  /\ tpc' = "stop"
  /\ UNCHANGED <<popped, received, processed, mostRecentHandled, readyHandles, resultVars,
                 terminating, handleVars, clientVars, terminates>>

TerminateStop ==
  /\ tpc = "stop"
  /\ StopSolvers(Handle)
  /\ tpc' = "idle"
  /\ UNCHANGED <<queueVars, readyHandles, resultVars, terminating, hpc, ev, afterAssume, cube,
                 answer, clientVars, terminates>>

-----------------------------------------------------------------------------
HandleStep(h) ==
  \/ beReady(h) \/ PopEvent(h) \/ WakeUp(h) \/ HandleEvent(h) \/ SolverReturns(h)
  \/ StateSolveFunc(h) \/ Publish(h) \/ HandleEnds(h)

SolveStep == assumeCube \/ AssumePush \/ solve \/ SolvePush \/ SolveReturns \/ TaskDone

ClientStep ==
  waitForAllToBeReady \/ SolveStep \/ Destruct \/ DestructPush \/ Destructed

TerminateStep == terminate \/ TerminatePush \/ TerminateStop

Next == (\E h \in Handle : HandleStep(h)) \/ ClientStep \/ TerminateStep

Spec == Init /\ [][Next]_vars

(***************************************************************************)
(* Every thread runs and every solver returns from solve(); a thread       *)
(* inside terminate() finishes.                                            *)
(***************************************************************************)
FairSpec ==
  /\ Spec
  /\ \A h \in Handle : WF_vars(HandleStep(h))
  /\ WF_vars(ClientStep)
  /\ WF_vars(TerminatePush \/ TerminateStop)

-----------------------------------------------------------------------------
Answers == {Aborted, NoCube, Unknown} \cup Nat

\* The type invariant.
TypeOK ==
  /\ log \in Seq(Types)
  /\ popped \in Nat /\ received \in Nat /\ processed \in Nat
  /\ mostRecentHandled \in Nat /\ readyHandles \in Nat /\ alreadySolved \in Nat
  /\ resultLock \subseteq Handle
  /\ solveResult \in Answers /\ returned \in Answers
  /\ terminating \in BOOLEAN
  /\ hpc \in [Handle -> {"init", "pop", "wait", "event", "solve", "solved", "publish",
                         "end", "exited"}]
  /\ ev \in [Handle -> Nat]
  /\ afterAssume \subseteq Handle /\ stopped \subseteq Handle
  /\ cube \in [Handle -> Answers] /\ answer \in [Handle -> Answers]
  /\ cpc \in {"construct", "idle", "assume", "assumed", "solve", "solving", "returned",
              "destruct", "destructing", "gone"}
  /\ task \in Nat /\ waitFor \in Nat
  /\ tpc \in {"idle", "push", "stop"} /\ terminates \in Nat

(***************************************************************************)
(* The handles move through the events in lock step, none skips one: each  *)
(* handle's event is the front one or the one popped last, the counter of  *)
(* receivers counts those that have the front event, and so no handle is   *)
(* more than one event ahead of another.                                   *)
(***************************************************************************)
LockStep ==
  /\ popped <= Len(log)
  /\ \A h \in Handle : ev[h] = popped \/ (ev[h] = popped + 1 /\ popped < Len(log))
  /\ received = Cardinality({h \in Handle : ev[h] = popped + 1})
  /\ received < Cardinality(Handle)

Solving(h) == hpc[h] \in {"solve", "solved", "publish"}

(***************************************************************************)
(* Solvers that are at work at the same time work on the same cube, so the *)
(* handle that finishes first never stops a solver that is already on a    *)
(* later one, although solve() may have returned and the next cube may     *)
(* have been assumed.  (Until terminate() is called from outside.)         *)
(***************************************************************************)
SameCube ==
  terminates = 0 => \A g, h \in Handle : Solving(g) /\ Solving(h) => ev[g] = ev[h]

\* At most one handle at a time stores a result, and no result is stored for
\* an event older than one that already has a result (m_eventAlreadySolved).
OneWinner ==
  /\ \A h \in Handle : hpc[h] = "publish" <=> h \in resultLock
  /\ \A g, h \in resultLock : g = h
  /\ \A h \in resultLock : ev[h] = alreadySolved

\* solve() gives its caller the answer for the cube assumed last.
ResultOfCube == cpc = "returned" => returned \in {Aborted, task}

\* solve() gives the answer of a solver to its caller: it is ABORTED only
\* when terminate() was called.
AnswerGiven == cpc = "returned" /\ terminates = 0 => returned # Aborted

\* solve() returns.
SolveEnds == (cpc = "solving") ~> (cpc = "returned")

\* The destructor ends, with all threads of the portfolio gone.
DestructEnds == (cpc = "destruct") ~> (cpc = "gone")

=============================================================================
