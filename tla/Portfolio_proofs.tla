-------------------------- MODULE Portfolio_proofs --------------------------
(***************************************************************************)
(* Proofs about the portfolio for any number of solvers, cubes and calls   *)
(* of terminate(): the event queue keeps the handles in lock step, and one *)
(* handle at a time stores a result.                                       *)
(***************************************************************************)
EXTENDS Portfolio, FiniteSetTheorems, SequenceTheorems, TLAPS

Inv == TypeOK /\ LockStep /\ OneWinner


LEMMA HandleFinite == Cardinality(Handle) \in Nat /\ Cardinality(Handle) > 0
<1>1. Cardinality(Handle) \in Nat
  BY PortfolioAssumption, FS_CardinalityType
<1>2. Cardinality(Handle) # 0
  BY PortfolioAssumption, FS_EmptySet
<1> QED
  BY <1>1, <1>2

LEMMA InitInv == Init => Inv
<1> SUFFICES ASSUME Init PROVE Inv
  OBVIOUS
<1>1. TypeOK
  BY EmptySeq, Zenon DEF Init, TypeOK, Answers, Types
<1>2. {h \in Handle : ev[h] = popped + 1} = {}
  BY DEF Init
<1>3. LockStep
  <2>1. Cardinality({h \in Handle : ev[h] = popped + 1}) = 0
    BY <1>2, FS_EmptySet
  <2>2. popped = 0 /\ received = 0 /\ Len(log) = 0 /\ \A h \in Handle : ev[h] = 0
    BY DEF Init
  <2> QED
    BY <2>1, <2>2, HandleFinite DEF LockStep
<1>4. OneWinner
  BY DEF Init, OneWinner
<1> QED
  BY <1>1, <1>3, <1>4 DEF Inv

\* popEvent: receiving the front event keeps the handles in lock step.
LEMMA ReceiveLockStep ==
  ASSUME Inv, NEW h \in Handle, Receive(h), UNCHANGED log
  PROVE  LockStep'
<1> DEFINE R == {g \in Handle : ev[g] = popped + 1}
<1>1. /\ ev \in [Handle -> Nat] /\ popped \in Nat /\ received \in Nat /\ Len(log) \in Nat
      /\ \A g \in Handle : ev[g] = popped \/ (ev[g] = popped + 1 /\ popped < Len(log))
      /\ received = Cardinality(R) /\ received < Cardinality(Handle)
  BY LenProperties DEF Inv, TypeOK, LockStep
<1>2. h \notin R /\ popped < Len(log) /\ ev' = [ev EXCEPT ![h] = popped + 1]
  BY <1>1 DEF Receive, Available
<1>3. {g \in Handle : ev'[g] = popped + 1} = R \cup {h}
  BY <1>1, <1>2
<1>4. IsFiniteSet(R) /\ IsFiniteSet(Handle)
  BY PortfolioAssumption, FS_Subset
<1>5. Cardinality(R \cup {h}) = received + 1
  BY <1>1, <1>2, <1>4, FS_AddElement, Zenon
<1>6. CASE received + 1 = Cardinality(Handle)
  <2>1. R \cup {h} = Handle
    BY <1>4, <1>5, <1>6, FS_Subset
  <2>2. popped' = popped + 1 /\ received' = 0
    BY <1>6 DEF Receive
  <2>3. \A g \in Handle : ev'[g] = popped'
    BY <1>3, <2>1, <2>2
  <2>4. {g \in Handle : ev'[g] = popped' + 1} = {}
    BY <2>3, <2>2, <1>1
  <2>5. Cardinality({g \in Handle : ev'[g] = popped' + 1}) = 0
    BY <2>4, FS_EmptySet
  <2>6. Len(log') = Len(log)
    OBVIOUS
  <2> QED
    BY <1>1, <1>2, <2>2, <2>3, <2>5, <2>6, HandleFinite DEF LockStep
<1>7. CASE received + 1 # Cardinality(Handle)
  <2>1. popped' = popped /\ received' = received + 1
    BY <1>7 DEF Receive
  <2>2. \A g \in Handle : ev'[g] = popped \/ ev'[g] = popped + 1
    BY <1>1, <1>2
  <2>3. received' = Cardinality({g \in Handle : ev'[g] = popped' + 1})
    BY <1>3, <1>5, <2>1
  <2> QED
    BY <1>1, <1>2, <1>7, <2>1, <2>2, <2>3, HandleFinite DEF LockStep
<1> QED
  BY <1>6, <1>7

\* Pushing an event, or leaving the queue alone, keeps the lock step.
LEMMA PushLockStep ==
  ASSUME Inv, UNCHANGED <<popped, received, ev>>,
         UNCHANGED log \/ \E e \in Types : pushEvent(e)
  PROVE  LockStep'
<1>1. Len(log) \in Nat /\ (UNCHANGED log \/ Len(log') = Len(log) + 1)
  BY LenProperties, AppendProperties DEF Inv, TypeOK, pushEvent
<1> QED
  BY <1>1 DEF Inv, TypeOK, LockStep

\* The steps of a handle.
LEMMA HandleInv ==
  ASSUME Inv, NEW h \in Handle, HandleStep(h)
  PROVE  Inv'
<1> USE DEF Inv
<1>1. CASE beReady(h)
  <2>1. TypeOK'
    BY <1>1 DEF beReady, TypeOK, queueVars, resultVars, clientVars, extVars
  <2>2. LockStep'
    BY <1>1, PushLockStep DEF beReady, queueVars
  <2>3. OneWinner'
    BY <1>1 DEF beReady, OneWinner, resultVars, TypeOK
  <2> QED
    BY <2>1, <2>2, <2>3
<1>2. CASE PopEvent(h)
  <2>1. UNCHANGED log /\ (Receive(h) \/ UNCHANGED <<popped, received, ev>>)
    BY <1>2 DEF PopEvent
  <2>2. TypeOK'
    <3>1. ev' \in [Handle -> Nat] /\ popped' \in Nat /\ received' \in Nat
      <4>1. ev \in [Handle -> Nat] /\ popped \in Nat /\ received \in Nat
        BY DEF TypeOK
      <4> HIDE DEF Inv
      <4> QED
        BY <2>1, <4>1 DEF Receive
    <3>2. hpc' = [hpc EXCEPT ![h] = "event"] \/ hpc' = [hpc EXCEPT ![h] = "wait"]
      BY <1>2 DEF PopEvent, Receive
    <3>3. processed' \in Nat /\ mostRecentHandled' \in Nat
      BY <1>2 DEF PopEvent, MarkProcessed, TypeOK
    <3> QED
      BY <1>2, <3>1, <3>2, <3>3 DEF PopEvent, TypeOK, resultVars, clientVars, extVars
  <2>3. LockStep'
    BY <2>1, ReceiveLockStep, PushLockStep
  <2>4. OneWinner'
    BY <1>2 DEF PopEvent, Receive, OneWinner, resultVars, TypeOK
  <2> QED
    BY <2>2, <2>3, <2>4
<1>3. CASE WakeUp(h)
  <2>1. TypeOK'
    BY <1>3 DEF WakeUp, Receive, TypeOK, resultVars, clientVars, extVars
  <2>2. LockStep'
    BY <1>3, ReceiveLockStep DEF WakeUp
  <2>3. OneWinner'
    BY <1>3 DEF WakeUp, Receive, OneWinner, resultVars, TypeOK
  <2> QED
    BY <2>1, <2>2, <2>3
<1>4. CASE HandleEvent(h)
  <2>1. TypeOK'
    BY <1>4 DEF HandleEvent, TypeOK, Answers, queueVars, resultVars, clientVars, extVars
  <2>2. LockStep'
    BY <1>4, PushLockStep DEF HandleEvent, queueVars
  <2>3. OneWinner'
    BY <1>4 DEF HandleEvent, OneWinner, resultVars, TypeOK
  <2> QED
    BY <2>1, <2>2, <2>3
<1>5. CASE SolverReturns(h)
  <2>1. TypeOK'
    BY <1>5 DEF SolverReturns, TypeOK, Answers, queueVars, resultVars, clientVars, extVars
  <2>2. LockStep'
    BY <1>5, PushLockStep DEF SolverReturns, queueVars
  <2>3. OneWinner'
    BY <1>5 DEF SolverReturns, OneWinner, resultVars, TypeOK
  <2> QED
    BY <2>1, <2>2, <2>3
<1>6. CASE StateSolveFunc(h)
  <2>1. TypeOK'
    <3>1. /\ resultLock' \subseteq Handle /\ alreadySolved' \in Nat /\ stopped' \subseteq Handle
      BY <1>6 DEF StateSolveFunc, StopSolvers, TypeOK
    <3>2. hpc' = [hpc EXCEPT ![h] = "publish"] \/ hpc' = [hpc EXCEPT ![h] = "pop"]
      BY <1>6 DEF StateSolveFunc
    <3> QED
      BY <1>6, <3>1, <3>2 DEF StateSolveFunc, TypeOK, queueVars, clientVars, extVars
  <2>2. LockStep'
    BY <1>6, PushLockStep DEF StateSolveFunc, queueVars
  <2>3. OneWinner'
    BY <1>6 DEF StateSolveFunc, OneWinner, TypeOK
  <2> QED
    BY <2>1, <2>2, <2>3
<1>7. CASE Publish(h)
  <2>1. TypeOK'
    BY <1>7 DEF Publish, TypeOK, queueVars, clientVars, extVars
  <2>2. LockStep'
    BY <1>7, PushLockStep DEF Publish, queueVars
  <2>3. OneWinner'
    BY <1>7 DEF Publish, OneWinner, TypeOK
  <2> QED
    BY <2>1, <2>2, <2>3
<1>8. CASE HandleEnds(h)
  <2>1. TypeOK'
    BY <1>8, LenProperties DEF HandleEnds, TypeOK, resultVars, clientVars, extVars
  <2>2. LockStep'
    BY <1>8, PushLockStep DEF HandleEnds
  <2>3. OneWinner'
    BY <1>8 DEF HandleEnds, OneWinner, resultVars, TypeOK
  <2> QED
    BY <2>1, <2>2, <2>3
<1> QED
  BY <1>1, <1>2, <1>3, <1>4, <1>5, <1>6, <1>7, <1>8 DEF HandleStep

\* The steps of the client and of a thread calling terminate().
LEMMA ClientInv ==
  ASSUME Inv, ClientStep \/ TerminateStep
  PROVE  Inv'
<1> USE DEF Inv
<1>1. /\ UNCHANGED <<popped, received, hpc, ev, alreadySolved, resultLock, answer, cube,
                     afterAssume, processed, mostRecentHandled>>
      /\ UNCHANGED log \/ \E e \in Types : pushEvent(e)
  BY DEF ClientStep, SolveStep, TerminateStep, waitForAllToBeReady, assumeCube, AssumePush,
         solve, SolvePush, SolveReturns, TaskDone, Destruct, DestructPush, Destructed,
         terminate, TerminatePush, TerminateStop, queueVars, resultVars, handleVars, Types
<1>2. LockStep'
  BY <1>1, PushLockStep
<1>3. OneWinner'
  BY <1>1 DEF OneWinner
<1>4. log' \in Seq(Types) /\ Len(log) \in Nat
  <2>1. log \in Seq(Types) /\ Len(log) \in Nat
    BY LenProperties DEF TypeOK
  <2>2. \A e \in Types : Append(log, e) \in Seq(Types)
    BY <2>1, AppendProperties
  <2> QED
    BY <1>1, <2>1, <2>2 DEF pushEvent
<1>5. /\ readyHandles' \in Nat /\ solveResult' \in Answers /\ returned' \in Answers
      /\ task' \in Nat /\ waitFor' \in Nat /\ terminates' \in Nat
      /\ terminating' \in BOOLEAN /\ stopped' \subseteq Handle
  <2>1. readyHandles' \in Nat /\ solveResult' \in Answers /\ returned' \in Answers
    BY
  DEF ClientStep, SolveStep, TerminateStep, waitForAllToBeReady, assumeCube, AssumePush,
           solve, SolvePush, SolveReturns, TaskDone, Destruct, DestructPush, Destructed,
           terminate, TerminatePush, TerminateStop, resultVars, handleVars, clientVars,
           extVars, TypeOK, Answers
  <2>2. /\ task' \in {task, Len(log) + 1} /\ waitFor' \in {waitFor, Len(log) + 1}
        /\ terminates' \in {terminates, terminates + 1}
    BY DEF ClientStep, SolveStep, TerminateStep, waitForAllToBeReady, assumeCube, AssumePush,
           solve, SolvePush, SolveReturns, TaskDone, Destruct, DestructPush, Destructed,
           terminate, TerminatePush, TerminateStop, clientVars, extVars
  <2>5. task' \in Nat /\ waitFor' \in Nat /\ terminates' \in Nat
    BY <1>4, <2>2 DEF TypeOK
  <2>3. terminating' \in {TRUE, FALSE, terminating}
    BY
  DEF ClientStep, SolveStep, TerminateStep, waitForAllToBeReady, assumeCube, AssumePush,
           solve, SolvePush, SolveReturns, TaskDone, Destruct, DestructPush, Destructed,
           terminate, TerminatePush, TerminateStop, resultVars, handleVars, clientVars,
           extVars, TypeOK
  <2>4. stopped' \subseteq Handle
    BY
  DEF ClientStep, SolveStep, TerminateStep, waitForAllToBeReady, assumeCube, AssumePush,
           solve, SolvePush, SolveReturns, TaskDone, Destruct, DestructPush, Destructed,
           terminate, TerminatePush, TerminateStop, resultVars, handleVars, clientVars,
           extVars, TypeOK, StopSolvers
  <2> QED
    BY <2>1, <2>3, <2>4, <2>5, Zenon DEF TypeOK
<1>6. /\ cpc' \in {"construct", "idle", "assume", "assumed", "solve", "solving", "returned",
                   "destruct", "destructing", "gone"}
      /\ tpc' \in {"idle", "push", "stop"}
  BY DEF ClientStep, SolveStep, TerminateStep, waitForAllToBeReady, assumeCube, AssumePush,
         solve, SolvePush, SolveReturns, TaskDone, Destruct, DestructPush, Destructed,
         terminate, TerminatePush, TerminateStop, clientVars, extVars, TypeOK
<1>7. TypeOK'
  BY <1>1, <1>4, <1>5, <1>6 DEF TypeOK
<1> QED
  BY <1>2, <1>3, <1>7

LEMMA NextInv == Inv /\ [Next]_vars => Inv'
<1> SUFFICES ASSUME Inv, [Next]_vars PROVE Inv'
  OBVIOUS
<1>1. CASE Next
  BY <1>1, HandleInv, ClientInv DEF Next
<1>2. CASE UNCHANGED vars
  BY <1>2 DEF vars, Inv, TypeOK, LockStep, OneWinner, queueVars, resultVars, handleVars,
              clientVars, extVars
<1> QED
  BY <1>1, <1>2

\* popEvent never lets a handle skip an event or run more than one event
\* ahead of another, for any number of solvers.
THEOREM HandlesInLockStep == Spec => []LockStep
<1>1. Inv => LockStep
  BY DEF Inv
<1> QED
  BY <1>1, InitInv, NextInv, PTL DEF Spec

\* StateSolveFunc lets one handle at a time store a result, that of the
\* newest event that has one.
THEOREM ResultHasOneWinner == Spec => []OneWinner
<1>1. Inv => OneWinner
  BY DEF Inv
<1> QED
  BY <1>1, InitInv, NextInv, PTL DEF Spec

-----------------------------------------------------------------------------
(***************************************************************************)
(* Without calls of terminate() from outside, every Assume is followed by  *)
(* its Solve, which no handle solves for again: so two handles that are at *)
(* most one event apart and both solve have the same event.                *)
(***************************************************************************)
Undisturbed == tpc = "idle" /\ terminates = 0

\* Assume and Solve alternate; an Assume is last only until solve() is called.
Alternates ==
  /\ \A k \in 1..Len(log) : log[k] = "Solve" => k > 1 /\ log[k-1] = "Assume"
  /\ \A k \in 2..Len(log) : log[k] = "Assume" => log[k-1] # "Assume"
  /\ cpc \in {"assumed", "solve"} <=> Len(log) > 0 /\ log[Len(log)] = "Assume"

\* previousWasAssume is set once the handle has dealt with an Assume, until it
\* has dealt with the next event.
Remembers ==
  \A h \in Handle :
    /\ hpc[h] # "event" /\ ev[h] > 0 /\ log[ev[h]] = "Assume" => h \in afterAssume
    /\ hpc[h] = "event" => ev[h] > 0
    /\ hpc[h] = "event" /\ ev[h] > 1 /\ log[ev[h]-1] = "Assume" => h \in afterAssume

SolvesAssumed ==
  \A h \in Handle : Solving(h) => ev[h] > 0 /\ log[ev[h]] = "Assume"

CubeInv == Inv /\ Undisturbed /\ Alternates /\ Remembers /\ SolvesAssumed

LEMMA InitCubeInv == Init => CubeInv
BY InitInv DEF Init, CubeInv, Undisturbed, Alternates, Remembers, SolvesAssumed, Solving

LEMMA CubeInvSameCube == CubeInv => SameCube
<1> SUFFICES ASSUME CubeInv, NEW g \in Handle, NEW h \in Handle, Solving(g), Solving(h),
                    ev[g] < ev[h]
             PROVE  FALSE
  BY DEF SameCube, CubeInv, Inv, TypeOK
<1>1. /\ ev[g] \in Nat /\ ev[h] \in Nat /\ ev[h] = ev[g] + 1 /\ ev[g] > 0
      /\ ev[h] <= Len(log) /\ Len(log) \in Nat
  BY LenProperties DEF CubeInv, Inv, TypeOK, LockStep, SolvesAssumed
<1>2. log[ev[g]] = "Assume" /\ log[ev[h]] = "Assume"
  BY DEF CubeInv, SolvesAssumed
<1> QED
  BY <1>1, <1>2 DEF CubeInv, Alternates

LEMMA HandleCubeInv ==
  ASSUME CubeInv, Inv', NEW h \in Handle, HandleStep(h)
  PROVE  CubeInv'
<1>1. /\ ev \in [Handle -> Nat] /\ hpc = [g \in Handle |-> hpc[g]] /\ popped \in Nat
      /\ \A g \in Handle : ev[g] <= Len(log) /\ Len(log) \in Nat
      /\ \A g \in Handle : ev[g] = popped \/ ev[g] = popped + 1
  <2>1. Len(log) \in Nat
    BY LenProperties DEF CubeInv, Inv, TypeOK
  <2>2. ev \in [Handle -> Nat] /\ hpc = [g \in Handle |-> hpc[g]] /\ popped \in Nat
    BY DEF CubeInv, Inv, TypeOK
  <2> QED
    BY <2>1, <2>2 DEF CubeInv, Inv, LockStep
<1>2. UNCHANGED <<log, cpc, tpc, terminates>>
  BY DEF HandleStep, beReady, PopEvent, WakeUp, HandleEvent, SolverReturns, StateSolveFunc,
         Publish, HandleEnds, queueVars, clientVars, extVars
<1>3. Undisturbed' /\ Alternates'
  BY <1>2 DEF CubeInv, Undisturbed, Alternates
<1>4. CASE PopEvent(h) \/ WakeUp(h)
  <2>1. UNCHANGED afterAssume /\ hpc[h] \in {"pop", "wait"}
    BY <1>4 DEF PopEvent, WakeUp
  <2>2. \/ ev' = ev /\ hpc' = [hpc EXCEPT ![h] = "wait"]
        \/ /\ ev[h] < popped + 1 /\ ev' = [ev EXCEPT ![h] = popped + 1]
           /\ hpc' = [hpc EXCEPT ![h] = "event"]
    BY <1>4 DEF PopEvent, WakeUp, Receive, Available
  <2>3. \/ ev' = ev /\ hpc' = [hpc EXCEPT ![h] = "wait"]
        \/ ev' = [ev EXCEPT ![h] = ev[h] + 1] /\ hpc' = [hpc EXCEPT ![h] = "event"]
    BY <1>1, <2>2
  <2>4. Remembers'
    BY <1>1, <1>2, <2>1, <2>3 DEF CubeInv, Remembers
  <2>5. SolvesAssumed'
    BY <1>1, <1>2, <2>3 DEF CubeInv, SolvesAssumed, Solving
  <2> QED
    BY <1>3, <2>4, <2>5 DEF CubeInv
<1>5. CASE HandleEvent(h)
  <2> DEFINE type == log[ev[h]]
  <2>1. /\ UNCHANGED ev /\ hpc[h] = "event" /\ ev[h] > 0
        /\ afterAssume' = IF type = "Assume" THEN afterAssume \cup {h} ELSE afterAssume \ {h}
        /\ \E pc \in {"solve", "end", "pop"} : hpc' = [hpc EXCEPT ![h] = pc]
        /\ hpc'[h] = "solve" => type = "Assume" \/ (type = "Solve" /\ h \notin afterAssume)
    BY <1>1, <1>5, Zenon DEF HandleEvent, CubeInv, Remembers
  <2>2. type = "Solve" => h \in afterAssume
    BY <1>1, <2>1 DEF CubeInv, Alternates, Remembers
  <2>3. Remembers'
    BY <1>1, <1>2, <2>1 DEF CubeInv, Remembers
  <2>4. SolvesAssumed'
    BY <1>1, <1>2, <2>1, <2>2 DEF CubeInv, SolvesAssumed, Solving
  <2> QED
    BY <1>3, <2>3, <2>4 DEF CubeInv
<1>6. CASE beReady(h) \/ SolverReturns(h) \/ StateSolveFunc(h) \/ Publish(h) \/ HandleEnds(h)
  <2>1. /\ UNCHANGED <<ev, afterAssume>> /\ hpc[h] # "event"
        /\ \E pc \in {"pop", "solved", "publish", "exited"} :
             /\ hpc' = [hpc EXCEPT ![h] = pc]
             /\ pc \in {"solved", "publish"} => Solving(h)
    BY <1>6 DEF beReady, SolverReturns, StateSolveFunc, Publish, HandleEnds, Solving
  <2>2. Remembers'
    BY <1>1, <1>2, <2>1 DEF CubeInv, Remembers
  <2>3. SolvesAssumed'
    BY <1>1, <1>2, <2>1 DEF CubeInv, SolvesAssumed, Solving
  <2> QED
    BY <1>3, <2>2, <2>3 DEF CubeInv
<1> QED
  BY <1>4, <1>5, <1>6 DEF HandleStep

LEMMA ClientCubeInv ==
  ASSUME CubeInv, Inv', terminates' = 0, ClientStep \/ TerminateStep
  PROVE  CubeInv'
<1>1. ClientStep /\ UNCHANGED <<tpc, terminates>>
  BY DEF ClientStep, SolveStep, TerminateStep, waitForAllToBeReady, assumeCube, AssumePush,
         solve, SolvePush, SolveReturns, TaskDone, Destruct, DestructPush, Destructed,
         terminate, TerminatePush, TerminateStop, CubeInv, Undisturbed, extVars
<1>2. UNCHANGED <<hpc, ev, afterAssume>>
  BY DEF ClientStep, SolveStep, TerminateStep, waitForAllToBeReady, assumeCube, AssumePush,
         solve, SolvePush, SolveReturns, TaskDone, Destruct, DestructPush, Destructed,
         terminate, TerminatePush, TerminateStop, handleVars
<1>3. log \in Seq(Types) /\ Len(log) \in Nat /\ log' \in Seq(Types)
  BY LenProperties DEF CubeInv, Inv, TypeOK
<1>4. \/ UNCHANGED log /\ (cpc' \in {"assumed", "solve"} <=> cpc \in {"assumed", "solve"})
      \/ /\ cpc \notin {"assumed", "solve"} /\ cpc' \notin {"assumed", "solve"}
         /\ \E e \in {"Terminate", "Destruct"} : pushEvent(e)
      \/ cpc \notin {"assumed", "solve"} /\ cpc' = "assumed" /\ pushEvent("Assume")
      \/ cpc = "solve" /\ cpc' = "solving" /\ pushEvent("Solve")
  BY <1>1
     DEF ClientStep, SolveStep, waitForAllToBeReady, assumeCube, AssumePush, solve,
         SolvePush, SolveReturns, TaskDone, Destruct, DestructPush, Destructed, queueVars
<1>5. \A e \in Types : pushEvent(e) => /\ Len(log') = Len(log) + 1
                                      /\ log'[Len(log) + 1] = e
                                      /\ \A k \in 1..Len(log) : log'[k] = log[k]
  BY <1>3, AppendProperties DEF pushEvent
<1>6. \A k \in 1..Len(log) : log'[k] = log[k]
  BY <1>4, <1>5 DEF Types
<1>7. Alternates'
  <2>1. CASE UNCHANGED log /\ (cpc' \in {"assumed", "solve"} <=> cpc \in {"assumed", "solve"})
    BY <2>1 DEF CubeInv, Alternates
  <2>2. ASSUME cpc \notin {"assumed", "solve"}, cpc' \notin {"assumed", "solve"},
               NEW e \in {"Terminate", "Destruct"}, pushEvent(e)
        PROVE  Alternates'
    <3>1. Len(log') = Len(log) + 1 /\ log'[Len(log) + 1] \notin {"Assume", "Solve"}
      BY <1>5, <2>2 DEF Types
    <3> QED
      BY <1>3, <1>6, <2>2, <3>1 DEF CubeInv, Alternates
  <2>3. CASE cpc \notin {"assumed", "solve"} /\ cpc' = "assumed" /\ pushEvent("Assume")
    BY <1>3, <1>5, <2>3 DEF CubeInv, Alternates, Types
  <2>4. CASE cpc = "solve" /\ cpc' = "solving" /\ pushEvent("Solve")
    BY <1>3, <1>5, <2>4 DEF CubeInv, Alternates, Types
  <2> QED
    BY <1>4, <2>1, <2>2, <2>3, <2>4
<1>8. \A h \in Handle : ev[h] \in Nat /\ ev[h] <= Len(log)
  <2>1. popped \in Nat /\ ev \in [Handle -> Nat]
    BY DEF CubeInv, Inv, TypeOK
  <2> QED
    BY <1>3, <2>1 DEF CubeInv, Inv, LockStep
<1>9. SolvesAssumed'
  BY <1>2, <1>3, <1>6, <1>8 DEF CubeInv, SolvesAssumed, Solving
<1>10. Remembers'
  <2> SUFFICES ASSUME NEW h \in Handle
               PROVE  /\ hpc[h] # "event" /\ ev[h] > 0 /\ log'[ev[h]] = "Assume" =>
                           h \in afterAssume
                      /\ hpc[h] = "event" => ev[h] > 0
                      /\ hpc[h] = "event" /\ ev[h] > 1 /\ log'[ev[h]-1] = "Assume" =>
                           h \in afterAssume
    BY <1>2 DEF Remembers
  <2>1. ev[h] > 0 => log'[ev[h]] = log[ev[h]]
    BY <1>3, <1>6, <1>8
  <2>2. ev[h] > 1 => log'[ev[h]-1] = log[ev[h]-1]
    BY <1>3, <1>6, <1>8
  <2> QED
    BY <2>1, <2>2 DEF CubeInv, Remembers
<1> QED
  BY <1>1, <1>7, <1>9, <1>10 DEF CubeInv, Undisturbed

\* Until terminate() is called from outside, solvers at work at the same time
\* work on the same cube: for any number of solvers, although solve() returns
\* before all of them have stopped.
THEOREM SolversShareCube == Spec => []SameCube
<1> DEFINE CI == Inv /\ (terminates = 0 => CubeInv)
<1>1. CI /\ [Next]_vars => CI'
  <2> SUFFICES ASSUME CI, [Next]_vars, terminates' = 0 PROVE Inv' /\ CubeInv'
    BY NextInv
  <2>1. Inv'
    BY NextInv
  <2>2. CubeInv
    <3>1. terminates \in Nat
      BY DEF Inv, TypeOK
    <3>2. terminates' = terminates \/ terminates' = terminates + 1
      BY Zenon DEF Next, HandleStep, beReady, PopEvent, WakeUp, HandleEvent, SolverReturns,
             StateSolveFunc, Publish, HandleEnds, ClientStep, SolveStep, TerminateStep,
             waitForAllToBeReady, assumeCube, AssumePush, solve, SolvePush, SolveReturns,
             TaskDone, Destruct, DestructPush, Destructed, terminate, TerminatePush,
             TerminateStop, extVars, vars
    <3> QED
      BY <3>1, <3>2
  <2>3. CASE Next
    BY <2>1, <2>2, <2>3, HandleCubeInv, ClientCubeInv DEF Next
  <2>4. CASE UNCHANGED vars
    BY <2>1, <2>2, <2>4, Zenon
       DEF vars, CubeInv, Undisturbed, Alternates, Remembers, SolvesAssumed, Solving,
           queueVars, handleVars, clientVars, extVars
  <2> QED
    BY <2>1, <2>3, <2>4
<1>2. Init => CI
  BY InitCubeInv DEF CubeInv
<1>3. CI => SameCube
  BY CubeInvSameCube DEF SameCube
<1> QED
  BY <1>1, <1>2, <1>3, PTL DEF Spec

\* Every variable of the portfolio keeps its type, for any number of solvers.
THEOREM PortfolioTypes == Spec => []TypeOK
<1>1. Inv => TypeOK
  BY DEF Inv
<1> QED
  BY InitInv, NextInv, <1>1, PTL DEF Spec

=============================================================================
