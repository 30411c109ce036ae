-------------------------- MODULE MCWorkerExecutor --------------------------
(* Finite instances of WorkerExecutor for TLC.                             *)
EXTENDS WorkerExecutor, TLC

\* Workers are interchangeable, and so are tasks: nothing in the module
\* tells two of them apart.
WorkerTaskSymmetry == Permutations(Worker) \cup Permutations(Task)

=============================================================================
