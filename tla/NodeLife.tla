------------------------------ MODULE NodeLife ------------------------------
(* The life of a Paracooba process: main() initializes the modules in their *)
(* order, waits for the threads they started and deletes the modules        *)
(* (executable/main.cpp, loader/ModuleLoader.cpp, commonc/thread_registry.c *)
(* and the init, request_exit and exit functions of the modules).           *)
(* request_exit visits the modules in the same order, on the thread that    *)
(* asks for it: a worker that completed the last task, or the I/O thread.   *)
(* The operators here change the variables of a process only; Connections   *)
(* says what else happens in a step.                                        *)
EXTENDS Naturals, FiniteSets

CONSTANT
    Node        \* the ids of the processes

ASSUME NodeAssumption == Node \subseteq Nat \ {0} /\ Cardinality(Node) = 2

VARIABLES
    life,           \* [Node -> where main() is]
    io, worker,     \* [Node -> state of the I/O thread, of the workers]
    exit,           \* [Node -> progress of ModuleLoader::request_exit]
    workerStop,     \* nodes whose WorkerExecutor was told to stop
    stopRequested,  \* nodes whose communicator service was asked to stop
    stopped         \* nodes whose io_context is stopped

mainVars == <<life, worker>>
exitVars == <<exit, workerStop, stopRequested, stopped>>
lifeVars == <<mainVars, io, exitVars>>

LifeTypeOK ==
    /\ life \in [Node -> {"start", "loaded", "modules", "wait", "waitIO", "joined", "gone"}]
    /\ io \in [Node -> {"none", "created", "loop", "returned"}]
    /\ worker \in [Node -> {"none", "running", "returned"}]
    /\ exit \in [Node -> {"no", "broker", "runner", "done"}]
    /\ {workerStop, stopRequested, stopped} \subseteq SUBSET Node

LifeInit ==
    /\ life = [n \in Node |-> "start"]
    /\ io = [n \in Node |-> "none"] /\ worker = [n \in Node |-> "none"]
    /\ exit = [n \in Node |-> "no"]
    /\ workerStop = {} /\ stopRequested = {} /\ stopped = {}

-----------------------------------------------------------------------------
(* main()                                                                  *)

\* One stretch of main: it moves on from one place to the next.
Main(n, from, to) == life[n] = from /\ life' = [life EXCEPT ![n] = to]

\* The modules are loaded, configured and pre_init-ed.
LoadModules(n) == Main(n, "start", "loaded") /\ UNCHANGED <<worker, io, exitVars>>

\* parac_thread_registry_create
Created(threads, n, st) == [threads EXCEPT ![n] = st]

\* init of the communicator, the first of the modules, starts the I/O thread.
InitCommunicator(n) ==
    /\ Main(n, "loaded", "modules")
    /\ io' = Created(io, n, "created")
    /\ UNCHANGED <<worker, exitVars>>

\* init of broker, runner and solver; the runner starts the workers.
InitOthers(n) ==
    /\ Main(n, "modules", "wait")
    /\ worker' = Created(worker, n, "running")
    /\ UNCHANGED <<io, exitVars>>

\* parac_thread_registry_wait_for_exit joins the newest threads first.
JoinWorkers(n) ==
    /\ worker[n] = "returned"
    /\ Main(n, "wait", "waitIO")
    /\ UNCHANGED <<worker, io, exitVars>>

\* Faulty variant: the I/O thread is not waited for.
JoinIO_Detached(n) == Main(n, "waitIO", "joined") /\ UNCHANGED <<worker, io, exitVars>>

\* The I/O thread was started first and is joined last.
JoinIO(n) ==
    /\ io[n] = "returned"
    /\ Main(n, "waitIO", "joined")
    /\ UNCHANGED <<worker, io, exitVars>>

\* ~ModuleLoader: exit() of the modules deletes what they own.
ExitModules(n) == Main(n, "joined", "gone") /\ UNCHANGED <<worker, io, exitVars>>

-----------------------------------------------------------------------------
(* The threads                                                             *)

\* A worker told to stop returns, unless it is the one in request_exit.
WorkerReturns(n) ==
    /\ worker[n] = "running" /\ n \in workerStop /\ exit[n] = "done"
    /\ worker' = [worker EXCEPT ![n] = "returned"]
    /\ UNCHANGED <<life, io, exitVars>>

\* Handlers run on the I/O thread of n.
Running(n) == io[n] = "loop" /\ n \notin stopped

\* Service::requestStop stops at once if no message is left to be written.
RequestStop(n, outgoing) ==
    /\ stopRequested' = stopRequested \cup {n}
    /\ stopped' = IF outgoing = 0 THEN stopped \cup {n} ELSE stopped

\* request_exit on a worker: the flag is tested and set, the communicator
\* comes first; broker and runner follow in steps of their own.
ExitCommunicator(n, outgoing) ==
    /\ worker[n] = "running" /\ exit[n] = "no"
    /\ exit' = [exit EXCEPT ![n] = "broker"]
    /\ RequestStop(n, outgoing)
    /\ UNCHANGED <<mainVars, io, workerStop>>

ExitBroker(n) ==
    /\ exit[n] = "broker"
    /\ exit' = [exit EXCEPT ![n] = "runner"]
    /\ UNCHANGED <<mainVars, io, workerStop, stopRequested, stopped>>

\* WorkerExecutor::exit; the solver's request_exit does nothing.
ExitRunner(n) ==
    /\ exit[n] = "runner"
    /\ exit' = [exit EXCEPT ![n] = "done"]
    /\ workerStop' = workerStop \cup {n}
    /\ UNCHANGED <<mainVars, io, stopRequested, stopped>>

=============================================================================
