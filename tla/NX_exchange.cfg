CONSTANTS
    Client = c
    Daemon = {d1}
    Task = {t1,t2}
    Workers = 1
    AutoShutdown = TRUE
    Learner = {c}
    Losing = {d1}
    Failing = {c, d1}
    Nil = Nil
SPECIFICATION Spec
CHECK_DEADLOCK FALSE
INVARIANT SolverReady
 
 
INVARIANT PeersRegistered
 
 
INVARIANT ExecutedOnce
