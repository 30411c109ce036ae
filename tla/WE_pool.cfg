\* Two workers, one client and two tasks.
CONSTANTS
    Worker = {w1, w2}
    Client = {c1}
    Task = {t1, t2}
    Nil = Nil
SPECIFICATION FairSpec
INVARIANTS  HandedOutOnce QueuedWorkRemembered
PROPERTIES SettledShutdown
CHECK_DEADLOCK FALSE
