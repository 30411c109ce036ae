\* Two nodes that look for each other, connect, transfer the formula and end.
CONSTANTS
    Node = {1, 2}
    MaxPort = 3
    Setups <- MCSetups
    SameAddress = {1}
    Retries = 2
    First <- MCFirst
    FileSize = 2
    EagainLimit = 1
    Follows = {2}
    MaxConns = 3
    MaxDials = 2
    Nil = Nil
SPECIFICATION Spec
CHECK_DEADLOCK FALSE
INVARIANT NoStuckAttempt
INVARIANT FuncAlive
INVARIANT WinnerSurvives
 
 
INVARIANT FileWhole
INVARIANT FormulaArrives
