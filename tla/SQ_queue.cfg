\* Three connections of both initiators break, overtake and follow one another,
\* with a drop and a stop.
CONSTANTS
    Msg = {m1, m2}
    Sender = {s1}
    Conn = {c1, c2, c3}
    Initiator = {c1}
    Greater = TRUE
    MessageTimeout = 1
    MayFail = TRUE
    MayDrop = TRUE
    MayStop = TRUE
    Untracked = Untracked
    Nil = Nil
SPECIFICATION Spec
SYMMETRY QueueSymmetry
INVARIANTS Conserved  
CHECK_DEADLOCK FALSE
