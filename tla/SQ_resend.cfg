\* A message is lost with its connection.
CONSTANTS
    Msg = {m1}
    Sender = {s1}
    Conn = {c1, c2}
    Initiator = {c1, c2}
    Greater = FALSE
    MessageTimeout = 1
    MayFail = TRUE
    MayDrop = TRUE
    MayStop = FALSE
    Untracked = Untracked
    Nil = Nil
SPECIFICATION FairSpec
PROPERTIES MessageEnds
CHECK_DEADLOCK FALSE
