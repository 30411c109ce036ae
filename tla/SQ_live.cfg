\* One connection, which may break; two threads send.
CONSTANTS
    Msg = {m1, m2}
    Sender = {s1, s2}
    Conn = {c1}
    Initiator = {c1}
    Greater = FALSE
    MessageTimeout = 1
    MayFail = TRUE
    MayDrop = FALSE
    MayStop = FALSE
    Untracked = Untracked
    Nil = Nil
SPECIFICATION FairSpec
PROPERTIES Delivered
CHECK_DEADLOCK FALSE
