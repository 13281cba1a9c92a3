CONSTANTS
    t1 = t1
    t2 = t2
    Threads = {t1, t2}
    FileBufferSize = 1
    PipeSize = 1
    Incoming <- MCIncoming
    Outgoing <- MCOutgoing
    Builtins <- MCBuiltins
    PeerCloses = TRUE
SPECIFICATION Spec
INVARIANTS BytesInOrder SleepersServed
PROPERTIES SleepersWake ExitEnds
CHECK_DEADLOCK FALSE
