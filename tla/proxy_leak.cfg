SPECIFICATION FairSpec
CONSTANTS
    c1 = c1
    c2 = c2
    p1 = p1
    p2 = p2
    NoCall = NoCall
    Calls = {c1}
    Pods = {p1}
    Threads = 1
    MaxChunks = 2
    PendingMsgs = 4
    PendingBytes = 4
    NoRespondersReachHub = FALSE
    Kinds = {"length", "closing", "chunked", "stream"}
    Faults = {}
PROPERTY ListenerReleased
CHECK_DEADLOCK FALSE
