SPECIFICATION FairSpec
CONSTANTS
    c1 = c1
    c2 = c2
    p1 = p1
    p2 = p2
    NoCall = NoCall
    Calls = {c1, c2}
    Pods = {p1}
    Threads = 1
    MaxChunks = 1
    PendingMsgs = 4
    PendingBytes = 4
    NoRespondersReachHub = TRUE
    Kinds = {"chunked", "stream"}
    Faults = {"crash", "hubPublish", "hubClose"}
PROPERTY CallReturns
PROPERTY NoPodsIsAnError
CHECK_DEADLOCK FALSE
