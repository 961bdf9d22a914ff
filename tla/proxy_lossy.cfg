SPECIFICATION Spec
CONSTANTS
    c1 = c1
    c2 = c2
    p1 = p1
    p2 = p2
    NoCall = NoCall
    Calls = {c1}
    Pods = {p1, p2}
    Threads = 1
    MaxChunks = 3
    PendingMsgs = 3
    PendingBytes = 2
    NoRespondersReachHub = FALSE
    Kinds = {"length", "closing", "chunked", "stream"}
    Faults = {"lose", "crash", "hubPublish", "hubClose", "edgePublish"}
INVARIANT TypeOK
INVARIANT InOrder
INVARIANT OkIsIntact
INVARIANT OkIsComplete
INVARIANT IntactUnlessLost
INVARIANT OneHandler
INVARIANT ListenerOwned
PROPERTY PromiseKept
CHECK_DEADLOCK FALSE
