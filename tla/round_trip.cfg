SPECIFICATION Spec
CONSTANTS
    Callers = {c1, c2}
    Buffers = {b1, b2}
    MaxTime = 4
    DefaultTimeout = 60
    NoDeadline = NoDeadline
    None = None
INVARIANT TypeOK
INVARIANT OwnRequest
INVARIANT EdgeStopsFirst
CHECK_DEADLOCK FALSE
