SPECIFICATION Spec
CONSTANTS
    h1 = h1
    h2 = h2
    r1 = r1
    r2 = r2
    b1 = b1
    b2 = b2
    Handlers = {h1, h2}
    Responses = {r1, r2}
    Buffers = {b1, b2}
    BufferSize = 2
    MaxBytes = 5
    MaxWrite = 5
    NoResponse = NoResponse
SYMMETRY Symmetry
INVARIANT TypeOK
INVARIANT OwnBytes
INVARIANT DoneOnceAndLast
INVARIANT DoneOkIsWhole
INVARIANT EndIsAnnounced
CHECK_DEADLOCK FALSE
