SPECIFICATION Spec
CONSTANTS
    Streams = {s1, s2}
    Bufs = 1
    BufSize = 1
    SinkSize = 2
    MaxOutstanding = 2
    MaxStreams = 100
    NoStream = NoStream
CHECK_DEADLOCK FALSE
INVARIANT OwnedUntilCalledBack
