\* MCStreamTableFailedStart.cfg
SPECIFICATION Spec
CONSTANTS
    h1 = h1
    h2 = h2
    h3 = h3
    t1 = t1
    t2 = t2
    Handle <- MCHandle
    Thread <- MCThread
    NumStreams = 0
    None = None
INVARIANT FailedStartsClosed
CHECK_DEADLOCK FALSE
