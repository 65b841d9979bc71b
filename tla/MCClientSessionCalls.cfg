\* MCClientSessionCalls.cfg
SPECIFICATION FairSpec
CONSTANTS
    m = m
    t1 = t1
    h1 = h1
    h2 = h2
    Thread <- MCThread
    Main = m
    Handle <- MCHandle
    NumStreams = 2
    MaxCalls = 2
    None = None
PROPERTY DocumentedCallsReturn
CHECK_DEADLOCK FALSE
