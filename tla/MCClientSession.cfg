\* MCClientSession.cfg
SPECIFICATION FairSpec
CONSTANTS
    m = m
    t1 = t1
    h1 = h1
    h2 = h2
    Thread <- MCThread
    Main = m
    Handle <- MCHandle
    NumStreams = 2
    MaxCalls = 4
    None = None
INVARIANT TypeOK
INVARIANT OpensAlone
PROPERTY GivesUpOnlyWhenDown
PROPERTY ConnectDecides
PROPERTY CallsReturn
CHECK_DEADLOCK FALSE
