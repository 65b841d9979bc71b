\* MCStreamTable.cfg
SPECIFICATION FairSpec
CONSTANTS
    h1 = h1
    h2 = h2
    h3 = h3
    t1 = t1
    t2 = t2
    Handle <- MCHandle
    Thread <- MCThread
    NumStreams = 1
    None = None
INVARIANT TypeOK
INVARIANT OneOwner
INVARIANT TablesHoldOpenHandles
INVARIANT ClosesOnlyFinished
PROPERTY IdsNeverRebound
PROPERTY DoomedStreamFreed
PROPERTY ImplementsLifecycle
CHECK_DEADLOCK FALSE
