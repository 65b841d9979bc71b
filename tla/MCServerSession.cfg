SPECIFICATION FairSpec
CONSTANTS
    c1 = c1
    c2 = c2
    c3 = c3
    Conn <- MCConn
    Owner = owner
    Runner = runner
    None = None
INVARIANT TypeOK
INVARIANT SilentOnceCleared
INVARIANT ListedAreOpen
PROPERTY RunnerWoken
PROPERTY StopEnds
CHECK_DEADLOCK FALSE
