SPECIFICATION FairSpec
CONSTANTS
    c1 = c1
    c2 = c2
    c3 = c3
    Conn <- MCConn
    Owner = owner
    Runner = runner
    None = None
PROPERTY CtrlCStops
CHECK_DEADLOCK FALSE
