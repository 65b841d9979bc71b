SPECIFICATION FairSpec
CONSTANTS
    c1 = c1
    c2 = c2
    Stream <- MCStream
    Conn <- MCConn
    Home <- MCHome
    Addr <- MCAddr
    Limit = 1
    Packets <- MCPackets
    None = None
INVARIANT TypeOK
INVARIANT TableExact
INVARIANT WholeUnlessCut
PROPERTY Arrives
CHECK_DEADLOCK FALSE
