\* MCMediaPipe.cfg
SPECIFICATION FairSpec
CONSTANTS
    s1 = s1
    s2 = s2
    Stream <- MCStream
    Size <- MCSize
    NumUnits = 2
    MaxPayload = 2
    SendLimit = 2
    HeaderLen = 2
    CountMod = 4
    MaxSessions = 3
    None = None
    GlobalLen = 1
    FrameLen = 1
    Signature = 68
INVARIANT TypeOK
INVARIANT FramesAligned
INVARIANT BufferSound
PROPERTY EverythingArrives
PROPERTY ImplementsDelivery
CHECK_DEADLOCK FALSE
