\* MCPlaybackReceiverReopen.cfg
SPECIFICATION FairSpec
CONSTANTS
    s1 = s1
    s2 = s2
    s3 = s3
    Stream <- MCStream
    Carries <- MCCarries
    NumSubpics = 2
    NumFrags = 1
    Startup = 2
    None = None
PROPERTY ReopenedIsDecoded
CHECK_DEADLOCK FALSE
