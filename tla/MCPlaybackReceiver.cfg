\* MCPlaybackReceiver.cfg
SPECIFICATION FairSpec
CONSTANTS
    s1 = s1
    s2 = s2
    s3 = s3
    Stream <- MCStream
    Carries <- MCCarries
    NumSubpics = 2
    NumFrags = 2
    Startup = 2
    None = None
INVARIANT TypeOK
INVARIANT NeverMissing
INVARIANT DrainedHoldsNothing
INVARIANT CurrentStreamServes
PROPERTY PlaysToTheEnd
CHECK_DEADLOCK FALSE
