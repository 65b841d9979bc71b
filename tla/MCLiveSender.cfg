\* MCLiveSender.cfg
SPECIFICATION FairSpec
CONSTANTS
    Sent <- MCSent
    NumConfigs <- MCNumConfigs
    NumSubpics = 2
    NumFrames = 3
    Size = 3
    MaxBudget = 2
    None = None
INVARIANT TypeOK
INVARIANT WireInOrder
INVARIANT ControlFirst
INVARIANT ClosedStreamsAreWhole
PROPERTY VideoEnds
CHECK_DEADLOCK FALSE
