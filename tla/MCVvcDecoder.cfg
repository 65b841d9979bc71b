\* MCVvcDecoder.cfg
SPECIFICATION Spec
CONSTANTS
    NumFrames = 4
    MaxConfigs = 2
    Delay = 1
    None = None
INVARIANT TypeOK
INVARIANT IdsAscend
INVARIANT LivesApart
INVARIANT RightIdsUnlessUpset
CHECK_DEADLOCK FALSE
