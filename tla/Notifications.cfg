SPECIFICATION FairSpec
CONSTANTS
    Token = {d1, d2}
    Writes = {w1, w2}
    Instance = {i1, i2}
    None = none
    Text = text
    MaxTime = 2
INVARIANTS
    MarkedWasSent
PROPERTIES
    FoundAgainOnlyUnmarked
    DueIsSent
