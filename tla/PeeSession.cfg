\* The durations of Easy, Normal and Hard; every reply.
SPECIFICATION FairSpec
CONSTANTS
    Levels = {"easy", "normal", "hard"}
    DefaultLevel = "easy"
    Unread = "unread"
    Hold <- CodeHold
    Push <- CodePush
    Minute = 60
    MaxSessions = 3
    MaxTaps = 2
INVARIANTS
    PostedOnce
    FinishWorks
PROPERTIES
    CycleSpec
    CycleGoesOn
