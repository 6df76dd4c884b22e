\* Three breaths a set, two sets a day, every reply.
SPECIFICATION FairSpec
CONSTANTS
    Hold = 4
    Rest = 2
    Minute = 6
    Reps = 3
    DailySets = 2
    GetReplies = {"ok", "error", "refused", "unhandled", "dropped"}
    MaxSets = 3
INVARIANTS
    RunningIsStoppable
PROPERTIES
    SetsAreEarned
    CycleSpec
    CycleGoesOn
