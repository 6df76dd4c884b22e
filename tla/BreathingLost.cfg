\* The numbers in the code.
SPECIFICATION Spec
CONSTANTS
    Hold = 15
    Rest = 2
    Minute = 60
    Reps = 10
    DailySets = 3
    GetReplies = {"ok", "unhandled", "dropped"}
    MaxSets = 3
INVARIANT NoOverrun
