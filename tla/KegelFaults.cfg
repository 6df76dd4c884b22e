\* Every reply there is, on a scaled-down regimen; loaders and liveness.
SPECIFICATION FairSpec
CONSTANTS
    Levels = {"Easy", "Hard"}
    DefaultLevel = "Easy"
    Unread = "Unread"
    Squeeze <- SmallSqueeze
    Reps <- SmallReps
    Rest = 2
    Countdown = 2
    Minute = 5
    DailySets = 2
    Resyncing = {"Hard"}
    ClearsCountdown = {"Hard"}
    Promotions <- SmallPromotions
    PostReplies = {"ok", "error", "unhandled", "dropped"}
    GetReplies = {"ok", "error", "refused", "unhandled", "dropped"}
    MaxSets = 2
    MaxCounter = 3
INVARIANTS
    LoaderBalance
    NeverOvercounted
PROPERTIES
    SessionEnds
