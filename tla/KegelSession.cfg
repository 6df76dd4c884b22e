\* The code's durations for Super Easy stage 2, Easy and Hard, fewer repetitions,
\* a day of one set; promotions upwards; every reply there is.
SPECIFICATION Spec
CONSTANTS
    Levels = {"SuperEasy2", "Easy", "Hard"}
    DefaultLevel = "Easy"
    Unread = "Unread"
    Squeeze <- CodeSqueeze
    Reps <- FewReps
    Rest = 3
    Countdown = 3
    Minute = 60
    DailySets = 1
    Resyncing = {"Hard"}
    ClearsCountdown = {"Hard"}
    Promotions <- UpPromotions
    PostReplies = {"ok", "error", "unhandled", "dropped"}
    GetReplies = {"ok", "error", "refused", "unhandled", "dropped"}
    MaxSets = 2
    MaxCounter = 4
INVARIANTS
    TypeOK
    RestIsExclusive
    StartMeansQuiet
    NoOverrun
    DailyCap
    CanFinish
PROPERTIES
    OnlySqueezesCount
    RegimenSpec
