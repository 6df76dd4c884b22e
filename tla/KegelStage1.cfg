\* Super Easy, stage 1: the squeeze is as long as the rest.
SPECIFICATION Spec
CONSTANTS
    Levels = {"SuperEasy1"}
    DefaultLevel = "SuperEasy1"
    Unread = "Unread"
    Squeeze <- CodeSqueeze
    Reps <- CodeReps
    Rest = 3
    Countdown = 3
    Minute = 60
    DailySets = 3
    Resyncing = {}
    ClearsCountdown = {}
    Promotions <- NoPromotions
    PostReplies = {"ok", "error", "unhandled", "dropped"}
    GetReplies = {"ok", "error", "refused", "unhandled", "dropped"}
    MaxSets = 4
    MaxCounter = 5
PROPERTY OnlySqueezesCount
