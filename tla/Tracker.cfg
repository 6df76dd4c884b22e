\* Two sessions of up to three seconds, on a display that wraps after two, with
\* up to two pauses.
SPECIFICATION Spec
CONSTANTS
    PauseLimit = 2
    MaxSessions = 2
    MaxSeconds = 3
    Minute = 2
INVARIANTS
    RowsAreTrue
    RowsDistinct
    LoaderBalance
    RunningIsShown
PROPERTY LogSpec
