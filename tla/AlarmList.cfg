SPECIFICATION Spec
CHECK_DEADLOCK FALSE
CONSTANTS
    Overlays = {"loader", "sheet"}
    Call = {c1, c2}
    None = none
    Limit = 3
    MaxAlarms = 4
    MaxQueue = 2
INVARIANTS
    ListIsTable
    LimitKept
PROPERTIES
    SaveTakesSheet
