SPECIFICATION FairSpec
CHECK_DEADLOCK FALSE
CONSTANTS
    Overlays = {"loader", "sheet"}
    Call = {c1, c2, c3}
    MaxAsks = 4
INVARIANTS
    LoadersCoverCalls
    LockedOnlyIf
PROPERTIES
    AccountLeadsOn
