SPECIFICATION FairSpec
CHECK_DEADLOCK FALSE
CONSTANTS
    Overlays = {"loader", "forgotSheet", "otpSheet", "resetSheet", "signUpSheet"}
    Call = {c1, c2}
    MaxAsks = 4
INVARIANTS
    ResetIsVerified
    LoaderBalance
PROPERTIES
    DelayTakesSheet
    GrantedLeadsOn
