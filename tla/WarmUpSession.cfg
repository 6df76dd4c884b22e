\* A scaled-down cycle: Hold = Gap, Rest = Hold + 2, ReverseTime = Gap - 1, as in
\* the code.
SPECIFICATION FairSpec
CONSTANTS
    Hold = 4
    Rest = 6
    Gap = 4
    ReverseTime = 3
    Countdown = 2
    Minute = 15
INVARIANTS
    RestNotHeld
PROPERTIES
    CycleSpec
    CycleGoesOn
