SPECIFICATION Spec
CONSTANTS
    Reqs = {r1, r2, r3}
    Second = 2
    RpmCost = 2
    TpmCost = 3
    MaxConcurrent = 1
    Timeout = 1
    Threads = 2
    Hanging = {r3}
    Watched = "tpm"
    Window = 3
INVARIANTS RateKept CallsWithinLimit
PROPERTY EveryRequestEnds
CHECK_DEADLOCK FALSE
