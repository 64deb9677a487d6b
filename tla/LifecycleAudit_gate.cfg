SPECIFICATION Spec
CONSTANTS
    Rows = {1, 2}
    Gated = {1, 2}
    Fanout = {}
    Published = {1, 2}
    Retired = {}
    Consumed = {1, 2}
    Key <- SameKey
    Workers = {w1, w2}
    Tokens = {t1, t2, t3, t4, t5, t6}
    NoToken = NoToken
    SweepLimit = 1
    SuccessRetries = 0
    MaxCopies = 2
    MaxLate = 1
    MaxFaults = 2
INVARIANTS ClaimStands NoSilentDuplicate SkipBackedByRun
PROPERTIES WorkNotDropped NoClaimLeftBehind
SYMMETRY Symmetry
CHECK_DEADLOCK FALSE
