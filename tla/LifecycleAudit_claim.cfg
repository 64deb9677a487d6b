SPECIFICATION Spec
CONSTANTS
    Rows = {1}
    Gated = {}
    Fanout = {1}
    Published = {1}
    Retired = {1}
    Consumed = {1}
    Key <- SameKey
    Workers = {w1, w2}
    Tokens = {t1, t2, t3, t4, t5, t6}
    NoToken = NoToken
    SweepLimit = 1
    SuccessRetries = 1
    MaxCopies = 2
    MaxLate = 1
    MaxFaults = 3
INVARIANTS TypeOK ExclusiveRun ClaimStands ResultIsHolders NoSilentDuplicate
PROPERTY SuccessIsFinal
SYMMETRY Symmetry
CHECK_DEADLOCK FALSE
