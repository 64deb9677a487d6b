SPECIFICATION Spec
CONSTANTS
    Rows = {1, 2}
    Gated = {1, 2}
    Fanout = {1, 2}
    Published = {1, 2}
    Retired = {}
    Consumed = {1, 2}
    Key <- SameKey
    Workers = {w1, w2}
    Tokens = {t1, t2, t3, t4, t5}
    NoToken = NoToken
    SweepLimit = 1
    SuccessRetries = 1
    MaxCopies = 2
    MaxLate = 0
    MaxFaults = 1
INVARIANT SkippedMeansNoRun
CHECK_DEADLOCK FALSE
