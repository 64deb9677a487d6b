SPECIFICATION Spec
CONSTANTS
    Rows = {1}
    Gated = {}
    Fanout = {1}
    Published = {1}
    Retired = {}
    Consumed = {1}
    Key <- SameKey
    Workers = {w1, w2}
    Tokens = {t1, t2, t3, t4, t5}
    NoToken = NoToken
    SweepLimit = 1
    SuccessRetries = 1
    MaxCopies = 2
    MaxLate = 0
    MaxFaults = 2
INVARIANT TerminalMeansPermanent
CHECK_DEADLOCK FALSE
