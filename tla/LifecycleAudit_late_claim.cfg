SPECIFICATION FairSpec
CONSTANTS
    Rows = {1}
    Gated = {}
    Fanout = {1}
    Published = {1}
    Retired = {}
    Consumed = {1}
    Key <- SameKey
    Workers = {w1, w2}
    Tokens = {t1, t2, t3, t4, t5}
    NoToken = NoToken
    SweepLimit = 1
    SuccessRetries = 1
    MaxCopies = 2
    MaxLate = 1
    MaxFaults = 1
PROPERTY FanoutRowsSettle
CHECK_DEADLOCK FALSE
