SPECIFICATION FairSpec
CONSTANTS
    Rows = {1, 2}
    Gated = {}
    Fanout = {1, 2}
    Published = {2}
    Retired = {1}
    Consumed = {2}
    Key <- SameKey
    Workers = {w1, w2}
    Tokens = {t1, t2, t3, t4, t5}
    NoToken = NoToken
    SweepLimit = 1
    SuccessRetries = 0
    MaxCopies = 2
    MaxLate = 0
    MaxFaults = 2
PROPERTIES FanoutRowsSettle DeliveriesDrain
CHECK_DEADLOCK FALSE
