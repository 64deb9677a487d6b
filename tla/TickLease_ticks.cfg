\* Two replicas, clocks one tick apart, claims up to one tick late, two marks
\* and the horizon.  The spread (2) is just below the TTL (3, half the period
\* rounded up).
SPECIFICATION FairSpec
CONSTANTS
    Replicas = {r1, r2}
    Period = 5
    Anchor = 1
    MaxTtl = 5
    Skew = 1
    RequestLife = 1
    MaxSlot = 2
INVARIANTS
    TypeOK
    FiresBounded
    NoTickLost
PROPERTIES
    TickRuns
    TickServed
