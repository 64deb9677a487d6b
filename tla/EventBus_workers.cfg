SPECIFICATION Spec
CONSTANTS
    Instances = {i1, i2}
    Messages = {m1}
    Produced = {m1}
    ProducedKinds = {"plain", "unwanted"}
    NoMessage = NoMessage
    MaxMessages = 2
    MaxAttempts = 2
    AckDeadline = 3
    FirstRefresh = 1
    RefreshInterval = 2
    LeaseExtension = 4
    RpcBound = 1
    NackBase = 1
    NackMax = 2
    MaxStarts = 2
INVARIANTS
    TypeOK
    OneWorkerPerMessage
    NackBackoffKept
    QuietAfterStop
    HaltIsUnhealthy
PROPERTY BatchKept
SYMMETRY Symmetry
