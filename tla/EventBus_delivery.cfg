SPECIFICATION FairSpec
CONSTANTS
    Instances = {i1}
    Messages = {m1, m2}
    Produced = {m1}
    ProducedKinds = {"legacy", "unwanted"}
    NoMessage = NoMessage
    MaxMessages = 2
    MaxAttempts = 2
    AckDeadline = 1
    FirstRefresh = 0
    RefreshInterval = 1
    LeaseExtension = 2
    RpcBound = 0
    NackBase = 1
    NackMax = 1
    MaxStarts = 1
PROPERTIES
    DeliversAtLeastOnce
    Settles
