SPECIFICATION FairSpec
CONSTANTS
    a1 = a1
    a2 = a2
    b = b
    Clients <- Senders
    Hash <- Body
    Nobody = Nobody
    MaxPolls = 2
    MaxLate = 1
    MaxFaults = 1
PROPERTY RetriesSettle
CHECK_DEADLOCK FALSE
