SPECIFICATION Spec
CONSTANTS
    a1 = a1
    a2 = a2
    b = b
    Clients <- Senders
    Hash <- Body
    Nobody = Nobody
    MaxPolls = 2
    MaxLate = 0
    MaxFaults = 0
INVARIANT RecordIsOwn
CHECK_DEADLOCK FALSE
