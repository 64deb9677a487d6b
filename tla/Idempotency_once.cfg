SPECIFICATION Spec
CONSTANTS
    a1 = a1
    a2 = a2
    b = b
    Clients <- Senders
    Hash <- Body
    Nobody = Nobody
    MaxPolls = 2
    MaxLate = 1
    MaxFaults = 2
INVARIANTS TypeOK DuplicatesExcused OneHandler ReplaySameBody
    RecordOwnUnlessExcused
PROPERTIES ResponseStands KeepsPromise
SYMMETRY Symmetry
CHECK_DEADLOCK FALSE
