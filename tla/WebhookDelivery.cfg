SPECIFICATION FairSpec
CONSTANTS
    Deliveries = {d1}
    Pods = {p1, p2}
    MaxAttempts = 4
    BatchSize = 1
    MaxFaults = 2
    None = None
INVARIANTS
    AttemptsAreCounted
    AnswerIsRecorded
    EndIsAnnounced
PROPERTIES
    EveryDeliveryEnds
CHECK_DEADLOCK FALSE
