SPECIFICATION Spec
CONSTANTS
    MaxEvents = 2
    Refused = {}
    Publishers = {p1, p2}
    Consumers = {c1, c2}
    BatchSize = 1
    Writes = 2
    ProducerRethrows = TRUE
    ConsumerRethrows = TRUE
    MaxFaults = 2
SYMMETRY Symmetry
INVARIANTS
    TypeOK
    MarkedWasSent
    
    RepeatsAreAccountedFor
CHECK_DEADLOCK FALSE
