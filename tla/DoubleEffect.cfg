SPECIFICATION Spec
CONSTANTS
    MaxEvents = 1
    Refused = {}
    Publishers = {p1}
    Consumers = {c1}
    BatchSize = 2
    Writes = 2
    ProducerRethrows = FALSE
    ConsumerRethrows = TRUE
    MaxFaults = 1
SYMMETRY Symmetry
INVARIANTS
    NoDoubleEffect
CHECK_DEADLOCK FALSE
