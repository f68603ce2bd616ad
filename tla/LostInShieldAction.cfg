SPECIFICATION FairSpec
CONSTANTS
    MaxEvents = 1
    Refused = {}
    Publishers = {p1}
    Consumers = {c1}
    BatchSize = 2
    Writes = 1
    ProducerRethrows = FALSE
    ConsumerRethrows = FALSE
    MaxFaults = 1
PROPERTIES
    EveryEventTakesEffect
CHECK_DEADLOCK FALSE
