SPECIFICATION Spec
CONSTANTS
    Evidence = {e1, e2, e3}
    Tenants = {t1, t2}
    Verifiers = {v1, v2}
    NoOne = NoOne
    MaxFaults = 2
SYMMETRY Symmetry
CHECK_DEADLOCK FALSE
INVARIANTS
    ChainVerifies
    RecordsAreLedgered
    
    SomeoneWins
PROPERTIES
    DetectionSticks
    LedgerIsAppendOnly
