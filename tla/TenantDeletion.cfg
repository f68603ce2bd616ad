SPECIFICATION FairSpec
CONSTANTS
    N = 2
    Derived = {2}
    Pods = {p1}
    Callers = {c1}
    Holds = {h1}
    MaxAttempts = 2
    MaxCalls = 2
    MaxCrashes = 1
INVARIANTS
    NothingBeforeItsTime
    
    AttemptsAreBounded
PROPERTIES
    HoldStopsStores
    
CHECK_DEADLOCK FALSE
