SPECIFICATION Spec
CONSTANTS
    Requests = {t1, t2}
    Packages = {p1}
    Originals = {p1}
    Qualities = {"ready"}
    Users = {ana, bo}
    Authors = {bo}
    None = None
    MaxCheckpoints = 2
    MaxCores = 2
    MaxApprovals = 2
PROPERTIES
    FrozenNeverMutates
CHECK_DEADLOCK FALSE
