SPECIFICATION Spec
CONSTANTS
    Requests = {t1, t2}
    Packages = {p1, p2}
    Originals = {p1}
    Qualities = {"ready", "unverified"}
    Users = {ana, bo}
    Authors = {bo}
    None = None
    MaxCheckpoints = 2
    MaxCores = 2
    MaxApprovals = 2
SYMMETRY Symmetry
INVARIANTS
    TypeOK
    FrozenWasApproved
    FrozenWasAnchored
    StagesArePassed
CHECK_DEADLOCK FALSE
