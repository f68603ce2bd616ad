SPECIFICATION Spec
CONSTANTS
    Quorums = {q1}
    Users = {alice, bob, carol}
    Proposals = {prop1}
    Scopes = {isolateHost}
    Tasks = {t1, t2, t3}
    None = None
    MaxTTL = 1
    MaxTime = 2
SYMMETRY Symmetry
INVARIANTS
    AtMostOneDispatch
    DispatchUnderDualCustody
    OneFinalizer
    ExpiredOnlyPastExpiry
PROPERTIES
    TerminalIsFinal
    ImplementsSingleUseApproval
CHECK_DEADLOCK FALSE
