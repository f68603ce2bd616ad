SPECIFICATION Spec
CONSTANTS
    Proposals = {p1}
    Users = {ana, bo}
    Actions = {isolate}
    Connectors = {edr}
    Approvers = {a1, a2}
    Sims = {s1, s2}
    None = None
    ProposalTTL = 2
    ApprovalTTL = 1
    Durations = {1}
    MaxFreezes = 1
    MaxTime = 2
    Maximum = 1
    Window = 1
SYMMETRY Symmetry
INVARIANTS
    CommandsAreApproved
    CommandsUseCurrentApproval
    CeilingOvershootIsBounded
    
PROPERTIES
    RejectionSticks
CHECK_DEADLOCK FALSE
