SPECIFICATION Spec
CONSTANTS
    Calls = {c1, c2}
    Events = {"processing", "succeeded", "settled", "disputed"}
    Amount = 2
    MaxCalls = 6
    MaxFaults = 1
SYMMETRY Symmetry
INVARIANTS
    ChargedOnce
    AnswersAgree
    EventsApplyOnce
    RefundedWithinAmount
    
CHECK_DEADLOCK FALSE
