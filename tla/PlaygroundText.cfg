SPECIFICATION Spec
CONSTANTS
    MaxRequests = 1
    MaxUses = 0
    Script <- Digits
    Faults = {}
INVARIANTS
    FullRawContent
CHECK_DEADLOCK FALSE
