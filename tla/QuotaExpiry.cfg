SPECIFICATION Spec
CONSTANTS
    Ops = {o1, o2}
    Kinds = {"reserve"}
    Amounts = {1}
    InitQuota = 1
    Modes = {"batch"}
    Faults = {}
INVARIANTS
    NoOverspend
CHECK_DEADLOCK FALSE
