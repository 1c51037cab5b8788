SPECIFICATION FairSpec
CONSTANTS
    Ops = {o1, o2, o3}
    Kinds = {"reserve", "credit", "debit", "topup", "refund", "read"}
    Amounts = {1}
    InitQuota = 1
    Modes = {"batch", "direct"}
    Faults = {"redis", "hydrate", "persist", "flush"}
INVARIANTS
    TypeOK LedgerConserved CacheAgrees OverspendBounded
PROPERTIES
    EventuallyDurable
CHECK_DEADLOCK FALSE
