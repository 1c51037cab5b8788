SPECIFICATION Spec
CONSTANTS
    Requests = {r1, r2}
    Prefs = {"wallet_first"}
    Flags <- ApiAndRealtime
    Estimates = {1, 2}
    Actuals = {2}
    Turns = 1
    InitWallet = 3
    InitToken = 4
    HasSub = TRUE
    SubTotal = 2
    AllowOverflow = TRUE
    TrustQuota = 0
    Fee = 1
    Faults = {"reserve", "rollback", "undo", "settle", "adjust", "refund", "extra", "give", "turn"}
SYMMETRY Symmetry
INVARIANTS
    TypeOK NoOverRefund
CHECK_DEADLOCK FALSE
