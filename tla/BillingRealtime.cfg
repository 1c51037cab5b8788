SPECIFICATION Spec
CONSTANTS
    Requests = {r1}
    Prefs = {"wallet_only"}
    Flags <- RealtimeOnly
    Estimates = {1}
    Actuals = {1}
    Turns = 2
    InitWallet = 6
    InitToken = 6
    HasSub = TRUE
    SubTotal = 3
    AllowOverflow = TRUE
    TrustQuota = 0
    Fee = 0
    Faults = {}
INVARIANTS
    BooksBalance
CHECK_DEADLOCK FALSE
